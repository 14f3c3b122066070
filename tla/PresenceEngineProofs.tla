------------------------ MODULE PresenceEngineProofs ------------------------
(***************************************************************************)
(* Proofs about PresenceEngine, for every set of settings, tracks, sources *)
(* and application ids and every refresh interval.                         *)
(*                                                                         *)
(* The safety properties of the engine hold together or not at all: that   *)
(* the worker rests with nothing shown depends on _lastSignature being     *)
(* remembered correctly, which depends on where the worker is in its loop. *)
(* IInv is their conjunction with what RunLoop's control flow establishes. *)
(***************************************************************************)
EXTENDS PresenceEngine, TLAPS

\* What the worker's position says about its copy of the settings, the track it
\* polled and the client it holds; and when the UI thread may be past its join.
ControlInv ==
    /\ pc = "waiting" => copy.client = Placeholder
    /\ pc \in {"reconnect", "disable", "poll", "clear", "decide", "consume", "send"}
           => copy.client # Placeholder
    /\ pc = "disable" => ~copy.broadcast
    /\ pc \in {"poll", "clear", "decide", "consume", "send"} => copy.broadcast
    /\ pc \in {"disable", "poll", "clear", "decide", "consume", "send"}
           => discord # NoClient
    /\ pc = "clear" => track = NoTrack
    /\ pc \in {"decide", "consume", "send"} => track # NoTrack
    /\ upc \in {"withdraw", "stopped"} => pc = "exited"

IInv ==
    /\ TypeOK
    /\ ControlInv
    /\ RemembersWhatIsShown
    /\ RestsDark
    /\ StoppedIsDark
    /\ StaleCopyHasWake
    /\ StatusHonest

-----------------------------------------------------------------------------
(* The actions of Next, one by one, so that each proof below names them once *)

\* A step of the specification is one of its actions or a stutter.
LEMMA StepCases ==
    ASSUME [Next]_vars
    PROVE  \/ PickUpConfig \/ WaitForAppId \/ Reconnect \/ Disable
           \/ GetCurrentTrack \/ ClearIdle \/ Decide \/ ConsumeForce
           \/ Send \/ Sleep
           \/ Start
           \/ \E settings \in Settings, source \in Sources :
                  UpdateConfig(settings, source)
           \/ RequestResend \/ RequestWake \/ Stop \/ Join \/ Withdraw
           \/ \E s \in Sources, t \in Tracks \cup {NoTrack} : PlayerMoves(s, t)
           \/ DiscordQuits \/ DiscordStarts \/ Tick
           \/ UNCHANGED vars
BY DEF Next, RunLoop, UI, World

-----------------------------------------------------------------------------
(* Type correctness *)

\* A fact about booleans the SMT encoding does not find by itself.
LEMMA FalseIsBoolean == \A b : b = FALSE => b \in BOOLEAN
OBVIOUS

\* The fields of a configuration.
LEMMA SettingsFields ==
    ASSUME NEW c \in Settings
    PROVE  c.client \in ClientIds /\ c.broadcast \in BOOLEAN /\ c.look \in Looks
BY ConstantsAssumption

\* An activity is built from an id, a track and a look.
LEMMA ActivityFields ==
    \A c \in ClientIds, t \in Tracks, l \in Looks :
        [client |-> c, track |-> t, look |-> l] \in Activity
BY DEF Activity

\* A step keeps the types; that Send only ever builds a proper activity is
\* where the position of the worker matters.
LEMMA TypeStep ==
    ASSUME TypeOK, ControlInv, [Next]_vars
    PROVE  TypeOK'
<1> USE FalseIsBoolean DEF TypeOK, PcValues, UpcValues, shared, worker, link
<1>1. CASE PickUpConfig
  BY <1>1 DEF PickUpConfig, Adopted
<1>2. CASE WaitForAppId
  BY <1>2 DEF WaitForAppId, StatusTexts
<1>3. CASE Reconnect
  BY <1>3, SettingsFields DEF Reconnect, DropClient, CloseLink, AfterReconnect
<1>4. CASE Disable
  BY <1>4 DEF Disable, ClearNeeded, AfterClear, ClearActivity, CanClear, CloseLink, StatusTexts
<1>5. CASE GetCurrentTrack
  BY <1>5 DEF GetCurrentTrack, AfterPoll
<1>6. CASE ClearIdle
  BY <1>6 DEF ClearIdle, ClearNeeded, AfterClear, ClearActivity, CanClear, CloseLink, StatusTexts
<1>7. CASE Decide
  BY <1>7 DEF Decide, MustSend
<1>8. CASE ConsumeForce
  BY <1>8 DEF ConsumeForce
<1>9. CASE Send
  <2>1. discord \in ClientIds /\ track \in Tracks /\ copy.look \in Looks
    BY <1>9, SettingsFields DEF Send, ControlInv
  <2> HIDE DEF TypeOK
  <2>2. Payload \in Activity
    BY <2>1, ActivityFields DEF Payload
  <2>3. /\ open' \in BOOLEAN /\ alive' \in BOOLEAN /\ discordUp' \in BOOLEAN
        /\ shown' \in Activity \cup {Dark}
    BY <1>9, <2>2 DEF TypeOK, Send, SetActivity, CloseLink
  <2>4. /\ lastSignature' \in Tracks \cup {NoTrack}
        /\ sentAge' \in 0 .. RefreshTicks
        /\ status' \in StatusTexts \cup Tracks
    BY <1>9, <2>1, ConstantsAssumption DEF TypeOK, Send
  <2>5. QED
    BY <1>9, <2>3, <2>4 DEF TypeOK, Send
<1>10. CASE Sleep
  BY <1>10 DEF Sleep
<1>11. CASE Start
  BY <1>11 DEF Start
<1>12. ASSUME NEW settings \in Settings, NEW source \in Sources, UpdateConfig(settings, source)
     PROVE  TypeOK'
  BY <1>12 DEF UpdateConfig
<1>13. CASE RequestResend
  BY <1>13 DEF RequestResend
<1>14. CASE RequestWake
  BY <1>14 DEF RequestWake
<1>15. CASE Stop
  BY <1>15 DEF Stop
<1>16. CASE Join
  BY <1>16 DEF Join
<1>17. CASE Withdraw
  BY <1>17 DEF Withdraw, ClearActivity, CanClear, CloseLink
<1>18. ASSUME NEW s \in Sources, NEW t \in Tracks \cup {NoTrack}, PlayerMoves(s, t)
     PROVE  TypeOK'
  BY <1>18 DEF PlayerMoves
<1>19. CASE DiscordQuits
  BY <1>19 DEF DiscordQuits
<1>20. CASE DiscordStarts
  BY <1>20 DEF DiscordStarts
<1>21. CASE Tick
  BY <1>21, ConstantsAssumption DEF Tick
<1>22. CASE UNCHANGED vars
  BY <1>22 DEF vars
<1>23. QED
  BY StepCases, <1>1, <1>2, <1>3, <1>4, <1>5, <1>6, <1>7, <1>8, <1>9, <1>10, <1>11, <1>12, <1>13, <1>14, <1>15, <1>16, <1>17, <1>18, <1>19, <1>20, <1>21, <1>22

-----------------------------------------------------------------------------
(* The inductive invariant *)

\* What the constants mean to the prover: sentinels are not values, and no
\* track is called like a status.
LEMMA Sentinels ==
    /\ NoTrack \notin Tracks
    /\ NoClient \notin ClientIds
    /\ Dark \notin Activity
    /\ \A t \in Tracks : t \notin {"Starting", "WaitingForAppId", "Disabled",
                                  "NothingPlaying"}
BY ConstantsAssumption DEF StatusTexts

\* A step keeps the invariant.
LEMMA InvStep ==
    ASSUME IInv, [Next]_vars
    PROVE  IInv'
<1>1. TypeOK'
  BY TypeStep DEF IInv
<1> DEFINE Rest == /\ ControlInv /\ RemembersWhatIsShown /\ RestsDark
                   /\ StoppedIsDark /\ StaleCopyHasWake /\ StatusHonest
<1>2. SUFFICES Rest'
  BY <1>1 DEF IInv
<1>shown. shown # Dark => shown.client \in ClientIds /\ shown.track \in Tracks
  BY DEF IInv, TypeOK, Activity
<1>payload. /\ Payload.client = discord
      /\ Payload.track = track
  BY DEF Payload
<1> USE Sentinels DEF IInv, ControlInv, RemembersWhatIsShown, RestsDark,
                      StoppedIsDark, StaleCopyHasWake, StatusHonest,
                      shared, worker, link
<1>3. CASE PickUpConfig
  BY <1>3 DEF PickUpConfig, Adopted
<1>4. CASE WaitForAppId
  BY <1>4 DEF WaitForAppId
<1>5. CASE Reconnect
  <2>1. CASE reconnectRequested
    <3>1. shown' = Dark
      BY <1>5, <2>1 DEF Reconnect, DropClient, CloseLink
    <3>2. discord' # NoClient
      BY <1>5, SettingsFields DEF Reconnect, TypeOK
    <3>3. QED
      BY <1>5, <3>1, <3>2 DEF Reconnect, AfterReconnect, TypeOK
  <2>2. CASE ~reconnectRequested
    <3>1. shown # Dark => discord # NoClient
      BY <1>shown
    <3>2. discord' # NoClient
      BY <1>5, SettingsFields DEF Reconnect, TypeOK
    <3>3. QED
      BY <1>5, <2>2, <3>1, <3>2 DEF Reconnect, AfterReconnect, TypeOK
  <2>3. QED
    BY <2>1, <2>2
<1>6. CASE Disable
  BY <1>6, <1>shown DEF Disable, ClearNeeded, AfterClear, ClearActivity, CanClear, CloseLink, TypeOK
<1>7. CASE GetCurrentTrack
  BY <1>7 DEF GetCurrentTrack, AfterPoll
<1>8. CASE ClearIdle
  BY <1>8, <1>shown DEF ClearIdle, ClearNeeded, AfterClear, ClearActivity, CanClear, CloseLink, TypeOK
<1>9. CASE Decide
  BY <1>9 DEF Decide, MustSend
<1>10. CASE ConsumeForce
  BY <1>10 DEF ConsumeForce
<1>11. CASE Send
  BY <1>11, <1>shown, <1>payload, <1>1 DEF Send, SetActivity, CanSend, CloseLink, Payload, TypeOK
<1>12. CASE Sleep
  BY <1>12 DEF Sleep
<1>13. CASE Start
  BY <1>13 DEF Start
<1>14. ASSUME NEW settings \in Settings, NEW source \in Sources, UpdateConfig(settings, source)
     PROVE  Rest'
  BY <1>14 DEF UpdateConfig
<1>15. CASE RequestResend
  BY <1>15 DEF RequestResend
<1>16. CASE RequestWake
  BY <1>16 DEF RequestWake
<1>17. CASE Stop
  BY <1>17 DEF Stop
<1>18. CASE Join
  BY <1>18 DEF Join
<1>19. CASE Withdraw
  BY <1>19, <1>shown DEF Withdraw, ClearActivity, CanClear, CloseLink
<1>20. ASSUME NEW s \in Sources, NEW t \in Tracks \cup {NoTrack}, PlayerMoves(s, t)
     PROVE  Rest'
  BY <1>20 DEF PlayerMoves
<1>21. CASE DiscordQuits
  BY <1>21 DEF DiscordQuits
<1>22. CASE DiscordStarts
  BY <1>22 DEF DiscordStarts
<1>23. CASE Tick
  BY <1>23 DEF Tick
<1>24. CASE UNCHANGED vars
  BY <1>24 DEF vars
<1>25. QED
  BY StepCases, <1>3, <1>4, <1>5, <1>6, <1>7, <1>8, <1>9, <1>10, <1>11, <1>12, <1>13, <1>14, <1>15, <1>16, <1>17, <1>18, <1>19, <1>20, <1>21, <1>22, <1>23, <1>24

-----------------------------------------------------------------------------
(* The theorems *)

\* Nothing is running, nothing is shown, and the copy of the settings that
\* the worker does not have yet cannot be out of date.
LEMMA InvInit ==
    ASSUME Init
    PROVE  IInv
<1>1. TypeOK
  BY FalseIsBoolean, ConstantsAssumption
  DEF Init, TypeOK, StatusTexts, PcValues, UpcValues
<1>2. ControlInv /\ RestsDark /\ StoppedIsDark /\ StaleCopyHasWake
  BY DEF Init, ControlInv, RestsDark, StoppedIsDark, StaleCopyHasWake
<1>3. RemembersWhatIsShown /\ StatusHonest
  BY Sentinels DEF Init, RemembersWhatIsShown, StatusHonest
<1>4. QED
  BY <1>1, <1>2, <1>3 DEF IInv

LEMMA Invariance == Spec => []IInv
<1>1. IInv /\ [Next]_vars => IInv'
  BY InvStep
<1>2. Init => IInv
  BY InvInit
<1>3. QED
  BY <1>1, <1>2, PTL DEF Spec

\* Every variable keeps its type: no activity is built from a missing track.
THEOREM TypeCorrect == Spec => []TypeOK
<1>1. IInv => TypeOK
  BY DEF IInv
<1>2. QED
  BY <1>1, Invariance, PTL

\* _lastSignature always accounts for what Discord shows.
THEOREM Memory == Spec => []RemembersWhatIsShown
<1>1. IInv => RemembersWhatIsShown
  BY DEF IInv
<1>2. QED
  BY <1>1, Invariance, PTL

\* The worker never sleeps on an activity it should have withdrawn.
THEOREM DarkAtRest == Spec => []RestsDark
<1>1. IInv => RestsDark
  BY DEF IInv
<1>2. QED
  BY <1>1, Invariance, PTL

\* Stop leaves nothing behind on Discord.
THEOREM DarkAfterStop == Spec => []StoppedIsDark
<1>1. IInv => StoppedIsDark
  BY DEF IInv
<1>2. QED
  BY <1>1, Invariance, PTL

\* A worker that runs on outdated settings is always about to be woken.
THEOREM NoSleepOnStaleSettings == Spec => []StaleCopyHasWake
<1>1. IInv => StaleCopyHasWake
  BY DEF IInv
<1>2. QED
  BY <1>1, Invariance, PTL

\* The status does not claim more than was sent, nor idleness while shown.
THEOREM HonestStatus == Spec => []StatusHonest
<1>1. IInv => StatusHonest
  BY DEF IInv
<1>2. QED
  BY <1>1, Invariance, PTL
=============================================================================
