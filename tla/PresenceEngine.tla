--------------------------- MODULE PresenceEngine ---------------------------
(***************************************************************************)
(* core::PresenceEngine: the worker thread that polls the media source and *)
(* mirrors the current track to Discord, interleaved with the UI thread    *)
(* (Start, UpdateConfig, Stop), with the player, and with a Discord        *)
(* client that quits and starts.                                           *)
(*                                                                         *)
(* One step is one access to state that two threads share (a critical      *)
(* section of _mutex or _wakeMutex, an atomic load, store or exchange) or  *)
(* one blocking call; what the worker does to its own variables in between *)
(* is part of the preceding step.  SetStatus is folded into the step that  *)
(* decides the text: no other thread writes _status.                       *)
(***************************************************************************)
EXTENDS Integers

CONSTANTS
    ClientIds,      \* Discord application ids
    Placeholder,    \* kPlaceholderClientId, or the empty id
    Looks,          \* what the cosmetic settings (track number, art) amount to
    Tracks,         \* track signatures: name|artist|state
    Sources,        \* media sources
    Settings,       \* the configurations the user moves between
    RefreshTicks,   \* kRefreshInterval, in ticks of the clock
    NoTrack, NoClient, NoSource, Dark

Activity == [client : ClientIds, track : Tracks, look : Looks]

\* The statuses that name no track: "Starting...", "Waiting for Discord
\* Application ID", "Disabled", "Nothing playing"
StatusTexts == {"Starting", "WaitingForAppId", "Disabled", "NothingPlaying"}

ASSUME ConstantsAssumption ==
    /\ Placeholder \in ClientIds
    /\ Settings \subseteq [client : ClientIds, broadcast : BOOLEAN, look : Looks]
    /\ RefreshTicks \in Nat \ {0}
    /\ NoTrack \notin Tracks
    /\ NoClient \notin ClientIds
    /\ NoSource \notin Sources
    /\ Dark \notin Activity
    /\ Tracks \cap StatusTexts = {}

VARIABLES
    \* shared between the threads
    config,             \* _config
    pendingSource,      \* _pendingMediaSource
    status,             \* _status
    reconnectRequested, \* _reconnectRequested
    forceResend,        \* _forceResend
    running,            \* _running
    wakeRequested,      \* _wakeRequested
    \* the worker's own
    pc,                 \* where RunLoop is
    copy,               \* RunLoop's local config
    mediaSource,        \* _mediaSource
    track,              \* what GetCurrentTrack returned
    discord,            \* the id _discord was built with, or NoClient
    lastSignature,      \* _lastSignature
    sentAge,            \* now - _lastSentAt in ticks, stuck at RefreshTicks
    \* the connection and Discord
    open,               \* _transport->IsConnected()
    alive,              \* Discord's end of that connection still exists
    discordUp,          \* a Discord client accepts connections
    shown,              \* the activity Discord displays for the connection
    \* the outside world and the UI thread
    playing,            \* what each media source is playing
    chosen,             \* currentMediaSourceId, main's local
    upc                 \* where the UI thread is

shared == <<config, pendingSource, reconnectRequested, forceResend, running,
            wakeRequested>>
worker == <<copy, mediaSource, track, lastSignature, sentAge>>
link   == <<discord, open, alive, discordUp, shown>>
vars   == <<shared, status, pc, worker, link, playing, chosen, upc>>

-----------------------------------------------------------------------------

Init ==
    /\ config \in Settings
    /\ mediaSource \in Sources
    /\ chosen = mediaSource
    /\ playing \in [Sources -> Tracks \cup {NoTrack}]
    /\ discordUp \in BOOLEAN
    /\ pendingSource = NoSource
    /\ status = "Starting"
    /\ reconnectRequested = FALSE
    /\ forceResend = FALSE
    /\ running = FALSE
    /\ wakeRequested = FALSE
    /\ pc = "notStarted"
    /\ copy = config
    /\ track = NoTrack
    /\ discord = NoClient
    /\ lastSignature = NoTrack
    /\ sentAge = RefreshTicks   \* _lastSentAt is the epoch
    /\ open = FALSE
    /\ alive = FALSE
    /\ shown = Dark
    /\ upc = "idle"

-----------------------------------------------------------------------------
(* DiscordIpcClient, one call at a time *)

\* The transport is closed: Discord withdraws what it showed for it.
CloseLink ==
    /\ open' = FALSE
    /\ alive' = FALSE
    /\ shown' = Dark
    /\ UNCHANGED discordUp

\* SetActivity connects if it must, sends, and drops the connection when the
\* write or the read fails.
CanSend == IF open THEN alive ELSE discordUp

SetActivity(activity) ==
    IF CanSend
    THEN /\ open' = TRUE
         /\ alive' = TRUE
         /\ shown' = activity
         /\ UNCHANGED discordUp
    ELSE CloseLink

\* ClearActivity does not connect: without a connection it just fails.
CanClear == open /\ alive

ClearActivity ==
    IF CanClear
    THEN shown' = Dark /\ UNCHANGED <<open, alive, discordUp>>
    ELSE CloseLink

-----------------------------------------------------------------------------
(* RunLoop, on the worker thread.  An operator whose name starts with       *)
(* "Mutant" is not part of the model: it is the definition that follows it, *)
(* with a plausible bug, kept to show that a property notices the bug.      *)

\* A pending source replaces the current one.
MutantAdopted == mediaSource
Adopted == IF pendingSource = NoSource THEN mediaSource ELSE pendingSource

\* Leave the loop, or copy the settings and adopt the pending media source,
\* in one critical section.
PickUpConfig ==
    /\ pc = "top"
    /\ IF running
       THEN /\ copy' = config
            /\ mediaSource' = Adopted
            /\ pendingSource' = NoSource
            /\ pc' = IF config.client = Placeholder THEN "waiting" ELSE "reconnect"
       ELSE /\ pc' = "exited"
            /\ UNCHANGED <<copy, mediaSource, pendingSource>>
    /\ UNCHANGED <<config, status, reconnectRequested, forceResend, running,
                   wakeRequested, track, lastSignature, sentAge, link, playing, chosen, upc>>

WaitForAppId ==
    /\ pc = "waiting"
    /\ status' = "WaitingForAppId"
    /\ pc' = "sleep"
    /\ UNCHANGED <<shared, worker, link, playing, chosen, upc>>

\* _discord.reset() destroys the client and with it the transport.
MutantDropClient == UNCHANGED <<open, alive, discordUp, shown>>
DropClient == CloseLink

\* if (!config.broadcastEnabled), of the local copy, not of _config
MutantAfterReconnect == IF config.broadcast THEN "poll" ELSE "disable"
AfterReconnect == IF copy.broadcast THEN "poll" ELSE "disable"

\* _reconnectRequested.exchange(false), then a new client, if there is none,
\* with the id of the copy.
Reconnect ==
    /\ pc = "reconnect"
    /\ reconnectRequested' = FALSE
    /\ discord' = IF reconnectRequested \/ discord = NoClient THEN copy.client
                                                              ELSE discord
    /\ IF reconnectRequested THEN DropClient
                             ELSE UNCHANGED <<open, alive, discordUp, shown>>
    /\ pc' = AfterReconnect
    /\ UNCHANGED <<config, pendingSource, status, forceResend, running,
                   wakeRequested, worker, playing, chosen, upc>>

\* Something was sent and not cleared since: !_lastSignature.empty()
ClearNeeded == lastSignature # NoTrack

\* The signature is forgotten only when the clear went through.
MutantAfterClear == NoTrack
AfterClear == IF CanClear THEN NoTrack ELSE lastSignature

Disable ==
    /\ pc = "disable"
    /\ IF ClearNeeded
       THEN /\ ClearActivity
            /\ lastSignature' = AfterClear
       ELSE UNCHANGED <<open, alive, discordUp, shown, lastSignature>>
    /\ status' = "Disabled"
    /\ pc' = "sleep"
    /\ UNCHANGED <<shared, copy, mediaSource, track, sentAge,
                   discord, playing, chosen, upc>>

\* !track.has_value() || Stopped || name.empty()
MutantAfterPoll(t) == "decide"
AfterPoll(t) == IF t = NoTrack THEN "clear" ELSE "decide"

GetCurrentTrack ==
    /\ pc = "poll"
    /\ track' = playing[mediaSource]
    /\ pc' = AfterPoll(playing[mediaSource])
    /\ UNCHANGED <<shared, status, copy, mediaSource, lastSignature, sentAge,
                   link, playing, chosen, upc>>

\* Nothing is playing.  A failed clear leaves the signature and the status.
ClearIdle ==
    /\ pc = "clear"
    /\ IF ClearNeeded
       THEN /\ ClearActivity
            /\ lastSignature' = AfterClear
            /\ status' = IF CanClear THEN "NothingPlaying" ELSE status
       ELSE /\ status' = "NothingPlaying"
            /\ UNCHANGED <<open, alive, discordUp, shown, lastSignature>>
    /\ pc' = "sleep"
    /\ UNCHANGED <<shared, copy, mediaSource, track, sentAge, discord, playing, chosen, upc>>

MutantMustSend == track # lastSignature \/ forceResend
\* contentChanged || refreshDue || forceResend
MustSend == track # lastSignature \/ sentAge = RefreshTicks \/ forceResend

Decide ==
    /\ pc = "decide"
    /\ pc' = IF MustSend THEN "consume" ELSE "sleep"
    /\ UNCHANGED <<shared, status, worker, link, playing, chosen, upc>>

\* _forceResend = false is a store of its own, after the load.
ConsumeForce ==
    /\ pc = "consume"
    /\ forceResend' = FALSE
    /\ pc' = "send"
    /\ UNCHANGED <<config, pendingSource, reconnectRequested, running,
                   wakeRequested, status, worker, link, playing, chosen, upc>>

Payload == [client |-> discord, track |-> track, look |-> copy.look]

Send ==
    /\ pc = "send"
    /\ SetActivity(Payload)
    /\ IF CanSend
       THEN /\ lastSignature' = track
            /\ sentAge' = 0
            /\ status' = track
       ELSE UNCHANGED <<lastSignature, sentAge, status>>
    /\ pc' = "sleep"
    /\ UNCHANGED <<shared, copy, mediaSource, track, discord, playing, chosen, upc>>

\* InterruptibleSleep: a wait with a timeout may end at any time, so its
\* return is always enabled.  (Module WakeSleep has the condition variable.)
Sleep ==
    /\ pc = "sleep"
    /\ wakeRequested' = FALSE
    /\ pc' = IF running THEN "top" ELSE "exited"
    /\ UNCHANGED <<config, pendingSource, reconnectRequested, forceResend,
                   running, status, worker, link, playing, chosen, upc>>

RunLoop ==
    \/ PickUpConfig
    \/ WaitForAppId
    \/ Reconnect
    \/ Disable
    \/ GetCurrentTrack
    \/ ClearIdle
    \/ Decide
    \/ ConsumeForce
    \/ Send
    \/ Sleep

-----------------------------------------------------------------------------
(* The UI thread *)

Start ==
    /\ upc = "idle" /\ pc = "notStarted"
    /\ running' = TRUE
    /\ pc' = "top"
    /\ UNCHANGED <<config, pendingSource, reconnectRequested, forceResend,
                   wakeRequested, status, worker, link, playing, chosen, upc>>

\* applyConfig up to the end of UpdateConfig's first critical section: a media
\* source is made, and handed over, only when its id changed.
UpdateConfig(settings, source) ==
    /\ upc = "idle" /\ running
    /\ config' = settings
    /\ reconnectRequested' = (reconnectRequested \/ config.client # settings.client)
    /\ pendingSource' = IF source = chosen THEN pendingSource ELSE source
    /\ chosen' = source
    /\ upc' = "force"
    /\ UNCHANGED <<forceResend, running, wakeRequested, status, pc, worker,
                   link, playing>>

RequestResend ==
    /\ upc = "force"
    /\ forceResend' = TRUE
    /\ upc' = "wake"
    /\ UNCHANGED <<config, pendingSource, reconnectRequested, running,
                   wakeRequested, status, pc, worker, link, playing, chosen>>

\* notify_all without a flag that outlives it
MutantRequestWake ==
    /\ upc = "wake"
    /\ wakeRequested' = (wakeRequested \/ pc = "sleep")
    /\ upc' = "idle"
    /\ UNCHANGED <<config, pendingSource, reconnectRequested, forceResend,
                   running, status, pc, worker, link, playing, chosen>>

RequestWake ==
    /\ upc = "wake"
    /\ wakeRequested' = TRUE
    /\ upc' = "idle"
    /\ UNCHANGED <<config, pendingSource, reconnectRequested, forceResend,
                   running, status, pc, worker, link, playing, chosen>>

\* Stop that wakes the worker without telling it to leave
MutantStop ==
    /\ upc = "idle" /\ running
    /\ upc' = "join"
    /\ UNCHANGED <<shared, status, pc, worker, link, playing, chosen>>

Stop ==
    /\ upc = "idle" /\ running
    /\ running' = FALSE
    /\ upc' = "join"
    /\ UNCHANGED <<config, pendingSource, reconnectRequested, forceResend,
                   wakeRequested, status, pc, worker, link, playing, chosen>>

\* detach instead of join
MutantJoin ==
    /\ upc = "join"
    /\ upc' = "withdraw"
    /\ UNCHANGED <<shared, status, pc, worker, link, playing, chosen>>

Join ==
    /\ upc = "join" /\ pc = "exited"
    /\ upc' = "withdraw"
    /\ UNCHANGED <<shared, status, pc, worker, link, playing, chosen>>

\* Stop's last line: if (_discord) _discord->ClearActivity()
Withdraw ==
    /\ upc = "withdraw"
    /\ IF discord # NoClient THEN ClearActivity
                             ELSE UNCHANGED <<open, alive, discordUp, shown>>
    /\ upc' = "stopped"
    /\ UNCHANGED <<shared, status, pc, worker, discord, playing, chosen>>

UI ==
    \/ Start
    \/ \E settings \in Settings, source \in Sources :
           UpdateConfig(settings, source)
    \/ RequestResend
    \/ RequestWake
    \/ Stop
    \/ Join
    \/ Withdraw

-----------------------------------------------------------------------------
(* The world around the process *)

PlayerMoves(s, t) ==
    /\ t # playing[s]
    /\ playing' = [playing EXCEPT ![s] = t]
    /\ UNCHANGED <<shared, status, pc, worker, link, chosen, upc>>

\* Discord quits: the connection stays open on our side until it is used.
DiscordQuits ==
    /\ discordUp
    /\ discordUp' = FALSE
    /\ alive' = FALSE
    /\ shown' = Dark
    /\ UNCHANGED <<shared, status, pc, worker, discord, open, playing, chosen, upc>>

DiscordStarts ==
    /\ ~discordUp
    /\ discordUp' = TRUE
    /\ UNCHANGED <<shared, status, pc, worker, discord, open, alive, shown,
                   playing, chosen, upc>>

\* now is read at Decide and stored by Send: the ticks in between are not
\* counted, which only makes the next keepalive later.
Tick ==
    /\ sentAge < RefreshTicks
    /\ sentAge' = sentAge + 1
    /\ UNCHANGED <<shared, status, pc, copy, mediaSource, track, lastSignature,
                   link, playing, chosen, upc>>

World ==
    \/ \E s \in Sources, t \in Tracks \cup {NoTrack} : PlayerMoves(s, t)
    \/ DiscordQuits
    \/ DiscordStarts

Next == RunLoop \/ UI \/ World \/ Tick

Spec == Init /\ [][Next]_vars

\* The OS runs both threads and their calls return; the clock advances.
\* Nobody promises that the user, the player or Discord ever does anything.
Fairness ==
    /\ WF_vars(RunLoop)
    /\ WF_vars(RequestResend) /\ WF_vars(RequestWake)
    /\ WF_vars(Join) /\ WF_vars(Withdraw)
    /\ WF_vars(Tick)

FairSpec == Spec /\ Fairness

-----------------------------------------------------------------------------
(* Properties *)

PcValues == {"notStarted", "top", "waiting", "reconnect", "disable", "poll",
             "clear", "decide", "consume", "send", "sleep", "exited"}

UpcValues == {"idle", "force", "wake", "join", "withdraw", "stopped"}

\* Every variable has its type; in particular an activity is only ever built
\* from a real track (RunLoop's has_value check).
TypeOK ==
    /\ config \in Settings
    /\ copy \in Settings
    /\ pendingSource \in Sources \cup {NoSource}
    /\ mediaSource \in Sources
    /\ chosen \in Sources
    /\ status \in StatusTexts \cup Tracks
    /\ reconnectRequested \in BOOLEAN
    /\ forceResend \in BOOLEAN
    /\ running \in BOOLEAN
    /\ wakeRequested \in BOOLEAN
    /\ pc \in PcValues
    /\ upc \in UpcValues
    /\ track \in Tracks \cup {NoTrack}
    /\ discord \in ClientIds \cup {NoClient}
    /\ lastSignature \in Tracks \cup {NoTrack}
    /\ sentAge \in 0 .. RefreshTicks
    /\ open \in BOOLEAN
    /\ alive \in BOOLEAN
    /\ discordUp \in BOOLEAN
    /\ shown \in Activity \cup {Dark}
    /\ playing \in [Sources -> Tracks \cup {NoTrack}]

\* Whatever Discord shows for us is what _lastSignature remembers, sent by the
\* client object the engine holds over the connection it holds.  RunLoop
\* clears on the strength of _lastSignature alone, so an activity it does not
\* remember would stay up for good.
RemembersWhatIsShown ==
    shown # Dark => /\ shown.track = lastSignature
                    /\ shown.client = discord
                    /\ open /\ alive

\* The worker never goes to sleep leaving something on Discord when its copy
\* of the settings has broadcasting off, or when the player was idle at this
\* poll - whether the clear succeeded, failed or was skipped.
RestsDark ==
    (/\ pc = "sleep"
     /\ copy.client # Placeholder
     /\ (~copy.broadcast \/ track = NoTrack)) => shown = Dark

\* After Stop returns nothing of ours is left on Discord: no send of the
\* worker can follow the UI thread's final ClearActivity.
StoppedIsDark == upc = "stopped" => shown = Dark

\* A worker past the top of its loop may run on outdated settings, or with a
\* media source still to adopt, but then its next sleep ends at once: the wake
\* request is there, or the UpdateConfig that will make it is under way.
StaleCopyHasWake ==
    (/\ pc \notin {"notStarted", "top", "exited"}
     /\ (copy # config \/ pendingSource # NoSource))
        => wakeRequested \/ upc # "idle"

\* A status that names a track names the one last sent and not yet cleared;
\* "NothingPlaying" is said only when Discord shows nothing.
StatusHonest ==
    /\ status \in Tracks => status = lastSignature
    /\ status = "NothingPlaying" => shown = Dark

\* Stop returns: the worker leaves its loop, whatever it is doing, and the
\* join is followed by the final clear.
StopCompletes == upc = "join" ~> upc = "stopped"

\* The user, the player or Discord acts.
Disturbance ==
    \/ World
    \/ Stop
    \/ \E settings \in Settings, source \in Sources :
           UpdateConfig(settings, source)

Broadcasting == running /\ config.client # Placeholder /\ config.broadcast

Mirrored ==
    Broadcasting /\ discordUp =>
        IF playing[chosen] = NoTrack
        THEN shown = Dark
        ELSE /\ shown # Dark
             /\ shown.track = playing[chosen]
             /\ shown.look = config.look

\* Left alone, the engine ends up showing exactly what the chosen source plays,
\* with the current cosmetic settings, whatever was lost before: the keepalive
\* heals failed sends, Discord restarts and resend requests that were dropped.
EventuallyMirrors == []<><<Disturbance>>_vars \/ <>[]Mirrored

-----------------------------------------------------------------------------
(* What the documentation says and the code does not do *)

\* "a running instance picked the change up immediately": left alone, the
\* engine shows its activity under the application id it was given.
NewIdAdopted ==
    \/ []<><<Disturbance>>_vars
    \/ <>[](Broadcasting /\ shown # Dark => shown.client = config.client)

\* "Print what the running instance is currently showing on Discord": left
\* alone with an idle player, the status does not go on naming a track.
StatusForgetsTrack ==
    \/ []<><<Disturbance>>_vars
    \/ <>[](Broadcasting /\ discordUp /\ playing[chosen] = NoTrack
                => status \notin Tracks)
=============================================================================
