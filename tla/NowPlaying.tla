------------------------------ MODULE NowPlaying ------------------------------
(***************************************************************************)
(* How one poll of the engine puts an activity together: the media source  *)
(* reads the player with several calls while the player moves on, the      *)
(* album art lookup asks up to five services and remembers the outcome,    *)
(* and the engine sends the result if it thinks that something changed.    *)
(*                                                                         *)
(* Module PresenceEngine has the same loop with one atomic read and an     *)
(* opaque payload, and with settings and a Discord that change; here they  *)
(* stay as they are and sending works.                                     *)
(*                                                                         *)
(* A spot is what the player says of its position.  While a track plays on *)
(* and the position is the present one, the start that is sent, the moment *)
(* of the poll less the position, is the same at every poll: the time of   *)
(* the reading runs.  Otherwise the time stands: each poll takes the same  *)
(* position for the present one, and Discord counts on from there until    *)
(* the next send puts it back.                                             *)
(***************************************************************************)
EXTENDS Integers, Sequences

CONSTANTS
    Setups,         \* the media source and the art mode, in pairs
    Letters,        \* what the names of things are written with
    Bar,            \* the letter that separates them in the key and in the signature
    Tracks,         \* what can be played: [name, artist, album]
    Spots,          \* what a player can say of its position
    Unknown,        \* no position, no object
    RefreshTicks    \* kRefreshInterval, in ticks of the clock

\* A session of SMTC may give no duration: "smtc untimed".
SmtcKinds == {"smtc", "smtc untimed"}
SourceKinds == {"mpris", "itunes", "music", "mediaremote"} \cup SmtcKinds
States == {"Playing", "Paused", "Stopped"}
Names == {t.name : t \in Tracks}
Artists == {t.artist : t \in Tracks}
Albums == {t.album : t \in Tracks}
Empty == <<>>

ASSUME NowPlayingAssumption ==
    /\ Setups \subseteq SourceKinds \X {"Auto", "Off"}
    /\ Tracks \subseteq [name : Seq(Letters), artist : Seq(Letters), album : Seq(Letters)]
    /\ Bar \in Letters
    /\ RefreshTicks \in Nat \ {0}

VARIABLES
    \* the player
    kind,       \* which source reads it
    open,       \* the player runs
    state, track,
    spot,       \* for SMTC and MediaRemote that of the last report
    mute,       \* it fails to answer, or keeps the caller waiting
    \* the worker
    pc,
    info,       \* TrackInfo, as far as it was read
    object,     \* what it holds of iTunes: the application, or the track it asks about
    adapter,    \* _testedAdapter, _adapterWorks
    art,        \* the answer of the lookup so far
    release,    \* how MusicBrainz was asked for the release it knows
    cache,      \* _cache: a partial function of keys
    signature,  \* _lastSignature
    sentAge,    \* ticks since _lastSentAt, stuck at RefreshTicks
    mode,       \* config.artMode; "Custom" is like "Off"
    \* the outcome
    shown,      \* what Discord displays
    launched    \* reading started a player that had quit

player == <<open, state, track, spot, mute>>
reader == <<object, adapter>>
engine == <<signature, sentAge, shown>>
lookup == <<art, release, cache>>
vars == <<kind, player, pc, info, reader, lookup, engine, mode, launched>>

\* A position that is not known is 0, and stands there.
NoInfo == [state |-> "Stopped", name |-> Empty, artist |-> Empty, album |-> Empty,
           time |-> <<"stands", Unknown>>]
Dark == [kind |-> "dark"]
NoArt == [by |-> "nobody"]
Art(by, i) == [by |-> by, artist |-> i.artist,
               what |-> IF by = "album" THEN i.album ELSE i.name]

Init ==
    /\ \E setup \in Setups : kind = setup[1] /\ mode = setup[2]
    /\ open = FALSE /\ state = "Stopped" /\ track \in Tracks /\ spot \in Spots
    /\ mute = FALSE
    /\ pc = "sleep" /\ info = NoInfo /\ object = Unknown /\ adapter = "untested"
    /\ art = NoArt /\ release = NoArt /\ cache = [k \in {} |-> NoArt]
    /\ signature = Empty /\ sentAge = RefreshTicks
    /\ shown = Dark /\ launched = FALSE

-----------------------------------------------------------------------------
(* GetCurrentTrack.  "Mutant" operators are the definition that follows them *)
(* with a plausible bug; they are not part of the model.                     *)

\* What was held of an iTunes that has quit since is void.
Fails == mute \/ ~open \/ (kind = "itunes" /\ object = Unknown)

GoTo(next) == pc' = next
Report(i, next) == info' = i /\ GoTo(next)
Continue(i, next) == Report(i, next) /\ UNCHANGED object
Finish(i) == Report(i, "judge") /\ object' = Unknown

\* iTunes and Music are looked for among the processes first, because to ask a
\* player that does not run would start it.  MPRIS asks at once; SMTC looks
\* through the sessions.
FindPlayer ==
    /\ pc = "sleep"
    /\ CASE kind \in {"itunes", "music"} -> Report(NoInfo, IF open THEN "activate" ELSE "judge")
         [] kind \in SmtcKinds -> Report(NoInfo, IF open /\ ~mute THEN "state" ELSE "judge")
         [] kind = "mpris" -> Report(NoInfo, "state")
         [] kind = "mediaremote" ->
              Report(NoInfo, CASE adapter = "untested" -> "test"
                               [] adapter = "works" -> "run"
                               [] adapter = "broken" -> "judge")
    /\ UNCHANGED <<kind, player, reader, lookup, engine, mode, launched>>

\* CoCreateInstance, or Music's first property: the system starts the player.
Activate ==
    /\ pc = "activate"
    /\ IF open /\ mute
       THEN Finish(NoInfo) /\ UNCHANGED <<open, state, launched>>
       ELSE /\ open' = TRUE
            /\ state' = IF open THEN state ELSE "Stopped"
            /\ launched' = (launched \/ ~open)
            /\ object' = IF kind = "itunes" THEN "iTunes" ELSE Unknown
            /\ Report(info, "state")
    /\ UNCHANGED <<kind, track, spot, mute, adapter, lookup, engine, mode>>

Reads(here) ==
    pc = here /\ UNCHANGED <<kind, player, adapter, lookup, engine, mode, launched>>

\* PlaybackStatus or PlayerState: without it, and when stopped, there is nothing.
ReadState ==
    /\ Reads("state")
    /\ IF Fails \/ state = "Stopped" THEN Finish(NoInfo)
       ELSE Continue([NoInfo EXCEPT !.state = state],
                     CASE kind = "itunes" -> "track" [] kind = "music" -> "name"
                       [] OTHER -> "metadata")

\* iTunes gives an object for the current track, which stays that of the same track.
ReadTrack ==
    /\ Reads("track")
    /\ IF Fails THEN Finish(NoInfo) ELSE Report(info, "name") /\ object' = track

\* Music resolves its current track anew at every property.
MutantAsked == track
Asked == IF kind = "music" THEN track ELSE object

\* One call for one text: a failure leaves it empty, and is an exception for Music.
ReadText(here, filled, next) ==
    /\ Reads(here)
    /\ IF ~Fails THEN Continue(filled, next)
       ELSE IF kind = "music" THEN Finish(NoInfo)
       ELSE Continue(info, next)

ReadName == ReadText("name", [info EXCEPT !.name = Asked.name], "artist")
ReadArtist == ReadText("artist", [info EXCEPT !.artist = Asked.artist], "album")
ReadAlbum == ReadText("album", [info EXCEPT !.album = Asked.album], "position")

ReadMetadataInto(i) ==
    [i EXCEPT !.name = track.name, !.artist = track.artist, !.album = track.album]

\* One D-Bus call, or one snapshot of SMTC, for all the texts.
ReadMetadata ==
    /\ Reads("metadata")
    /\ IF ~Fails THEN Continue(ReadMetadataInto(info), "position")
       ELSE IF kind = "mpris" THEN Continue(info, "position")
       ELSE Finish(NoInfo)

\* SMTC's last report is extrapolated to the present while a track of known duration
\* plays, and taken for the present position otherwise; the others give the present
\* one.  (The clamp to the duration is left out.)
Elapsed ==
    CASE kind = "smtc" -> <<IF info.state = "Playing" THEN "runs" ELSE "stands", spot>>
      [] kind = "smtc untimed" -> <<"stands", spot>>
      [] OTHER -> <<IF state = "Playing" THEN "runs" ELSE "stands", spot>>

\* A failure is an exception for SMTC and Music, and a position of 0 for the rest.
ReadPosition ==
    /\ Reads("position")
    /\ Finish(IF ~Fails THEN [info EXCEPT !.time = Elapsed]
              ELSE IF kind \in {"mpris", "itunes"} THEN info ELSE NoInfo)

\* EnsureAdapterWorks: one test, whose outcome is kept.
TestAdapter(works) ==
    /\ pc = "test"
    /\ adapter' = IF works THEN "works" ELSE "broken"
    /\ GoTo(IF works THEN "run" ELSE "judge")
    /\ UNCHANGED <<kind, player, info, object, lookup, engine, mode, launched>>

\* The MediaRemote adapter prints everything at once, the position as it was last
\* reported; it has no stopped state.
RunAdapter ==
    /\ Reads("run")
    /\ Finish(IF Fails \/ state = "Stopped" \/ track.name = Empty THEN NoInfo
              ELSE [ReadMetadataInto(NoInfo) EXCEPT !.state = state,
                                                    !.time = <<"stands", spot>>])

Source ==
    \/ FindPlayer \/ Activate \/ ReadState
    \/ ReadTrack \/ ReadName \/ ReadArtist \/ ReadAlbum \/ ReadMetadata \/ ReadPosition
    \/ (\E works \in BOOLEAN : TestAdapter(works)) \/ RunAdapter

-----------------------------------------------------------------------------
(* The engine *)

Signature(i) == i.name \o <<Bar>> \o i.artist \o <<Bar, i.state>>

MutantDue == signature # Signature(info)
Due == signature # Signature(info) \/ sentAge = RefreshTicks

\* Nothing meaningful is cleared, something new is sent, the rest is left alone.
Judge ==
    /\ pc = "judge"
    /\ IF info.state = "Stopped" \/ info.name = Empty
       THEN /\ signature' = Empty
            /\ shown' = Dark
            /\ Report(NoInfo, "sleep")
       ELSE /\ IF Due THEN Report(info, IF mode = "Auto" THEN "art" ELSE "send")
                      ELSE Report(NoInfo, "sleep")
            /\ UNCHANGED <<signature, shown>>
    /\ UNCHANGED <<kind, player, reader, lookup, sentAge, mode, launched>>

Activity(i, picture) ==
    [kind |-> "track", state |-> i.state, name |-> i.name, artist |-> i.artist,
     album |-> i.album, time |-> i.time, art |-> picture]

Send ==
    /\ pc = "send"
    /\ shown' = Activity(info, IF mode = "Auto" THEN art ELSE NoArt)
    /\ signature' = Signature(info)
    /\ sentAge' = 0
    /\ Report(NoInfo, "sleep")
    /\ art' = NoArt /\ release' = NoArt
    /\ UNCHANGED <<kind, player, reader, cache, mode, launched>>

-----------------------------------------------------------------------------
(* GetArtworkUrl: the cache, Apple by album, Apple by song, MusicBrainz by   *)
(* album, by recording, and the Cover Art Archive.  A request that fails in  *)
(* any way - no answer in five seconds, not 2xx, malformed - is no data.     *)

\* Run together as they are, so that texts which hold a bar may share a key.
MutantKey(i) == i.artist
Key(i) == i.artist \o <<Bar>> \o i.name \o <<Bar>> \o i.album

Remember(answer) == cache' = [k \in DOMAIN cache \cup {Key(info)} |->
                                IF k = Key(info) THEN answer ELSE cache[k]]

Settle(answer) == art' = answer /\ Remember(answer) /\ GoTo("send") /\ UNCHANGED release
\* Nothing that can be used came back.
NoData(next) == GoTo(next) /\ UNCHANGED lookup

GetArtworkUrl ==
    /\ pc = "art"
    /\ IF Key(info) \in DOMAIN cache
       THEN art' = cache[Key(info)] /\ GoTo("send") /\ UNCHANGED <<release, cache>>
       ELSE NoData(IF info.album # Empty THEN "byAlbum" ELSE "bySong")
    /\ UNCHANGED <<kind, player, info, reader, engine, mode, launched>>

LookupAlbum(found) ==
    /\ pc = "byAlbum"
    /\ IF found THEN Settle(Art("album", info)) ELSE NoData("bySong")
    /\ UNCHANGED <<kind, player, info, reader, engine, mode, launched>>

LookupSong(found) ==
    /\ pc = "bySong"
    /\ IF found THEN Settle(Art("song", info))
       ELSE NoData(IF info.album # Empty THEN "releaseByAlbum" ELSE "releaseByRecording")
    /\ UNCHANGED <<kind, player, info, reader, engine, mode, launched>>

FindRelease(by, here, otherwise) ==
    /\ pc = here
    /\ \/ release' = Art(by, info) /\ GoTo("cover") /\ UNCHANGED <<art, cache>>
       \/ otherwise
    /\ UNCHANGED <<kind, player, info, reader, engine, mode, launched>>

FindReleaseIdByAlbum == FindRelease("album", "releaseByAlbum", NoData("releaseByRecording"))
FindReleaseIdByRecording == FindRelease("song", "releaseByRecording", Settle(NoArt))

CoverArtArchiveFrontUrl(found) ==
    /\ pc = "cover"
    /\ Settle(IF found THEN release ELSE NoArt)
    /\ UNCHANGED <<kind, player, info, reader, engine, mode, launched>>

Lookup ==
    \/ GetArtworkUrl
    \/ \E found \in BOOLEAN : LookupAlbum(found) \/ LookupSong(found)
                              \/ CoverArtArchiveFrontUrl(found)
    \/ FindReleaseIdByAlbum \/ FindReleaseIdByRecording

Worker == Source \/ Judge \/ Send \/ Lookup

-----------------------------------------------------------------------------
(* The world *)

\* A player that gives its present position has another one with another track or
\* state; one that reports it does so in a step of its own.
SpotMoves == spot' \in IF kind \in SmtcKinds \cup {"mediaremote"} THEN {spot} ELSE Spots

\* The player starts or quits, changes its state, or goes to another track.
PlayerMoves ==
    /\ \/ open' = ~open /\ state' = "Stopped" /\ object' = Unknown /\ UNCHANGED <<track, spot>>
       \/ open /\ state' \in States \ {state} /\ SpotMoves /\ UNCHANGED <<open, track, object>>
       \/ open /\ track' \in Tracks \ {track} /\ SpotMoves /\ UNCHANGED <<open, state, object>>
    /\ UNCHANGED <<kind, mute, pc, info, adapter, lookup, engine, mode, launched>>

\* The user seeks, or the player reports a position.
Seek ==
    /\ open /\ spot' \in Spots \ {spot}
    /\ UNCHANGED <<kind, open, state, track, mute, pc, info, reader, lookup, engine, mode,
                   launched>>

\* The player, or the service that speaks for it.
Falter ==
    /\ mute' = ~mute
    /\ UNCHANGED <<kind, open, state, track, spot, pc, info, reader, lookup, engine, mode,
                   launched>>

Tick ==
    /\ sentAge < RefreshTicks
    /\ sentAge' = sentAge + 1
    /\ UNCHANGED <<kind, player, pc, info, reader, lookup, signature, shown, mode, launched>>

Next == Worker \/ PlayerMoves \/ Seek \/ Falter \/ Tick

\* Only the calls of MPRIS have a timeout (kCallTimeoutMs); the others may wait for
\* their answer for ever.  The requests of the lookup end after five seconds.
Calling ==
    \/ pc \in {"activate", "state", "track", "name", "artist", "album", "metadata",
               "position", "test", "run"}
    \/ pc = "sleep" /\ kind \in SmtcKinds
Waits == mute /\ kind # "mpris" /\ Calling

\* The worker runs, but for a call that is not answered, and the clock goes on.
Spec == Init /\ [][Next]_vars /\ WF_vars(Worker /\ ~Waits) /\ WF_vars(Tick)

-----------------------------------------------------------------------------
(* Properties *)

\* What can be read, and the covers it can have.
Readings == [name : Names \cup {Empty}, artist : Artists \cup {Empty}, album : Albums \cup {Empty}]
Times == {"runs", "stands"} \X (Spots \cup {Unknown})
Infos == [state : States, name : Names \cup {Empty}, artist : Artists \cup {Empty},
          album : Albums \cup {Empty}, time : Times]
ArtFor(i) == {NoArt, Art("song", i)} \cup (IF i.album = Empty THEN {} ELSE {Art("album", i)})
Arts == UNION {ArtFor(i) : i \in Readings}

\* The types; an activity has a name (TrackInfo, _lastSignature).
TypeOK ==
    /\ <<kind, mode>> \in Setups
    /\ open \in BOOLEAN /\ state \in States /\ track \in Tracks
    /\ spot \in Spots /\ mute \in BOOLEAN
    /\ info \in Infos /\ object \in Tracks \cup {Unknown, "iTunes"}
    /\ adapter \in {"untested", "works", "broken"}
    /\ art \in Arts /\ release \in Arts
    /\ \A k \in DOMAIN cache : cache[k] \in Arts
    /\ sentAge \in 0 .. RefreshTicks
    /\ shown # Dark => shown.name \in Names /\ shown.name # Empty /\ shown.art \in Arts
    /\ launched \in BOOLEAN

HasBar(text) == \E k \in 1 .. Len(text) : text[k] = Bar

\* What is shown is of one track.  The texts are those of one track: all of them,
\* but that iTunes may leave out the artist and the album, and not with Music, whose
\* current track may change between two properties (GetCurrentTrack of the sources).
\* The cover is that of the shown album or of the song itself, also when it comes out
\* of the cache, unless a text holds a bar (GetArtworkUrl).
OneTrackIsShown ==
    shown # Dark =>
        /\ kind # "music" =>
             \E t \in Tracks :
                LET Of(text) == IF kind = "itunes" THEN {text, Empty} ELSE {text}
                IN  /\ shown.name = t.name
                    /\ shown.artist \in Of(t.artist) /\ shown.album \in Of(t.album)
        /\ \/ HasBar(shown.name) \/ HasBar(shown.artist) \/ HasBar(shown.album)
           \/ shown.art \in ArtFor(shown)

\* A player that is left alone, answers and reports no more is what Discord shows in
\* the end: a mixture of two readings, or a position that came late or after a seek,
\* is not in the signature, nor are all differences of two tracks, and only the
\* keepalive corrects them.  It also comes again and again, without which a time that
\* stands would be counted on for ever.  A player that has quit is shown no more
\* (RunLoop).
LeftAlone == <>[][FALSE]_player
Plays == open /\ ~mute /\ state # "Stopped" /\ track.name # Empty /\ adapter # "broken"
Gone == ~open /\ (mute => kind = "mpris")

Mirrors ==
    LET exact == kind \notin {"smtc untimed", "mediaremote"}
    IN  shown = [kind |-> "track", state |-> state, name |-> track.name,
                 artist |-> track.artist, album |-> track.album, art |-> shown.art,
                 time |-> <<IF state = "Playing" /\ exact THEN "runs" ELSE "stands", spot>>]

EventuallyAccurate ==
    /\ LeftAlone /\ <>[]Plays => <>[](shown # Dark /\ Mirrors) /\ []<>(sentAge = 0)
    /\ <>[]Gone => <>[](shown = Dark)

-----------------------------------------------------------------------------
(* What a comment says, and the code does not quite do *)

\* "guard against that so this app can sit idle at login without popping iTunes
\* open on its own": reading never starts a player.
NeverLaunches == ~launched
=============================================================================
