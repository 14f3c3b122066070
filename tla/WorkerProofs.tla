----------------------------- MODULE WorkerProofs -----------------------------
(***************************************************************************)
(* Theorems about two things the worker of the engine does: its sleep      *)
(* (module WakeSleep - who owns the mutex, that UpdateConfig's wake        *)
(* request is not lost, and that every step is one of Sleeper or none) and *)
(* the activity that one poll puts together (module NowPlaying).           *)
(***************************************************************************)
EXTENDS NowPlaying, WakeSleep, SequenceTheorems, TLAPS

-----------------------------------------------------------------------------
(* The sleep *)

\* A worker that found no request keeps the mutex until it waits, so none is made.
NoneAtBlock == wpc = "block" => ~wakeRequested

SleepInv == SleepTypeOK /\ NoLostWakeup /\ NoneAtBlock

USE DEF WorkerPcs, UpcValues

LEMMA SleepInvInit == SleepInit => SleepInv
  BY DEF SleepInit, SleepInv, SleepTypeOK, NoLostWakeup, NoneAtBlock

\* One step of either thread keeps the invariant.
LEMMA SleepInvStep == SleepInv /\ [SleepNext]_sleepVars => SleepInv'
  <1> SUFFICES ASSUME SleepInv, [SleepNext]_sleepVars PROVE SleepInv'
    OBVIOUS
  <1> USE DEF SleepInv, SleepTypeOK, NoLostWakeup, NoneAtBlock
  <1>1. CASE Waiter
    <2>1. CASE Iterate  BY <2>1 DEF Iterate
    <2>2. CASE Lock  BY <2>2 DEF Lock
    <2>3. CASE LoadRunning  BY <2>3 DEF LoadRunning
    <2>4. CASE LoadWake  BY <2>4 DEF LoadWake
    <2>5. CASE Block  BY <2>5 DEF Block
    <2>6. CASE Relock  BY <2>6 DEF Relock
    <2>7. CASE Clear  BY <2>7 DEF Clear
    <2>8. CASE Return  BY <2>8 DEF Return
    <2> QED  BY <1>1, <2>1, <2>2, <2>3, <2>4, <2>5, <2>6, <2>7, <2>8 DEF Waiter
  <1>2. CASE Timeout  BY <1>2 DEF Timeout
  <1>3. CASE SpuriousWakeup  BY <1>3 DEF SpuriousWakeup
  <1>4. CASE EnterUpdate  BY <1>4 DEF EnterUpdate
  <1>5. CASE StoreStop  BY <1>5 DEF StoreStop
  <1>6. CASE Waker
    <2>1. CASE SetWake  BY <2>1 DEF SetWake
    <2>2. CASE LeaveUpdate  BY <2>2 DEF LeaveUpdate
    <2>3. CASE Notify  BY <2>3 DEF Notify, Woken
    <2>4. CASE NotifyStop  BY <2>4 DEF NotifyStop, Woken
    <2>5. CASE Join  BY <2>5 DEF Join
    <2> QED  BY <1>6, <2>1, <2>2, <2>3, <2>4, <2>5 DEF Waker
  <1>7. CASE UNCHANGED sleepVars  BY <1>7 DEF sleepVars
  <1> QED  BY <1>1, <1>2, <1>3, <1>4, <1>5, <1>6, <1>7 DEF SleepNext

LEMMA SleepInvariant == SleepSpec => []SleepInv
  BY SleepInvInit, SleepInvStep, PTL DEF SleepSpec

\* The mutex is owned by the thread in its critical section and by no other
\* (InterruptibleSleep, UpdateConfig).
THEOREM MutexIsOwned == SleepSpec => []SleepTypeOK
  <1>1. SleepInv => SleepTypeOK  BY DEF SleepInv
  <1> QED  BY SleepInvariant, <1>1, PTL

\* A wake request that UpdateConfig makes is not lost between the predicate and the
\* wait of InterruptibleSleep.
THEOREM WakeupNotLost == SleepSpec => []NoLostWakeup
  <1>1. SleepInv => NoLostWakeup  BY DEF SleepInv
  <1> QED  BY SleepInvariant, <1>1, PTL

-----------------------------------------------------------------------------
(* The refinement, but for Sleeper's fairness *)

USE DEF Asleep

LEMMA InitMaps == SleepInit => S!Init
  BY DEF SleepInit, S!Init

LEMMA StepMaps == SleepInv /\ [SleepNext]_sleepVars => [S!Next]_(S!vars)
  <1> SUFFICES ASSUME SleepInv, [SleepNext]_sleepVars PROVE [S!Next]_(S!vars)
    OBVIOUS
  <1> USE DEF S!Next, S!vars
  <1>1. CASE Waiter
    <2>1. CASE Iterate  BY <2>1 DEF Iterate, S!Doze, S!Leave
    <2>2. CASE Lock  BY <2>2 DEF Lock
    <2>3. CASE LoadRunning  BY <2>3 DEF LoadRunning
    <2>4. CASE LoadWake  BY <2>4 DEF LoadWake
    <2>5. CASE Block  BY <2>5 DEF Block
    <2>6. CASE Relock  BY <2>6 DEF Relock
    <2>7. CASE Clear  BY <2>7 DEF Clear, S!Return
    <2>8. CASE Return  BY <2>8 DEF Return, S!Leave
    <2> QED  BY <1>1, <2>1, <2>2, <2>3, <2>4, <2>5, <2>6, <2>7, <2>8 DEF Waiter
  <1>2. CASE Timeout  BY <1>2 DEF Timeout
  <1>3. CASE SpuriousWakeup  BY <1>3 DEF SpuriousWakeup
  <1>4. CASE EnterUpdate  BY <1>4 DEF EnterUpdate
  <1>5. CASE StoreStop  BY <1>5 DEF StoreStop, S!Quit
  <1>6. CASE Waker
    <2>1. CASE SetWake  BY <2>1 DEF SetWake, S!Request
    <2>2. CASE LeaveUpdate  BY <2>2 DEF LeaveUpdate
    <2>3. CASE Notify  BY <2>3 DEF Notify, Woken
    <2>4. CASE NotifyStop  BY <2>4 DEF NotifyStop, Woken
    <2>5. CASE Join  BY <2>5 DEF Join
    <2> QED  BY <1>6, <2>1, <2>2, <2>3, <2>4, <2>5 DEF Waker
  <1>7. CASE UNCHANGED sleepVars  BY <1>7 DEF sleepVars
  <1> QED  BY <1>1, <1>2, <1>3, <1>4, <1>5, <1>6, <1>7 DEF SleepNext

\* InterruptibleSleep does nothing its promise does not allow: every behaviour of
\* the threads is one of Sleeper, its fairness aside.
THEOREM SleepsAsPromised == SleepSpec => S!Init /\ [][S!Next]_(S!vars)
  BY InitMaps, StepMaps, SleepInvariant, PTL DEF SleepSpec

-----------------------------------------------------------------------------
(* The activity: the key *)

\* w is u with v after it.
Joins(w, u, v) == w = u \o v
Letterwise(w, u, v) ==
    /\ w \in Seq(Letters) /\ Len(w) = Len(u) + Len(v)
    /\ \A k \in 1 .. Len(u) : w[k] = u[k]
    /\ \A k \in 1 .. Len(v) : w[Len(u) + k] = v[k]

LEMMA JoinsLetters ==
    ASSUME NEW u \in Seq(Letters), NEW v \in Seq(Letters), NEW w, Joins(w, u, v)
    PROVE  Letterwise(w, u, v)
<1>1. Len(u) \in Nat /\ Len(v) \in Nat  OBVIOUS
<1>2. /\ w \in Seq(Letters) /\ Len(w) = Len(u) + Len(v)
      /\ \A k \in 1 .. Len(u) + Len(v) :
            w[k] = IF k <= Len(u) THEN u[k] ELSE v[k - Len(u)]
  BY ConcatProperties DEF Joins
<1>3. ASSUME NEW k \in 1 .. Len(u) PROVE w[k] = u[k]
  BY <1>1, <1>2
<1>4. ASSUME NEW k \in 1 .. Len(v) PROVE w[Len(u) + k] = v[k]
  BY <1>1, <1>2
<1> QED  BY <1>2, <1>3, <1>4 DEF Letterwise

Joined(x, y, z) == x \o <<Bar>> \o y \o <<Bar>> \o z

BarsAndLetters(w, x, y, z) ==
    /\ Len(w) = Len(x) + Len(y) + Len(z) + 2
    /\ \A k \in 1 .. Len(x) : w[k] = x[k]
    /\ w[Len(x) + 1] = Bar
    /\ \A k \in 1 .. Len(y) : w[Len(x) + 1 + k] = y[k]
    /\ w[Len(x) + Len(y) + 2] = Bar
    /\ \A k \in 1 .. Len(z) : w[Len(x) + Len(y) + 2 + k] = z[k]

LEMMA JoinedLetters ==
    ASSUME NEW x \in Seq(Letters), NEW y \in Seq(Letters), NEW z \in Seq(Letters),
           NEW w, w = Joined(x, y, z)
    PROVE  BarsAndLetters(w, x, y, z)
<1>1. PICK b : b = <<Bar>>  OBVIOUS
<1>2. b \in Seq(Letters) /\ Len(b) = 1 /\ b[1] = Bar  BY <1>1, NowPlayingAssumption
<1>3. PICK u : Joins(u, x, b)  BY DEF Joins
<1>4. PICK v : Joins(v, u, y)  BY DEF Joins
<1>5. PICK t : Joins(t, v, b)  BY DEF Joins
<1>6. Joins(w, t, z)  BY <1>1, <1>3, <1>4, <1>5 DEF Joins, Joined
<1>7. Len(x) \in Nat /\ Len(y) \in Nat /\ Len(z) \in Nat /\ 1 \in 1 .. Len(b)
  BY <1>2
<1>8. Letterwise(u, x, b)  BY <1>2, <1>3, JoinsLetters
<1>8a. u \in Seq(Letters)  BY <1>8 DEF Letterwise
<1>9. Letterwise(v, u, y)  BY <1>4, <1>8a, JoinsLetters
<1>9a. v \in Seq(Letters)  BY <1>9 DEF Letterwise
<1>10. Letterwise(t, v, b)  BY <1>2, <1>5, <1>9a, JoinsLetters
<1>10a. t \in Seq(Letters)  BY <1>10 DEF Letterwise
<1>11. Letterwise(w, t, z)  BY <1>6, <1>10a, JoinsLetters
<1> USE DEF Letterwise
<1>12. /\ Len(u) = Len(x) + 1 /\ Len(v) = Len(x) + Len(y) + 1 /\ Len(t) = Len(x) + Len(y) + 2
       /\ u[Len(x) + 1] = Bar /\ t[Len(v) + 1] = Bar
  BY <1>2, <1>7, <1>8, <1>9, <1>10
<1>13. ASSUME NEW k \in 1 .. Len(x) PROVE w[k] = x[k]
  <2>1. k \in 1 .. Len(u) /\ k \in 1 .. Len(v) /\ k \in 1 .. Len(t)  BY <1>7, <1>12
  <2> QED  BY <1>8, <1>9, <1>10, <1>11, <2>1
<1>14. ASSUME NEW k \in 1 .. Len(y) PROVE w[Len(x) + 1 + k] = y[k]
  <2>1. Len(u) + k \in 1 .. Len(v) /\ Len(u) + k \in 1 .. Len(t)  BY <1>7, <1>12
  <2> QED  BY <1>9, <1>10, <1>11, <1>12, <2>1
<1>15. w[Len(x) + 1] = Bar
  <2>1. Len(x) + 1 \in 1 .. Len(u) /\ Len(x) + 1 \in 1 .. Len(v) /\ Len(x) + 1 \in 1 .. Len(t)
    BY <1>7, <1>12
  <2> QED  BY <1>9, <1>10, <1>11, <1>12, <2>1
<1>16. w[Len(x) + Len(y) + 2] = Bar
  <2>1. Len(v) + 1 \in 1 .. Len(t) /\ Len(v) + 1 = Len(x) + Len(y) + 2  BY <1>7, <1>12
  <2> QED  BY <1>11, <1>12, <2>1
<1>17. \A k \in 1 .. Len(z) : w[Len(x) + Len(y) + 2 + k] = z[k]
  BY <1>11, <1>12
<1>18. Len(w) = Len(x) + Len(y) + Len(z) + 2  BY <1>7, <1>11, <1>12
<1> QED  BY <1>13, <1>14, <1>15, <1>16, <1>17, <1>18 DEF BarsAndLetters

LEMMA JoinedOnce ==
    ASSUME NEW x \in Seq(Letters), NEW y \in Seq(Letters), NEW z \in Seq(Letters),
           ~HasBar(x), ~HasBar(y), ~HasBar(z),
           NEW p \in Seq(Letters), NEW q \in Seq(Letters), NEW r \in Seq(Letters),
           Joined(x, y, z) = Joined(p, q, r)
    PROVE  x = p /\ y = q /\ z = r
<1>2. PICK w : w = Joined(x, y, z)  OBVIOUS
<1>1. BarsAndLetters(w, x, y, z)  BY <1>2, JoinedLetters
<1>3. BarsAndLetters(w, p, q, r)  BY <1>2, JoinedLetters
<1> USE DEF BarsAndLetters
<1>4. /\ Len(x) \in Nat /\ Len(y) \in Nat /\ Len(z) \in Nat
      /\ Len(p) \in Nat /\ Len(q) \in Nat /\ Len(r) \in Nat
  OBVIOUS
\* The bars of the one are the bars of the other.
<1>5. ASSUME NEW k \in 1 .. Len(w), w[k] = Bar
      PROVE  k = Len(x) + 1 \/ k = Len(x) + Len(y) + 2
  <2>1. k \notin 1 .. Len(x)  BY <1>1, <1>5 DEF HasBar
  <2>2. k - Len(x) - 1 \notin 1 .. Len(y)
    <3> SUFFICES ASSUME k - Len(x) - 1 \in 1 .. Len(y) PROVE FALSE
      OBVIOUS
    <3>1. w[Len(x) + 1 + (k - Len(x) - 1)] = y[k - Len(x) - 1]  BY <1>1
    <3>2. Len(x) + 1 + (k - Len(x) - 1) = k  BY <1>4
    <3> QED  BY <1>5, <3>1, <3>2 DEF HasBar
  <2>3. k - Len(x) - Len(y) - 2 \notin 1 .. Len(z)
    <3> SUFFICES ASSUME k - Len(x) - Len(y) - 2 \in 1 .. Len(z) PROVE FALSE
      OBVIOUS
    <3>1. w[Len(x) + Len(y) + 2 + (k - Len(x) - Len(y) - 2)] = z[k - Len(x) - Len(y) - 2]
      BY <1>1
    <3>2. Len(x) + Len(y) + 2 + (k - Len(x) - Len(y) - 2) = k  BY <1>4
    <3> QED  BY <1>5, <3>1, <3>2 DEF HasBar
  <2>4. k \in 1 .. Len(x) + Len(y) + Len(z) + 2  BY <1>1
  <2>5. \A l, m, n \in Nat : \A h \in 1 .. l + m + n + 2 :
            h \notin 1 .. l /\ h - l - 1 \notin 1 .. m /\ h - l - m - 2 \notin 1 .. n
                => h = l + 1 \/ h = l + m + 2
    OBVIOUS
  <2> QED  BY ONLY <1>4, <2>1, <2>2, <2>3, <2>4, <2>5
<1>6. Len(p) + 1 = Len(x) + 1 \/ Len(p) + 1 = Len(x) + Len(y) + 2
  <2>1. Len(p) + 1 \in 1 .. Len(w)  BY <1>3, <1>4
  <2> QED  BY <1>3, <1>5, <2>1
<1>7. Len(p) + Len(q) + 2 = Len(x) + 1 \/ Len(p) + Len(q) + 2 = Len(x) + Len(y) + 2
  <2>1. Len(p) + Len(q) + 2 \in 1 .. Len(w)  BY <1>3, <1>4
  <2> QED  BY <1>3, <1>5, <2>1
<1>8. Len(x) = Len(p) /\ Len(y) = Len(q) /\ Len(z) = Len(r)
  BY <1>1, <1>3, <1>4, <1>6, <1>7
<1>9. /\ \A k \in 1 .. Len(x) : x[k] = p[k]
      /\ \A k \in 1 .. Len(y) : y[k] = q[k]
      /\ \A k \in 1 .. Len(z) : z[k] = r[k]
  BY <1>1, <1>3, <1>8
<1> QED  BY <1>8, <1>9, SeqEqual

-----------------------------------------------------------------------------
(* The activity: the invariant *)

\* Where the worker asks for a cover, and where it has read no text yet.
Asking == {"art", "byAlbum", "bySong", "releaseByAlbum", "releaseByRecording", "cover", "send"}
Textless == {"activate", "state", "track"}

\* The texts of a reading are all those of the track, or some of them.
AllOf(i, t) == i.name = t.name /\ i.artist = t.artist /\ i.album = t.album
SomeOf(i, t) ==
    i.name \in {t.name, Empty} /\ i.artist \in {t.artist, Empty} /\ i.album \in {t.album, Empty}
NoText(i) == i.name = Empty /\ i.artist = Empty /\ i.album = Empty

\* A cover that is remembered for the key of the reading.
Fits(c, i) == \E j \in Readings : Key(j) = Key(i) /\ c \in ArtFor(j)

PlayerInv ==
    /\ <<kind, mode>> \in Setups /\ open \in BOOLEAN /\ state \in States /\ track \in Tracks
    /\ spot \in Spots /\ mute \in BOOLEAN /\ launched \in BOOLEAN
    /\ sentAge \in 0 .. RefreshTicks /\ adapter \in {"untested", "works", "broken"}

\* The texts are read from one track: by iTunes from the object that is held, as long as
\* it is held, and otherwise at once - but for Music.
TextInv ==
    /\ info \in Infos
    /\ kind = "itunes" =>
          /\ \E t \in Tracks : SomeOf(info, t)
          /\ object \in Tracks /\ object # Unknown => SomeOf(info, object)
    /\ kind \notin {"itunes", "music"} => NoText(info) \/ \E t \in Tracks : AllOf(info, t)

\* What is held, and what was read, at each place.
PlaceInv ==
    /\ object \in Tracks \cup {Unknown, "iTunes"}
    /\ pc \in {"name", "artist", "album"} =>
          kind \in {"itunes", "music"} /\ (kind = "itunes" => object \in Tracks \cup {Unknown})
    /\ pc = "track" => kind = "itunes"
    /\ pc \in {"metadata", "test", "run"} => kind \notin {"itunes", "music"}
    /\ pc \in Textless => NoText(info)
    /\ pc \in Asking => info.name # Empty
    /\ pc \in {"byAlbum", "releaseByAlbum"} => info.album # Empty

InfoInv == TextInv /\ PlaceInv

\* What is remembered fits its key, and what is answered fits the reading.
ArtInv ==
    /\ \A k \in DOMAIN cache : \E j \in Readings : Key(j) = k /\ cache[k] \in ArtFor(j)
    /\ IF pc = "send" THEN Fits(art, info) ELSE art = NoArt
    /\ IF pc = "cover" THEN release \in ArtFor(info) ELSE release \in Arts

ShownInv ==
    /\ OneTrackIsShown
    /\ shown # Dark => shown.name \in Names /\ shown.name # Empty /\ shown.art \in Arts

IInv == PlayerInv /\ InfoInv /\ ArtInv /\ ShownInv

LEMMA StepCases ==
    ASSUME [Next]_vars
    PROVE  \/ FindPlayer \/ Activate \/ ReadState \/ ReadTrack
           \/ ReadName \/ ReadArtist \/ ReadAlbum \/ ReadMetadata \/ ReadPosition
           \/ \E works \in BOOLEAN : TestAdapter(works)
           \/ RunAdapter
           \/ Judge \/ Send
           \/ GetArtworkUrl
           \/ \E found \in BOOLEAN : LookupAlbum(found)
           \/ \E found \in BOOLEAN : LookupSong(found)
           \/ \E found \in BOOLEAN : CoverArtArchiveFrontUrl(found)
           \/ FindReleaseIdByAlbum \/ FindReleaseIdByRecording
           \/ PlayerMoves \/ Seek \/ Falter \/ Tick
           \/ UNCHANGED vars
BY DEF Next, Worker, Source, Lookup

\* A track has a name, an artist and an album, all of them texts.
LEMMA TrackFacts ==
    ASSUME NEW t \in Tracks
    PROVE  t.name \in Names /\ t.artist \in Artists /\ t.album \in Albums
BY DEF Names, Artists, Albums

LEMMA TextFacts ==
    /\ Names \cup {Empty} \subseteq Seq(Letters)
    /\ Artists \cup {Empty} \subseteq Seq(Letters)
    /\ Albums \cup {Empty} \subseteq Seq(Letters)
<1>1. Empty \in Seq(Letters)  BY DEF Empty
<1>2. \A t \in Tracks : /\ t.name \in Seq(Letters) /\ t.artist \in Seq(Letters)
                        /\ t.album \in Seq(Letters)
  BY NowPlayingAssumption
<1> QED  BY <1>1, <1>2 DEF Names, Artists, Albums

\* The parts of a reading that a cover depends on.
Reading(i) == [name |-> i.name, artist |-> i.artist, album |-> i.album]

LEMMA CoverFacts ==
    ASSUME NEW i, Reading(i) \in Readings
    PROVE  /\ Key(Reading(i)) = Key(i) /\ ArtFor(Reading(i)) = ArtFor(i)
           /\ NoArt \in ArtFor(i) /\ Art("song", i) \in ArtFor(i)
           /\ i.album # Empty => Art("album", i) \in ArtFor(i)
           /\ ArtFor(i) \subseteq Arts
           /\ \A c \in ArtFor(i) : Fits(c, i)
<1>1. Reading(i).name = i.name /\ Reading(i).artist = i.artist /\ Reading(i).album = i.album
  BY DEF Reading
<1>2. Key(Reading(i)) = Key(i)  BY <1>1 DEF Key
<1>3. ArtFor(Reading(i)) = ArtFor(i)  BY <1>1 DEF ArtFor, Art
<1>4. ArtFor(i) \subseteq Arts  BY <1>3 DEF Arts
<1>5. \A c \in ArtFor(i) : Fits(c, i)  BY <1>2, <1>3 DEF Fits
<1> QED  BY <1>2, <1>3, <1>4, <1>5 DEF ArtFor

LEMMA InfoReading == ASSUME info \in Infos PROVE Reading(info) \in Readings
BY DEF Infos, Readings, Reading

LEMMA FitsIsCover ==
    ASSUME NEW c, NEW i, Fits(c, i) PROVE c \in Arts
BY DEF Fits, Arts

\* A cover that is remembered for the key of a reading without bars is its own
\* (GetArtworkUrl).
LEMMA OwnCover ==
    ASSUME NEW c, NEW i, Reading(i) \in Readings, Fits(c, i),
           ~HasBar(i.name), ~HasBar(i.artist), ~HasBar(i.album)
    PROVE  c \in ArtFor(i)
<1>1. PICK j \in Readings : Key(j) = Key(i) /\ c \in ArtFor(j)  BY DEF Fits
<1>2. \A h : Key(h) = Joined(h.artist, h.name, h.album)  BY DEF Key, Joined
<1>3. \A h \in Readings : /\ h.name \in Seq(Letters) /\ h.artist \in Seq(Letters)
                          /\ h.album \in Seq(Letters)
  BY TextFacts DEF Readings
<1>4. i.name \in Seq(Letters) /\ i.artist \in Seq(Letters) /\ i.album \in Seq(Letters)
  BY <1>3 DEF Reading
<1>5. Joined(i.artist, i.name, i.album) = Joined(j.artist, j.name, j.album)  BY <1>1, <1>2
<1>6. i.artist = j.artist /\ i.name = j.name /\ i.album = j.album
  BY <1>3, <1>4, <1>5, JoinedOnce
<1> QED  BY <1>1, <1>6 DEF ArtFor, Art

\* The kinds of source that the guards tell apart are all there are.
LEMMA AnyKind == PlayerInv => kind \in SourceKinds
BY NowPlayingAssumption DEF PlayerInv

\* What FindPlayer does with each of them.
LEMMA FindPlayerFacts ==
    ASSUME PlayerInv, FindPlayer
    PROVE  /\ pc = "sleep" /\ info' = NoInfo
           /\ UNCHANGED <<kind, player, reader, lookup, engine, mode, launched>>
           /\ pc' \in {"activate", "state", "test", "run", "judge"}
           /\ pc' \in {"test", "run"} => kind = "mediaremote"
<1>1. /\ \/ kind \in {"itunes", "music"} /\ Report(NoInfo, IF open THEN "activate" ELSE "judge")
         \/ kind \in SmtcKinds /\ Report(NoInfo, IF open /\ ~mute THEN "state" ELSE "judge")
         \/ kind = "mpris" /\ Report(NoInfo, "state")
         \/ kind = "mediaremote" /\ \E next \in {"test", "run", "judge"} : Report(NoInfo, next)
      /\ pc = "sleep" /\ UNCHANGED <<kind, player, reader, lookup, engine, mode, launched>>
  BY AnyKind DEF FindPlayer, SourceKinds, SmtcKinds, PlayerInv
<1> QED  BY <1>1 DEF Report, GoTo

LEMMA StepPlayer == ASSUME PlayerInv, [Next]_vars PROVE PlayerInv'
<1> USE DEF PlayerInv, player, engine
<1>1. RefreshTicks \in Nat \ {0}  BY NowPlayingAssumption
<1>2. CASE Activate  BY <1>2 DEF Activate, States
<1>3. CASE Send  BY <1>1, <1>3 DEF Send, reader
<1>4. CASE PlayerMoves  BY <1>4 DEF PlayerMoves, SpotMoves, States
<1>5. CASE Seek  BY <1>5 DEF Seek, reader
<1>6. CASE Falter  BY <1>6 DEF Falter, reader
<1>7. CASE Tick  BY <1>1, <1>7 DEF Tick, reader
<1>7a. CASE \E works \in BOOLEAN : TestAdapter(works)  BY <1>7a DEF TestAdapter
<1>8. CASE \/ FindPlayer \/ ReadState \/ ReadTrack \/ ReadName \/ ReadArtist \/ ReadAlbum
           \/ ReadMetadata \/ ReadPosition \/ RunAdapter \/ Judge \/ GetArtworkUrl
           \/ (\E found \in BOOLEAN : LookupAlbum(found))
           \/ (\E found \in BOOLEAN : LookupSong(found))
           \/ (\E found \in BOOLEAN : CoverArtArchiveFrontUrl(found))
           \/ FindReleaseIdByAlbum \/ FindReleaseIdByRecording
           \/ UNCHANGED vars
  <2>1. UNCHANGED <<kind, player, mode, launched, sentAge, adapter>>
    BY <1>8
       DEF FindPlayer, ReadState, ReadTrack, ReadName, ReadArtist, ReadAlbum, ReadText,
           ReadMetadata, ReadPosition, RunAdapter, Reads, Judge, GetArtworkUrl, LookupAlbum,
           LookupSong, CoverArtArchiveFrontUrl, FindReleaseIdByAlbum,
           FindReleaseIdByRecording, FindRelease, vars, reader
  <2> QED  BY <2>1
<1> QED  BY StepCases, <1>2, <1>3, <1>4, <1>5, <1>6, <1>7, <1>7a, <1>8

\* A reading that is empty, or keeps the texts it has, is one of the same kind.
LEMMA KeepsTexts ==
    ASSUME PlayerInv, InfoInv, UNCHANGED kind, info' \in Infos,
           \/ NoText(info')
           \/ /\ info'.name = info.name /\ info'.artist = info.artist /\ info'.album = info.album
              /\ object' = object \/ object' = Unknown \/ NoText(info)
    PROVE  TextInv'
<1>1. \A t : NoText(info') => SomeOf(info', t)  BY DEF NoText, SomeOf
<1>2. track \in Tracks  BY DEF PlayerInv
<1>3. CASE NoText(info')  BY <1>1, <1>2, <1>3 DEF TextInv
<1>4. CASE /\ info'.name = info.name /\ info'.artist = info.artist /\ info'.album = info.album
           /\ object' = object \/ object' = Unknown
  BY <1>4 DEF InfoInv, TextInv, SomeOf, AllOf, NoText
<1>5. CASE NoText(info) /\ info'.name = info.name /\ info'.artist = info.artist
           /\ info'.album = info.album
  BY <1>3, <1>5 DEF NoText
<1> QED  BY <1>3, <1>4, <1>5

\* What a step of the source reports (GetCurrentTrack): nothing, or the reading at hand
\* with a text of the object or the track, or all texts of the present track.
LEMMA StepText == ASSUME PlayerInv, InfoInv, [Next]_vars PROVE TextInv'
<1>1. /\ track \in Tracks /\ spot \in Spots /\ state \in States
      /\ track.name \in Names /\ track.artist \in Artists /\ track.album \in Albums
  BY TrackFacts DEF PlayerInv
<1>2. info \in Infos  BY DEF InfoInv, TextInv
<1>3. NoInfo \in Infos /\ NoText(NoInfo)  BY DEF NoInfo, Infos, States, NoText, Times
<1>4. ASSUME UNCHANGED kind, info' = NoInfo PROVE TextInv'
  BY <1>3, <1>4, KeepsTexts
<1>5. ASSUME UNCHANGED <<info, kind>>, object' = object \/ object' = Unknown \/ NoText(info)
      PROVE  TextInv'
  BY <1>2, <1>5, KeepsTexts
<1>6. CASE FindPlayer
  BY <1>4, <1>6, FindPlayerFacts
<1>7. CASE Activate
  BY <1>4, <1>5, <1>7 DEF Activate, Finish, Report, InfoInv, PlaceInv, Textless
<1>8. CASE ReadState
  <2>1. UNCHANGED kind  BY <1>8 DEF ReadState, Reads
  <2>2. CASE info' = NoInfo  BY <1>4, <2>1, <2>2
  <2>3. CASE info' = [NoInfo EXCEPT !.state = state]
    <3>1. info' \in Infos /\ NoText(info')  BY <1>1, <1>3, <2>3 DEF NoInfo, Infos, NoText
    <3> QED  BY <2>1, <3>1, KeepsTexts
  <2> QED  BY <1>8, <2>2, <2>3 DEF ReadState, Finish, Continue, Report
<1>9. CASE ReadTrack
  BY <1>4, <1>5, <1>9 DEF ReadTrack, Reads, Finish, Report, InfoInv, PlaceInv, Textless
\* A text that was read is of the object that is held, which stays, or Music's.
<1>10. ASSUME NEW filled \in Infos, NEW here \in {"name", "artist", "album"}, NEW next,
              ReadText(here, filled, next),
              kind = "itunes" /\ ~Fails => \E t \in Tracks : t = object /\ SomeOf(filled, t)
       PROVE  TextInv'
  <2>1. UNCHANGED kind /\ pc = here  BY <1>10 DEF ReadText, Reads
  <2>2. CASE ~Fails
    <3>1. info' = filled /\ UNCHANGED object  BY <1>10, <2>2 DEF ReadText, Continue, Report
    <3>2. kind \in {"itunes", "music"}  BY <2>1 DEF InfoInv, PlaceInv
    <3> QED  BY <1>10, <2>1, <2>2, <3>1, <3>2 DEF TextInv
  <2>3. CASE Fails /\ kind = "music"
    BY <1>4, <1>10, <2>1, <2>3 DEF ReadText, Finish, Report
  <2>4. CASE Fails /\ kind # "music"
    BY <1>5, <1>10, <2>1, <2>4 DEF ReadText, Continue, Report
  <2> QED  BY <2>2, <2>3, <2>4
<1>11. pc \in {"name", "artist", "album"} /\ kind = "itunes" /\ ~Fails =>
          object \in Tracks /\ object # Unknown /\ Asked = object /\ SomeOf(info, object)
  BY DEF Fails, Asked, InfoInv, TextInv, PlaceInv
<1>12. pc \in {"name", "artist", "album"} /\ ~Fails => Asked \in Tracks
  BY <1>1, <1>11 DEF Asked, InfoInv, PlaceInv
<1>13. CASE ReadName
  <2> DEFINE filled == [info EXCEPT !.name = Asked.name]
  <2>1. pc = "name" /\ ReadText("name", filled, "artist")  BY <1>13 DEF ReadName, ReadText, Reads
  <2>2. CASE Fails
    BY <1>4, <1>5, <2>1, <2>2 DEF ReadText, Reads, Finish, Continue, Report
  <2>3. CASE ~Fails
    <3>1. Asked.name \in Names  BY <1>12, <2>1, <2>3, TrackFacts
    <3>2. /\ filled \in Infos /\ filled.name = Asked.name
          /\ filled.artist = info.artist /\ filled.album = info.album
      BY <1>2, <3>1 DEF Infos
    <3> HIDE DEF filled
    <3>3. kind = "itunes" => SomeOf(filled, object)
      BY <1>11, <2>1, <2>3, <3>2 DEF SomeOf
    <3> QED  BY <1>10, <1>11, <2>1, <2>3, <3>2, <3>3
  <2> QED  BY <2>2, <2>3
<1>14. CASE ReadArtist
  <2> DEFINE filled == [info EXCEPT !.artist = Asked.artist]
  <2>1. pc = "artist" /\ ReadText("artist", filled, "album")
    BY <1>14 DEF ReadArtist, ReadText, Reads
  <2>2. CASE Fails
    BY <1>4, <1>5, <2>1, <2>2 DEF ReadText, Reads, Finish, Continue, Report
  <2>3. CASE ~Fails
    <3>1. Asked.artist \in Artists  BY <1>12, <2>1, <2>3, TrackFacts
    <3>2. /\ filled \in Infos /\ filled.artist = Asked.artist
          /\ filled.name = info.name /\ filled.album = info.album
      BY <1>2, <3>1 DEF Infos
    <3> HIDE DEF filled
    <3>3. kind = "itunes" => SomeOf(filled, object)
      BY <1>11, <2>1, <2>3, <3>2 DEF SomeOf
    <3> QED  BY <1>10, <1>11, <2>1, <2>3, <3>2, <3>3
  <2> QED  BY <2>2, <2>3
<1>15. CASE ReadAlbum
  <2> DEFINE filled == [info EXCEPT !.album = Asked.album]
  <2>1. pc = "album" /\ ReadText("album", filled, "position")
    BY <1>15 DEF ReadAlbum, ReadText, Reads
  <2>2. CASE Fails
    BY <1>4, <1>5, <2>1, <2>2 DEF ReadText, Reads, Finish, Continue, Report
  <2>3. CASE ~Fails
    <3>1. Asked.album \in Albums  BY <1>12, <2>1, <2>3, TrackFacts
    <3>2. /\ filled \in Infos /\ filled.album = Asked.album
          /\ filled.name = info.name /\ filled.artist = info.artist
      BY <1>2, <3>1 DEF Infos
    <3> HIDE DEF filled
    <3>3. kind = "itunes" => SomeOf(filled, object)
      BY <1>11, <2>1, <2>3, <3>2 DEF SomeOf
    <3> QED  BY <1>10, <1>11, <2>1, <2>3, <3>2, <3>3
  <2> QED  BY <2>2, <2>3
\* All texts at once.
<1>16. ASSUME UNCHANGED kind, kind \notin {"itunes", "music"}, info' \in Infos,
              info'.name = track.name, info'.artist = track.artist, info'.album = track.album
       PROVE  TextInv'
  <2>1. AllOf(info', track)  BY <1>16 DEF AllOf
  <2> QED  BY <1>1, <1>16, <2>1 DEF TextInv
<1>17. CASE ReadMetadata
  <2>1. UNCHANGED kind /\ kind \notin {"itunes", "music"}
    BY <1>17 DEF ReadMetadata, Reads, InfoInv, PlaceInv
  <2>2. CASE Fails
    BY <1>4, <1>5, <1>17, <2>1, <2>2 DEF ReadMetadata, Finish, Continue, Report
  <2>3. CASE ~Fails
    <3>1. info' = ReadMetadataInto(info)
      BY <1>17, <2>3 DEF ReadMetadata, Continue, Report
    <3>2. /\ info' \in Infos /\ info'.name = track.name /\ info'.artist = track.artist
          /\ info'.album = track.album
      BY <1>1, <1>2, <3>1 DEF ReadMetadataInto, Infos
    <3> QED  BY <1>16, <2>1, <3>2
  <2> QED  BY <2>2, <2>3
<1>18. CASE ReadPosition
  <2>1. UNCHANGED kind /\ object' = Unknown  BY <1>18 DEF ReadPosition, Reads, Finish
  <2>2. CASE info' = NoInfo  BY <1>4, <2>1, <2>2
  <2>3. CASE info' = info  BY <1>5, <2>1, <2>3
  <2>4. CASE info' = [info EXCEPT !.time = Elapsed]
    <3>1. Elapsed \in Times  BY <1>1, AnyKind DEF Elapsed, Times, SourceKinds, SmtcKinds
    <3>2. /\ info' \in Infos /\ info'.name = info.name /\ info'.artist = info.artist
          /\ info'.album = info.album
      BY <1>2, <2>4, <3>1 DEF Infos
    <3> QED  BY <2>1, <3>2, KeepsTexts
  <2> QED  BY <1>18, <2>2, <2>3, <2>4 DEF ReadPosition, Finish, Report
<1>19. CASE RunAdapter
  <2>1. UNCHANGED kind /\ kind \notin {"itunes", "music"}
    BY <1>19 DEF RunAdapter, Reads, InfoInv, PlaceInv
  <2>2. CASE info' = NoInfo  BY <1>4, <2>1, <2>2
  <2>3. CASE info' = [ReadMetadataInto(NoInfo) EXCEPT !.state = state,
                                                      !.time = <<"stands", spot>>]
    <3>1. /\ ReadMetadataInto(NoInfo) \in Infos
          /\ ReadMetadataInto(NoInfo).name = track.name
          /\ ReadMetadataInto(NoInfo).artist = track.artist
          /\ ReadMetadataInto(NoInfo).album = track.album
      BY <1>1, <1>3 DEF ReadMetadataInto, Infos, NoInfo
    <3>2. <<"stands", spot>> \in Times  BY <1>1 DEF Times
    <3>3. /\ info' \in Infos /\ info'.name = track.name /\ info'.artist = track.artist
          /\ info'.album = track.album
      BY <1>1, <2>3, <3>1, <3>2 DEF Infos
    <3> QED  BY <1>16, <2>1, <3>3
  <2> QED  BY <1>19, <2>2, <2>3 DEF RunAdapter, Finish, Report
<1>20. CASE Judge
  BY <1>4, <1>5, <1>20 DEF Judge, Report, reader
<1>21. CASE Send  BY <1>4, <1>21 DEF Send, Report
<1>22. CASE PlayerMoves
  BY <1>5, <1>22 DEF PlayerMoves
<1>23. CASE \/ \E works \in BOOLEAN : TestAdapter(works)
            \/ GetArtworkUrl
            \/ \E found \in BOOLEAN : LookupAlbum(found)
            \/ \E found \in BOOLEAN : LookupSong(found)
            \/ \E found \in BOOLEAN : CoverArtArchiveFrontUrl(found)
            \/ FindReleaseIdByAlbum \/ FindReleaseIdByRecording
            \/ Seek \/ Falter \/ Tick \/ UNCHANGED vars
  <2>1. UNCHANGED <<kind, info, object>>
    BY <1>23
       DEF TestAdapter, GetArtworkUrl, LookupAlbum, LookupSong, CoverArtArchiveFrontUrl,
           FindReleaseIdByAlbum, FindReleaseIdByRecording, FindRelease, Seek, Falter, Tick,
           vars, reader
  <2> QED  BY <1>5, <2>1
<1> QED  BY StepCases, <1>6, <1>7, <1>8, <1>9, <1>13, <1>14, <1>15, <1>17, <1>18, <1>19,
            <1>20, <1>21, <1>22, <1>23

\* Where the worker goes, and what it holds there (GetCurrentTrack, GetArtworkUrl).
LEMMA StepPlace == ASSUME PlayerInv, InfoInv, [Next]_vars PROVE PlaceInv'
<1> USE DEF InfoInv, PlaceInv, Asking, Textless
<1>1. track \in Tracks /\ NoText(NoInfo)  BY DEF PlayerInv, NoText, NoInfo
<1>2. ASSUME UNCHANGED <<info, kind, pc>>, object' = object \/ object' = Unknown
      PROVE  PlaceInv'
  BY <1>2
<1>3. ASSUME UNCHANGED kind, pc' \in {"sleep", "judge"}, object' = object \/ object' = Unknown
      PROVE  PlaceInv'
  BY <1>3
<1>4. ASSUME UNCHANGED <<info, kind, object>>, pc \in Asking, pc' \in Asking,
             pc' \in {"byAlbum", "releaseByAlbum"} => info.album # Empty
      PROVE  PlaceInv'
  BY <1>4
<1>5. CASE FindPlayer
  <2>1. UNCHANGED object /\ NoText(info')  BY <1>1, <1>5, FindPlayerFacts DEF reader
  <2> QED  BY <1>5, <2>1, FindPlayerFacts
<1>6. CASE Activate  BY <1>1, <1>6 DEF Activate, Finish, Report, GoTo
<1>7. CASE ReadState
  <2>1. UNCHANGED kind /\ pc = "state"  BY <1>7 DEF ReadState, Reads
  <2>2. CASE Finish(NoInfo)  BY <1>3, <2>1, <2>2 DEF Finish, Report, GoTo
  <2>3. CASE Continue([NoInfo EXCEPT !.state = state],
                      CASE kind = "itunes" -> "track" [] kind = "music" -> "name"
                        [] OTHER -> "metadata")
    <3>1. UNCHANGED object /\ info' = [NoInfo EXCEPT !.state = state]
      BY <2>3 DEF Continue, Report
    <3>2. NoText(info')  BY <3>1 DEF NoText, NoInfo
    <3>3. \/ kind = "itunes" /\ pc' = "track"
          \/ kind = "music" /\ pc' = "name"
          \/ kind \notin {"itunes", "music"} /\ pc' = "metadata"
      BY <2>3 DEF Continue, Report, GoTo
    <3> QED  BY <2>1, <3>1, <3>2, <3>3
  <2> QED  BY <1>7, <2>2, <2>3 DEF ReadState
<1>8. CASE ReadTrack
  <2>1. UNCHANGED kind /\ pc = "track"  BY <1>8 DEF ReadTrack, Reads
  <2>2. CASE Finish(NoInfo)  BY <1>3, <2>1, <2>2 DEF Finish, Report, GoTo
  <2>3. CASE Report(info, "name") /\ object' = track
    BY <1>1, <1>8, <2>1, <2>3 DEF Report, GoTo
  <2> QED  BY <1>8, <2>2, <2>3 DEF ReadTrack
<1>9. ASSUME NEW here \in {"name", "artist", "album"}, NEW filled,
             NEW next \in {"artist", "album", "position"}, ReadText(here, filled, next)
      PROVE  PlaceInv'
  <2>1. UNCHANGED kind /\ pc = here  BY <1>9 DEF ReadText, Reads
  <2>2. CASE Finish(NoInfo)  BY <1>3, <2>1, <2>2 DEF Finish, Report, GoTo
  <2>3. CASE Continue(filled, next) \/ Continue(info, next)
    <3>1. UNCHANGED object /\ pc' = next  BY <2>3 DEF Continue, Report, GoTo
    <3> QED  BY <1>9, <2>1, <3>1
  <2> QED  BY <1>9, <2>2, <2>3 DEF ReadText
<1>10. CASE ReadName \/ ReadArtist \/ ReadAlbum
  <2>1. CASE ReadName  BY <1>9, <2>1 DEF ReadName
  <2>2. CASE ReadArtist  BY <1>9, <2>2 DEF ReadArtist
  <2>3. CASE ReadAlbum  BY <1>9, <2>3 DEF ReadAlbum
  <2> QED  BY <1>10, <2>1, <2>2, <2>3
<1>11. CASE ReadMetadata
  <2>1. UNCHANGED kind /\ pc' \in {"judge", "position"} /\ (object' = object \/ object' = Unknown)
    BY <1>11 DEF ReadMetadata, Reads, Finish, Continue, Report, GoTo
  <2> QED  BY <2>1
<1>12. CASE ReadPosition \/ RunAdapter
  <2>1. UNCHANGED kind  BY <1>12 DEF ReadPosition, RunAdapter, Reads
  <2>2. pc' = "judge" /\ object' = Unknown
    BY <1>12 DEF ReadPosition, RunAdapter, Finish, Report, GoTo
  <2> QED  BY <2>1, <2>2
<1>13. ASSUME NEW works \in BOOLEAN, TestAdapter(works) PROVE PlaceInv'
  BY <1>13 DEF TestAdapter, GoTo
<1>14. CASE Judge
  BY <1>3, <1>14 DEF Judge, Report, GoTo, reader
<1>15. CASE Send  BY <1>3, <1>15 DEF Send, Report, GoTo, reader
<1>16. CASE GetArtworkUrl
  BY <1>4, <1>16 DEF GetArtworkUrl, NoData, GoTo, reader
<1>17. ASSUME NEW found \in BOOLEAN, LookupAlbum(found) PROVE PlaceInv'
  BY <1>4, <1>17 DEF LookupAlbum, Settle, NoData, GoTo, reader
<1>18. ASSUME NEW found \in BOOLEAN, LookupSong(found) PROVE PlaceInv'
  BY <1>4, <1>18 DEF LookupSong, Settle, NoData, GoTo, reader
<1>19. ASSUME NEW found \in BOOLEAN, CoverArtArchiveFrontUrl(found) PROVE PlaceInv'
  BY <1>4, <1>19 DEF CoverArtArchiveFrontUrl, Settle, GoTo, reader
<1>20. CASE FindReleaseIdByAlbum \/ FindReleaseIdByRecording
  BY <1>4, <1>20
     DEF FindReleaseIdByAlbum, FindReleaseIdByRecording, FindRelease, Settle, NoData, GoTo,
         reader
<1>21. CASE PlayerMoves  BY <1>2, <1>21 DEF PlayerMoves
<1>22. CASE Seek \/ Falter \/ Tick \/ UNCHANGED vars
  BY <1>2, <1>22 DEF Seek, Falter, Tick, vars, reader
<1> QED  BY StepCases, <1>5, <1>6, <1>7, <1>8, <1>10, <1>11, <1>12, <1>13, <1>14, <1>15,
            <1>16, <1>17, <1>18, <1>19, <1>20, <1>21, <1>22

\* The reading stays as it is while a cover is looked for, so what is settled on fits
\* it, and is remembered under the key that fits it (GetArtworkUrl).
LEMMA StepArt == ASSUME PlayerInv, InfoInv, ArtInv, [Next]_vars PROVE ArtInv'
<1> USE DEF ArtInv
<1>1. Reading(info) \in Readings /\ NoArt \in ArtFor(info) /\ NoArt \in Arts
  BY InfoReading, CoverFacts DEF InfoInv, TextInv
<1>2. /\ Key(Reading(info)) = Key(info) /\ ArtFor(Reading(info)) = ArtFor(info)
      /\ Art("song", info) \in ArtFor(info)
      /\ info.album # Empty => Art("album", info) \in ArtFor(info)
      /\ ArtFor(info) \subseteq Arts
      /\ \A c \in ArtFor(info) : Fits(c, info)
  BY <1>1, CoverFacts
<1>3. ASSUME NEW answer \in ArtFor(info), Settle(answer), UNCHANGED info, pc # "send",
             release \in Arts
      PROVE  ArtInv'
  <2>1. pc' = "send" /\ art' = answer /\ UNCHANGED release /\ Remember(answer)
    BY <1>3 DEF Settle, GoTo
  <2>2. /\ DOMAIN cache' = DOMAIN cache \cup {Key(info)}
        /\ \A k \in DOMAIN cache' : cache'[k] = IF k = Key(info) THEN answer ELSE cache[k]
    BY <2>1 DEF Remember
  <2>3. \A k \in DOMAIN cache' : \E j \in Readings : Key(j) = k /\ cache'[k] \in ArtFor(j)
    BY <1>1, <1>2, <1>3, <2>2
  <2>4. Fits(art', info')
    <3>1. Fits(answer, info)  BY <1>2, <1>3
    <3> QED  BY <1>3, <2>1, <3>1
  <2> QED  BY <1>3, <2>1, <2>3, <2>4
<1>4. ASSUME UNCHANGED lookup, pc' \notin {"send", "cover"}, pc # "send"
      PROVE  ArtInv'
  <2>1. release \in Arts  BY <1>2
  <2> QED  BY <1>4, <2>1 DEF lookup
<1>5. ASSUME UNCHANGED <<lookup, info, pc>> PROVE ArtInv'
  BY <1>5 DEF lookup, Fits
<1>6. CASE FindPlayer
  <2>1. UNCHANGED lookup /\ pc = "sleep" /\ pc' \notin {"send", "cover"}
    BY <1>6, FindPlayerFacts
  <2> QED  BY <1>4, <2>1
<1>7. CASE Activate \/ ReadState \/ ReadTrack \/ ReadMetadata \/ ReadPosition \/ RunAdapter
  <2>1. UNCHANGED lookup /\ pc \notin {"send", "cover"}
    BY <1>7 DEF Activate, ReadState, ReadTrack, ReadMetadata, ReadPosition, RunAdapter, Reads
  <2>2. pc' \notin {"send", "cover"}
    BY <1>7
       DEF Activate, ReadState, ReadTrack, ReadMetadata, ReadPosition, RunAdapter, Finish,
           Continue, Report, GoTo
  <2> QED  BY <1>4, <2>1, <2>2
<1>8. ASSUME NEW here \in {"name", "artist", "album"}, NEW filled,
             NEW next \in {"artist", "album", "position"}, ReadText(here, filled, next)
      PROVE  ArtInv'
  <2>1. UNCHANGED lookup /\ pc = here  BY <1>8 DEF ReadText, Reads
  <2>2. pc' \in {next, "judge"}
    BY <1>8 DEF ReadText, Finish, Continue, Report, GoTo
  <2> QED  BY <1>4, <1>8, <2>1, <2>2
<1>9. CASE ReadName \/ ReadArtist \/ ReadAlbum
  <2>1. CASE ReadName  BY <1>8, <2>1 DEF ReadName
  <2>2. CASE ReadArtist  BY <1>8, <2>2 DEF ReadArtist
  <2>3. CASE ReadAlbum  BY <1>8, <2>3 DEF ReadAlbum
  <2> QED  BY <1>9, <2>1, <2>2, <2>3
<1>10. ASSUME NEW works \in BOOLEAN, TestAdapter(works) PROVE ArtInv'
  <2>1. UNCHANGED lookup /\ pc = "test" /\ pc' \in {"run", "judge"}
    BY <1>10 DEF TestAdapter, GoTo
  <2> QED  BY <1>4, <2>1
<1>11. CASE Judge
  <2>1. UNCHANGED lookup /\ pc = "judge"  BY <1>11 DEF Judge
  <2>2. CASE pc' # "send"
    <3>1. pc' # "cover"  BY <1>11, <2>2 DEF Judge, Report, GoTo
    <3> QED  BY <1>4, <2>1, <2>2, <3>1
  <2>3. CASE pc' = "send"
    <3>1. info' = info  BY <1>11, <2>3 DEF Judge, Report, GoTo
    <3>2. Fits(NoArt, info)  BY <1>1, <1>2
    <3>3. Fits(NoArt, info')  BY <3>1, <3>2
    <3>4. art' = NoArt /\ release' = release /\ cache' = cache /\ release \in Arts
      BY <1>2, <2>1 DEF lookup
    <3> QED  BY <2>3, <3>3, <3>4
  <2> QED  BY <2>2, <2>3
<1>12. CASE Send
  <2>1. art' = NoArt /\ release' = NoArt /\ UNCHANGED cache /\ pc' = "sleep"
    BY <1>12 DEF Send, Report, GoTo
  <2> QED  BY <1>1, <2>1
<1>13. CASE GetArtworkUrl
  <2>1. pc = "art" /\ UNCHANGED info  BY <1>13 DEF GetArtworkUrl
  <2>2. CASE Key(info) \in DOMAIN cache
    <3>1. art' = cache[Key(info)] /\ pc' = "send" /\ UNCHANGED <<release, cache>>
      BY <1>13, <2>2 DEF GetArtworkUrl, GoTo
    <3>2. Fits(art', info)  BY <2>2, <3>1 DEF Fits
    <3>3. Fits(art', info')  BY <2>1, <3>2
    <3> QED  BY <2>1, <3>1, <3>3
  <2>3. CASE Key(info) \notin DOMAIN cache
    BY <1>4, <1>13, <2>1, <2>3 DEF GetArtworkUrl, NoData, GoTo
  <2> QED  BY <2>2, <2>3
<1>14. ASSUME NEW found \in BOOLEAN, LookupAlbum(found) PROVE ArtInv'
  <2>1. pc = "byAlbum" /\ UNCHANGED info /\ release \in Arts /\ info.album # Empty
    BY <1>14 DEF LookupAlbum, InfoInv, PlaceInv
  <2>2. CASE found
    BY <1>2, <1>3, <1>14, <2>1, <2>2 DEF LookupAlbum
  <2>3. CASE ~found
    BY <1>4, <1>14, <2>1, <2>3 DEF LookupAlbum, NoData, GoTo
  <2> QED  BY <2>2, <2>3
<1>15. ASSUME NEW found \in BOOLEAN, LookupSong(found) PROVE ArtInv'
  <2>1. pc = "bySong" /\ UNCHANGED info /\ release \in Arts  BY <1>15 DEF LookupSong
  <2>2. CASE found
    BY <1>2, <1>3, <1>15, <2>1, <2>2 DEF LookupSong
  <2>3. CASE ~found
    BY <1>4, <1>15, <2>1, <2>3 DEF LookupSong, NoData, GoTo
  <2> QED  BY <2>2, <2>3
<1>16. ASSUME NEW found \in BOOLEAN, CoverArtArchiveFrontUrl(found) PROVE ArtInv'
  <2>1. pc = "cover" /\ UNCHANGED info /\ release \in ArtFor(info)
    BY <1>16 DEF CoverArtArchiveFrontUrl
  <2>2. release \in Arts  BY <1>2, <2>1
  <2>3. CASE found  BY <1>3, <1>16, <2>1, <2>2, <2>3 DEF CoverArtArchiveFrontUrl
  <2>4. CASE ~found  BY <1>1, <1>3, <1>16, <2>1, <2>2, <2>4 DEF CoverArtArchiveFrontUrl
  <2> QED  BY <2>3, <2>4
<1>17. ASSUME NEW by \in {"album", "song"}, release' = Art(by, info), GoTo("cover"),
              UNCHANGED <<art, cache, info>>, pc # "send",
              by = "album" => info.album # Empty
       PROVE  ArtInv'
  <2>1. release' \in ArtFor(info)  BY <1>2, <1>17
  <2>2. release' \in ArtFor(info')  BY <1>17, <2>1
  <2> QED  BY <1>17, <2>2 DEF GoTo
<1>18. CASE FindReleaseIdByAlbum
  <2>1. pc = "releaseByAlbum" /\ UNCHANGED info /\ info.album # Empty
    BY <1>18 DEF FindReleaseIdByAlbum, FindRelease, InfoInv, PlaceInv
  <2>2. CASE NoData("releaseByRecording")
    BY <1>4, <2>1, <2>2 DEF NoData, GoTo
  <2>3. CASE release' = Art("album", info) /\ GoTo("cover") /\ UNCHANGED <<art, cache>>
    BY <1>17, <2>1, <2>3
  <2> QED  BY <1>18, <2>2, <2>3 DEF FindReleaseIdByAlbum, FindRelease
<1>19. CASE FindReleaseIdByRecording
  <2>1. pc = "releaseByRecording" /\ UNCHANGED info /\ release \in Arts
    BY <1>19 DEF FindReleaseIdByRecording, FindRelease
  <2>2. CASE Settle(NoArt)  BY <1>1, <1>3, <2>1, <2>2
  <2>3. CASE release' = Art("song", info) /\ GoTo("cover") /\ UNCHANGED <<art, cache>>
    BY <1>17, <2>1, <2>3
  <2> QED  BY <1>19, <2>2, <2>3 DEF FindReleaseIdByRecording, FindRelease
<1>20. CASE PlayerMoves \/ Seek \/ Falter \/ Tick \/ UNCHANGED vars
  BY <1>5, <1>20 DEF PlayerMoves, Seek, Falter, Tick, vars
<1> QED  BY StepCases, <1>6, <1>7, <1>9, <1>10, <1>11, <1>12, <1>13, <1>14, <1>15, <1>16,
            <1>18, <1>19, <1>20

\* Only Send shows something, and what it shows is the reading with its cover.
LEMMA StepShown == ASSUME PlayerInv, InfoInv, ArtInv, ShownInv, [Next]_vars PROVE ShownInv'
<1>1. CASE Send
  <2> DEFINE picture == IF mode = "Auto" THEN art ELSE NoArt
  <2>1. pc = "send" /\ UNCHANGED kind /\ info \in Infos /\ info.name # Empty
    BY <1>1 DEF Send, InfoInv, TextInv, PlaceInv, Asking
  <2>2. Reading(info) \in Readings  BY <2>1, InfoReading
  <2>3. Fits(picture, info) /\ picture \in Arts
    <3>1. Fits(NoArt, info)  BY <2>2, CoverFacts
    <3>2. Fits(art, info)  BY <2>1 DEF ArtInv
    <3> QED  BY <3>1, <3>2, FitsIsCover
  <2>4. shown' = Activity(info, picture)  BY <1>1 DEF Send
  <2> HIDE DEF picture
  <2>5. /\ shown'.name = info.name /\ shown'.artist = info.artist
        /\ shown'.album = info.album /\ shown'.art = picture
    BY <2>4 DEF Activity
  <2>6. ArtFor(shown') = ArtFor(info)  BY <2>5 DEF ArtFor, Art
  <2>7. info.name \in Names  BY <2>1 DEF Infos
  <2>8. \/ HasBar(shown'.name) \/ HasBar(shown'.artist) \/ HasBar(shown'.album)
        \/ shown'.art \in ArtFor(shown')
    BY <2>2, <2>3, <2>5, <2>6, OwnCover
  <2>9. ASSUME kind # "music"
        PROVE  \E t \in Tracks :
                  /\ shown'.name = t.name
                  /\ shown'.artist = t.artist \/ (kind = "itunes" /\ shown'.artist = Empty)
                  /\ shown'.album = t.album \/ (kind = "itunes" /\ shown'.album = Empty)
    <3>1. CASE kind = "itunes"
      <4>1. PICK t \in Tracks : SomeOf(info, t)  BY <3>1 DEF InfoInv, TextInv
      <4> QED  BY <2>1, <2>5, <3>1, <4>1 DEF SomeOf
    <3>2. CASE kind # "itunes"
      <4>1. PICK t \in Tracks : AllOf(info, t)
        BY <2>1, <2>9, <3>2 DEF InfoInv, TextInv, NoText
      <4> QED  BY <2>5, <4>1 DEF AllOf
    <3> QED  BY <3>1, <3>2
  <2>10. OneTrackIsShown'  BY <2>1, <2>8, <2>9 DEF OneTrackIsShown
  <2> QED  BY <2>1, <2>3, <2>5, <2>7, <2>10 DEF ShownInv
<1>2. CASE shown' = Dark  BY <1>2 DEF ShownInv, OneTrackIsShown
<1>3. CASE UNCHANGED <<shown, kind>>  BY <1>3 DEF ShownInv, OneTrackIsShown
<1>4. CASE ~Send
  <2>1. shown' = Dark \/ UNCHANGED shown
    BY <1>4, StepCases
       DEF FindPlayer, Activate, ReadState, ReadTrack, ReadName, ReadArtist, ReadAlbum,
           ReadText, ReadMetadata, ReadPosition, RunAdapter, TestAdapter, Reads,
           Judge, GetArtworkUrl, LookupAlbum, LookupSong, CoverArtArchiveFrontUrl,
           FindReleaseIdByAlbum, FindReleaseIdByRecording, FindRelease, PlayerMoves, Seek,
           Falter, Tick, engine, vars
  <2>2. UNCHANGED kind
    BY <1>4, StepCases
       DEF FindPlayer, Activate, ReadState, ReadTrack, ReadName, ReadArtist, ReadAlbum,
           ReadText, ReadMetadata, ReadPosition, RunAdapter, TestAdapter, Reads,
           Judge, GetArtworkUrl, LookupAlbum, LookupSong, CoverArtArchiveFrontUrl,
           FindReleaseIdByAlbum, FindReleaseIdByRecording, FindRelease, PlayerMoves, Seek,
           Falter, Tick, vars
  <2> QED  BY <1>2, <1>3, <2>1, <2>2
<1> QED  BY <1>1, <1>4

LEMMA InitIInv == Init => IInv
<1> SUFFICES ASSUME Init PROVE IInv
  OBVIOUS
<1>1. PICK setup \in Setups : kind = setup[1] /\ mode = setup[2]  BY DEF Init
<1>2. <<kind, mode>> \in Setups  BY <1>1, NowPlayingAssumption
<1>3. PlayerInv
  <2>1. sentAge \in 0 .. RefreshTicks  BY NowPlayingAssumption DEF Init
  <2> QED  BY <1>2, <2>1 DEF Init, PlayerInv, States
<1>4. NoText(info) /\ info \in Infos  BY DEF Init, NoInfo, NoText, Infos, States, Times
<1>5. TextInv  BY <1>3, <1>4 DEF Init, PlayerInv, TextInv, SomeOf, NoText
<1>6. PlaceInv  BY <1>4 DEF Init, PlaceInv, Asking, Textless
<1>7. NoArt \in Arts  BY <1>4, InfoReading, CoverFacts
<1>8. ArtInv  BY <1>7 DEF Init, ArtInv
<1>9. ShownInv  BY DEF Init, ShownInv, OneTrackIsShown
<1> QED  BY <1>3, <1>5, <1>6, <1>8, <1>9 DEF IInv, InfoInv

LEMMA Invariance == Spec => []IInv
<1>1. IInv /\ [Next]_vars => IInv'
  BY StepPlayer, StepText, StepPlace, StepArt, StepShown DEF IInv, InfoInv
<1> QED  BY InitIInv, <1>1, PTL DEF Spec

\* Every variable has its type; an activity has a name (TrackInfo, _lastSignature).
THEOREM TypeCorrect == Spec => []TypeOK
<1>1. IInv => TypeOK
  <2> SUFFICES ASSUME IInv PROVE TypeOK
    OBVIOUS
  <2>1. info \in Infos /\ object \in Tracks \cup {Unknown, "iTunes"}
    BY DEF IInv, InfoInv, TextInv, PlaceInv
  <2>2. NoArt \in Arts /\ ArtFor(info) \subseteq Arts  BY <2>1, InfoReading, CoverFacts
  <2>3. \A k \in DOMAIN cache : cache[k] \in Arts  BY DEF IInv, ArtInv, Arts
  <2>4. art \in Arts /\ release \in Arts
    BY <2>2, FitsIsCover DEF IInv, ArtInv
  <2> QED  BY <2>1, <2>3, <2>4 DEF IInv, PlayerInv, ShownInv, TypeOK
<1> QED  BY Invariance, <1>1, PTL

\* What is shown is of one track, but for Music, and iTunes may leave texts out; the
\* cover is its own, also when it comes out of the cache, unless a text holds a bar
\* (GetCurrentTrack of the sources, GetArtworkUrl).
THEOREM NoMixtureIsShown == Spec => []OneTrackIsShown
<1>1. IInv => OneTrackIsShown  BY DEF IInv, ShownInv
<1> QED  BY Invariance, <1>1, PTL
=============================================================================
