# FeatherRPC in TLA+

FeatherRPC is a small desktop program that reads what a media player plays and
shows it as a Discord activity. This directory holds TLA+ models of the parts of
it in which order, concurrency and failure matter, the TLC configurations that
check them, and TLAPS proofs. Paths below are relative to `src/native/src`
unless they start with `docs/`.

To repeat a check: `tlc -config PresenceSafety.cfg MCPresenceEngine.tla`, and so
on for the table of runs; to repeat a proof: `tlapm PresenceEngineProofs.tla`.

## 1. The system

### Components, state, operations

| Part | State | Operations | What makes it correct |
|---|---|---|---|
| **Presence engine** `core/PresenceEngine.cpp` | `_config`, pending source, `_status`, three atomic flags, a wake flag under its own mutex; the worker's client, signature and time of the last send | worker: `RunLoop`, `InterruptibleSleep`; UI thread: `Start`, `UpdateConfig`, `Stop` | Discord shows what plays with the current settings; nothing stays up when nothing should; `Stop` returns |
| **Discord IPC client** `core/DiscordIpcClient.cpp`, both transports | one connection, a nonce | `Connect` over ten endpoints, `SetActivity`, `ClearActivity`, `Disconnect` | an answer belongs to its request; no connection is forgotten; a call returns |
| **Process lifecycle** `platform/linux/main_linux.cpp`, `platform/posix/DaemonSignal.cpp` | flock on the lock file, pidfile, signal mask, handlers | launch, run, reload, quit, clean-up, crash | one instance; the pidfile names it; signals reach it and do not kill it |
| **Command-line tool** `cli/CliDispatch.cpp`, `platform/linux/main_linux_cli.cpp` | none but the files | `set` commands, `tray`, `daemon start/stop/restart`, `status` | what it prints is true; edits survive |
| **Settings file** `core/AppConfig.cpp` | `config.json` | `LoadConfig`, `SaveConfig` | the copies agree with the file |
| **Linux tray** `platform/linux/SniTray.cpp`, `TextPrompt.cpp` | `config_`, a menu tree with ids and a revision, D-Bus registrations, idle callbacks, signal sources | D-Bus method calls, menu commands, prompts, status updates, reload, quit | a click does what was shown; the desktop ends up with the current menu and status |
| **Windows tray** `platform/windows/TrayIcon.cpp`, `main.cpp` | window, nested loops, message queue, list of media sources with a refresh thread | clicks, menu commands, prompts, refresh, statuses, shell restarts, exit | the menu is current, edits are saved and applied, the icon tells the status, exit ends |
| **Media sources** (MPRIS, SMTC, iTunes, Music, MediaRemote) | player connections | `GetCurrentTrack`, call by call | one consistent track |
| **Album art** (`CurlAlbumArtLookup.cpp` and its relatives) | a cache per process | five requests in order, first hit wins | the cover is of what is shown, and the cache remembers it as such |
| **Log and crash ring** `core/Log.cpp`, `core/CrashRing.*`, `platform/*/CrashHandler.cpp` | file and backups, size, ring of lines, report | append, rotate, dump | no gap in the log; a crash report is of the crash |
| **Clipboard on Linux** `platform/linux/Clipboard.cpp` | a child process, its pipe, a timer | try one command after another, then a file | every click ends; a timeout ends with its command |
| **Status file** `cli/StatusFile.cpp` | a file written by the worker | write, read | a reader sees a status that was true |
| **macOS application** | as on Linux, with the system's frameworks | as on Linux | as on Linux |
| Autostart, diagnostic report, platform helpers | files or none | one system call sequence each | no protocol |

### How the parts interact

The tray, or the headless loop, runs on the main thread and owns the engine. The
engine's worker thread polls a media source and calls the IPC client. The two
threads share the settings and the pending source (under `_mutex`), the wake
flag (under `_wakeMutex`) and atomics. Tray menu edits and reloads go through
`applyConfig` (`main_linux.cpp:165-176`, `main.cpp:225-236`): save, make a new
media source if its id changed, `UpdateConfig`. The engine's status goes back to
the tray as an idle callback (Linux) or a posted message (Windows). On Linux the
menu is displayed by another process, the desktop, which asks for layouts and
sends clicks over D-Bus; on Windows the UI thread runs the menu itself and lists
the media sessions on a third thread. The command-line tool is another process:
it finds the instance through the pidfile, edits `config.json` by itself, and
sends SIGHUP (reload) or SIGTERM (quit). The lock file is what makes an instance
the only one. Nothing locks `config.json`, and nothing locks the log, which a
refused launch also writes to.

### What is hard

* **Threads**: the worker copies the settings in one step and takes the
  reconnect and resend requests in others; `Stop` notifies without the mutex of
  the condition it notifies; `Stop`'s last clear must come after the last send;
  on Windows the refresh thread, the worker and nested loops of the UI thread
  meet in one message queue; threads log and crash while others do.
* **Failure**: Discord quits and restarts between any two steps, and the old
  connection looks open until it is used; reads have no timeout; processes crash
  at any point and leave their pidfile, a half rotated log, an icon; the shell
  restarts; a clipboard tool dies with its pipe unread.
* **Messages**: D-Bus calls, replies and signals cross each other while the menu
  is built anew; statuses are applied later than they were posted.
* **Processes**: launches race each other, a clean-up and the tool; a process is
  known to the tool before it can handle the tool's signals, and after.
* **Files**: load-edit-save cycles of several processes overlap and a save is a
  truncation followed by a write.
* **Readings**: a track is put together from several calls while the player moves
  on, and what has changed is judged by part of it.

PROJECT.json lists each hazard at its line, with the properties that cover it or
the reason why none does.

## 2. The modules

| Module | Models | Uses |
|---|---|---|
| `PresenceEngine` | worker, UI thread, player, Discord at the level of calls | |
| `MCPresenceEngine` | its instances for TLC | EXTENDS `PresenceEngine` |
| `DiscordLink` | abstract: what a call of the IPC client promises | |
| `DiscordIpc` | endpoints, sockets, frames, handshakes, answers | INSTANCE `DiscordLink` |
| `Sleeper` | abstract: what a sleep promises | |
| `WakeSleep` | mutex and condition variable below `InterruptibleSleep` | INSTANCE `Sleeper` |
| `NowPlaying` | one poll: five media sources, the art lookup, the decision to send | |
| `MCNowPlaying` | its instance for TLC | EXTENDS `NowPlaying` |
| `InstanceLifecycle` | Linux processes, lock, pidfile, signals, the tool | |
| `ConfigReload` | the four copies of the settings | |
| `TrayMenu` | the Linux tray's menu and tooltip, the bus, the desktop | |
| `WindowsTray` | UI thread, refresh thread, statuses, shell | |
| `Clipboard` | the chain of clipboard tools | |
| `CrashLog` | log, rotation, ring, crash handler | |
| `PresenceEngineProofs`, `DiscordIpcProofs`, `InstanceLifecycleProofs`, `ConfigReloadProofs`, `TrayMenuProofs`, `WindowsTrayProofs` | theorems | EXTENDS the module of the name |
| `WorkerProofs` | theorems about the sleep and one poll | EXTENDS `WakeSleep`, `NowPlaying` |
| `DiagnosticsProofs` | theorems about the crash report, the log and the clipboard | EXTENDS `CrashLog`, `Clipboard` |

Operators whose names start with `Mutant` are not part of a model. Each is the
definition after it with a plausible bug; a property is kept only if putting one
of them in its place makes TLC find the property violated.

Two modules of proofs extend two models each, so the names in the smaller model
of each pair say whose they are: `SleepInit`, `SleepNext`, `SleepSpec` and
`SleepTypeOK` in `WakeSleep`, `ClipInit`, `ClipNext`, `ClipSpec` and `ClipTypeOK`
in `Clipboard`; the others are `Init`, `Next`, `Spec`, `TypeOK` everywhere.

### How the modules fit together

`PresenceEngine` is the centre. What it takes as one step is opened up by the
others: its `Sleep` by `WakeSleep`, which is shown to implement `Sleeper`; its
calls of the client by `DiscordIpc`, shown to implement `DiscordLink`; its
atomic `GetCurrentTrack` and its opaque look by `NowPlaying`. What calls
`UpdateConfig` and `Stop` is opened up by the trays (`TrayMenu`, `WindowsTray`),
`ConfigReload` and `InstanceLifecycle`. The last two share the signals: one has
all about who gets them and lives, the other what a reload does to the settings.

### PresenceEngine

`pc` is the worker's place in one iteration of `RunLoop`; one action is one
access to shared state or one blocking call:

| Action | Code in `core/PresenceEngine.cpp` |
|---|---|
| `PickUpConfig` | the loop condition and the critical section that copies `_config` and adopts the pending source, 90-98 |
| `WaitForClientId`, `Reconnect` | placeholder id, 100-104; `_reconnectRequested.exchange` and the new client, 106-112 |
| `Disable` | broadcasting off: clear, 114-121 |
| `GetCurrentTrack`, `ClearIdle` | the poll, 123-125; nothing plays: clear, 125-137 |
| `Decide`, `ConsumeForce`, `Send` | 147-155; the separate store to `_forceResend`, 156; lookup and send, 158-198 |
| `Sleep` | `InterruptibleSleep`, 82-87, which may return at any time |
| `UpdateConfig`, `RequestResend`, `RequestWake` | `UpdateConfig`'s two critical sections and the store between them, 42-65, after the part of `applyConfig` that decides whether there is a new source |
| `Stop`, `Join`, `Withdraw` | 29-40 |

The connection is `open` (our side), `alive` (Discord's side still there),
`discordUp` (somebody accepts connections), `shown` (what Discord displays for
it). A broken connection is `open /\ ~alive`: only a use of it finds out.
`SetActivity` reconnects, `ClearActivity` does not. A track is its signature
(name, artist, state); everything else that goes into an activity and depends on
the settings is its `look`. `sentAge` is the age of the last send in ticks, and
sticks at `RefreshTicks`.

### DiscordIpc and DiscordLink

`pc` is the place inside a call: `connect` (the loop over the endpoints), `hello`
and `welcome` (the handshake), `write` and `read` (`TrySend`). A socket has two
ends, the frames under way in both directions, and what Discord shows for it; a
Discord that reads the end of file does so late (`SeeClose`). A frame is answered
by one frame, which may be longer than `kMaxFrameSize`; a handshake may be
refused with a frame and a close. Reads wait for a frame or an end of file and
for nothing else. `got` is the nonce of the frame a call took for its answer; the
code does not look at it, the property does. `PipeKills` says whether a write to
a closed connection ends the process (POSIX, SIGPIPE not ignored) or fails.
`DiscordLink` is the promise: a call that returns true was carried out, one that
returns false leaves no connection behind, `ClearActivity` never connects. Under
the refinement mapping `done` decides between "called" and "applied".

### WakeSleep and Sleeper

`WakeSleep` opens `Sleep` up: the two loads of the predicate are steps of their
own, blocking releases the mutex and joins the wait set atomically, a wakeup
needs the mutex again, spurious wakeups and the deadline happen at any time.
`Sleeper` says what a caller relies on: a sleep may return at any time, takes
the request with it, and a request ends it. `ImplementsSleeper` is the
refinement, under the mapping that calls the worker asleep from its first
attempt on the mutex to the clearing of the flag.

### NowPlaying

`kind` is the media source; the calls of `GetCurrentTrack` are steps between which
the player moves, seeks, quits or stops answering (`PlayerMoves`, `Seek`,
`Falter`). The sources differ in what one call reads and in what a failure does:

| Source | Steps after `FindPlayer` | A call that fails |
|---|---|---|
| MPRIS | `ReadState`, `ReadMetadata`, `ReadPosition` | of the state: no track; else what it reads stays empty |
| SMTC | the same, on the session that was found | an exception: no track |
| iTunes | `Activate`, `ReadState`, `ReadTrack`, `ReadName`, `ReadArtist`, `ReadAlbum`, `ReadPosition` | up to `ReadTrack`: no track; after that the one text, or the position, stays empty |
| Music | `Activate`, `ReadState`, `ReadName`, `ReadArtist`, `ReadAlbum`, `ReadPosition` | an exception: no track |
| MediaRemote | `TestAdapter` once (`adapter` is `_testedAdapter` and `_adapterWorks`), `RunAdapter` | no track; a failed test is kept for as long as the process lives |

`object` is what is held of iTunes, the application and then one track, to which
the later calls go; Music resolves its current track at every property (`Asked`).
When iTunes quits, what is held of it is void.

Texts are sequences of letters, because the code runs them together: `Key` and
`Signature` are concatenations around a `Bar`, as `CurlAlbumArtLookup.cpp:75` and
`PresenceEngine.cpp:147` have them. The lookup is the same code on the three
platforms but for the HTTP client; its five requests are steps that find something
or not, `cache` is `_cache`. `Judge` and `Send` are the engine's decision, with
the signature and the keepalive.

A "spot" is what the player says of its position, and the time of a reading is a
spot that "runs" or "stands". It runs while a track plays and its position is the
present one: then the start that is sent, the moment of the poll less the
position (`PresenceEngine.cpp:158`), is the same at every poll. It stands for a
paused track, for a session of SMTC without a duration
(`SmtcMediaSource.cpp:434-440`) and for MediaRemote, whose `elapsedTime` is taken
as it was last reported: then the start moves with every send.

### InstanceLifecycle

`pc[p]` follows `main()` of `main_linux.cpp` from exec to exit for every process
id; headless and tray instances share the ids of the positions and differ where
the code differs: a headless one blocks SIGHUP and SIGTERM before it writes the
pidfile and takes them with `sigwait`, a tray instance writes the pidfile, calls
the session bus in `Create`, and only then installs handlers
(`SniTray.cpp:353-359`), which it removes before `engine.Stop()`. `caught[p]`
are the signals that do not kill the process, `pending[p]` those that wait.
`lockRefs` and `helpers` are the processes, and the children they launched, that
have the locked description open. A tray in a text prompt (`OpenPrompt`,
`ClosePrompt`) reads the dialog's pipe on the main loop's thread
(`TextPrompt.cpp:34-49`) and dispatches no signal. Writing the pidfile is two steps (truncate,
write), removing it two (read and compare, remove). `cli` is the tool, one
command at a time; reading the pidfile and acting on what it said are two steps,
since anything can happen between them. `kill(pid, 0)` also succeeds for the
tool's own child that ended and was not waited for, as in the code. Process ids
are used once.

### ConfigReload

Four copies of the settings: the file, `engine._config`, the tray's `config_`,
and a tool's local `config`. `saving` is the argument of the `applyConfig` under
way. A save is two steps, `SaveTruncates` and `SaveWrites`; a load in between
gives the defaults, as `LoadConfig` does for text that does not parse. `wanted`
is a history variable: each setting as it was last set by anybody. The engine
and the process lifecycle appear only as far as settings go: an instance is off,
starting (loaded, not yet announced), idle, in a text prompt, or in
`applyConfig`. `hasty`, chosen once, says whether the user acts before the last
edit took effect (`AtRest`); one property is about both kinds of users and one
about the patient. `BeginAt` and `LaunchDuring` say where tools and launches may
meet. The bound `QueuedBegins` keeps `tray on/off`, which signal nobody, to
patient users at rest.

### TrayMenu

The main thread serves, one at a time, calls of the desktop (`Serve...`), clicks
of an Event or EventGroup (`Command...`), idle callbacks (`InitialMediaRefresh`,
`ApplyStatusUpdate`) and SIGHUP (`Reload`). `requests` and `answers` are the two
directions of the bus, each in order, crossing each other. `menuIndex` is the
tree by ids: three static items whose ids are their places and one item per
listed player, with an id from `nextMenuId`, which is never set back. The other
toggles, art modes and intervals behave as the modelled items do. The desktop
keeps widgets by id (`view`), asks before it opens the menu, fetches after
`LayoutUpdated` and after `NeedUpdate`, and clicks on what it keeps, however old;
it is external code, modelled from the calls `SniTray.cpp` serves. `shown` in a
click is what the widget said: a history field the tray does not read.

### WindowsTray

`stack` is what is open on the UI thread, innermost last: the popup menu, text
prompts, message boxes, the report; each runs a message loop, so messages are
served and the icon can be clicked under any of them. `queue` holds the messages
of the window. The refresh thread takes the request flag (`TakeRequest`), lists
the sessions (`GetAvailableSources`) and posts (`PostSources`). `asked`,
`listedAfter` and `freshAfter` are history: how many clicks had been handled when
a listing began, and when the applied one did. `polled` is the source the engine
was handed, `currentMediaSourceId` what `applyConfig` compares with. The shell
keeps an icon as long as it runs (`ExplorerEnds`, `ExplorerStarts`, which posts
TaskbarCreated).

### Clipboard

A click starts a chain: spawn a tool, write the text, wait for its exit, give up
after `kToolPatienceMs`, go on to the next, at last write a file. What GLib does
(the write, the exit, the broken pipe, cancellation) is external and modelled
from how `Clipboard.cpp` uses it; callbacks come in any order, and two clicks may
be under way. A `PendingCommand` is named by its click and the commands left.

### CrashLog

`Log::Write` is five steps per thread: reserve a slot, begin and end copying into
it, then under `s_mutex` the rotation, one file operation at a time, and the
append. The crash handler measures and copies slot by slot while others write.
`Kill` may come between any two steps; `Start` opens the files as they are.
`Refuse` is a launch that the instance lock refuses after it has logged. Files
are sequences of line numbers, so what matters, which lines are where, is all
they have.

## 3. The runs

| Run | Module, cfg | Shows |
|---|---|---|
| `presence_safety` | `MCPresenceEngine`, PresenceSafety | no activity the engine does not remember, dark at rest and after `Stop`, no sleep on stale settings, an honest status |
| `presence_liveness` | `MCPresenceEngine`, PresenceLiveness | `Stop` returns; left alone the engine mirrors the player |
| `ipc` | `DiscordIpc`, Ipc | an answer is to its own request, no connection is forgotten, calls return if Discord serves, refinement of `DiscordLink` |
| `wake` | `WakeSleep`, WakeSleep | no lost wakeup, refinement of `Sleeper`, `Stop` ends the sleep |
| `now_playing` | `MCNowPlaying`, NowPlaying | what is shown is of one track, cover included; mixtures, missing texts and late positions are put right in the end |
| `lifecycle` | `InstanceLifecycle`, Lifecycle | single instance, identity of the pidfile, clean exits, the tool's claims, SIGTERM answered |
| `config` | `ConfigReload`, Config | at rest all copies agree, however edits overlap; no live edit is lost for a user who waits |
| `tray_menu` | `TrayMenu`, TrayMenu | a click does what was shown, a revision identifies a menu, an open menu is not old, no update is lost |
| `windows_tray` | `WindowsTray`, WindowsTray | no refresh is lost, the open menu is current, edits are applied, the icon tells the status, Exit completes |
| `clipboard` | `Clipboard`, Clipboard | timeouts end with their command, the file is the last resort, every click ends |
| `crash_log` | `CrashLog`, CrashLog | a report is of the crash it reports, the log has no gap |
| `presence_find_newid` | `MCPresenceEngine`, PresenceFindNewId | violated: a statement of the documentation, see section 6 |

Thirteen more configurations, `*Find*.cfg`, are kept beside the runs; section 6
says what each finds.

`TypeOK` is checked by TLC where a run lists it (`presence_safety`, `lifecycle`)
and proved in section 5 for the engine, the sleep, one poll, the IPC client, the
lifecycle, the settings and the Windows tray; for the clipboard it is part of
the proved invariant, and for the Linux tray and the log the proofs have `Types`
and `LogTypes` in its place.

### Bounds and why they are enough

* **presence_safety**: two application ids and the placeholder, settings that
  differ from one base in the look, the id or broadcasting (and the placeholder
  with broadcasting on and off), two tracks, one source, a keepalive of one tick.
  Two of each tell "same" from "other", which is all the code tests. The age of a
  send is only compared with the interval, so one tick gives both outcomes. About
  3 million states.
* **presence_liveness**: two sources, one track, three settings. Which track
  plays does not matter for progress, whether it is the chosen source's does;
  with two sources and none playing or one playing, all cases of `Mirrored`
  occur. Changing the application id is left out because the code can lose it
  (`presence_find_newid`). About 740 000 states.
* **ipc**: two endpoints (a first one that fails and a next one), two sockets
  (one that Discord has yet to notice is closed and the one in use), two
  activities, nonces modulo 2 (an answer is the last call's or not). `PipeKills`
  is FALSE: the violation for TRUE is in section 6, and the proofs are for both.
  About 23 000 states.
* **wake**: one worker and one UI thread, as in the program; no bound at all.
* **now_playing**: every source with one art mode; the lookup does not depend on
  the source, so only MediaRemote's poll, the one with the fewest steps, has it
  too. Three tracks: two songs of one artist with and without an album, so that
  mixtures show and album, song and unknown keys differ, and one that shares its
  key with the second because both hold a bar. Two spots, so that a seek and a late
  report are a change. A keepalive of one tick. `Bounded`, a CONSTRAINT, bounds the
  player, which promises nothing: the third track is played where the lookup is,
  the second spot occurs where all texts are read at once and there is no lookup.
  About 720 000 states.
* **lifecycle**: two process ids, so two launches, one of which may be the tool's
  child; two looks of `waitUntil` (10 or 15 in the code: a look is either the
  last one or not); one helper or prompt per process. The properties quantify over pairs of
  processes, and section 5 proves them for any number. Ids run out, so the check
  for deadlock is off. About 81 000 states.
* **config**: two tools, two live settings, one of them also in the menu, a
  queued one, two values. An edit made through an overlap shows as a difference
  in one setting, so two settings tell an edit that is lost from one that is
  kept. Tools do not begin while an instance is "starting" and instances are not
  launched while a tool works: in both cases the tool finds no pidfile to signal
  (section 6). About 7.5 million states.
* **tray_menu**: two players, one of them listed at a time, three menus, two
  messages under way, groups of two events, one reload, one status. Old and new
  ids, a player gone and one come, a reload under an open menu, and messages that
  cross all occur. About 4.3 million states. It stops when the bounds are spent
  and when the tray has quit.
* **windows_tray**: two sessions, one of them listed at a time, two clicks on the
  icon (so that menus and prompts nest and a request meets a listing under way),
  one status, one restart of the shell, texts that are set or not. About 1.1
  million states.
* **clipboard**: two clicks, three tools, as in the code. About 22 000 states.
* **crash_log**: two threads, two slots, two backups, every line after the first
  rotates, three starts, four lines, one refused launch. A ring of two shows the
  overwritten and the surviving line; three starts give an old report, a new one
  and a rotation cut short twice. About 2.2 million states.

`CHECK_DEADLOCK FALSE` is used where a system really stops: a joined worker
(`wake`), ids, starts, messages or clicks that have run out, a program that has
ended.

### Fairness

* Engine: the worker takes its next step and the UI thread finishes the call it
  is in; the clock advances. That is weak fairness of `RunLoop`, of the steps
  inside `UpdateConfig` and `Stop`, and of `Tick`: the operating system runs
  threads, and blocking calls return, which `CallReturns` shows of a Discord that
  serves its connections. The user, the player and Discord promise nothing:
  `EventuallyMirrors` speaks of behaviours in which they stop acting.
* DiscordIpc: the worker runs (`WF_vars(Client)`). Discord promises nothing in
  `Spec`; `CallReturns` says `Served =>`, since reads have no timeout.
* WakeSleep: both threads run, and the mutex is not held from the worker for
  ever: strong fairness of `Lock` and `Relock`, since the UI thread holds it for
  one assignment per user action. The deadline is not assumed except inside
  `StopEndsSleep`, which says `WF_vars(Timeout) =>`.
* NowPlaying: the worker polls and the clock advances. Calls of MPRIS have a
  timeout (`kCallTimeoutMs`) and the requests of the lookup end after five seconds;
  no other call has one (`MediaRemoteSource.mm:47-48`, `SmtcMediaSource.cpp:418`,
  COM, Music), so while a player does not answer (`mute`) such a call may take for
  ever (`Waits`), and the fairness of the worker does not include it. The player
  promises nothing: `EventuallyAccurate` speaks of one that is left alone and
  answers, or of one that has quit.
* Lifecycle: each process goes on in `main()`, and the tool goes on. This assumes
  that `engine.Stop()` returns (shown by `presence_liveness`) and that a stream
  of SIGHUPs does not keep a pending SIGTERM from being taken for ever (`sigwait`
  and GLib take what is pending; the signals are not a queue). Users, crashes and
  helpers promise nothing: a user may leave a text prompt open for ever, and the
  tray does not answer SIGTERM until it is closed. `QuitIsAnswered` says so: a
  signal taken outside a prompt ends the instance or a prompt is opened first,
  and after the prompt the same holds again.
* WindowsTray: the refresh thread runs, the list of sessions arrives unless the
  UI thread is waiting for it in the join (a comment says it may then hang, and
  `ExitCompletes` has that exception), dialogs end with their owner and the UI
  thread goes on after the loop. Users, the engine and the shell promise nothing.
* Clipboard: the main loop runs its callbacks and time passes. Tools promise
  nothing: `wl-copy` never exits.
* ConfigReload, TrayMenu and CrashLog are checked for safety only.

## 4. The properties

Each is stated in words above its definition. The ones that carry most:

* `RemembersWhatIsShown` ties `_lastSignature`, the client object, the connection
  and Discord together: every path that stops broadcasting clears on the strength
  of the signature alone.
* `StaleCopyHasWake` is why a lost race on the settings is short: whoever runs on
  an old copy has a wake request waiting.
* `EventuallyMirrors` is the purpose of the program, and holds because the
  keepalive heals what single races lose.
* `AnswerIsOwn` is true although nobody compares nonces, because every failure
  closes the connection and a new one starts empty.
* `NoLostWakeup` is what setting the flag under the mutex buys. `StopEndsSleep`
  is what does not have that, and why it works nevertheless (the deadline).
* `OneTrackIsShown` says exactly what a reading can get wrong. The texts are of one
  track, however the player moves, fails or quits between two calls; iTunes may
  leave out artist and album; Music alone may mix, since its track can change
  between two properties. The cover is of what is shown unless a shown text holds
  a bar (section 6).
* `EventuallyAccurate` says that all of that heals, and so do late positions and
  seeks, by the keepalive alone. Where a time stands it is right at each send and
  counted on from there, so the property also says that it is sent again and again.
* `QuitIsAnswered` is about a signal that comes at any moment of the way through
  `main()`, with a prompt as the one place where it may wait for ever.
* `PidfileNamesRunner` and `CleanExitLeavesNoPidfile` need the clean-up, which
  compares and removes in two steps, to happen while the lock is held.
* `SaysRunningOfHolder` is about the tool's words at the moment it says them,
  with stale pidfiles of crashed instances around.
* `CopiesAgree` survives coalescing signals, overlapping saves and torn loads.
* `ClickMeansWhatWasShown` holds because ids of players are used once; numbering
  them anew with every menu breaks it.
* `OpenMenuIsNotOld` holds although a reload tells the desktop nothing, because
  the menu is built when the desktop is about to show it.
* `NoRefreshLost` needs the request flag to be cleared before the listing, and
  the wait's predicate to look at it again afterwards.
* `EditsAreApplied` covers prompts that nest: the inner one saves what the outer
  one has changed and not yet saved.
* `IconTellsStatus` needs the icon that is added again after a restart of the
  shell to take its text from what `SetTooltip` keeps.
* `ReportIsOfTheCrash` is about a report written over a longer, older one while
  other threads overwrite the ring.

## 5. What is proved

All theorems are for any values of the constants that satisfy the named
assumption of the module (sentinels are not members of the sets they stand
beside; the settings are records of the right type; bounds are natural numbers;
players are finitely many). The proofs assume no fairness. Each module has one
inductive invariant, `IInv` unless another name is given.

**PresenceEngineProofs.** `TypeCorrect`, `Memory` (`RemembersWhatIsShown`),
`DarkAtRest`, `DarkAfterStop`, `NoSleepOnStaleSettings`, `HonestStatus`. None of
these is inductive by itself. `IInv` is their conjunction and `ControlInv`, which
says what the worker's position implies: that a worker at the send has a real
track and a client, that one in the disable branch has broadcasting off in its
copy, and that the UI thread passes its join only when the worker has left. With
it, a step that shows something (`Send`) sets the signature to what it shows,
and every step that goes to the sleep from an idle or disabled branch has either
cleared or found the memory empty, hence (by `RemembersWhatIsShown`) nothing
shown. A clear that fails has closed the connection, which also shows nothing.

**DiscordIpcProofs.** `TypeCorrect`, `AnswersAreOwn`, `NoneForgotten`, and
`LinkImplemented`: `DiscordIpc` implements `DiscordLink`, for any number of
endpoints and sockets and either value of `PipeKills`. The invariant says what
every line carries: one request at most and only if the other end is there
(`LineInv`), our end open where the client has it and nowhere else (`OwnInv`),
and, position by position, what the client's own connection holds (`DialogInv`):
nothing before a request is written, afterwards the request or its answer. That
is why the frame that is read can only be the answer. The refinement needs, in
addition, that a process killed by SIGPIPE had a connection whose other end was
gone. Each action is mapped to one of the link or to a stutter.

**WorkerProofs.** For the sleep `MutexIsOwned` (its type invariant),
`WakeupNotLost`, and `SleepsAsPromised`, the safety part of the refinement of
`Sleeper` (its fairness stays with TLC). The missing piece of `SleepInv` is
`NoneAtBlock`: a worker that found no request keeps the mutex until it waits.
For one poll `TypeCorrect` and `NoMixtureIsShown` (`OneTrackIsShown`), for any
letters and set of tracks (empty and shared texts, and texts with bars, included),
any kind of source and art mode, and whatever the player does between two calls.
`TextInv` says what the texts of a reading are at each of its steps: the texts of
one track, or nothing where they were not read yet or a call of iTunes failed;
for iTunes that is the track whose object is held, and a source other than iTunes
that has a name has the other texts of the same reading. `PlaceInv` ties the
worker's place to the source and to what it has read. `ArtInv` says that what the
cache remembers is a cover of some reading with that key, and that an answer under
way is one for the key of the reading, which nobody changes until it is sent. From
there `OwnCover` concludes: a reading without bars shares its key with no other
(`JoinedOnce`, which finds the parts of a joined text by its bars).

**InstanceLifecycleProofs.** `TypeCorrect`, `SingleInstance`, `Identity`,
`CleanExit`, `HeadlessSurvives`, and the action property `SaysRunning`, for any
number of processes. `IInv` is the conjunction of `TypeOK` and three parts:
`LockInv` (exactly the live processes past `TryAcquire` have the lock open, at
most one does), `PidfileInv` (only the holder of the lock writes or removes the
pidfile, so it names the holder from the write to the removal, and nobody who
has not yet written it or has already removed it) and `SignalInv` (the tool
knows only ids it read from the pidfile, so a process it can signal has written
it, and a headless one set its mask before and is never in a prompt). The lemma `ToolStep` puts together
what the steps of the tool that only look about can do, so that the other lemmas
have one case for them.

**ConfigReloadProofs.** `TypeCorrect`; `SavesAgree` (`CopiesAgree`) for any
number of overlapping tools, under two hypotheses that the run's constants
satisfy: no tool begins while the instance has loaded and not yet written its
pidfile, and no instance is launched while a tool works; and
`WaitingUserLosesNothing` (`LiveEditsKept`) under the second. `AgreeInv` says
what one step leaves to the next: with no tool at work and no signal pending the
file is what the instance is about to apply. `PacedInv` adds that a patient
user's edits come one at a time, and that each copy that is worked on holds what
was asked for.

**TrayMenuProofs.** `ClicksDoWhatWasShown` (`ClickMeansWhatWasShown`), for any
number of players, menus and messages. The property speaks of clicks, but a
click is copied from a widget, which was copied from an answer, which was copied
from the menu of its time. So the invariant is about what an item means wherever
it is (`Meant`): a static id means its item for good, and an id of a player was
handed out once, below `nextMenuId`, so that it means that player or nothing.
`CopiesInv` says it of the menu, answers, widgets, requests and clicks,
`MenuInv` that a menu's ids are the static ones and the last that were handed
out. The lemma `Rebuilt` shows that a new menu changes no meaning, and one lemma
per kind of copy follows it through the steps. `RevisionsIdentifyMenus`
(`RevisionIdentifiesMenu`) rests on `RevisionInv`: a layout under way is of this
revision and these items, or of an earlier revision, because every step leaves
the menu alone or builds it with the next number (`StepRevision`).

The other two theorems rest on the order of the bus, and on lemmas about queues
that state it: the numbers in a queue never fall (`InOrder`, `OrderKept`), and
what comes behind one message is of one kind (`Behind`, `BehindFacts`).
`LastUpdateArrives` (`NoUpdateLost`) holds because the revisions under way are in
order and above the one that is displayed (`RevisionsInOrder`), so an old layout
cannot overwrite a new one and a message that tells of the last menu
(`MenuTold`) is either still under way, or its receiver fetches, or has it. That
the answer to AboutToShow brings a fetch of the root needs `RootAlone`: the
desktop asks for the root by itself. For the tooltip the same is said of idle
callbacks and texts (`TipsInOrder`, `TipTold`), and `GoneInv` that after the end
nothing is registered. `OpenMenuShowsNoOldMark` (`OpenMenuIsNotOld`) needs to
know that one opening is under way at most and where (`OpeningInv`): as its call
or as its answer, and only while the root is "asked". From the moment the answer
is written the menu that stands has only marks that were right since the desktop
asked, and so has everything that is sent behind the answer, although older
layouts may be in front of it (`MarksInv`). A reload in between adds to what was
right and takes nothing from it (`StepSince`, `RightStays`).

**WindowsTrayProofs.** `TypeCorrect`, `RefreshesAreServed` (`NoRefreshLost`),
`EditsReachFileAndEngine` (`EditsAreApplied`), `IconIsTrue` (`IconTellsStatus`),
for any number of clicks, sessions, statuses and restarts. The queue is what
makes them need more: `RefreshInv` and `TipInv` say that messages are in the
order of what they tell, so the last one applied is the newest; `EditsInv` that
an unsaved setting belongs to a prompt for the picture's address, which saves
when it ends, and that the three places that name the source agree; `IconInv`
that the icon differs from the tooltip only while a restart is being announced.
`MenuTellsSettings` (`OpenMenuIsCurrent`) rests on the order of the stack: above
an open menu there are only boxes (`MenuInv`), so no prompt and no second menu
can change a setting under it, and a list of sources that is applied meanwhile
brings its own marks.

**DiagnosticsProofs.** About the crash handler and the log, for any number of
threads, slots, backups, lines and starts: `LogTypesHold`, `ReportTellsTheCrash`
(`ReportIsOfTheCrash`) and `NoLineIsSkipped` (`LogHasNoGap`). A line that was
whole when the handler began is followed to the report: it is in one slot at most
and no thread is about to write it again (`RingInv`), so where it still is it is
whole, and the handler has reported it or has its slot ahead (`KeptInv`). That
the log has no gap is said by cuts: the files, oldest first, are what was written
between consecutive positions of one non-decreasing sequence that ends at the
last line, so an append moves the last cut, a rename moves a piece into a name
that is free (`FilesInv`), and discarding the oldest moves the first cut. Both
are about the log of one process at a time; a refused launch that renames a file
in use (`moved`) is the disagreement in section 6. About the clipboard, for any
number of clicks and tools: `TimeoutsEndWithTheirCommand` and
`FileWhenToolsFailed`; `ToolsInv` adds that all tools of a chain but the last had
failed when the next was started.

Some assumptions are about constants and are evaluated by TLC on every run: that
the texts of tracks are written with the letters of the model, that a process
is started at least once (`MaxSessions`), that `None` is not a thread.

**Only model-checked**: all liveness (`StopCompletes`, `EventuallyMirrors`,
`CallReturns`, `StopEndsSleep`, `QuitIsAnswered`, `EventuallyAccurate`,
`ExitCompletes`, `EveryClickEnds`), which fairness puts out of the prover's
reach, as it does the liveness part of the refinement of `Sleeper`. Every
invariant and every action property that a passing run checks is a theorem, for
`CopiesAgree` and `LiveEditsKept` under the hypotheses named above.

## 6. Where the code and its documents disagree

Each configuration checks one statement of a document or a comment, and TLC
finds it violated. The first is one of the runs; the others are kept beside them.

| Configuration | The document says | The code does |
|---|---|---|
| PresenceFindNewId (`presence_find_newid`) | a setting is "applied live", docs/CLI.md:127 | a reconnect request that arrives between the copy of the settings and the exchange (`PresenceEngine.cpp:94`, 106) is consumed with the old id, and the new id is never used |
| PresenceFindStatus | `status` prints what is shown, docs/CLI.md:91 | after a Discord restart, with an idle player, every clear fails (`DiscordIpcClient.cpp:108`) and the status names the last track for ever |
| LifecycleFindWedge | a killed process can never wedge a launch, `posix/DaemonSignal.h:63-65` | the lock's descriptor is inherited by what the tray launches in the background |
| LifecycleFindRestart | `daemon restart` restarts, docs/CLI.md:106-109 | the pidfile goes before the lock; the new process is refused and the old one then ends |
| ConfigFindScript | edits are picked up, docs/CLI.md:127-128 | the reload caused by one `set` saves what it loaded over the next `set` |
| ConfigFindTray | `tray on/off` takes effect at the next launch, docs/CLI.md:85 | the running tray is not told and its next menu edit saves the old value |
| IpcFindPipe | a Discord that went away is a dropped connection, `DiscordIpcClient.cpp:123` | on POSIX the write to it (`UnixSocketIpcTransport.cpp:90`) raises SIGPIPE, which nothing ignores until the clipboard is used |
| CrashLogFindRefused | the log rotates, keeping three backups, CONTRIBUTING.md:40 | a refused launch rotates the files too, and the running instance goes on writing to a backup |
| NowPlayingFindLaunch | the guard keeps a poll from starting iTunes (`ITunesMediaSource.cpp:57`) | the player can quit between the guard and the call, which then starts it |
| TrayMenuFindFirst | the menu is built before any host's GetLayout, `SniTray.cpp:286-287` | a GetLayout can be served before the idle callback and gets an empty menu |
| WindowsTrayFindWait | the listing must never be waited for on the UI thread, `TrayIcon.cpp:158-161` | the diagnostic report lists sessions on it (`main.cpp:306`), and the destructor joins the thread that does |
| WindowsTrayFindMark | the menu shows the configured source (`TrayIcon.h:50`) | with a configured source that is not listed the mark stays where it was (`TrayIcon.cpp:397-405`) |
| WindowsTrayFindCancel | a cancelled prompt leaves the value unchanged, `TrayIcon.h:78` | of two prompts that overlap the one cancelled last puts back the value it started from |
| ClipboardFindCancel | a wait without an exit is the timeout's, the tool is still running, `Clipboard.cpp:128-130` | a tool that failed with its pipe unread also ends the wait, so nothing is copied and no file is written |

Others were met while modelling and are described here only:

* A resend request stored by `UpdateConfig` before the next copy can be consumed
  by a poll with the old look (`PresenceEngine.cpp:156`; compare
  docs/KnownIssues.md:194-199). The keepalive heals it: `EventuallyMirrors`.
* A forced resend that fails is not retried at the next poll, contrary to the
  log line at `PresenceEngine.cpp:197`: the flag is already cleared. Also healed
  by the keepalive.
* Settings that go back to the placeholder id leave the activity up: the branch
  at line 100 comes before the reconnect is looked at. `RestsDark` excludes it.
* A SIGHUP of the tool kills a tray instance before its handlers are installed or
  after they are removed (`main_linux.cpp:211`, `SniTray.cpp:353-361`).
  `HeadlessNotKilled` is therefore about headless instances.
* `daemon start` is refused while a tray instance runs, contrary to
  docs/CLI.md:106-111: both use one pidfile and one lock.
* A `set` command is lost if it is given while the tray waits in a text prompt
  (`SniTray.cpp:552-558`, `TextPrompt.cpp:35-43`) or while an instance is between
  its load and its pidfile (`main_linux.cpp:153`, 183, 211).
* Texts that hold a bar can give two tracks one key (`CurlAlbumArtLookup.cpp:75`):
  artist `A`, song `B|C`, album `D` and artist `A`, song `B`, album `C|D`. The
  second track then gets the first one's cover for as long as the process lives,
  which `OneTrackIsShown` excepts. They can also give two tracks one signature
  (`PresenceEngine.cpp:147`); then the keepalive shows the change.
* Where a time stands (paused, SMTC without a duration, MediaRemote's last report
  without its timestamp, `MediaRemoteSource.mm:136`) the start that is sent is
  right at the moment of the send at most and drifts until the next.
* The list of sources is replaced under an open menu, contrary to
  `TrayIcon.h:84-87` ("from the next time it's opened onward"). That is harmless:
  `OpenMenuIsCurrent`.
* `SniTray` registers with the watcher once (`SniTray.cpp:807`): a desktop shell
  that starts or restarts later never has the item.

## 7. What is not modelled

* **Reuse of process ids**, against which the code has no defence
  (`DaemonSignal.cpp:53`): ids are used once in `InstanceLifecycle`.
* **A clock that is set back**, which delays the keepalive by as much
  (`PresenceEngine.cpp:152`).
* **A torn read of the status file** (`StatusFile.cpp:32`): one write and one
  read of a short text, without a protocol; it prints no status once.
* **Unsynchronised data**: the display names of sessions are cached in a static
  map (`SmtcMediaSource.cpp:292-301`) that the refresh thread and, for a report,
  the UI thread use. What a race on its nodes does is beyond a model of states.
* **The clamp of an extrapolated position to the duration**
  (`SmtcMediaSource.cpp:437`) and the duration itself.
* **Two reads of one property of Music** (`MusicMediaSource.mm:57-59`): a title that
  is there for the test and gone for the use would make a string of a null
  pointer. `ReadText` reads a text once.
* **JSON, D-Bus and HTTP encodings**, texts, icons, themes, the first-run
  notification: no state depends on them.
* **The headless loop on Windows** (named events) and **the macOS status item**:
  they are the Linux loop and a menu of the system's frameworks, whose own
  behaviour is not in the repository.
* **Autostart, the diagnostic report, platform helpers**: a file written or
  removed, a text formatted, one call of the system.

## 8. Plan

Done: the engine and what it stands on (sleep, IPC client, readings and art), the
process lifecycle, settings, both trays, clipboard, log and crash ring; proofs
for eight modules.

Left, the most useful first:

1. The composition of `InstanceLifecycle` and `ConfigReload`: launches,
   signals and settings in one state, so that an edit between the load and the
   pidfile and a kill in the middle of a save are steps of one model.
2. The headless loop on Windows, with its named events.
