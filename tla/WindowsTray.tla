----------------------------- MODULE WindowsTray -----------------------------
(***************************************************************************)
(* The tray on Windows (TrayIcon, wWinMain): one UI thread whose handlers  *)
(* nest, because a popup menu, a text prompt and a message box each run a  *)
(* message loop of their own; the thread that lists the media sessions;    *)
(* the engine's worker, which posts statuses; and the shell, which can     *)
(* restart.                                                                *)
(*                                                                         *)
(* Settings of one kind are modelled once: a toggle, a choice, a media     *)
(* source, and the two kinds of text prompt.                               *)
(***************************************************************************)
EXTENDS Integers, FiniteSets, SequencesExt

CONSTANTS
    Players,        \* applications with a media session, without Spotify
    ITunes,         \* the source that is always listed first
    Texts,          \* what a text prompt can hold
    Unset,          \* the placeholder among them
    MaxListed,      \* bound: how many sessions there are at a time
    MaxClicks,      \* bound: how often the icon is clicked
    MaxStatuses,    \* bound: how often the engine's status changes
    MaxRestarts     \* bound: how often the shell restarts

ASSUME WindowsTrayAssumption ==
    /\ ITunes \notin Players /\ Unset \in Texts
    /\ {MaxListed, MaxClicks, MaxStatuses, MaxRestarts} \subseteq Nat

Sources == Players \cup {ITunes}

\* AppConfig
Configs == [source : Sources, broadcast : BOOLEAN, mode : {"Auto", "Custom"},
            url : Texts, id : Texts]

\* what GetAvailableSources can return: the sessions of different applications
Listings == UNION {{s \in [1 .. n -> Players] : IsInjective(s)} : n \in 0 .. MaxListed}

VARIABLES
    \* the UI thread
    main,       \* "loop", "stop" (engine.Stop), "join" (~TrayIcon), "done"
    stack,      \* the menus, prompts and boxes that are open, the last on top
    window,     \* hwnd_ is a window
    queue,      \* the messages posted to it
    timer,      \* the timer of the first-run balloon is set
    config, mediaSources, tip,      \* config_, mediaSources_, nid_.szTip
    sourceMenu, marks,      \* the media source items; the marks of the others
    \* wWinMain's applyConfig
    saved,      \* config.json
    currentMediaSourceId,
    polled,     \* the media source handed to the engine last
    \* the refresh thread
    refresher,  \* "wait", "listing", "posting", "gone"
    requested, shouldExit,  \* mediaSourcesRefreshRequested_, ...ShouldExit_
    listing,    \* what GetAvailableSources returned
    \* the engine's worker
    working, status,
    \* the shell
    explorer,   \* it runs
    icon,       \* the tooltip of the icon it displays, or NoIcon
    clicks, restarts,
    \* history: of the clicks handled, those that an instant's listing follows
    asked, listedAfter, freshAfter

settings == <<config, saved, currentMediaSourceId, polled>>
menus == <<mediaSources, sourceMenu, marks>>
refresh == <<refresher, listing, listedAfter>>
shell == <<explorer, icon, clicks, restarts>>
worker == <<working, status>>
vars == <<main, stack, window, queue, timer, settings, menus, tip, refresh, requested,
          shouldExit, worker, shell, asked, freshAfter>>

NoIcon == -1

-----------------------------------------------------------------------------
(* The menu.  "Mutant" operators are the definition that follows them with a *)
(* plausible bug; they are not part of the model.                            *)

\* The radio group of the media sources: nothing is called for a source that is
\* not listed.
Radio(items, source) ==
    LET Listed == {i \in DOMAIN items : items[i].source = source}
    IN IF Listed = {} THEN items
       ELSE [i \in DOMAIN items |-> [items[i] EXCEPT !.on = i \in Listed]]

Unmarked(sources) == [i \in DOMAIN sources |-> [source |-> sources[i], on |-> FALSE]]

Marks(c) == [broadcast |-> c.broadcast, mode |-> c.mode]

\* the marks of the previous time
MutantSyncMenuState(items) == UNCHANGED marks /\ sourceMenu' = items

\* SyncMenuState, after the source items became items
SyncMenuState(items) ==
    /\ marks' = Marks(config)
    /\ sourceMenu' = Radio(items, config.source)

MenuIsOpen == \E i \in DOMAIN stack : stack[i].frame = "menu"

Post(message) == queue' = IF window THEN Append(queue, message) ELSE queue

\* BuildMenuOnce runs before SetInitialState, on a default AppConfig.
BuildMenuOnce ==
    /\ sourceMenu = Radio(Unmarked(mediaSources), ITunes)
    /\ marks = [broadcast |-> TRUE, mode |-> "Auto"]

Create ==
    /\ window = TRUE /\ queue = <<>> /\ tip = 0 /\ icon = tip
    /\ mediaSources = <<ITunes>> /\ BuildMenuOnce
    /\ refresher = "wait" /\ requested = FALSE /\ shouldExit = FALSE /\ listing = <<>>

\* The program at the start of RunMessageLoop.
Init ==
    /\ config \in [source : Sources, broadcast : {TRUE}, mode : {"Auto"},
                   url : {Unset}, id : Texts]
    /\ saved = config /\ currentMediaSourceId = config.source /\ polled = config.source
    /\ Create
    /\ timer = (config.id = Unset)
    /\ working = TRUE /\ status = 0
    /\ main = "loop" /\ stack = <<>>
    /\ explorer = TRUE /\ clicks = 0 /\ restarts = 0
    /\ asked = 0 /\ listedAfter = 0 /\ freshAfter = 0

-----------------------------------------------------------------------------
(* The refresh thread *)

\* The wait under the mutex, and what follows up to the unlock.
TakeRequest ==
    /\ refresher = "wait" /\ (requested \/ shouldExit)
    /\ refresher' = IF shouldExit THEN "gone" ELSE "listing"
    /\ requested' = (requested /\ shouldExit)
    /\ listedAfter' = IF shouldExit THEN listedAfter ELSE asked
    /\ UNCHANGED <<main, stack, window, queue, timer, settings, menus, tip, listing,
                   shouldExit, worker, shell, asked, freshAfter>>

\* a request that is cleared when a listing has served it
MutantGetAvailableSources ==
    /\ refresher = "listing"
    /\ refresher' = "posting" /\ listing' \in Listings /\ requested' = FALSE
    /\ UNCHANGED <<main, stack, window, queue, timer, settings, menus, tip, shouldExit,
                   worker, shell, asked, listedAfter, freshAfter>>

\* GetAvailableSources: the sessions, or none when the call fails.
GetAvailableSources ==
    /\ refresher = "listing"
    /\ refresher' = "posting" /\ listing' \in Listings
    /\ UNCHANGED <<main, stack, window, queue, timer, settings, menus, tip, requested,
                   shouldExit, worker, shell, asked, listedAfter, freshAfter>>

PostSources ==
    /\ refresher = "posting"
    /\ refresher' = "wait" /\ listing' = <<>>
    /\ Post([message |-> "sources", sources |-> listing, after |-> listedAfter])
    /\ UNCHANGED <<main, stack, window, timer, settings, menus, tip, requested,
                   shouldExit, worker, shell, asked, listedAfter, freshAfter>>

-----------------------------------------------------------------------------
(* The shell and the engine's worker *)

Click ==
    /\ explorer /\ icon # NoIcon /\ window /\ clicks < MaxClicks
    /\ clicks' = clicks + 1 /\ Post([message |-> "trayicon"])
    /\ UNCHANGED <<main, stack, window, timer, settings, menus, tip, refresh, requested,
                   shouldExit, worker, explorer, icon, restarts, asked, freshAfter>>

ExplorerEnds ==
    /\ explorer /\ restarts < MaxRestarts
    /\ explorer' = FALSE /\ icon' = NoIcon /\ restarts' = restarts + 1
    /\ UNCHANGED <<main, stack, window, queue, timer, settings, menus, tip, refresh,
                   requested, shouldExit, worker, clicks, asked, freshAfter>>

ExplorerStarts ==
    /\ ~explorer
    /\ explorer' = TRUE /\ Post([message |-> "taskbar-created"])
    /\ UNCHANGED <<main, stack, window, timer, settings, menus, tip, refresh, requested,
                   shouldExit, worker, icon, clicks, restarts, asked, freshAfter>>

\* OnStatusChanged and PostStatusUpdate.
PostStatusUpdate ==
    /\ working /\ status < MaxStatuses
    /\ status' = status + 1
    /\ Post([message |-> "status", text |-> status + 1])
    /\ UNCHANGED <<main, stack, window, timer, settings, menus, tip, refresh, requested,
                   shouldExit, working, shell, asked, freshAfter>>

-----------------------------------------------------------------------------
(* Messages.  Every open menu, prompt or box dispatches them; a handler that *)
(* waits for a session list does not.                                        *)

Dispatching == window /\ (stack # <<>> => Last(stack).frame # "report")

Dispatch(message) ==
    /\ Dispatching /\ queue # <<>> /\ Head(queue).message = message
    /\ queue' = Tail(queue)
    /\ UNCHANGED <<main, window, settings, refresh, shouldExit, worker, explorer, clicks,
                   restarts>>

\* ShowContextMenu up to TrackPopupMenu, which fails while a menu is open.
ShowContextMenu ==
    /\ Dispatch("trayicon")
    /\ requested' = TRUE /\ asked' = asked + 1
    /\ SyncMenuState(sourceMenu)
    /\ stack' = IF MenuIsOpen THEN stack ELSE Append(stack, [frame |-> "menu"])
    /\ UNCHANGED <<timer, mediaSources, tip, icon, freshAfter>>

\* a tooltip for the shell only
MutantSetTooltip ==
    /\ Dispatch("status")
    /\ icon' = IF icon = NoIcon THEN NoIcon ELSE Head(queue).text
    /\ UNCHANGED <<stack, timer, menus, tip, requested, asked, freshAfter>>

\* WM_STATUSUPDATE: NIM_MODIFY does nothing when there is no icon.
SetTooltip ==
    /\ Dispatch("status")
    /\ tip' = Head(queue).text
    /\ icon' = IF icon = NoIcon THEN NoIcon ELSE tip'
    /\ UNCHANGED <<stack, timer, menus, requested, asked, freshAfter>>

\* WM_MEDIASOURCESUPDATE and RefreshSourceMenuItems, also while the menu is open.
UpdateMediaSources ==
    /\ Dispatch("sources")
    /\ freshAfter' = Head(queue).after
    /\ LET Updated == <<ITunes>> \o Head(queue).sources
       IN IF Updated = mediaSources THEN UNCHANGED menus
          ELSE mediaSources' = Updated /\ SyncMenuState(Unmarked(Updated))
    /\ UNCHANGED <<stack, timer, tip, icon, requested, asked>>

\* TaskbarCreated: NIM_ADD fails when the shell is gone again.
AddIconAgain ==
    /\ Dispatch("taskbar-created")
    /\ icon' = IF explorer THEN tip ELSE icon
    /\ UNCHANGED <<stack, timer, menus, tip, requested, asked, freshAfter>>

\* WM_TIMER, a message of its own kind that comes when there is no other, and
\* ShowFirstRunBalloon: a box where Windows suppresses balloons.
FirstRunBalloon ==
    /\ Dispatching /\ timer /\ queue = <<>>
    /\ timer' = FALSE
    /\ stack' \in {stack, Append(stack, [frame |-> "box"])}
    /\ UNCHANGED <<main, window, queue, settings, menus, tip, refresh, requested,
                   shouldExit, worker, shell, asked, freshAfter>>

-----------------------------------------------------------------------------
(* Menu items *)

\* the media source is looked up, and the id never moves on
MutantNotifyConfigChanged(c) ==
    /\ config' = c /\ saved' = c
    /\ polled' = IF c.source = currentMediaSourceId THEN polled ELSE c.source
    /\ UNCHANGED currentMediaSourceId

\* NotifyConfigChanged, OnConfigChanged, applyConfig: a new media source is made
\* only for another id than the current one.
NotifyConfigChanged(c) ==
    /\ config' = c /\ saved' = c
    /\ polled' = IF c.source = currentMediaSourceId THEN polled ELSE c.source
    /\ currentMediaSourceId' = c.source

\* The popup menu returns and the command is handled.
Chosen ==
    /\ window /\ stack # <<>> /\ Last(stack).frame = "menu"
    /\ UNCHANGED <<main, tip, menus, refresh, requested, shouldExit, worker, shell, asked,
                   freshAfter>>

Frames == <<window, queue, timer>>

Nothing ==
    /\ Chosen /\ stack' = Front(stack)
    /\ UNCHANGED <<settings, Frames>>

ToggleBroadcast ==
    /\ Chosen /\ stack' = Front(stack)
    /\ NotifyConfigChanged([config EXCEPT !.broadcast = ~@])
    /\ UNCHANGED Frames

SetArtModeAuto ==
    /\ Chosen /\ stack' = Front(stack)
    /\ NotifyConfigChanged([config EXCEPT !.mode = "Auto"])
    /\ UNCHANGED Frames

\* The id of the item is its place in the list.
SelectMediaSource ==
    /\ Chosen /\ stack' = Front(stack)
    /\ \E i \in DOMAIN sourceMenu \cap DOMAIN mediaSources :
           NotifyConfigChanged([config EXCEPT !.source = mediaSources[i]])
    /\ UNCHANGED Frames

Prompt(field) == [frame |-> "prompt", field |-> field, original |-> config[field]]

EditApplicationId ==
    /\ Chosen /\ stack' = Append(Front(stack), Prompt("id"))
    /\ UNCHANGED <<settings, Frames>>

\* Custom mode is chosen at once, and saved after the prompt.
EditCustomArtUrl ==
    /\ Chosen /\ stack' = Append(Front(stack), Prompt("url"))
    /\ config' = [config EXCEPT !.mode = "Custom"]
    /\ UNCHANGED <<saved, currentMediaSourceId, polled, Frames>>

\* CopyDiagnosticInfo: LiveMediaSourceCheck lists the sessions on this thread.
BuildDiagnosticReport ==
    /\ Chosen /\ stack' = Append(Front(stack), [frame |-> "report"])
    /\ UNCHANGED <<settings, Frames>>

\* DestroyWindow: what was posted is dropped, WM_QUIT ends every loop below.
Exit ==
    /\ Chosen /\ stack' = Front(stack)
    /\ window' = FALSE /\ queue' = <<>> /\ timer' = FALSE
    /\ UNCHANGED settings

-----------------------------------------------------------------------------
(* Prompts, boxes and the report *)

\* What HandleCommand does once the prompt returned text.
AfterPrompt(prompt, text) ==
    IF prompt.field = "id" /\ text = prompt.original THEN UNCHANGED settings
    ELSE NotifyConfigChanged([config EXCEPT ![prompt.field] = text])

On(frame) ==
    /\ stack # <<>> /\ Last(stack).frame = frame
    /\ stack' = Front(stack)
    /\ UNCHANGED <<main, window, queue, timer, menus, tip, refresh, requested, shouldExit,
                   worker, shell, asked, freshAfter>>

ConfirmPrompt ==
    /\ window /\ On("prompt")
    /\ \E text \in Texts : AfterPrompt(Last(stack), text)

\* Cancel, and the end of a dialog with its owner after Exit.
CancelPrompt == On("prompt") /\ AfterPrompt(Last(stack), Last(stack).original)

CloseBox == On("box") /\ UNCHANGED settings

ReportIsBuilt == On("report") /\ UNCHANGED settings

-----------------------------------------------------------------------------
(* The end of the program *)

MessageLoopEnds ==
    /\ main = "loop" /\ ~window /\ stack = <<>>
    /\ main' = "stop"
    /\ UNCHANGED <<stack, window, queue, timer, settings, menus, tip, refresh, requested,
                   shouldExit, worker, shell, asked, freshAfter>>

\* a thread that is joined and not told to end
MutantStopEngine ==
    /\ main = "stop"
    /\ main' = "join" /\ working' = FALSE
    /\ UNCHANGED <<stack, window, queue, timer, settings, menus, tip, refresh, requested,
                   shouldExit, status, shell, asked, freshAfter>>

\* engine.Stop() and the first part of ~TrayIcon.
StopEngine ==
    /\ main = "stop"
    /\ main' = "join" /\ working' = FALSE /\ shouldExit' = TRUE
    /\ UNCHANGED <<stack, window, queue, timer, settings, menus, tip, refresh, requested,
                   status, shell, asked, freshAfter>>

RemoveIcon ==
    /\ main = "join" /\ refresher = "gone"
    /\ main' = "done" /\ icon' = NoIcon
    /\ UNCHANGED <<stack, window, queue, timer, settings, menus, tip, refresh, requested,
                   shouldExit, worker, explorer, clicks, restarts, asked, freshAfter>>

-----------------------------------------------------------------------------
RefreshThread == TakeRequest \/ GetAvailableSources \/ PostSources

Messages ==
    \/ ShowContextMenu \/ SetTooltip \/ UpdateMediaSources \/ AddIconAgain
    \/ FirstRunBalloon

User ==
    \/ Click
    \/ Nothing \/ ToggleBroadcast \/ SetArtModeAuto \/ SelectMediaSource
    \/ EditApplicationId \/ EditCustomArtUrl \/ BuildDiagnosticReport \/ Exit
    \/ ConfirmPrompt \/ CancelPrompt \/ CloseBox

Ending == MessageLoopEnds \/ StopEngine \/ RemoveIcon

Next ==
    \/ RefreshThread \/ Messages \/ User \/ ReportIsBuilt \/ Ending
    \/ PostStatusUpdate \/ ExplorerEnds \/ ExplorerStarts

Spec == Init /\ [][Next]_vars

\* The threads run; a list of the sessions arrives while the UI thread does not
\* wait for it.  Users and shell promise nothing; a dialog ends with its owner.
Fairness ==
    /\ WF_vars(TakeRequest) /\ WF_vars(PostSources)
    /\ WF_vars(GetAvailableSources /\ main # "join")
    /\ WF_vars(~window /\ (CancelPrompt \/ CloseBox))
    /\ WF_vars(Ending)

FairSpec == Spec /\ Fairness

-----------------------------------------------------------------------------
(* Properties *)

\* What can be open, and what can be posted
Frame == [frame : {"menu", "box", "report"}]
         \cup [frame : {"prompt"}, field : {"id", "url"}, original : Texts]

Message == [message : {"trayicon", "taskbar-created"}]
           \cup [message : {"status"}, text : Nat]
           \cup [message : {"sources"}, sources : Listings, after : Nat]

\* Every variable has its type (TrayIcon, wWinMain).
TypeOK ==
    /\ main \in {"loop", "stop", "join", "done"}
    /\ stack \in Seq(Frame) /\ queue \in Seq(Message)
    /\ window \in BOOLEAN /\ timer \in BOOLEAN /\ requested \in BOOLEAN
    /\ shouldExit \in BOOLEAN /\ working \in BOOLEAN /\ explorer \in BOOLEAN
    /\ config \in Configs /\ saved \in Configs
    /\ currentMediaSourceId \in Sources /\ polled \in Sources
    /\ mediaSources \in Seq(Sources)
    /\ refresher \in {"wait", "listing", "posting", "gone"} /\ listing \in Listings
    /\ tip \in Nat /\ status \in Nat /\ icon \in Nat \cup {NoIcon}
    /\ clicks \in Nat /\ restarts \in Nat
    /\ asked \in Nat /\ listedAfter \in Nat /\ freshAfter \in Nat

\* Every click is followed by a listing that begins after it and is applied: until
\* then the request, the listing or its message is under way, however clicks and
\* listings overlap (RequestMediaSourcesRefresh, StartMediaSourcesRefreshThread).
NoRefreshLost ==
    window =>
        \/ requested
        \/ refresher \in {"listing", "posting"} /\ listedAfter = asked
        \/ \E m \in ToSet(queue) : m.message = "sources" /\ m.after = asked
        \/ freshAfter = asked

\* An open menu shows the settings and lists what a click is resolved against, also
\* after the list was replaced under it (SyncMenuState, RefreshSourceMenuItems).
\* The mark of a source that is not listed is excepted, see WrongSourceNeverMarked.
OpenMenuIsCurrent ==
    MenuIsOpen =>
        /\ marks = Marks(config)
        /\ [i \in DOMAIN sourceMenu |-> sourceMenu[i].source] = mediaSources
        /\ config.source \in ToSet(mediaSources) =>
               \A i \in DOMAIN sourceMenu :
                   sourceMenu[i].on <=> mediaSources[i] = config.source

\* What the menus and prompts changed is in the file once no prompt is open, and the
\* engine polls the source the file names, in whatever order sources are chosen and
\* prompts nest, are cancelled or end with the program (HandleCommand, applyConfig).
EditsAreApplied ==
    /\ (\A i \in DOMAIN stack : stack[i].frame # "prompt") => saved = config
    /\ polled = saved.source

\* The icon is there and tells the engine's last status, across any restart of the
\* shell, unless a message about either is still in the queue (PostStatusUpdate,
\* SetTooltip, TaskbarCreated).
IconTellsStatus ==
    window /\ explorer =>
        \/ icon = status
        \/ \E m \in ToSet(queue) : m.message \in {"status", "taskbar-created"}

\* After Exit the program ends, from under any prompt or box; the only thing it can
\* wait for is a list of the sessions (~TrayIcon, RunMessageLoop, PromptForText).
ExitCompletes == ~window ~> (main = "done" \/ (main = "join" /\ refresher = "listing"))

\* "The WinRT GlobalSystemMediaTransportControls call this makes must never run on
\* the UI thread - confirmed (issue #57) to deadlock there even indirectly (e.g. a
\* UI-thread .join() on a worker doing this call also hung)." (TrayIcon.cpp:158-161)
UiNeverWaitsForSessions ==
    /\ \A i \in DOMAIN stack : stack[i].frame # "report"
    /\ ~(main = "join" /\ refresher = "listing")

\* "Seeds the menu's checkable/radio state from the loaded config" (TrayIcon.h:50)
WrongSourceNeverMarked ==
    MenuIsOpen => \A i \in DOMAIN sourceMenu :
                      sourceMenu[i].on => sourceMenu[i].source = config.source

\* "leaves it unchanged if the user cancels" (TrayIcon.h:78)
CancelChangesNothing ==
    [][window /\ CancelPrompt => saved'.url = saved.url /\ saved'.id = saved.id]_vars
=============================================================================
