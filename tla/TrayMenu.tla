------------------------------- MODULE TrayMenu -------------------------------
(***************************************************************************)
(* The tray on Linux (SniTray) and the desktop that displays it: D-Bus     *)
(* calls and signals that cross each other, a menu that is built anew      *)
(* under the widgets the desktop keeps by id, and the idle callbacks and   *)
(* SIGHUP, which the main loop serves in between.                          *)
(*                                                                         *)
(* The menu has one item of each kind; the others (four more toggles, art  *)
(* modes, poll intervals) repeat them; the text prompts and the saving of  *)
(* the settings are in module ConfigReload.                                *)
(***************************************************************************)
EXTENDS Integers, FiniteSets, SequencesExt

CONSTANTS
    Players,        \* MPRIS players, without Spotify, which the listing skips
    NoPlayer,       \* what the settings name before one is chosen
    FirstDynamicId, \* the initial nextMenuId_
    MaxListed,      \* bound: how many players are on the bus at a time
    MaxRevision,    \* bound: how often the menu is built
    MaxReloads,     \* bound: how often SIGHUP arrives
    MaxStatuses,    \* bound: how often the engine's status changes
    MaxRequests,    \* bound: the desktop asks while fewer messages are under way
    MaxEvents       \* bound: the events of one EventGroup

\* The static items in the order of RebuildMenuTree: their ids are their places.
StaticItems ==
    <<"source-menu", "broadcast", "exit">>
StaticIds == 1 .. Len(StaticItems)
SourceMenuId == 1
RootId == 0

\* AppConfig as far as the menu shows it
Configs == [source : Players \cup {NoPlayer}, broadcast : BOOLEAN]

Items == [command : ToSet(StaticItems) \cup {"media-source"},
          value : Players \cup {NoPlayer}, on : BOOLEAN]

ASSUME TrayMenuAssumption ==
    /\ NoPlayer \notin Players /\ IsFiniteSet(Players)
    /\ FirstDynamicId \in Nat /\ \A id \in StaticIds : id < FirstDynamicId
    /\ {MaxListed, MaxRevision, MaxReloads, MaxStatuses} \subseteq Nat
    /\ {MaxRequests, MaxEvents} \subseteq Nat \ {0}

VARIABLES
    \* the main thread
    main,       \* where it is
    exiting,    \* g_main_loop_quit was called
    clicks,     \* the rest of the Event or EventGroup it handles
    idle,       \* the idle callbacks: the first refresh, and statuses
    firstRefresh,   \* the revision that the first refresh built; 0 before it
    config, menuIndex, menuRevision, nextMenuId, statusText,
    reloads, status,    \* the last status the engine posted
    \* the bus
    requests,   \* calls of the desktop, in order
    answers,    \* replies and signals to the desktop, in order
    \* the desktop
    registered, \* it has the item
    view,       \* the widgets it keeps: a function from ids to items
    viewRevision,
    root,       \* the root menu: "closed", "asked", "fetching", "open"
    since,      \* the settings the tray held since the desktop asked to open it
    tip         \* the tooltip it displays

menu == <<menuIndex, menuRevision, nextMenuId>>
tray == <<main, exiting, clicks, idle, config, menu, firstRefresh, statusText>>
engine == <<status>>
desktop == <<registered, view, viewRevision, root, since, tip>>
vars == <<tray, reloads, engine, requests, answers, desktop>>

Nothing == <<>>     \* no widget, no item
FirstRefresh == 0   \* among the idle callbacks; the others are statuses

Init ==
    /\ main = "create" /\ exiting = FALSE /\ clicks = <<>>
    /\ idle = <<>>
    /\ config = [source |-> NoPlayer, broadcast |-> TRUE]
    /\ menuIndex = Nothing /\ menuRevision = 0 /\ nextMenuId = FirstDynamicId
    /\ firstRefresh = 0 /\ statusText = 0 /\ status = 0 /\ reloads = 0
    /\ requests = <<>> /\ answers = <<>>
    /\ registered = FALSE /\ view = Nothing /\ viewRevision = 0
    /\ root = "closed" /\ since = {} /\ tip = 0

-----------------------------------------------------------------------------
(* Parts of the handlers.  "Mutant" operators are the definition that follows *)
(* them with a plausible bug; they are not part of the model.                 *)

StaticItem(command, c) ==
    [command |-> command, value |-> NoPlayer,
     on |-> command = "broadcast" /\ c.broadcast]

SourceItem(p, c) == [command |-> "media-source", value |-> p, on |-> c.source = p]

\* ids of the players that start anew with every menu
MutantRebuildMenuTree(sources, c) ==
    /\ menuRevision' = menuRevision + 1
    /\ nextMenuId' = nextMenuId
    /\ menuIndex' =
           [id \in StaticIds \cup (nextMenuId .. nextMenuId + Len(sources) - 1) |->
               IF id \in StaticIds THEN StaticItem(StaticItems[id], c)
               ELSE SourceItem(sources[id - nextMenuId + 1], c)]

\* a menu that changes without a new revision number
MutantRevision(sources, c) ==
    /\ menuRevision' = 1
    /\ nextMenuId' = nextMenuId + Len(sources)
    /\ menuIndex' =
           [id \in StaticIds \cup (nextMenuId .. nextMenuId + Len(sources) - 1) |->
               IF id \in StaticIds THEN StaticItem(StaticItems[id], c)
               ELSE SourceItem(sources[id - nextMenuId + 1], c)]

\* RebuildMenuTree: the static items keep their ids, a player's item gets one
\* that was never used.
RebuildMenuTree(sources, c) ==
    /\ menuRevision' = menuRevision + 1
    /\ nextMenuId' = nextMenuId + Len(sources)
    /\ menuIndex' =
           [id \in StaticIds \cup (nextMenuId .. nextMenuId + Len(sources) - 1) |->
               IF id \in StaticIds THEN StaticItem(StaticItems[id], c)
               ELSE SourceItem(sources[id - nextMenuId + 1], c)]

\* mediaSources_: the players of the menu that stands, in its order
MediaSources ==
    [i \in 1 .. Cardinality(DOMAIN menuIndex \ StaticIds) |->
        menuIndex[nextMenuId - Cardinality(DOMAIN menuIndex \ StaticIds) + i - 1].value]

\* GetAvailableSources: who is on the bus by now, in any order; nobody if the
\* listing fails.
GetAvailableSources ==
    UNION {SetToSeqs(S) : S \in {S \in SUBSET Players : Cardinality(S) <= MaxListed}}

\* a menu that is left alone while the players are the same
MutantRefreshMediaSourcesAndRebuild ==
    \E s \in GetAvailableSources :
        IF menuRevision > 0 /\ s = MediaSources THEN UNCHANGED menu
        ELSE RebuildMenuTree(s, config)

RefreshMediaSourcesAndRebuild ==
    \E s \in GetAvailableSources : RebuildMenuTree(s, config)

\* BuildLayoutVariant: the node and all that is below it
Layout(parent) ==
    [kind |-> "layout", parent |-> parent, revision |-> menuRevision,
     items |-> CASE parent = RootId -> menuIndex
                 [] parent = SourceMenuId ->
                        [id \in DOMAIN menuIndex \ StaticIds |-> menuIndex[id]]
                 [] OTHER -> Nothing]

\* FindNodeById
Known(id) == id = RootId \/ id \in DOMAIN menuIndex

NoSuchItem == [kind |-> "error"]
NeedUpdate(ids) == [kind |-> "need-update", ids |-> ids]
LayoutUpdated(r) == [kind |-> "layout-updated", revision |-> r]
NewToolTip == [kind |-> "new-tooltip"]

\* since, after the settings have become c
Witnessed(c) == since' = IF root = "closed" THEN since ELSE since \cup {c}

MutantNotifyConfigChanged(c) ==
    /\ config' = c
    /\ RebuildMenuTree(MediaSources, c)
    /\ Witnessed(c)
    /\ UNCHANGED answers

\* NotifyConfigChanged: the settings are applied, the menu is built, the desktop
\* is told.
NotifyConfigChanged(c) ==
    /\ config' = c
    /\ RebuildMenuTree(MediaSources, c)
    /\ Witnessed(c)
    /\ answers' = Append(answers, LayoutUpdated(menuRevision'))

-----------------------------------------------------------------------------
(* The main thread *)

\* There may be no watcher, or it refuses; there is no second attempt.
RegisterWithWatcher == registered' \in BOOLEAN

\* Create exports the objects and puts the first refresh off; the loop comes later.
Create ==
    /\ main = "create"
    /\ main' = "loop"
    /\ idle' = Append(idle, FirstRefresh)
    /\ RegisterWithWatcher
    /\ UNCHANGED <<exiting, clicks, config, menu, firstRefresh, statusText,
                   reloads, engine, requests, answers, view, viewRevision, root, since, tip>>

RunIdle ==
    /\ main = "loop" /\ idle # <<>>
    /\ idle' = Tail(idle)
    /\ UNCHANGED <<main, exiting, clicks, config, reloads, engine, requests,
                   desktop>>

\* InitialMediaRefreshThunk: nobody is told.
InitialMediaRefresh ==
    /\ RunIdle
    /\ Head(idle) = FirstRefresh
    /\ RefreshMediaSourcesAndRebuild
    /\ firstRefresh' = menuRevision'
    /\ UNCHANGED <<statusText, answers>>

MutantApplyStatusUpdate ==
    /\ RunIdle
    /\ Head(idle) # FirstRefresh
    /\ statusText' = Head(idle)
    /\ UNCHANGED <<menu, firstRefresh, answers>>

ApplyStatusUpdate ==
    /\ RunIdle
    /\ Head(idle) # FirstRefresh
    /\ statusText' = Head(idle)
    /\ answers' = Append(answers, NewToolTip)
    /\ UNCHANGED <<menu, firstRefresh>>

\* OnSigHupThunk, OnReloadRequested: the tray takes the settings the tool saved,
\* one of them changed by its command, and the menu stays as it is.
Reload ==
    /\ main = "loop" /\ reloads < MaxReloads
    /\ reloads' = reloads + 1
    /\ \E c \in Configs :
           /\ Cardinality({f \in DOMAIN c : c[f] # config[f]}) = 1
           /\ config' = c
           /\ Witnessed(c)
    /\ UNCHANGED <<main, exiting, clicks, idle, menu, firstRefresh, statusText,
                   engine, requests, answers, registered, view, viewRevision, root, tip>>

\* RunMessageLoop returns, main tears the tray down and the item is gone.
Quit ==
    /\ main' = "quit"
    /\ requests' = <<>> /\ answers' = <<>> /\ idle' = <<>> /\ clicks' = <<>>
    /\ registered' = FALSE /\ view' = Nothing /\ viewRevision' = 0
    /\ root' = "closed" /\ since' = {} /\ tip' = 0
    /\ UNCHANGED <<exiting, config, menu, firstRefresh, statusText, reloads, engine>>

OnSigQuit == main = "loop" /\ Quit

\* HandleMenuMethodCall takes the next call.
Serve(call) ==
    /\ main = "loop" /\ requests # <<>>
    /\ Head(requests).call = call
    /\ requests' = Tail(requests)
    /\ UNCHANGED <<exiting, idle, config, firstRefresh, statusText, reloads,
                   engine, desktop>>

ServeGetLayout ==
    /\ Serve("GetLayout")
    /\ LET parent == Head(requests).parent
       IN answers' = Append(answers,
              IF Known(parent) THEN Layout(parent)
              ELSE NoSuchItem)
    /\ UNCHANGED <<main, clicks, menu>>

\* GetGroupProperties, and GetProperty for a single id: ids that are not there are
\* passed over.
ServeGetProperties ==
    /\ Serve("GetProperties")
    /\ answers' = Append(answers,
           [kind |-> "properties",
            items |-> [id \in Head(requests).ids \cap DOMAIN menuIndex |-> menuIndex[id]]])
    /\ UNCHANGED <<main, clicks, menu>>

\* AboutToShow and AboutToShowGroup: the players are listed and the menu is built
\* for the root only; a group is told that all of it needs an update.
ServeAboutToShow ==
    /\ Serve("AboutToShow")
    /\ LET r == Head(requests)
       IN IF RootId \in r.ids
          THEN /\ RefreshMediaSourcesAndRebuild
               /\ answers' = Append(answers, NeedUpdate(r.ids))
          ELSE /\ answers' = Append(answers, NeedUpdate(IF r.group THEN r.ids ELSE {}))
               /\ UNCHANGED menu
    /\ UNCHANGED <<main, clicks>>

\* GetSniProperty("ToolTip")
ServeToolTip ==
    /\ Serve("ToolTip")
    /\ answers' = Append(answers, [kind |-> "tooltip", text |-> statusText])
    /\ UNCHANGED <<main, clicks, menu>>

\* Event and EventGroup: the clicks, one after the other
ServeEvents ==
    /\ Serve("Events")
    /\ clicks' = Head(requests).clicks
    /\ main' = "events"
    /\ UNCHANGED <<menu, answers>>

EventsDone ==
    /\ main = "events" /\ clicks = <<>>
    /\ \/ exiting /\ Quit
       \/ /\ ~exiting
          /\ main' = "loop"
          /\ UNCHANGED <<exiting, clicks, idle, config, menu, firstRefresh,
                         statusText, reloads, engine, requests, answers, desktop>>

\* HandleCommand takes the next click: what the id means now, if anything.
Command(command) ==
    /\ main = "events" /\ clicks # <<>>
    /\ clicks' = Tail(clicks)
    /\ IF command = "" THEN Head(clicks).id \notin DOMAIN menuIndex
       ELSE /\ Head(clicks).id \in DOMAIN menuIndex
            /\ menuIndex[Head(clicks).id].command = command
    /\ UNCHANGED <<idle, firstRefresh, statusText, reloads, engine, requests,
                   registered, view, viewRevision, root, tip>>

\* An id of an earlier menu, or the item that only holds others
CommandNone ==
    /\ Command("") \/ Command("source-menu")
    /\ UNCHANGED <<main, exiting, config, menu, answers, since>>

CommandToggle ==
    /\ Command("broadcast")
    /\ NotifyConfigChanged([config EXCEPT !.broadcast = ~@])
    /\ UNCHANGED <<main, exiting>>

CommandMediaSource ==
    /\ Command("media-source")
    /\ NotifyConfigChanged([config EXCEPT !.source = menuIndex[Head(clicks).id].value])
    /\ UNCHANGED <<main, exiting>>

CommandExit ==
    /\ Command("exit")
    /\ exiting' = TRUE
    /\ UNCHANGED <<main, config, menu, answers, since>>

MainThread ==
    \/ InitialMediaRefresh \/ ApplyStatusUpdate
    \/ ServeGetLayout \/ ServeGetProperties \/ ServeAboutToShow \/ ServeToolTip
    \/ ServeEvents \/ EventsDone
    \/ CommandNone \/ CommandToggle \/ CommandMediaSource \/ CommandExit

-----------------------------------------------------------------------------
(* The engine's worker, the players, the desktop *)

\* PostStatusUpdate
PostStatusUpdate ==
    /\ main # "create" /\ main # "quit" /\ status < MaxStatuses
    /\ status' = status + 1
    /\ idle' = Append(idle, status')
    /\ UNCHANGED <<main, exiting, clicks, config, menu, firstRefresh, statusText,
                   reloads, requests, answers, desktop>>

\* How many menus the calls under way and the first refresh will build
MenusToCome ==
    LET Of(r) == CASE r.call = "Events" -> Len(r.clicks)
                   [] r.call = "AboutToShow" /\ RootId \in r.ids -> 1
                   [] OTHER -> 0
    IN FoldLeft(LAMBDA n, r : n + Of(r), Len(clicks), requests)
       + (IF FirstRefresh \in ToSet(idle) THEN 1 ELSE 0)

\* A call of the desktop's own accord
Ask(r, menus) ==
    /\ registered
    /\ Len(requests) + Len(answers) < MaxRequests
    /\ menuRevision + MenusToCome + menus <= MaxRevision
    /\ requests' = Append(requests, r)
    /\ UNCHANGED <<tray, reloads, engine, answers, registered, view, viewRevision,
                   tip>>

AboutToShow(ids, group) == [call |-> "AboutToShow", ids |-> ids, group |-> group]

OpenRoot ==
    /\ root = "closed"
    /\ Ask(AboutToShow({RootId}, FALSE), 1)
    /\ root' = "asked"
    /\ since' = {config}

CloseRoot ==
    /\ root = "open"
    /\ root' = "closed"
    /\ since' = {}
    /\ UNCHANGED <<tray, reloads, engine, requests, answers, registered, view,
                   viewRevision, tip>>

\* A submenu opens, or the desktop reads what it shows again.
AskAgain ==
    /\ \/ Ask([call |-> "GetLayout", parent |-> RootId], 0)
       \/ /\ SourceMenuId \in DOMAIN view
          /\ \E group \in BOOLEAN : Ask(AboutToShow({SourceMenuId}, group), 0)
       \/ \E id \in DOMAIN view \ StaticIds :
              Ask([call |-> "GetLayout", parent |-> id], 0)
       \/ view # Nothing /\ Ask([call |-> "GetProperties", ids |-> DOMAIN view], 0)
    /\ UNCHANGED <<root, since>>

\* The user clicks on what the desktop displays; "shown" is that, for the
\* properties, and is not sent.
Click ==
    /\ \E n \in 1 .. MaxEvents : \E ids \in [1 .. n -> DOMAIN view] :
           Ask([call |-> "Events",
                clicks |-> [i \in 1 .. n |-> [id |-> ids[i], shown |-> view[ids[i]]]]], n)
    /\ UNCHANGED <<root, since>>

Receive(kind) ==
    /\ answers # <<>> /\ Head(answers).kind = kind
    /\ answers' = Tail(answers)
    /\ UNCHANGED <<tray, reloads, engine, registered>>

Fetch(r) == requests' = Append(requests, r)

\* LayoutUpdated, and the answer to AboutToShow
ReceiveUpdate ==
    /\ \/ /\ Receive("layout-updated")
          /\ Fetch([call |-> "GetLayout", parent |-> RootId])
          /\ UNCHANGED root
       \/ /\ Receive("need-update")
          /\ LET ids == Head(answers).ids
             IN /\ IF ids = {} THEN UNCHANGED requests
                   ELSE \E id \in ids : Fetch([call |-> "GetLayout", parent |-> id])
                /\ root' = IF RootId \in ids THEN "fetching" ELSE root
    /\ UNCHANGED <<view, viewRevision, since, tip>>

ReceiveLayout ==
    /\ Receive("layout")
    /\ LET a == Head(answers)
       IN CASE a.parent = RootId ->
                   /\ view' = a.items
                   /\ viewRevision' = a.revision
                   /\ root' = IF root = "fetching" THEN "open" ELSE root
            [] a.parent = SourceMenuId ->
                   /\ view' = [id \in DOMAIN a.items \cup (DOMAIN view \cap StaticIds) |->
                                  IF id \in DOMAIN a.items THEN a.items[id] ELSE view[id]]
                   /\ UNCHANGED <<viewRevision, root>>
            [] OTHER -> UNCHANGED <<view, viewRevision, root>>
    /\ UNCHANGED <<requests, since, tip>>

ReceiveProperties ==
    /\ Receive("properties")
    /\ view' = [id \in DOMAIN view |->
                   IF id \in DOMAIN Head(answers).items THEN Head(answers).items[id]
                   ELSE view[id]]
    /\ UNCHANGED <<requests, viewRevision, root, since, tip>>

ReceiveError ==
    /\ Receive("error")
    /\ UNCHANGED <<requests, view, viewRevision, root, since, tip>>

ReceiveToolTip ==
    /\ \/ Receive("new-tooltip") /\ Fetch([call |-> "ToolTip"]) /\ UNCHANGED tip
       \/ Receive("tooltip") /\ tip' = Head(answers).text /\ UNCHANGED requests
    /\ UNCHANGED <<view, viewRevision, root, since>>

Desktop ==
    ReceiveUpdate \/ ReceiveLayout \/ ReceiveProperties \/ ReceiveError \/ ReceiveToolTip

-----------------------------------------------------------------------------

Next ==
    \/ Create \/ MainThread \/ Reload \/ OnSigQuit
    \/ PostStatusUpdate
    \/ OpenRoot \/ CloseRoot \/ AskAgain \/ Click \/ Desktop

Spec == Init /\ [][Next]_vars

PlayerSymmetry == Permutations(Players)

-----------------------------------------------------------------------------
(* Properties *)

\* The types
TypeOK ==
    /\ main \in {"create", "loop", "events", "quit"}
    /\ exiting \in BOOLEAN
    /\ ToSet(idle) \subseteq {FirstRefresh} \cup 1 .. MaxStatuses
    /\ config \in Configs /\ since \subseteq Configs
    /\ menuRevision \in 0 .. MaxRevision
    /\ nextMenuId \in FirstDynamicId .. FirstDynamicId + MaxRevision * Cardinality(Players)
    /\ \A m \in {menuIndex, view} :
           /\ DOMAIN m \subseteq StaticIds \cup (FirstDynamicId .. nextMenuId - 1)
           /\ \A id \in DOMAIN m : m[id] \in Items
    /\ viewRevision \in 0 .. menuRevision /\ firstRefresh \in 0 .. menuRevision
    /\ root \in {"closed", "asked", "fetching", "open"}
    /\ {status, statusText, tip} \subseteq 0 .. MaxStatuses

Same(i, j) == i.command = j.command /\ i.value = j.value

\* A click does what the widget said or nothing, however old the widget is and
\* whatever was built since: no id is used for a second item, and the static items
\* keep theirs (RebuildMenuTree, HandleCommand; SniTray.h:107-132).
ClickMeansWhatWasShown ==
    LET MeansWhatWasShown(c) ==
            IF c.id \in DOMAIN menuIndex THEN Same(menuIndex[c.id], c.shown)
            ELSE c.shown.command = "media-source"
    IN /\ \A c \in ToSet(clicks) : MeansWhatWasShown(c)
       /\ \A r \in ToSet(requests) :
              r.call = "Events" => \A c \in ToSet(r.clicks) : MeansWhatWasShown(c)

\* A menu's revision number identifies it: a desktop that has the current number has
\* the current items, so it may skip the fetch (menuRevision_, BuildLayoutVariant).
RevisionIdentifiesMenu ==
    \A a \in {a \in ToSet(answers) : a.kind = "layout"} :
        a.parent = RootId /\ a.revision = menuRevision => a.items = menuIndex

\* Every mark in a menu that is open was right at some moment since the desktop
\* asked to open it, also after a reload that tells the desktop nothing
\* (AboutToShow, OnReloadRequested; main_linux.cpp:235-249).
OpenMenuIsNotOld ==
    root = "open" =>
        \A id \in DOMAIN view : \E c \in since :
            view[id].on = IF view[id].command = "media-source"
                          THEN SourceItem(view[id].value, c).on
                          ELSE StaticItem(view[id].command, c).on

\* No update is lost, and the last one wins.  While a desktop that has displayed a
\* menu does not display the last one, the announcement, the desktop's fetch or its
\* answer is under way; only the first refresh is announced to nobody
\* (NotifyConfigChanged, EmitLayoutUpdated, AboutToShow).  So it is with the tooltip
\* and the engine's last status (PostStatusUpdate, ApplyStatusUpdateNow).
NoUpdateLost ==
    /\ 0 < viewRevision /\ viewRevision < menuRevision /\ menuRevision # firstRefresh =>
           \/ [call |-> "GetLayout", parent |-> RootId] \in ToSet(requests)
           \/ \E a \in ToSet(answers) :
                  \/ a.kind = "layout" /\ a.parent = RootId /\ a.revision = menuRevision
                  \/ a.kind = "layout-updated"
                  \/ a.kind = "need-update" /\ RootId \in a.ids
    /\ registered /\ tip # status =>
           \/ status \in ToSet(idle)
           \/ [call |-> "ToolTip"] \in ToSet(requests)
           \/ \E a \in ToSet(answers) : a = NewToolTip \/ (a.kind = "tooltip" /\ a.text = status)

\* "building the menu before any host round-trips a real GetLayout call"
\* (SniTray.cpp:286-287)
FirstLayoutIsBuilt ==
    \A a \in ToSet(answers) : a.kind = "layout" => a.revision > 0
=============================================================================
