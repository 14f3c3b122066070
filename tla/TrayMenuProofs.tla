---------------------------- MODULE TrayMenuProofs ----------------------------
(***************************************************************************)
(* Theorems about the tray's menu on Linux, for any number of players and  *)
(* of menus, whatever crosses what on the bus: a click does what the       *)
(* widget said, or nothing; a revision number identifies a menu; no update *)
(* of the menu or of the tooltip is lost; an open menu shows no mark that  *)
(* was wrong ever since the desktop asked for it.                          *)
(*                                                                         *)
(* The first rests on what every copy of an item means, wherever it is by  *)
(* now: in the menu, on the bus, in a widget or in a click.  An item of a  *)
(* player has an id that no other item had or will have.  The last two     *)
(* rest on the order of the bus: what was sent first is received first.    *)
(***************************************************************************)
EXTENDS TrayMenu, FiniteSetTheorems, TLAPS

\* The menu has the static items and the players it was built for last, if any.
MenuInv ==
    /\ nextMenuId >= FirstDynamicId
    /\ \/ DOMAIN menuIndex = {}
       \/ \E first \in FirstDynamicId .. nextMenuId :
              DOMAIN menuIndex = StaticIds \cup (first .. nextMenuId - 1)

\* An item that the id meant once: what it means now, or a player's that is gone.
Meant(id, item) ==
    \/ /\ id \in StaticIds /\ id \in DOMAIN menuIndex
       /\ item.command = StaticItems[id] /\ item.value = NoPlayer
    \/ /\ id \in FirstDynamicId .. nextMenuId - 1
       /\ item.command = "media-source"
       /\ id \in DOMAIN menuIndex => item.value = menuIndex[id].value

AllMeant(items) == \A id \in DOMAIN items : Meant(id, items[id])
ClicksMeant(cs) == \A c \in ToSet(cs) : Meant(c.id, c.shown)

CopiesInv ==
    /\ AllMeant(menuIndex) /\ AllMeant(view)
    /\ \A a \in ToSet(answers) : a.kind \in {"layout", "properties"} => AllMeant(a.items)
    /\ ClicksMeant(clicks)
    /\ \A r \in ToSet(requests) : r.call = "Events" => ClicksMeant(r.clicks)

-----------------------------------------------------------------------------
(* Types *)

Values == Players \cup {NoPlayer}
Menus == UNION {[ids -> Items] : ids \in SUBSET Int}
ClickOn == [id : Int, shown : Items]

Request == [call : {"GetLayout"}, parent : Int]
           \cup [call : {"GetProperties"}, ids : SUBSET Int]
           \cup [call : {"AboutToShow"}, ids : SUBSET Int, group : BOOLEAN]
           \cup [call : {"ToolTip"}]
           \cup [call : {"Events"}, clicks : Seq(ClickOn)]

Answer == [kind : {"layout"}, parent : Int, revision : Nat, items : Menus]
          \cup [kind : {"properties"}, items : Menus]
          \cup [kind : {"need-update"}, ids : SUBSET Int]
          \cup [kind : {"layout-updated"}, revision : Nat]
          \cup [kind : {"tooltip"}, text : Nat]
          \cup [kind : {"error", "new-tooltip"}]

Types ==
    /\ config \in Configs
    /\ clicks \in Seq(ClickOn) /\ idle \in Seq(Nat)
    /\ menuIndex \in Menus /\ menuRevision \in Nat /\ nextMenuId \in Int
    /\ statusText \in Nat /\ status \in Nat
    /\ requests \in Seq(Request) /\ answers \in Seq(Answer)
    /\ view \in Menus

LEMMA MenuFacts ==
    /\ \A m \in Menus : /\ DOMAIN m \subseteq Int /\ \A id \in DOMAIN m : m[id] \in Items
                        /\ m = [id \in DOMAIN m |-> m[id]]
    /\ Nothing \in Menus /\ DOMAIN Nothing = {}
<1>1. ASSUME NEW m \in Menus
      PROVE  /\ DOMAIN m \subseteq Int /\ \A id \in DOMAIN m : m[id] \in Items
             /\ m = [id \in DOMAIN m |-> m[id]]
  <2>1. PICK ids \in SUBSET Int : m \in [ids -> Items]  BY DEF Menus
  <2> QED  BY <2>1
<1>2. Nothing \in [{} -> Items] /\ DOMAIN Nothing = {}  BY DEF Nothing
<1>3. {} \in SUBSET Int  OBVIOUS
<1>4. Nothing \in Menus  BY <1>2, <1>3 DEF Menus
<1> QED  BY <1>1, <1>2, <1>4

LEMMA ItemFacts ==
    /\ \A i \in Items : i.value \in Values
    /\ StaticIds = 1 .. 3 /\ DOMAIN StaticItems = 1 .. 3
    /\ \A id \in StaticIds : StaticItems[id] # "media-source"
    /\ \A id \in StaticIds, c \in Configs :
           /\ StaticItem(StaticItems[id], c) \in Items
           /\ StaticItem(StaticItems[id], c).command = StaticItems[id]
           /\ StaticItem(StaticItems[id], c).value = NoPlayer
    /\ \A p \in Values, c \in Configs :
           /\ SourceItem(p, c) \in Items
           /\ SourceItem(p, c).command = "media-source" /\ SourceItem(p, c).value = p
    /\ \A id \in StaticIds : id < FirstDynamicId
<1>1. ToSet(StaticItems) = {"source-menu", "broadcast", "exit"}
  BY DEF ToSet, StaticItems
<1>2. StaticIds = 1 .. 3 /\ DOMAIN StaticItems = 1 .. 3  BY DEF StaticIds, StaticItems
<1>3. \A id \in 1 .. 3 : StaticItems[id] \in {"source-menu", "broadcast", "exit"}
  BY DEF StaticItems
<1> QED  BY <1>1, <1>2, <1>3, TrayMenuAssumption DEF Items, Values, Configs, StaticItem, SourceItem

LEMMA SeqFacts ==
    ASSUME NEW S, NEW q \in Seq(S)
    PROVE  /\ <<>> \in Seq(S) /\ ToSet(<<>>) = {}
           /\ \A x \in S : /\ Append(q, x) \in Seq(S)
                           /\ ToSet(Append(q, x)) = ToSet(q) \cup {x}
           /\ q # <<>> => /\ Tail(q) \in Seq(S) /\ ToSet(Tail(q)) \subseteq ToSet(q)
                          /\ Head(q) \in S /\ Head(q) \in ToSet(q)
<1>1. <<>> \in Seq(S) /\ ToSet(<<>>) = {}  BY DEF ToSet
<1>2. ASSUME NEW x \in S PROVE /\ Append(q, x) \in Seq(S)
                               /\ ToSet(Append(q, x)) = ToSet(q) \cup {x}
  <2>1. /\ Append(q, x) \in Seq(S) /\ DOMAIN q = 1 .. Len(q) /\ Len(q) \in Nat
        /\ DOMAIN Append(q, x) = 1 .. Len(q) + 1
        /\ Append(q, x)[Len(q) + 1] = x
        /\ \A i \in 1 .. Len(q) : Append(q, x)[i] = q[i]
    OBVIOUS
  <2> QED  BY <2>1 DEF ToSet
<1>3. ASSUME q # <<>>
      PROVE  /\ Tail(q) \in Seq(S) /\ ToSet(Tail(q)) \subseteq ToSet(q)
             /\ Head(q) \in S /\ Head(q) \in ToSet(q)
  <2>1. /\ Tail(q) \in Seq(S) /\ Head(q) \in S /\ 1 \in DOMAIN q /\ Head(q) = q[1]
        /\ \A i \in DOMAIN Tail(q) : i + 1 \in DOMAIN q /\ Tail(q)[i] = q[i + 1]
    BY <1>3
  <2> QED  BY <2>1 DEF ToSet
<1> QED  BY <1>1, <1>2, <1>3

-----------------------------------------------------------------------------
(* A menu that is built anew *)

\* Players come in sequences, from the bus ...
LEMMA ListedSources == GetAvailableSources \subseteq Seq(Values)
<1> SUFFICES ASSUME NEW s \in GetAvailableSources PROVE s \in Seq(Values)
  OBVIOUS
<1>1. PICK S \in SUBSET Players : s \in SetToSeqs(S)  BY DEF GetAvailableSources
<1>2. IsFiniteSet(S)  BY TrayMenuAssumption, FS_Subset
<1>3. Cardinality(S) \in Nat  BY <1>2, FS_CardinalityType
<1>4. s \in [1 .. Cardinality(S) -> S]  BY <1>1 DEF SetToSeqs
<1> QED  BY <1>3, <1>4 DEF Values

\* ... and from the menu that stands.
LEMMA StandingSources == ASSUME Types, MenuInv PROVE MediaSources \in Seq(Values)
<1> DEFINE D == DOMAIN menuIndex \ StaticIds
<1> DEFINE n == Cardinality(D)
<1>1. ASSUME n \in Nat, \A i \in 1 .. n : nextMenuId - n + i - 1 \in DOMAIN menuIndex
      PROVE  MediaSources \in Seq(Values)
  <2>1. \A i \in 1 .. n : menuIndex[nextMenuId - n + i - 1].value \in Values
    BY <1>1, MenuFacts, ItemFacts DEF Types
  <2>2. MediaSources = [i \in 1 .. n |-> menuIndex[nextMenuId - n + i - 1].value]
    BY DEF MediaSources
  <2> HIDE DEF n
  <2> QED  BY <1>1, <2>1, <2>2
<1>2. CASE DOMAIN menuIndex = {}
  <2>1. D = {}  BY <1>2
  <2>2. n = 0  BY <2>1, FS_EmptySet
  <2> HIDE DEF n
  <2> QED  BY <1>1, <2>2
<1>3. ASSUME NEW first \in FirstDynamicId .. nextMenuId,
             DOMAIN menuIndex = StaticIds \cup (first .. nextMenuId - 1)
      PROVE  n \in Nat /\ \A i \in 1 .. n : nextMenuId - n + i - 1 \in DOMAIN menuIndex
  <2>1. first \in Int /\ nextMenuId \in Int /\ first <= nextMenuId
    BY <1>3, TrayMenuAssumption DEF Types
  <2>2. D = first .. nextMenuId - 1
    BY <1>3, ItemFacts, TrayMenuAssumption DEF Types
  <2>3. n = nextMenuId - first
    <3>1. nextMenuId - 1 \in Int  BY <2>1
    <3>2. Cardinality(first .. nextMenuId - 1)
              = IF first > nextMenuId - 1 THEN 0 ELSE nextMenuId - 1 - first + 1
      BY <2>1, <3>1, FS_Interval
    <3>3. Cardinality(D) = Cardinality(first .. nextMenuId - 1)  BY <2>2
    <3> HIDE DEF D
    <3> QED  BY <2>1, <3>2, <3>3
  <2> HIDE DEF n
  <2> QED  BY <1>3, <2>1, <2>3
<1> QED  BY <1>1, <1>2, <1>3 DEF MenuInv

LEMMA Rebuilt ==
    ASSUME Types, MenuInv, NEW s \in Seq(Values), NEW c \in Configs, RebuildMenuTree(s, c)
    PROVE  /\ menuIndex' \in Menus /\ nextMenuId' \in Int /\ menuRevision' \in Nat
           /\ MenuInv'
           /\ \A id, item : Meant(id, item) => Meant(id, item)'
           /\ AllMeant(menuIndex)'
<1> DEFINE New == nextMenuId .. nextMenuId + Len(s) - 1
<1> DEFINE F(id) == IF id \in StaticIds THEN StaticItem(StaticItems[id], c)
                    ELSE SourceItem(s[id - nextMenuId + 1], c)
<1>1. Len(s) \in Nat /\ nextMenuId \in Int /\ menuRevision \in Nat /\ FirstDynamicId \in Nat
      /\ nextMenuId >= FirstDynamicId
  BY TrayMenuAssumption DEF Types, MenuInv
<1>2. \A id \in New : s[id - nextMenuId + 1] \in Values  BY <1>1
<1>3. \A id \in New : id \notin StaticIds /\ id >= FirstDynamicId
  BY <1>1, ItemFacts
<1>4. \A id \in StaticIds \cup New : F(id) \in Items
  BY <1>2, ItemFacts
<1>5. menuIndex' = [id \in StaticIds \cup New |-> F(id)]  BY DEF RebuildMenuTree
<1>6. menuIndex' \in [StaticIds \cup New -> Items]  BY <1>4, <1>5
<1>7. StaticIds \cup New \in SUBSET Int  BY <1>1, ItemFacts
<1>8. menuIndex' \in Menus  BY <1>6, <1>7 DEF Menus
<1>9. nextMenuId' = nextMenuId + Len(s) /\ menuRevision' = menuRevision + 1
  BY DEF RebuildMenuTree
<1>10. DOMAIN menuIndex' = StaticIds \cup (nextMenuId .. nextMenuId' - 1)
  <2>1. New = nextMenuId .. nextMenuId' - 1
    <3>1. nextMenuId' - 1 = nextMenuId + Len(s) - 1  BY <1>1, <1>9
    <3> QED  BY <3>1, Zenon
  <2> HIDE DEF New, F
  <2>2. DOMAIN menuIndex' = StaticIds \cup New  BY <1>5
  <2> QED  BY <2>1, <2>2
<1>11. MenuInv'
  <2>1. nextMenuId' >= FirstDynamicId /\ nextMenuId \in FirstDynamicId .. nextMenuId'
    BY <1>1, <1>9
  <2> QED  BY <1>10, <2>1 DEF MenuInv
<1>12. ASSUME NEW id, NEW item, Meant(id, item) PROVE Meant(id, item)'
  <2>1. CASE id \in StaticIds  BY <1>10, <1>12, <2>1, ItemFacts, <1>1 DEF Meant
  <2>2. CASE id \notin StaticIds
    <3>1. id \in FirstDynamicId .. nextMenuId - 1 /\ item.command = "media-source"
      BY <1>12, <2>2 DEF Meant
    <3>2. id \in FirstDynamicId .. nextMenuId' - 1 /\ id \notin New
      BY <1>1, <1>9, <3>1
    <3>3. id \notin DOMAIN menuIndex'  BY <1>5, <2>2, <3>2
    <3> QED  BY <3>1, <3>2, <3>3 DEF Meant
  <2> QED  BY <2>1, <2>2
<1>13. AllMeant(menuIndex)'
  <2>1. ASSUME NEW id \in StaticIds PROVE Meant(id, menuIndex[id])'
    <3>1. menuIndex'[id] = StaticItem(StaticItems[id], c)  BY <1>5
    <3>2. id \in DOMAIN menuIndex'  BY <1>5
    <3> QED  BY <3>1, <3>2, ItemFacts DEF Meant
  <2>2. ASSUME NEW id \in New PROVE Meant(id, menuIndex[id])'
    <3>1. menuIndex'[id] = SourceItem(s[id - nextMenuId + 1], c)  BY <1>3, <1>5
    <3>2. menuIndex'[id].command = "media-source"  BY <1>2, <3>1, ItemFacts
    <3>3. id \in FirstDynamicId .. nextMenuId' - 1  BY <1>1, <1>3, <1>9
    <3> QED  BY <3>2, <3>3 DEF Meant
  <2> QED  BY <1>5, <2>1, <2>2 DEF AllMeant
<1> QED  BY <1>1, <1>8, <1>9, <1>11, <1>12, <1>13

\* What the items mean, through a step that leaves the menu alone.
LEMMA MenuKept ==
    ASSUME UNCHANGED <<menuIndex, nextMenuId>>
    PROVE  /\ \A id, item : Meant(id, item) => Meant(id, item)'
           /\ MenuInv => MenuInv'
           /\ AllMeant(menuIndex) => AllMeant(menuIndex)'
BY DEF Meant, MenuInv, AllMeant

-----------------------------------------------------------------------------
(* Frames and calls *)

LEMMA RequestFacts ==
    /\ \A p \in Int : [call |-> "GetLayout", parent |-> p] \in Request
    /\ \A ids \in SUBSET Int : [call |-> "GetProperties", ids |-> ids] \in Request
    /\ \A ids \in SUBSET Int, g \in BOOLEAN :
           [call |-> "AboutToShow", ids |-> ids, group |-> g] \in Request
    /\ [call |-> "ToolTip"] \in Request
    /\ \A cs \in Seq(ClickOn) : [call |-> "Events", clicks |-> cs] \in Request
    /\ \A r \in Request : /\ r.call = "GetLayout" => r.parent \in Int
                          /\ r.call = "AboutToShow" => r.ids \in SUBSET Int
                          /\ r.call = "Events" => r.clicks \in Seq(ClickOn)
BY DEF Request

LEMMA AnswerFacts ==
    /\ \A p \in Int, r \in Nat, m \in Menus :
           [kind |-> "layout", parent |-> p, revision |-> r, items |-> m] \in Answer
    /\ \A m \in Menus : [kind |-> "properties", items |-> m] \in Answer
    /\ \A ids \in SUBSET Int : [kind |-> "need-update", ids |-> ids] \in Answer
    /\ \A r \in Nat : [kind |-> "layout-updated", revision |-> r] \in Answer
    /\ \A t \in Nat : [kind |-> "tooltip", text |-> t] \in Answer
    /\ [kind |-> "error"] \in Answer /\ [kind |-> "new-tooltip"] \in Answer
    /\ \A a \in Answer : /\ a.kind \in {"layout", "properties"} => a.items \in Menus
                         /\ a.kind = "need-update" => a.ids \in SUBSET Int
BY DEF Answer

-----------------------------------------------------------------------------
(* The steps.  Each lemma is about one of the variables that hold copies.    *)

\* The menu is built anew or left alone.
LEMMA StepMenu ==
    ASSUME Types, MenuInv, CopiesInv, [Next]_vars
    PROVE  /\ menuIndex' \in Menus /\ nextMenuId' \in Int /\ menuRevision' \in Nat
           /\ config' \in Configs
           /\ MenuInv' /\ AllMeant(menuIndex)'
           /\ \A id, item : Meant(id, item) => Meant(id, item)'
<1> USE DEF tray, desktop, engine, menu
<1>1. AllMeant(menuIndex)  BY DEF CopiesInv
<1>2. CASE InitialMediaRefresh \/ ServeAboutToShow
  <2>1. UNCHANGED menu \/ \E s \in GetAvailableSources : RebuildMenuTree(s, config)
    BY <1>2 DEF InitialMediaRefresh, ServeAboutToShow, RefreshMediaSourcesAndRebuild
  <2>2. config' = config  BY <1>2 DEF InitialMediaRefresh, ServeAboutToShow, RunIdle, Serve
  <2>3. CASE UNCHANGED menu  BY <1>1, <2>2, <2>3, MenuKept DEF Types
  <2>4. CASE \E s \in Seq(Values) : RebuildMenuTree(s, config)
    BY <2>2, <2>4, Rebuilt DEF Types
  <2> QED  BY <2>1, <2>3, <2>4, ListedSources
<1>3. ASSUME NEW c \in Configs, NotifyConfigChanged(c)
      PROVE  /\ menuIndex' \in Menus /\ nextMenuId' \in Int /\ menuRevision' \in Nat
             /\ config' \in Configs
             /\ MenuInv' /\ AllMeant(menuIndex)'
             /\ \A id, item : Meant(id, item) => Meant(id, item)'
  BY <1>3, StandingSources, Rebuilt DEF NotifyConfigChanged
<1>4. CASE CommandToggle
  <2>1. [config EXCEPT !.broadcast = ~@] \in Configs  BY DEF Types, Configs
  <2> QED  BY <1>3, <1>4, <2>1 DEF CommandToggle
<1>5. CASE CommandMediaSource
  <2>1. Head(clicks).id \in DOMAIN menuIndex
    BY <1>5 DEF CommandMediaSource, Command
  <2>2. menuIndex[Head(clicks).id].value \in Values
    BY <2>1, MenuFacts, ItemFacts DEF Types
  <2>3. [config EXCEPT !.source = menuIndex[Head(clicks).id].value] \in Configs
    BY <2>2 DEF Types, Configs, Values
  <2> QED  BY <1>3, <1>5, <2>3 DEF CommandMediaSource
<1>6. CASE Reload
  <2>1. UNCHANGED menu /\ config' \in Configs  BY <1>6 DEF Reload
  <2> QED  BY <1>1, <2>1, MenuKept DEF Types
<1>7. CASE UNCHANGED <<menu, config>>  BY <1>1, <1>7, MenuKept DEF Types
<1>8. CASE \/ Create \/ ApplyStatusUpdate \/ OnSigQuit
           \/ ServeGetLayout \/ ServeGetProperties \/ ServeToolTip \/ ServeEvents
           \/ EventsDone \/ CommandNone \/ CommandExit \/ PostStatusUpdate
           \/ OpenRoot \/ CloseRoot \/ AskAgain \/ Click \/ Desktop
           \/ UNCHANGED vars
  <2>1. UNCHANGED <<menu, config>>
    BY <1>8
       DEF Create, ApplyStatusUpdate, OnSigQuit, Quit, ServeGetLayout, ServeGetProperties,
           ServeToolTip, ServeEvents, EventsDone, CommandNone, CommandExit, PostStatusUpdate,
           OpenRoot, CloseRoot, AskAgain, Click, Desktop, ReceiveUpdate, ReceiveLayout,
           ReceiveProperties, ReceiveError, ReceiveToolTip, Receive, RunIdle, Serve, Command,
           Ask, vars
  <2> QED  BY <1>7, <2>1
<1> QED  BY <1>2, <1>4, <1>5, <1>6, <1>8 DEF Next, MainThread

\* What was meant before the step is meant after it.
LEMMA Keeps ==
    ASSUME \A id, item : Meant(id, item) => Meant(id, item)'
    PROVE  /\ \A cs : ClicksMeant(cs) => ClicksMeant(cs)'
           /\ \A m : AllMeant(m) => AllMeant(m)'
BY DEF ClicksMeant, AllMeant

\* A part of a menu.
LEMMA SubMenu ==
    ASSUME NEW m \in Menus, NEW D \in SUBSET DOMAIN m
    PROVE  /\ [id \in D |-> m[id]] \in Menus
           /\ AllMeant(m) => AllMeant([id \in D |-> m[id]])
<1>1. D \in SUBSET Int /\ \A id \in D : m[id] \in Items  BY MenuFacts
<1>2. [id \in D |-> m[id]] \in [D -> Items]  BY <1>1
<1>3. [id \in D |-> m[id]] \in Menus  BY <1>1, <1>2 DEF Menus
<1> QED  BY <1>3 DEF AllMeant

\* Calls of the desktop (HandleMenuMethodCall).
LEMMA StepRequests ==
    ASSUME Types, CopiesInv, [Next]_vars,
           \A id, item : Meant(id, item) => Meant(id, item)'
    PROVE  /\ requests' \in Seq(Request)
           /\ \A r \in ToSet(requests') : r.call = "Events" => ClicksMeant(r.clicks)'
<1> USE DEF tray, desktop, engine, menu
<1>1. requests \in Seq(Request)  BY DEF Types
<1>2. \A r \in ToSet(requests) : r.call = "Events" => ClicksMeant(r.clicks)'
  BY Keeps DEF CopiesInv
<1>3. CASE \/ requests' = requests \/ requests' = <<>>
           \/ requests # <<>> /\ requests' = Tail(requests)
  <2>1. /\ <<>> \in Seq(Request) /\ ToSet(<<>>) = {}
        /\ requests # <<>> => /\ Tail(requests) \in Seq(Request)
                              /\ ToSet(Tail(requests)) \subseteq ToSet(requests)
    BY <1>1, SeqFacts
  <2>2. requests' \in Seq(Request) /\ ToSet(requests') \subseteq ToSet(requests)
    BY <1>1, <1>3, <2>1, Zenon
  <2> QED  BY <1>2, <2>2
<1>4. ASSUME NEW r \in Request, r.call = "Events" => ClicksMeant(r.clicks)',
             requests' = Append(requests, r)
      PROVE  /\ requests' \in Seq(Request)
             /\ \A q \in ToSet(requests') : q.call = "Events" => ClicksMeant(q.clicks)'
  <2>1. requests' \in Seq(Request) /\ ToSet(requests') = ToSet(requests) \cup {r}
    BY <1>1, <1>4, SeqFacts
  <2> QED  BY <1>2, <1>4, <2>1
<1>5. CASE \/ InitialMediaRefresh \/ ApplyStatusUpdate
           \/ ServeGetLayout \/ ServeGetProperties \/ ServeAboutToShow \/ ServeToolTip
           \/ ServeEvents \/ EventsDone \/ OnSigQuit
           \/ CommandNone \/ CommandToggle \/ CommandMediaSource \/ CommandExit
           \/ Create \/ Reload \/ PostStatusUpdate \/ CloseRoot
           \/ ReceiveLayout \/ ReceiveProperties \/ ReceiveError
           \/ UNCHANGED vars
  BY <1>3, <1>5
     DEF InitialMediaRefresh, ApplyStatusUpdate, ServeGetLayout, ServeGetProperties,
         ServeAboutToShow, ServeToolTip, ServeEvents, EventsDone, OnSigQuit, Quit, CommandNone,
         CommandToggle, CommandMediaSource, CommandExit, Create, Reload, PostStatusUpdate,
         CloseRoot, ReceiveLayout, ReceiveProperties, ReceiveError, RunIdle, Serve, Command, vars
<1>6. \A p \in Int : /\ [call |-> "GetLayout", parent |-> p] \in Request
                     /\ [call |-> "GetLayout", parent |-> p].call # "Events"
  BY RequestFacts
<1>7. DOMAIN view \subseteq Int /\ RootId \in Int /\ SourceMenuId \in Int
  BY MenuFacts DEF Types, RootId, SourceMenuId
<1>8. CASE OpenRoot \/ AskAgain
  <2>1. PICK r, n : /\ Ask(r, n)
                    /\ \/ r = AboutToShow({RootId}, FALSE)
                       \/ r = [call |-> "GetLayout", parent |-> RootId]
                       \/ \E group \in BOOLEAN : r = AboutToShow({SourceMenuId}, group)
                       \/ \E id \in DOMAIN view : r = [call |-> "GetLayout", parent |-> id]
                       \/ r = [call |-> "GetProperties", ids |-> DOMAIN view]
    BY <1>8 DEF OpenRoot, AskAgain
  <2>2. \A ids \in SUBSET Int, g \in BOOLEAN :
            AboutToShow(ids, g) \in Request /\ AboutToShow(ids, g).call # "Events"
    BY RequestFacts DEF AboutToShow
  <2>3. \A ids \in SUBSET Int :
            LET q == [call |-> "GetProperties", ids |-> ids]
            IN q \in Request /\ q.call # "Events"
    BY RequestFacts
  <2>4. {RootId} \in SUBSET Int /\ {SourceMenuId} \in SUBSET Int /\ FALSE \in BOOLEAN
    BY <1>7
  <2> HIDE DEF AboutToShow
  <2>5. r \in Request /\ r.call # "Events"
    <3>1. CASE r = AboutToShow({RootId}, FALSE)  BY <2>2, <2>4, <3>1
    <3>2. CASE \E group \in BOOLEAN : r = AboutToShow({SourceMenuId}, group)
      BY <2>2, <2>4, <3>2
    <3>3. CASE r = [call |-> "GetLayout", parent |-> RootId]  BY <1>6, <1>7, <3>3
    <3>4. CASE \E id \in DOMAIN view : r = [call |-> "GetLayout", parent |-> id]
      BY <1>6, <1>7, <3>4
    <3>5. CASE r = [call |-> "GetProperties", ids |-> DOMAIN view]
      BY <1>7, <2>3, <3>5
    <3> QED  BY <2>1, <3>1, <3>2, <3>3, <3>4, <3>5
  <2> QED  BY <1>4, <2>1, <2>5 DEF Ask
<1>9. CASE ReceiveToolTip
  <2>1. [call |-> "ToolTip"] \in Request /\ [call |-> "ToolTip"].call # "Events"
    BY RequestFacts
  <2> QED  BY <1>3, <1>4, <1>9, <2>1 DEF ReceiveToolTip, Fetch
<1>10. CASE ReceiveUpdate
  <2>1. \/ requests' = requests
        \/ requests' = Append(requests, [call |-> "GetLayout", parent |-> RootId])
        \/ /\ answers # <<>> /\ Head(answers).kind = "need-update"
           /\ \E id \in Head(answers).ids :
                  requests' = Append(requests, [call |-> "GetLayout", parent |-> id])
    BY <1>10 DEF ReceiveUpdate, Receive, Fetch
  <2>2. answers # <<>> /\ Head(answers).kind = "need-update" => Head(answers).ids \in SUBSET Int
    BY SeqFacts, AnswerFacts DEF Types
  <2> QED  BY <1>3, <1>4, <1>6, <1>7, <2>1, <2>2
<1>11. CASE Click
  <2>1. PICK n \in 1 .. MaxEvents : \E ids \in [1 .. n -> DOMAIN view] :
            Ask([call |-> "Events",
                 clicks |-> [i \in 1 .. n |-> [id |-> ids[i], shown |-> view[ids[i]]]]], n)
    BY <1>11 DEF Click
  <2>0. PICK ids \in [1 .. n -> DOMAIN view] :
            Ask([call |-> "Events",
                 clicks |-> [i \in 1 .. n |-> [id |-> ids[i], shown |-> view[ids[i]]]]], n)
    BY <2>1
  <2> DEFINE cs == [i \in 1 .. n |-> [id |-> ids[i], shown |-> view[ids[i]]]]
  <2>2. \A i \in 1 .. n : [id |-> ids[i], shown |-> view[ids[i]]] \in ClickOn
    BY <1>7, MenuFacts DEF Types, ClickOn
  <2>3. n \in Nat  BY TrayMenuAssumption
  <2>4. cs \in Seq(ClickOn)  BY <2>2, <2>3
  <2>5. ClicksMeant(cs)
    <3>1. \A c \in ToSet(cs) : \E id \in DOMAIN view : c = [id |-> id, shown |-> view[id]]
      BY DEF ToSet
    <3> QED  BY <3>1 DEF ClicksMeant, CopiesInv, AllMeant
  <2>6. requests' = Append(requests, [call |-> "Events", clicks |-> cs])
    BY <2>0 DEF Ask
  <2> HIDE DEF cs
  <2>7. PICK q : q = cs  OBVIOUS
  <2>8. PICK r : r = [call |-> "Events", clicks |-> q]  OBVIOUS
  <2>9. r \in Request /\ r.clicks = q  BY <2>4, <2>7, <2>8, RequestFacts
  <2>10. ClicksMeant(q)'
    <3>1. ClicksMeant(q)  BY <2>5, <2>7
    <3> QED  BY <3>1, Keeps
  <2>11. ClicksMeant(r.clicks)'
    <3>1. r.clicks = q  BY <2>9
    <3> QED  BY <2>10, <3>1
  <2> QED  BY <1>4, <2>6, <2>7, <2>8, <2>9, <2>11
<1> QED  BY <1>5, <1>8, <1>9, <1>10, <1>11 DEF Next, MainThread, Desktop

\* Clicks that the main thread handles one by one (HandleCommand).
LEMMA StepClicks ==
    ASSUME Types, CopiesInv, [Next]_vars,
           \A id, item : Meant(id, item) => Meant(id, item)'
    PROVE  clicks' \in Seq(ClickOn) /\ ClicksMeant(clicks)'
<1> USE DEF tray, desktop, engine, menu
<1>1. clicks \in Seq(ClickOn) /\ requests \in Seq(Request)  BY DEF Types
<1>2. \A c \in ToSet(clicks) : Meant(c.id, c.shown)'  BY DEF CopiesInv, ClicksMeant
<1>3. ASSUME clicks' \in Seq(ClickOn), ToSet(clicks') \subseteq ToSet(clicks)
      PROVE  clicks' \in Seq(ClickOn) /\ ClicksMeant(clicks)'
  BY <1>2, <1>3 DEF ClicksMeant
<1>4. CASE clicks' = clicks  BY <1>1, <1>3, <1>4
<1>5. CASE clicks' = <<>>
  <2>1. <<>> \in Seq(ClickOn) /\ ToSet(<<>>) = {}  BY <1>1, SeqFacts
  <2> QED  BY <1>3, <1>5, <2>1
<1>6. CASE CommandNone \/ CommandToggle \/ CommandMediaSource \/ CommandExit
  <2>1. clicks # <<>> /\ clicks' = Tail(clicks)
    BY <1>6 DEF CommandNone, CommandToggle, CommandMediaSource, CommandExit, Command
  <2>2. Tail(clicks) \in Seq(ClickOn) /\ ToSet(Tail(clicks)) \subseteq ToSet(clicks)
    BY <1>1, <2>1, SeqFacts
  <2> QED  BY <1>3, <2>1, <2>2
<1>7. CASE ServeEvents
  <2>1. /\ requests # <<>> /\ Head(requests).call = "Events"
        /\ clicks' = Head(requests).clicks
    BY <1>7 DEF ServeEvents, Serve
  <2>2. Head(requests) \in Request /\ Head(requests) \in ToSet(requests)
    BY <1>1, <2>1, SeqFacts
  <2>3. PICK r : r = Head(requests)  OBVIOUS
  <2>4. r.clicks \in Seq(ClickOn) /\ ClicksMeant(r.clicks)
    BY <2>1, <2>2, <2>3, RequestFacts DEF CopiesInv
  <2>5. \A c \in ToSet(clicks') : Meant(c.id, c.shown)'
    BY <2>1, <2>3, <2>4 DEF ClicksMeant
  <2> QED  BY <2>1, <2>3, <2>4, <2>5 DEF ClicksMeant
<1>8. CASE \/ InitialMediaRefresh \/ ApplyStatusUpdate
           \/ ServeGetLayout \/ ServeGetProperties \/ ServeAboutToShow \/ ServeToolTip
           \/ EventsDone \/ OnSigQuit
           \/ Create \/ Reload \/ PostStatusUpdate
           \/ OpenRoot \/ CloseRoot \/ AskAgain \/ Click \/ Desktop
           \/ UNCHANGED vars
  <2>1. clicks' = clicks \/ clicks' = <<>>
    BY <1>8
       DEF InitialMediaRefresh, ApplyStatusUpdate, ServeGetLayout, ServeGetProperties,
           ServeAboutToShow, ServeToolTip, EventsDone, OnSigQuit, Quit, Create, Reload,
           PostStatusUpdate, OpenRoot, CloseRoot, AskAgain, Click, Desktop, ReceiveUpdate,
           ReceiveLayout, ReceiveProperties, ReceiveError, ReceiveToolTip, Receive, RunIdle,
           Serve, Ask, vars
  <2> QED  BY <1>4, <1>5, <2>1
<1> QED  BY <1>6, <1>7, <1>8 DEF Next, MainThread

\* Replies and signals (BuildLayoutVariant, EmitLayoutUpdated).
LEMMA StepAnswers ==
    ASSUME Types, MenuInv, CopiesInv, [Next]_vars, menuRevision' \in Nat,
           \A id, item : Meant(id, item) => Meant(id, item)'
    PROVE  /\ answers' \in Seq(Answer)
           /\ \A a \in ToSet(answers') :
                  a.kind \in {"layout", "properties"} => AllMeant(a.items)'
<1> USE DEF tray, desktop, engine, menu
<1>1. answers \in Seq(Answer) /\ requests \in Seq(Request) /\ menuIndex \in Menus
  BY DEF Types
<1>2. \A a \in ToSet(answers) : a.kind \in {"layout", "properties"} => AllMeant(a.items)'
  BY Keeps DEF CopiesInv
<1>3. CASE \/ answers' = answers \/ answers' = <<>>
           \/ answers # <<>> /\ answers' = Tail(answers)
  <2>1. /\ <<>> \in Seq(Answer) /\ ToSet(<<>>) = {}
        /\ answers # <<>> => /\ Tail(answers) \in Seq(Answer)
                             /\ ToSet(Tail(answers)) \subseteq ToSet(answers)
    BY <1>1, SeqFacts
  <2>2. answers' \in Seq(Answer) /\ ToSet(answers') \subseteq ToSet(answers)
    BY <1>1, <1>3, <2>1, Zenon
  <2> QED  BY <1>2, <2>2
<1>4. ASSUME NEW a \in Answer,
             a.kind \in {"layout", "properties"} => AllMeant(a.items),
             answers' = Append(answers, a)
      PROVE  /\ answers' \in Seq(Answer)
             /\ \A b \in ToSet(answers') :
                    b.kind \in {"layout", "properties"} => AllMeant(b.items)'
  <2>1. answers' \in Seq(Answer) /\ ToSet(answers') = ToSet(answers) \cup {a}
    BY <1>1, <1>4, SeqFacts
  <2>2. AllMeant(a.items) => AllMeant(a.items)'  BY Keeps
  <2> QED  BY <1>2, <1>4, <2>1, <2>2
<1>5. \A m \in Menus : DOMAIN m \subseteq Int  BY MenuFacts
<1>6. AllMeant(menuIndex)  BY DEF CopiesInv
<1>7. \A D \in SUBSET DOMAIN menuIndex :
          /\ [id \in D |-> menuIndex[id]] \in Menus
          /\ AllMeant([id \in D |-> menuIndex[id]])
  BY <1>1, <1>6, SubMenu
<1>8. Nothing \in Menus /\ AllMeant(Nothing)  BY MenuFacts DEF AllMeant
<1>9. CASE ServeGetLayout
  <2>1. PICK parent : parent = Head(requests).parent  OBVIOUS
  <2>2. requests # <<>> /\ Head(requests).call = "GetLayout"
    BY <1>9 DEF ServeGetLayout, Serve
  <2>3. parent \in Int  BY <1>1, <2>1, <2>2, SeqFacts, RequestFacts
  <2>4. PICK items : items = Layout(parent).items  OBVIOUS
  <2>5. items \in Menus /\ AllMeant(items)
    <3>1. \/ items = menuIndex \/ items = Nothing
          \/ items = [id \in DOMAIN menuIndex \ StaticIds |-> menuIndex[id]]
      BY <2>4 DEF Layout
    <3> QED  BY <1>1, <1>6, <1>7, <1>8, <3>1
  <2>6. Layout(parent)
            = [kind |-> "layout", parent |-> parent, revision |-> menuRevision, items |-> items]
    BY <2>4 DEF Layout
  <2>7. Layout(parent) \in Answer /\ Layout(parent).items = items
    BY <2>3, <2>5, <2>6, AnswerFacts DEF Types
  <2>8. NoSuchItem \in Answer /\ NoSuchItem.kind = "error"  BY AnswerFacts DEF NoSuchItem
  <2>9. \/ answers' = Append(answers, Layout(parent))
        \/ answers' = Append(answers, NoSuchItem)
    BY <1>9, <2>1 DEF ServeGetLayout
  <2> QED  BY <1>4, <2>5, <2>7, <2>8, <2>9
<1>10. CASE ServeGetProperties
  <2>1. PICK ids : ids = Head(requests).ids \cap DOMAIN menuIndex  OBVIOUS
  <2>2. PICK items : items = [id \in ids |-> menuIndex[id]]  OBVIOUS
  <2>3. items \in Menus /\ AllMeant(items)  BY <1>7, <2>1, <2>2
  <2>4. answers' = Append(answers, [kind |-> "properties", items |-> items])
    BY <1>10, <2>1, <2>2 DEF ServeGetProperties
  <2> QED  BY <1>4, <2>3, <2>4, AnswerFacts
<1>11. ASSUME NEW a \in Answer, a.kind \notin {"layout", "properties"},
              answers' = Append(answers, a)
       PROVE  /\ answers' \in Seq(Answer)
              /\ \A b \in ToSet(answers') :
                     b.kind \in {"layout", "properties"} => AllMeant(b.items)'
  BY <1>4, <1>11
<1>12. CASE ServeAboutToShow
  <2>1. requests # <<>> /\ Head(requests).call = "AboutToShow"
    BY <1>12 DEF ServeAboutToShow, Serve
  <2>2. Head(requests).ids \in SUBSET Int  BY <1>1, <2>1, SeqFacts, RequestFacts
  <2>3. \E ids \in SUBSET Int : answers' = Append(answers, NeedUpdate(ids))
    BY <1>12, <2>2 DEF ServeAboutToShow
  <2>4. \A ids \in SUBSET Int : /\ NeedUpdate(ids) \in Answer
                                /\ NeedUpdate(ids).kind = "need-update"
    BY AnswerFacts DEF NeedUpdate
  <2> QED  BY <1>11, <2>3, <2>4
<1>13. CASE ServeToolTip
  <2>1. answers' = Append(answers, [kind |-> "tooltip", text |-> statusText])
    BY <1>13 DEF ServeToolTip
  <2>2. [kind |-> "tooltip", text |-> statusText] \in Answer
    BY AnswerFacts DEF Types
  <2> QED  BY <1>11, <2>1, <2>2
<1>14. CASE ApplyStatusUpdate
  BY <1>11, <1>14, AnswerFacts DEF ApplyStatusUpdate, NewToolTip
<1>15. CASE CommandToggle \/ CommandMediaSource
  <2>1. answers' = Append(answers, LayoutUpdated(menuRevision'))
    BY <1>15 DEF CommandToggle, CommandMediaSource, NotifyConfigChanged
  <2>2. /\ LayoutUpdated(menuRevision') \in Answer
        /\ LayoutUpdated(menuRevision').kind = "layout-updated"
    BY AnswerFacts DEF LayoutUpdated
  <2>3. PICK a : a = LayoutUpdated(menuRevision')  OBVIOUS
  <2> QED  BY <1>11, <2>1, <2>2, <2>3
<1>16. CASE \/ InitialMediaRefresh \/ ServeEvents \/ EventsDone \/ OnSigQuit
            \/ CommandNone \/ CommandExit
            \/ Create \/ Reload \/ PostStatusUpdate
            \/ OpenRoot \/ CloseRoot \/ AskAgain \/ Click \/ Desktop
            \/ UNCHANGED vars
  BY <1>3, <1>16
     DEF InitialMediaRefresh, ServeEvents, EventsDone, OnSigQuit, Quit, CommandNone,
         CommandExit, Create, Reload, PostStatusUpdate, OpenRoot, CloseRoot, AskAgain, Click,
         Desktop, ReceiveUpdate, ReceiveLayout, ReceiveProperties, ReceiveError,
         ReceiveToolTip, Receive, RunIdle, Serve, Command, Ask, vars
<1> QED
  BY <1>9, <1>10, <1>12, <1>13, <1>14, <1>15, <1>16 DEF Next, MainThread

\* Widgets, which take over the items of the answers.
LEMMA StepView ==
    ASSUME Types, CopiesInv, [Next]_vars,
           \A id, item : Meant(id, item) => Meant(id, item)'
    PROVE  view' \in Menus /\ AllMeant(view)'
<1> USE DEF tray, desktop, engine, menu
<1>1. answers \in Seq(Answer) /\ view \in Menus  BY DEF Types
<1>2. SUFFICES ASSUME NEW v, v = view' PROVE v \in Menus /\ AllMeant(v)
  <2>1. PICK v : v = view'  OBVIOUS
  <2>2. v \in Menus /\ AllMeant(v)  BY <1>2, <2>1
  <2>3. AllMeant(v)'  BY <2>2, Keeps
  <2> QED  BY <2>1, <2>2, <2>3 DEF AllMeant
<1>3. AllMeant(view)  BY DEF CopiesInv
<1>4. Nothing \in Menus /\ AllMeant(Nothing)  BY MenuFacts DEF AllMeant
<1>5. \A a \in Answer : a \in ToSet(answers) /\ a.kind \in {"layout", "properties"}
                            => a.items \in Menus /\ AllMeant(a.items)
  BY AnswerFacts DEF CopiesInv
<1>6. answers # <<>> => Head(answers) \in Answer /\ Head(answers) \in ToSet(answers)
  BY <1>1, SeqFacts
<1>7. CASE ReceiveLayout
  <2>1. PICK items : items = Head(answers).items  OBVIOUS
  <2>2. items \in Menus /\ AllMeant(items)
    BY <1>5, <1>6, <1>7, <2>1 DEF ReceiveLayout, Receive
  <2>3. \/ v = items \/ v = view
        \/ v = [id \in DOMAIN items \cup (DOMAIN view \cap StaticIds) |->
                   IF id \in DOMAIN items THEN items[id] ELSE view[id]]
    BY <1>2, <1>7, <2>1 DEF ReceiveLayout
  <2>4. CASE v = [id \in DOMAIN items \cup (DOMAIN view \cap StaticIds) |->
                     IF id \in DOMAIN items THEN items[id] ELSE view[id]]
    <3>2. DOMAIN v \in SUBSET Int /\ \A id \in DOMAIN v : v[id] \in Items
      BY <1>1, <2>2, <2>4, MenuFacts
    <3>3. v \in [DOMAIN v -> Items]  BY <2>4, <3>2
    <3>4. AllMeant(v)  BY <1>3, <2>2, <2>4 DEF AllMeant
    <3> QED  BY <3>2, <3>3, <3>4 DEF Menus
  <2> QED  BY <1>1, <1>3, <2>2, <2>3, <2>4
<1>8. CASE ReceiveProperties
  <2>1. PICK items : items = Head(answers).items  OBVIOUS
  <2>2. items \in Menus /\ AllMeant(items)
    BY <1>5, <1>6, <1>8, <2>1 DEF ReceiveProperties, Receive
  <2>3. v = [id \in DOMAIN view |-> IF id \in DOMAIN items THEN items[id] ELSE view[id]]
    BY <1>2, <1>8, <2>1 DEF ReceiveProperties
  <2>4. DOMAIN v \in SUBSET Int /\ \A id \in DOMAIN v : v[id] \in Items
    BY <1>1, <2>2, <2>3, MenuFacts
  <2>5. v \in [DOMAIN v -> Items]  BY <2>3, <2>4
  <2>6. AllMeant(v)  BY <1>3, <2>2, <2>3 DEF AllMeant
  <2> QED  BY <2>4, <2>5, <2>6 DEF Menus
<1>9. CASE \/ Create \/ MainThread \/ Reload \/ OnSigQuit \/ PostStatusUpdate
           \/ OpenRoot \/ CloseRoot \/ AskAgain \/ Click
           \/ ReceiveUpdate \/ ReceiveError \/ ReceiveToolTip
           \/ UNCHANGED vars
  <2>1. view' = view \/ view' = Nothing
    BY <1>9
       DEF Create, MainThread, InitialMediaRefresh, ApplyStatusUpdate, ServeGetLayout,
           ServeGetProperties, ServeAboutToShow, ServeToolTip, ServeEvents, EventsDone,
           CommandNone, CommandToggle, CommandMediaSource, CommandExit, Reload, OnSigQuit,
           Quit, PostStatusUpdate, OpenRoot, CloseRoot, AskAgain, Click, ReceiveUpdate,
           ReceiveError, ReceiveToolTip, Receive, RunIdle, Serve, Command, Ask, vars
  <2> QED  BY <1>1, <1>2, <1>3, <1>4, <2>1
<1> QED  BY <1>7, <1>8, <1>9 DEF Next, Desktop

-----------------------------------------------------------------------------
(* The theorem *)

IInv == Types /\ MenuInv /\ CopiesInv

LEMMA Initially == Init => IInv
<1> SUFFICES ASSUME Init PROVE IInv  OBVIOUS
<1>1. Types
  <2>1. Nothing \in Menus  BY MenuFacts
  <2>2. config \in Configs  BY DEF Init, Configs
  <2> QED  BY <2>1, <2>2, TrayMenuAssumption DEF Init, Types
<1>2. MenuInv  BY MenuFacts, TrayMenuAssumption DEF Init, MenuInv
<1>3. CopiesInv
  <2>1. AllMeant(Nothing)  BY MenuFacts DEF AllMeant
  <2>2. ToSet(<<>>) = {}  BY DEF ToSet
  <2> QED  BY <2>1, <2>2 DEF Init, CopiesInv, ClicksMeant
<1> QED  BY <1>1, <1>2, <1>3 DEF IInv

LEMMA Invariance == IInv /\ [Next]_vars => IInv'
<1> SUFFICES ASSUME Types, MenuInv, CopiesInv, [Next]_vars PROVE IInv'  BY DEF IInv
<1>1. /\ menuIndex' \in Menus /\ nextMenuId' \in Int /\ menuRevision' \in Nat
      /\ config' \in Configs
      /\ MenuInv' /\ AllMeant(menuIndex)'
      /\ \A id, item : Meant(id, item) => Meant(id, item)'
  BY StepMenu
<1>2. /\ requests' \in Seq(Request)
      /\ \A r \in ToSet(requests') : r.call = "Events" => ClicksMeant(r.clicks)'
  BY <1>1, StepRequests
<1>3. clicks' \in Seq(ClickOn) /\ ClicksMeant(clicks)'  BY <1>1, StepClicks
<1>4. /\ answers' \in Seq(Answer)
      /\ \A a \in ToSet(answers') :
             a.kind \in {"layout", "properties"} => AllMeant(a.items)'
  BY <1>1, StepAnswers
<1>5. view' \in Menus /\ AllMeant(view)'  BY <1>1, StepView
<1>6. idle' \in Seq(Nat) /\ statusText' \in Nat /\ status' \in Nat
  <2> USE DEF tray, desktop, engine, menu
  <2>1. idle \in Seq(Nat) /\ statusText \in Nat /\ status \in Nat  BY DEF Types
  <2>2. idle # <<>> => Head(idle) \in Nat /\ Tail(idle) \in Seq(Nat)  BY <2>1
  <2>3. CASE PostStatusUpdate  BY <2>1, <2>3 DEF PostStatusUpdate
  <2>4. CASE Create  BY <2>1, <2>4 DEF Create, FirstRefresh
  <2>5. CASE InitialMediaRefresh \/ ApplyStatusUpdate
    BY <2>1, <2>2, <2>5 DEF InitialMediaRefresh, ApplyStatusUpdate, RunIdle
  <2>6. CASE \/ ServeGetLayout \/ ServeGetProperties \/ ServeAboutToShow \/ ServeToolTip
             \/ ServeEvents \/ EventsDone \/ OnSigQuit
             \/ CommandNone \/ CommandToggle \/ CommandMediaSource \/ CommandExit
             \/ Reload \/ OpenRoot \/ CloseRoot \/ AskAgain \/ Click \/ Desktop
             \/ UNCHANGED vars
    <3>1. (idle' = idle \/ idle' = <<>>) /\ UNCHANGED <<statusText, status>>
      BY <2>6
         DEF ServeGetLayout, ServeGetProperties, ServeAboutToShow, ServeToolTip, ServeEvents,
             EventsDone, OnSigQuit, Quit, CommandNone, CommandToggle, CommandMediaSource,
             CommandExit, Reload, OpenRoot, CloseRoot, AskAgain, Click, Desktop, ReceiveUpdate,
             ReceiveLayout, ReceiveProperties, ReceiveError, ReceiveToolTip, Receive, Serve,
             Command, Ask, vars
    <3>2. <<>> \in Seq(Nat)  OBVIOUS
    <3>3. idle' \in Seq(Nat)
      <4>1. CASE idle' = idle  BY <2>1, <4>1
      <4>2. CASE idle' = <<>>  BY <3>2, <4>2
      <4> QED  BY <3>1, <4>1, <4>2
    <3> QED  BY <2>1, <3>1, <3>3
  <2> QED  BY <2>3, <2>4, <2>5, <2>6 DEF Next, MainThread
<1>7. Types'  BY <1>1, <1>2, <1>3, <1>4, <1>5, <1>6 DEF Types
<1>8. CopiesInv'  BY <1>1, <1>2, <1>3, <1>4, <1>5 DEF CopiesInv
<1> QED  BY <1>1, <1>7, <1>8 DEF IInv

\* What a click on a copy that is meant does.
LEMMA MeantIsRight ==
    ASSUME MenuInv, Types, AllMeant(menuIndex), NEW id, NEW item, Meant(id, item)
    PROVE  IF id \in DOMAIN menuIndex THEN Same(menuIndex[id], item)
           ELSE item.command = "media-source"
<1>1. CASE id \in DOMAIN menuIndex
  <2>1. Meant(id, menuIndex[id])  BY <1>1 DEF AllMeant
  <2>2. ~(id \in StaticIds /\ id \in FirstDynamicId .. nextMenuId - 1)
    BY ItemFacts, TrayMenuAssumption DEF Types
  <2> QED  BY <1>1, <2>1, <2>2 DEF Meant, Same
<1>2. CASE id \notin DOMAIN menuIndex  BY <1>2 DEF Meant
<1> QED  BY <1>1, <1>2

\* A click does what the widget said or nothing, however old the widget is and
\* whatever was built since (RebuildMenuTree, HandleCommand).
THEOREM ClicksDoWhatWasShown == Spec => []ClickMeansWhatWasShown
<1>1. IInv => ClickMeansWhatWasShown
  <2> SUFFICES ASSUME IInv PROVE ClickMeansWhatWasShown  OBVIOUS
  <2>1. ASSUME NEW cs, ClicksMeant(cs), NEW c \in ToSet(cs)
        PROVE  IF c.id \in DOMAIN menuIndex THEN Same(menuIndex[c.id], c.shown)
               ELSE c.shown.command = "media-source"
    <3>1. Meant(c.id, c.shown)  BY <2>1 DEF ClicksMeant
    <3> QED  BY <3>1, MeantIsRight DEF IInv, CopiesInv
  <2>2. /\ ClicksMeant(clicks)
        /\ \A r \in ToSet(requests) : r.call = "Events" => ClicksMeant(r.clicks)
    BY DEF IInv, CopiesInv
  <2> QED  BY <2>1, <2>2 DEF ClickMeansWhatWasShown
<1> QED  BY <1>1, Initially, Invariance, PTL DEF Spec

-----------------------------------------------------------------------------
(* Revisions *)

\* A layout on the bus is of this menu or of an earlier one.
RevisionInv ==
    \A a \in ToSet(answers) : a.kind = "layout" =>
        /\ a.revision <= menuRevision
        /\ a.parent = RootId /\ a.revision = menuRevision => a.items = menuIndex

LEMMA StepRevision ==
    ASSUME Types, RevisionInv, [Next]_vars
    PROVE  RevisionInv'
<1> USE DEF tray, desktop, engine, menu
<1>1. answers \in Seq(Answer) /\ menuRevision \in Nat  BY DEF Types
<1>2. UNCHANGED menu \/ menuRevision' = menuRevision + 1
  BY DEF Next, MainThread, InitialMediaRefresh, ServeAboutToShow, RefreshMediaSourcesAndRebuild,
         RebuildMenuTree, CommandToggle, CommandMediaSource, NotifyConfigChanged, Create,
         ApplyStatusUpdate, OnSigQuit, Quit, ServeGetLayout, ServeGetProperties, ServeToolTip,
         ServeEvents, EventsDone, CommandNone, CommandExit, Reload, PostStatusUpdate, OpenRoot,
         CloseRoot, AskAgain, Click, Desktop, ReceiveUpdate, ReceiveLayout, ReceiveProperties,
         ReceiveError, ReceiveToolTip, Receive, RunIdle, Serve, Command, Ask, vars
<1>3. ASSUME NEW a \in ToSet(answers), a.kind = "layout"
      PROVE  /\ a.revision <= menuRevision'
             /\ a.parent = RootId /\ a.revision = menuRevision' => a.items = menuIndex'
  <2>1. a.revision \in Int
    <3>1. a \in Answer  BY <1>1, <1>3 DEF ToSet
    <3> QED  BY <1>3, <3>1 DEF Answer
  <2>2. /\ a.revision <= menuRevision
        /\ a.parent = RootId /\ a.revision = menuRevision => a.items = menuIndex
    BY <1>3 DEF RevisionInv
  <2> QED  BY <1>1, <1>2, <2>1, <2>2
<1>4. CASE ServeGetLayout
  <2>1. UNCHANGED menu  BY <1>4 DEF ServeGetLayout
  <2>2. PICK a \in {Layout(Head(requests).parent), NoSuchItem} : answers' = Append(answers, a)
    BY <1>4 DEF ServeGetLayout
  <2>3. ToSet(answers') = ToSet(answers) \cup {a}
    <3>1. answers \in Seq(Answer \cup {a})  BY <1>1
    <3> QED  BY <2>2, <3>1, SeqFacts
  <2>4. a.kind = "layout" => /\ a.revision = menuRevision
                             /\ a.parent = RootId => a.items = menuIndex
    <3>1. NoSuchItem.kind = "error"  BY DEF NoSuchItem
    <3>2. PICK parent : parent = Head(requests).parent  OBVIOUS
    <3>3. Layout(parent).revision = menuRevision /\ Layout(parent).parent = parent
      BY DEF Layout
    <3>4. parent = RootId => Layout(parent).items = menuIndex
      <4> SUFFICES ASSUME parent = RootId PROVE Layout(parent).items = menuIndex  OBVIOUS
      <4> DEFINE others == [id \in DOMAIN menuIndex \ StaticIds |-> menuIndex[id]]
      <4>1. Layout(parent).items = CASE parent = RootId -> menuIndex
                                     [] parent = SourceMenuId -> others
                                     [] OTHER -> Nothing
        BY DEF Layout
      <4> HIDE DEF others
      <4> QED  BY <4>1 DEF RootId, SourceMenuId
    <3> QED  BY <3>1, <3>2, <3>3, <3>4
  <2> QED  BY <1>1, <1>3, <2>1, <2>3, <2>4 DEF RevisionInv
<1>5. ASSUME \A a \in ToSet(answers') : a.kind = "layout" => a \in ToSet(answers)
      PROVE  RevisionInv'
  BY <1>3, <1>5 DEF RevisionInv
<1>6. ASSUME NEW a, a.kind # "layout", answers' = Append(answers, a)
      PROVE  RevisionInv'
  <2>1. answers \in Seq(Answer \cup {a})  BY <1>1
  <2>2. ToSet(answers') = ToSet(answers) \cup {a}  BY <1>6, <2>1, SeqFacts
  <2> QED  BY <1>5, <1>6, <2>2
<1>7. CASE ServeGetProperties
  BY <1>6, <1>7 DEF ServeGetProperties
<1>8. CASE ServeAboutToShow
  <2>1. PICK ids : answers' = Append(answers, NeedUpdate(ids))
    BY <1>8 DEF ServeAboutToShow
  <2> QED  BY <1>6, <2>1 DEF NeedUpdate
<1>9. CASE ServeToolTip \/ ApplyStatusUpdate
  BY <1>6, <1>9 DEF ServeToolTip, ApplyStatusUpdate, NewToolTip
<1>10. CASE CommandToggle \/ CommandMediaSource
  <2>1. PICK a : a = LayoutUpdated(menuRevision')  OBVIOUS
  <2>2. answers' = Append(answers, a)
    BY <1>10, <2>1 DEF CommandToggle, CommandMediaSource, NotifyConfigChanged
  <2>3. a.kind # "layout"  BY <2>1 DEF LayoutUpdated
  <2> QED  BY <1>6, <2>2, <2>3
<1>11. CASE \/ InitialMediaRefresh \/ ServeEvents \/ EventsDone \/ OnSigQuit
            \/ CommandNone \/ CommandExit
            \/ Create \/ Reload \/ PostStatusUpdate
            \/ OpenRoot \/ CloseRoot \/ AskAgain \/ Click \/ Desktop
            \/ UNCHANGED vars
  <2>1. \/ answers' = answers \/ answers' = <<>>
        \/ answers # <<>> /\ answers' = Tail(answers)
    BY <1>11
       DEF InitialMediaRefresh, ServeEvents, EventsDone, OnSigQuit, Quit, CommandNone,
           CommandExit, Create, Reload, PostStatusUpdate, OpenRoot, CloseRoot, AskAgain, Click,
           Desktop, ReceiveUpdate, ReceiveLayout, ReceiveProperties, ReceiveError,
           ReceiveToolTip, Receive, RunIdle, Serve, Command, Ask, vars
  <2>2. /\ ToSet(<<>>) = {}
        /\ answers # <<>> => ToSet(Tail(answers)) \subseteq ToSet(answers)
    BY <1>1, SeqFacts
  <2>3. ToSet(answers') \subseteq ToSet(answers)  BY <2>1, <2>2, Zenon
  <2> QED  BY <1>5, <2>3
<1> QED
  BY <1>4, <1>7, <1>8, <1>9, <1>10, <1>11 DEF Next, MainThread

\* A revision number identifies a menu: whoever has the current number has the
\* current items (menuRevision_, BuildLayoutVariant).
THEOREM RevisionsIdentifyMenus == Spec => []RevisionIdentifiesMenu
<1>1. Init => RevisionInv
  <2>1. ToSet(<<>>) = {}  BY DEF ToSet
  <2> QED  BY <2>1 DEF Init, RevisionInv
<1>2. IInv /\ RevisionInv /\ [Next]_vars => RevisionInv'  BY StepRevision DEF IInv
<1>3. RevisionInv => RevisionIdentifiesMenu  BY DEF RevisionInv, RevisionIdentifiesMenu
<1> QED  BY <1>1, <1>2, <1>3, Initially, Invariance, PTL DEF Spec

-----------------------------------------------------------------------------
(* The order of the bus.  Some messages carry a number, the rest do not (-1). *)

Has(q, K) == \E i \in DOMAIN q : q[i] \in K

AtMostOne(q, K) == \A i, j \in DOMAIN q : q[i] \in K /\ q[j] \in K => i = j

\* What comes behind a K is a G.
Behind(q, K, G) == \A i, j \in DOMAIN q : i < j /\ q[i] \in K => q[j] \in G

\* The numbers are between low and high and never fall.
InOrder(q, n, low, high) ==
    /\ low \in Nat /\ high \in Nat /\ low <= high
    /\ \A i \in DOMAIN q : n[q[i]] # -1 => n[q[i]] \in low .. high
    /\ \A i, j \in DOMAIN q : i < j /\ n[q[i]] # -1 /\ n[q[j]] # -1 => n[q[i]] <= n[q[j]]

LEMMA Places ==
    ASSUME NEW S, NEW q \in Seq(S)
    PROVE  /\ DOMAIN q = 1 .. Len(q) /\ Len(q) \in Nat
           /\ \A x \in S : /\ DOMAIN Append(q, x) = 1 .. Len(q) + 1
                           /\ Append(q, x)[Len(q) + 1] = x
                           /\ \A i \in 1 .. Len(q) : Append(q, x)[i] = q[i]
           /\ q # <<>> => /\ Head(q) = q[1] /\ Len(q) >= 1
                          /\ DOMAIN Tail(q) = 1 .. Len(q) - 1
                          /\ \A i \in 1 .. Len(q) - 1 : Tail(q)[i] = q[i + 1]
OBVIOUS

LEMMA HasFacts ==
    ASSUME NEW S, NEW q \in Seq(S), NEW K
    PROVE  /\ ~Has(<<>>, K) /\ AtMostOne(<<>>, K)
           /\ \A x \in S :
                  /\ Has(Append(q, x), K) <=> Has(q, K) \/ x \in K
                  /\ AtMostOne(q, K) /\ (x \in K => ~Has(q, K)) => AtMostOne(Append(q, x), K)
           /\ q # <<>> =>
                  /\ Has(Tail(q), K) => Has(q, K)
                  /\ AtMostOne(q, K) => AtMostOne(Tail(q), K)
                  /\ AtMostOne(q, K) /\ Head(q) \in K => Has(q, K) /\ ~Has(Tail(q), K)
<1>1. ~Has(<<>>, K) /\ AtMostOne(<<>>, K)  BY DEF Has, AtMostOne
<1>2. ASSUME NEW x \in S
      PROVE  /\ Has(Append(q, x), K) <=> Has(q, K) \/ x \in K
             /\ AtMostOne(q, K) /\ (x \in K => ~Has(q, K)) => AtMostOne(Append(q, x), K)
  <2>1. PICK r : r = Append(q, x)  OBVIOUS
  <2>2. /\ DOMAIN q = 1 .. Len(q) /\ Len(q) \in Nat /\ DOMAIN r = 1 .. Len(q) + 1
        /\ r[Len(q) + 1] = x /\ \A i \in 1 .. Len(q) : r[i] = q[i]
    BY <2>1, Places
  <2>3. Has(r, K) <=> Has(q, K) \/ x \in K  BY <2>2 DEF Has
  <2>4. AtMostOne(q, K) /\ (x \in K => ~Has(q, K)) => AtMostOne(r, K)
    BY <2>2 DEF Has, AtMostOne
  <2> QED  BY <2>1, <2>3, <2>4
<1>3. ASSUME q # <<>>
      PROVE  /\ Has(Tail(q), K) => Has(q, K)
             /\ AtMostOne(q, K) => AtMostOne(Tail(q), K)
             /\ AtMostOne(q, K) /\ Head(q) \in K => Has(q, K) /\ ~Has(Tail(q), K)
  <2>1. PICK r : r = Tail(q)  OBVIOUS
  <2>2. /\ DOMAIN q = 1 .. Len(q) /\ Len(q) \in Nat /\ Head(q) = q[1] /\ Len(q) >= 1
        /\ DOMAIN r = 1 .. Len(q) - 1 /\ \A i \in 1 .. Len(q) - 1 : r[i] = q[i + 1]
    BY <1>3, <2>1, Places
  <2>3. \A i \in DOMAIN r : i + 1 \in DOMAIN q /\ r[i] = q[i + 1] /\ i + 1 # 1
    BY <2>2
  <2>4. Has(r, K) => Has(q, K)  BY <2>3 DEF Has
  <2>5. AtMostOne(q, K) => AtMostOne(r, K)
    <3>1. \A i, j \in DOMAIN r : i + 1 = j + 1 => i = j  BY <2>2
    <3> QED  BY <2>3, <3>1 DEF AtMostOne
  <2>6. AtMostOne(q, K) /\ Head(q) \in K => Has(q, K) /\ ~Has(r, K)
    <3>1. 1 \in DOMAIN q  BY <2>2
    <3> QED  BY <2>2, <2>3, <3>1 DEF Has, AtMostOne
  <2> QED  BY <2>1, <2>4, <2>5, <2>6
<1> QED  BY <1>1, <1>2, <1>3

LEMMA BehindFacts ==
    ASSUME NEW S, NEW q \in Seq(S), NEW K, NEW G
    PROVE  /\ Behind(<<>>, K, G)
           /\ \A x \in S : Behind(q, K, G) /\ (Has(q, K) => x \in G) => Behind(Append(q, x), K, G)
           /\ q # <<>> /\ Behind(q, K, G) =>
                  /\ Behind(Tail(q), K, G)
                  /\ Head(q) \in K => ToSet(Tail(q)) \subseteq G
<1>1. Behind(<<>>, K, G)  BY DEF Behind
<1>2. ASSUME NEW x \in S, Behind(q, K, G), Has(q, K) => x \in G
      PROVE  Behind(Append(q, x), K, G)
  <2>1. PICK r : r = Append(q, x)  OBVIOUS
  <2>2. /\ DOMAIN q = 1 .. Len(q) /\ Len(q) \in Nat /\ DOMAIN r = 1 .. Len(q) + 1
        /\ r[Len(q) + 1] = x /\ \A i \in 1 .. Len(q) : r[i] = q[i]
    BY <2>1, Places
  <2>3. Behind(r, K, G)  BY <1>2, <2>2 DEF Has, Behind
  <2> QED  BY <2>1, <2>3
<1>3. ASSUME q # <<>>, Behind(q, K, G)
      PROVE  Behind(Tail(q), K, G) /\ (Head(q) \in K => ToSet(Tail(q)) \subseteq G)
  <2>1. PICK r : r = Tail(q)  OBVIOUS
  <2>2. /\ DOMAIN q = 1 .. Len(q) /\ Len(q) \in Nat /\ Head(q) = q[1] /\ Len(q) >= 1
        /\ DOMAIN r = 1 .. Len(q) - 1 /\ \A i \in 1 .. Len(q) - 1 : r[i] = q[i + 1]
    BY <1>3, <2>1, Places
  <2>3. \A i \in DOMAIN r : i + 1 \in DOMAIN q /\ r[i] = q[i + 1] /\ 1 < i + 1 /\ 1 \in DOMAIN q
    BY <2>2
  <2>4. Behind(r, K, G)
    <3>1. \A i, j \in DOMAIN r : i < j => i + 1 < j + 1  BY <2>2
    <3> QED  BY <1>3, <2>3, <3>1 DEF Behind
  <2>5. Head(q) \in K => ToSet(r) \subseteq G  BY <1>3, <2>2, <2>3 DEF Behind, ToSet
  <2> QED  BY <2>1, <2>4, <2>5
<1> QED  BY <1>1, <1>2, <1>3

\* A number that is sent is the highest so far; a number that is received is the
\* lowest that may still come.
LEMMA OrderKept ==
    ASSUME NEW S, NEW q \in Seq(S), NEW n \in [S -> Int], NEW low, NEW high, InOrder(q, n, low, high)
    PROVE  /\ \A h \in Nat : high <= h => InOrder(q, n, low, h)
           /\ \A h \in Nat, x \in S :
                  high <= h /\ n[x] \in {-1, h} => InOrder(Append(q, x), n, low, h)
           /\ q # <<>> => IF n[Head(q)] = -1 THEN InOrder(Tail(q), n, low, high)
                          ELSE /\ InOrder(Tail(q), n, n[Head(q)], high)
                               /\ n[Head(q)] \in low .. high
<1>1. ASSUME NEW h \in Nat, high <= h PROVE InOrder(q, n, low, h)
  BY <1>1 DEF InOrder
<1>2. ASSUME NEW h \in Nat, NEW x \in S, high <= h, n[x] \in {-1, h}
      PROVE  InOrder(Append(q, x), n, low, h)
  <2>1. PICK r : r = Append(q, x)  OBVIOUS
  <2>2. /\ DOMAIN q = 1 .. Len(q) /\ Len(q) \in Nat /\ DOMAIN r = 1 .. Len(q) + 1
        /\ r[Len(q) + 1] = x /\ \A i \in 1 .. Len(q) : r[i] = q[i]
    BY <2>1, Places
  <2>3. InOrder(q, n, low, h)  BY <1>1, <1>2
  <2>4. \A i \in DOMAIN r : (i \in DOMAIN q /\ r[i] = q[i]) \/ r[i] = x
    BY <2>2
  <2>5. \A i \in DOMAIN r : n[r[i]] # -1 => n[r[i]] \in low .. h
    BY <1>2, <2>3, <2>4 DEF InOrder
  <2>6. ASSUME NEW i \in DOMAIN r, NEW j \in DOMAIN r, i < j, n[r[i]] # -1, n[r[j]] # -1
        PROVE  n[r[i]] <= n[r[j]]
    <3>1. i \in DOMAIN q /\ r[i] = q[i]  BY <2>2, <2>4, <2>6
    <3>2. CASE j \in DOMAIN q /\ r[j] = q[j]  BY <2>3, <2>6, <3>1, <3>2 DEF InOrder
    <3>3. CASE r[j] = x  BY <1>2, <2>3, <2>5, <2>6, <3>3 DEF InOrder
    <3> QED  BY <2>4, <3>2, <3>3
  <2> QED  BY <2>1, <2>3, <2>5, <2>6 DEF InOrder
<1>3. ASSUME q # <<>>
      PROVE  IF n[Head(q)] = -1 THEN InOrder(Tail(q), n, low, high)
             ELSE InOrder(Tail(q), n, n[Head(q)], high) /\ n[Head(q)] \in low .. high
  <2>1. PICK r : r = Tail(q)  OBVIOUS
  <2>2. /\ DOMAIN q = 1 .. Len(q) /\ Len(q) \in Nat /\ Head(q) = q[1] /\ Len(q) >= 1
        /\ DOMAIN r = 1 .. Len(q) - 1 /\ \A i \in 1 .. Len(q) - 1 : r[i] = q[i + 1]
    BY <1>3, <2>1, Places
  <2>3. \A i \in DOMAIN r : i + 1 \in DOMAIN q /\ r[i] = q[i + 1] /\ 1 < i + 1
    BY <2>2
  <2>4. 1 \in DOMAIN q /\ Head(q) = q[1]  BY <2>2
  <2>5. \A i, j \in DOMAIN r : i < j => i + 1 < j + 1  BY <2>2
  <2>6. InOrder(r, n, low, high)  BY <2>3, <2>5 DEF InOrder
  <2>7. CASE n[Head(q)] = -1  BY <2>1, <2>6, <2>7
  <2>8. CASE n[Head(q)] # -1
    <3>1. n[Head(q)] \in low .. high  BY <2>4, <2>8 DEF InOrder
    <3>2. \A i \in DOMAIN r : n[r[i]] # -1 => n[Head(q)] <= n[r[i]]
      BY <2>3, <2>4, <2>8 DEF InOrder
    <3>3. n[Head(q)] \in Nat /\ n[Head(q)] <= high  BY <3>1 DEF InOrder
    <3>4. \A i \in DOMAIN r : n[r[i]] # -1 => n[r[i]] \in n[Head(q)] .. high
      BY <2>6, <3>2, <3>3 DEF InOrder
    <3>5. InOrder(r, n, n[Head(q)], high)  BY <2>6, <3>3, <3>4 DEF InOrder
    <3> QED  BY <2>1, <2>8, <3>1, <3>5
  <2> QED  BY <2>7, <2>8
<1> QED  BY <1>1, <1>2, <1>3

-----------------------------------------------------------------------------
(* What a step does to the bus *)

LEMMA HeadOrTail ==
    ASSUME NEW S, NEW q \in Seq(S), q # <<>>, NEW x \in ToSet(q)
    PROVE  x = Head(q) \/ x \in ToSet(Tail(q))
<1>1. PICK i \in DOMAIN q : x = q[i]  BY DEF ToSet
<1>2. PICK t : t = Tail(q)  OBVIOUS
<1>3. /\ DOMAIN q = 1 .. Len(q) /\ Len(q) \in Nat /\ Head(q) = q[1]
      /\ DOMAIN t = 1 .. Len(q) - 1 /\ \A k \in 1 .. Len(q) - 1 : t[k] = q[k + 1]
  BY <1>2, Places
<1>4. CASE i = 1  BY <1>1, <1>3, <1>4
<1>5. CASE i # 1
  <2>1. i - 1 \in DOMAIN t /\ t[i - 1] = x  BY <1>1, <1>3, <1>5
  <2> QED  BY <1>2, <2>1 DEF ToSet
<1> QED  BY <1>4, <1>5

LEMMA LastAppended ==
    ASSUME NEW S, NEW q \in Seq(S), NEW x, Append(q, x) \in Seq(S)
    PROVE  x \in S
<1>1. PICK r : r = Append(q, x)  OBVIOUS
<1>2. r[Len(q) + 1] = x /\ Len(q) + 1 \in 1 .. Len(r)  BY <1>1
<1>3. r \in Seq(S)  BY <1>1
<1> QED  BY <1>2, <1>3

\* What is asked stays until it is served.
LEMMA RequestServed ==
    ASSUME Types, [Next]_vars, main' # "quit", NEW r \in ToSet(requests)
    PROVE  \/ r \in ToSet(requests')
           \/ /\ r = Head(requests)
              /\ r.call = "GetLayout" => ServeGetLayout
              /\ r.call = "AboutToShow" => ServeAboutToShow
              /\ r.call = "ToolTip" => ServeToolTip
<1> USE DEF tray, desktop, engine, menu
<1>1. requests \in Seq(Request)  BY DEF Types
<1>2. CASE requests' = requests  BY <1>2
<1>3. ASSUME requests # <<>>, requests' = Tail(requests),
             /\ Head(requests).call = "GetLayout" => ServeGetLayout
             /\ Head(requests).call = "AboutToShow" => ServeAboutToShow
             /\ Head(requests).call = "ToolTip" => ServeToolTip
      PROVE  \/ r \in ToSet(requests')
             \/ /\ r = Head(requests)
                /\ r.call = "GetLayout" => ServeGetLayout
                /\ r.call = "AboutToShow" => ServeAboutToShow
                /\ r.call = "ToolTip" => ServeToolTip
  <2>1. r = Head(requests) \/ r \in ToSet(Tail(requests))  BY <1>1, <1>3, HeadOrTail
  <2> QED  BY <1>3, <2>1
<1>4. ASSUME NEW x, requests' = Append(requests, x) PROVE r \in ToSet(requests')
  <2>1. requests \in Seq(Request \cup {x})  BY <1>1
  <2>2. ToSet(requests') = ToSet(requests) \cup {x}  BY <1>4, <2>1, SeqFacts
  <2> QED  BY <2>2
<1>5. CASE ServeGetLayout \/ ServeGetProperties \/ ServeAboutToShow \/ ServeToolTip \/ ServeEvents
  <2>1. requests # <<>> /\ requests' = Tail(requests)
    BY <1>5 DEF ServeGetLayout, ServeGetProperties, ServeAboutToShow, ServeToolTip, ServeEvents, Serve
  <2>2. /\ ServeGetProperties => Head(requests).call = "GetProperties"
        /\ ServeAboutToShow => Head(requests).call = "AboutToShow"
        /\ ServeToolTip => Head(requests).call = "ToolTip"
        /\ ServeEvents => Head(requests).call = "Events"
        /\ ServeGetLayout => Head(requests).call = "GetLayout"
    BY DEF ServeGetLayout, ServeGetProperties, ServeAboutToShow, ServeToolTip, ServeEvents, Serve
  <2> QED  BY <1>3, <1>5, <2>1, <2>2
<1>6. CASE OpenRoot \/ AskAgain \/ Click
  <2>1. \E x, n : Ask(x, n)  BY <1>6 DEF OpenRoot, AskAgain, Click
  <2> QED  BY <1>4, <2>1 DEF Ask
<1>7. CASE ReceiveUpdate \/ ReceiveToolTip
  <2>1. requests' = requests \/ \E x : requests' = Append(requests, x)
    BY <1>7 DEF ReceiveUpdate, ReceiveToolTip, Fetch
  <2> QED  BY <1>2, <1>4, <2>1
<1>8. CASE \/ InitialMediaRefresh \/ ApplyStatusUpdate \/ EventsDone \/ OnSigQuit
           \/ CommandNone \/ CommandToggle \/ CommandMediaSource \/ CommandExit
           \/ Create \/ Reload \/ PostStatusUpdate \/ CloseRoot
           \/ ReceiveLayout \/ ReceiveProperties \/ ReceiveError
           \/ UNCHANGED vars
  <2>1. requests' = requests
    BY <1>8
       DEF InitialMediaRefresh, ApplyStatusUpdate, EventsDone, OnSigQuit, Quit, CommandNone,
           CommandToggle, CommandMediaSource, CommandExit, Create, Reload, PostStatusUpdate,
           CloseRoot, ReceiveLayout, ReceiveProperties, ReceiveError, RunIdle, Command, vars
  <2> QED  BY <1>2, <2>1
<1> QED  BY <1>5, <1>6, <1>7, <1>8 DEF Next, MainThread, Desktop

\* What is answered or announced stays until it is received.
LEMMA AnswerReceived ==
    ASSUME Types, [Next]_vars, main' # "quit", NEW a \in ToSet(answers)
    PROVE  \/ a \in ToSet(answers')
           \/ a = Head(answers) /\ Desktop /\ answers' = Tail(answers)
<1> USE DEF tray, desktop, engine, menu
<1>1. answers \in Seq(Answer)  BY DEF Types
<1>2. CASE answers' = answers  BY <1>2
<1>3. CASE Desktop /\ answers # <<>> /\ answers' = Tail(answers)
  <2>1. a = Head(answers) \/ a \in ToSet(Tail(answers))  BY <1>1, <1>3, HeadOrTail
  <2> QED  BY <1>3, <2>1
<1>4. ASSUME NEW x, answers' = Append(answers, x) PROVE a \in ToSet(answers')
  <2>1. answers \in Seq(Answer \cup {x})  BY <1>1
  <2>2. ToSet(answers') = ToSet(answers) \cup {x}  BY <1>4, <2>1, SeqFacts
  <2> QED  BY <2>2
<1>5. CASE Desktop
  <2>1. answers # <<>> /\ answers' = Tail(answers)
    BY <1>5 DEF Desktop, ReceiveUpdate, ReceiveLayout, ReceiveProperties, ReceiveError,
                ReceiveToolTip, Receive
  <2> QED  BY <1>3, <1>5, <2>1
<1>6. CASE \/ ApplyStatusUpdate \/ ServeGetLayout \/ ServeGetProperties \/ ServeAboutToShow
           \/ ServeToolTip \/ CommandToggle \/ CommandMediaSource
  <2>1. \E x : answers' = Append(answers, x)
    BY <1>6 DEF ApplyStatusUpdate, ServeGetLayout, ServeGetProperties, ServeAboutToShow,
                ServeToolTip, CommandToggle, CommandMediaSource, NotifyConfigChanged
  <2> QED  BY <1>4, <2>1
<1>7. CASE \/ InitialMediaRefresh \/ ServeEvents \/ EventsDone \/ OnSigQuit
           \/ CommandNone \/ CommandExit
           \/ Create \/ Reload \/ PostStatusUpdate
           \/ OpenRoot \/ CloseRoot \/ AskAgain \/ Click
           \/ UNCHANGED vars
  <2>1. answers' = answers
    BY <1>7
       DEF InitialMediaRefresh, ServeEvents, EventsDone, OnSigQuit, Quit, CommandNone,
           CommandExit, Create, Reload, PostStatusUpdate, OpenRoot, CloseRoot, AskAgain, Click,
           RunIdle, Serve, Command, Ask, vars
  <2> QED  BY <1>2, <2>1
<1> QED  BY <1>5, <1>6, <1>7 DEF Next, MainThread

-----------------------------------------------------------------------------
(* The last menu is displayed or under way *)

LayoutNumber ==
    [a \in Answer |-> IF a.kind = "layout" /\ a.parent = RootId THEN a.revision ELSE -1]

RevisionsInOrder == InOrder(answers, LayoutNumber, viewRevision, menuRevision)

\* The desktop asks for the root alone, or not for the root.
RootAlone ==
    /\ \A r \in ToSet(requests) :
           r.call = "AboutToShow" /\ RootId \in r.ids => r.ids = {RootId}
    /\ \A a \in ToSet(answers) :
           a.kind = "need-update" /\ RootId \in a.ids => a.ids = {RootId}

FetchRoot == [call |-> "GetLayout", parent |-> RootId]

TellsMenu(a) ==
    \/ a.kind = "layout" /\ a.parent = RootId /\ a.revision = menuRevision
    \/ a.kind = "layout-updated"
    \/ a.kind = "need-update" /\ RootId \in a.ids

MenuTold ==
    main # "quit" /\ menuRevision # firstRefresh =>
        \/ viewRevision = menuRevision
        \/ FetchRoot \in ToSet(requests)
        \/ \E a \in ToSet(answers) : TellsMenu(a)

LEMMA NumberFacts ==
    /\ LayoutNumber \in [Answer -> Int]
    /\ \A a \in Answer : IF a.kind = "layout" /\ a.parent = RootId
                         THEN LayoutNumber[a] = a.revision /\ a.revision \in Nat
                         ELSE LayoutNumber[a] = -1
<1>1. \A a \in Answer : a.kind = "layout" => a.revision \in Nat  BY DEF Answer
<1> QED  BY <1>1 DEF LayoutNumber

LEMMA StepRevisionsInOrder ==
    ASSUME Types, answers' \in Seq(Answer), [Next]_vars, RevisionsInOrder
    PROVE  RevisionsInOrder'
<1> USE DEF tray, desktop, engine, menu
<1>1. answers \in Seq(Answer)  BY DEF Types
<1>2. menuRevision \in Nat /\ viewRevision \in Nat /\ viewRevision <= menuRevision
  BY DEF RevisionsInOrder, InOrder
<1>3. LayoutNumber \in [Answer -> Int]  BY NumberFacts
<1>4. ASSUME answers' = answers \/ (\E a : a.kind # "layout" /\ answers' = Append(answers, a)),
             menuRevision' \in {menuRevision, menuRevision + 1}, viewRevision' = viewRevision
      PROVE  RevisionsInOrder'
  <2>1. menuRevision' \in Nat /\ menuRevision <= menuRevision'  BY <1>2, <1>4
  <2>2. CASE answers' = answers
    <3>1. InOrder(answers, LayoutNumber, viewRevision, menuRevision')
      BY <1>1, <1>3, <2>1, OrderKept DEF RevisionsInOrder
    <3> QED  BY <1>4, <2>2, <3>1 DEF RevisionsInOrder, LayoutNumber
  <2>3. ASSUME NEW a, a.kind # "layout", answers' = Append(answers, a)
        PROVE  RevisionsInOrder'
    <3>1. a \in Answer  BY <1>1, <2>3, LastAppended
    <3>2. LayoutNumber[a] = -1  BY <2>3, <3>1, NumberFacts
    <3>3. InOrder(Append(answers, a), LayoutNumber, viewRevision, menuRevision')
      BY <1>1, <1>3, <2>1, <3>1, <3>2, OrderKept DEF RevisionsInOrder
    <3> QED  BY <1>4, <2>3, <3>3 DEF RevisionsInOrder, LayoutNumber
  <2> QED  BY <1>4, <2>2, <2>3
<1>5. ASSUME NEW s, NEW c, RebuildMenuTree(s, c) PROVE menuRevision' = menuRevision + 1
  BY <1>5 DEF RebuildMenuTree
<1>6. CASE ServeGetLayout
  <2>1. PICK a \in {Layout(Head(requests).parent), NoSuchItem} : answers' = Append(answers, a)
    BY <1>6 DEF ServeGetLayout
  <2>2. UNCHANGED <<menuRevision, viewRevision>>  BY <1>6 DEF ServeGetLayout, Serve
  <2>3. a \in Answer  BY <1>1, <2>1, LastAppended
  <2>4. a.kind = "layout" => a.revision = menuRevision
    BY <2>1 DEF Layout, NoSuchItem
  <2>5. LayoutNumber[a] \in {-1, menuRevision}  BY <2>3, <2>4, NumberFacts
  <2>6. InOrder(Append(answers, a), LayoutNumber, viewRevision, menuRevision)
    BY <1>1, <1>2, <1>3, <2>3, <2>5, OrderKept DEF RevisionsInOrder
  <2> QED  BY <2>1, <2>2, <2>6 DEF RevisionsInOrder, LayoutNumber
<1>7. CASE Desktop
  <2>1. answers # <<>> /\ answers' = Tail(answers) /\ menuRevision' = menuRevision
    BY <1>7 DEF Desktop, ReceiveUpdate, ReceiveLayout, ReceiveProperties, ReceiveError,
                ReceiveToolTip, Receive
  <2>2. Head(answers) \in Answer  BY <1>1, <2>1, SeqFacts
  <2>3. PICK a : a = Head(answers)  OBVIOUS
  <2>4. viewRevision' = IF a.kind = "layout" /\ a.parent = RootId THEN a.revision ELSE viewRevision
    BY <1>7, <2>3
       DEF Desktop, ReceiveUpdate, ReceiveLayout, ReceiveProperties, ReceiveError,
           ReceiveToolTip, Receive, RootId, SourceMenuId
  <2>5. IF LayoutNumber[a] = -1 THEN InOrder(Tail(answers), LayoutNumber, viewRevision, menuRevision)
        ELSE /\ InOrder(Tail(answers), LayoutNumber, LayoutNumber[a], menuRevision)
             /\ LayoutNumber[a] \in viewRevision .. menuRevision
    BY <1>1, <1>3, <2>1, <2>3, OrderKept DEF RevisionsInOrder
  <2>6. InOrder(Tail(answers), LayoutNumber, viewRevision', menuRevision)
    <3>1. CASE a.kind = "layout" /\ a.parent = RootId
      <4>1. LayoutNumber[a] = a.revision /\ a.revision # -1  BY <2>2, <2>3, <3>1, NumberFacts
      <4> QED  BY <2>4, <2>5, <3>1, <4>1
    <3>2. CASE ~(a.kind = "layout" /\ a.parent = RootId)
      <4>1. LayoutNumber[a] = -1  BY <2>2, <2>3, <3>2, NumberFacts
      <4> QED  BY <2>4, <2>5, <3>2, <4>1
    <3> QED  BY <3>1, <3>2
  <2> QED  BY <2>1, <2>6 DEF RevisionsInOrder, LayoutNumber
<1>8. CASE CommandToggle \/ CommandMediaSource
  <2>1. PICK a : a = LayoutUpdated(menuRevision')  OBVIOUS
  <2>2. answers' = Append(answers, a) /\ menuRevision' = menuRevision + 1
    BY <1>5, <1>8, <2>1 DEF CommandToggle, CommandMediaSource, NotifyConfigChanged
  <2>3. a.kind # "layout"  BY <2>1 DEF LayoutUpdated
  <2>4. viewRevision' = viewRevision  BY <1>8 DEF CommandToggle, CommandMediaSource, Command
  <2> QED  BY <1>4, <2>2, <2>3, <2>4
<1>9. CASE ServeAboutToShow
  <2>1. PICK ids : answers' = Append(answers, NeedUpdate(ids))  BY <1>9 DEF ServeAboutToShow
  <2>2. NeedUpdate(ids).kind # "layout"  BY DEF NeedUpdate
  <2>3. viewRevision' = viewRevision  BY <1>9 DEF ServeAboutToShow, Serve
  <2>4. menuRevision' \in {menuRevision, menuRevision + 1}
    BY <1>5, <1>9 DEF ServeAboutToShow, RefreshMediaSourcesAndRebuild
  <2> QED  BY <1>4, <2>1, <2>2, <2>3, <2>4
<1>10. CASE InitialMediaRefresh
  <2>1. menuRevision' = menuRevision + 1 /\ answers' = answers /\ viewRevision' = viewRevision
    BY <1>5, <1>10 DEF InitialMediaRefresh, RunIdle, RefreshMediaSourcesAndRebuild
  <2> QED  BY <1>4, <2>1
<1>11. CASE ServeGetProperties \/ ServeToolTip \/ ApplyStatusUpdate
  <2>1. \E a : a.kind # "layout" /\ answers' = Append(answers, a)
    <3>1. CASE ServeGetProperties
      <4>1. PICK items : answers' = Append(answers, [kind |-> "properties", items |-> items])
        BY <3>1 DEF ServeGetProperties
      <4> QED  BY <4>1
    <3>2. CASE ServeToolTip
      <4>1. answers' = Append(answers, [kind |-> "tooltip", text |-> statusText])
        BY <3>2 DEF ServeToolTip
      <4> QED  BY <4>1
    <3>3. CASE ApplyStatusUpdate  BY <3>3 DEF ApplyStatusUpdate, NewToolTip
    <3> QED  BY <1>11, <3>1, <3>2, <3>3
  <2>2. UNCHANGED <<menuRevision, viewRevision>>
    BY <1>11 DEF ServeGetProperties, ServeToolTip, ApplyStatusUpdate, Serve, RunIdle
  <2> QED  BY <1>4, <2>1, <2>2
<1>12. CASE main' = "quit" /\ Quit
  <2>1. answers' = <<>> /\ viewRevision' = 0 /\ menuRevision' = menuRevision
    BY <1>12 DEF Quit
  <2> QED  BY <1>2, <2>1 DEF RevisionsInOrder, InOrder
<1>13. CASE \/ Create \/ Reload \/ PostStatusUpdate \/ ServeEvents \/ (EventsDone /\ ~Quit)
            \/ CommandNone \/ CommandExit
            \/ OpenRoot \/ CloseRoot \/ AskAgain \/ Click \/ UNCHANGED vars
  <2>1. UNCHANGED <<answers, menuRevision, viewRevision>>
    BY <1>13
       DEF Create, Reload, PostStatusUpdate, ServeEvents, EventsDone, CommandNone, CommandExit,
           OpenRoot, CloseRoot, AskAgain, Click, Serve, Command, Ask, vars
  <2> QED  BY <1>4, <2>1
<1>14. Quit => main' = "quit"  BY DEF Quit
<1> QED
  BY <1>6, <1>7, <1>8, <1>9, <1>10, <1>11, <1>12, <1>13, <1>14 DEF Next, MainThread, OnSigQuit

LEMMA StepMenuTold ==
    ASSUME Types, Types', [Next]_vars, RevisionsInOrder, RevisionsInOrder', RootAlone, MenuTold
    PROVE  MenuTold'
<1> USE DEF tray, desktop, engine, menu
<1>0. SUFFICES ASSUME main' # "quit", menuRevision' # firstRefresh'
               PROVE  \/ viewRevision' = menuRevision'
                      \/ FetchRoot \in ToSet(requests')
                      \/ \E a \in ToSet(answers') : TellsMenu(a)'
  BY DEF MenuTold
<1>1. answers \in Seq(Answer) /\ requests \in Seq(Request)
      /\ answers' \in Seq(Answer) /\ requests' \in Seq(Request)
  BY DEF Types
<1>2. ASSUME NEW a, answers' = Append(answers, a) PROVE a \in ToSet(answers')
  <2>1. answers \in Seq(Answer \cup {a})  BY <1>1
  <2> QED  BY <1>2, <2>1, SeqFacts
<1>3. ASSUME NEW r, requests' = Append(requests, r) PROVE r \in ToSet(requests')
  <2>1. requests \in Seq(Request \cup {r})  BY <1>1
  <2> QED  BY <1>3, <2>1, SeqFacts
\* What is under way stays under way, unless it is served or received.
<1>4. ASSUME UNCHANGED <<menuRevision, firstRefresh, viewRevision>>, main # "quit",
             FetchRoot \in ToSet(requests) => FetchRoot \in ToSet(requests'),
             \A a \in ToSet(answers) : TellsMenu(a) => a \in ToSet(answers')
      PROVE  \/ viewRevision' = menuRevision'
             \/ FetchRoot \in ToSet(requests')
             \/ \E a \in ToSet(answers') : TellsMenu(a)'
  BY <1>0, <1>4 DEF MenuTold, TellsMenu
<1>5. CASE CommandToggle \/ CommandMediaSource
  <2>1. PICK a : a = LayoutUpdated(menuRevision')  OBVIOUS
  <2>2. answers' = Append(answers, a)
    BY <1>5, <2>1 DEF CommandToggle, CommandMediaSource, NotifyConfigChanged
  <2>3. a.kind = "layout-updated"  BY <2>1 DEF LayoutUpdated
  <2> QED  BY <1>2, <2>2, <2>3 DEF TellsMenu
<1>6. CASE InitialMediaRefresh  BY <1>0, <1>6 DEF InitialMediaRefresh
<1>7. main # "quit"
  <2>1. main' = "quit" \/ main # "quit"
    BY DEF Next, MainThread, InitialMediaRefresh, ServeAboutToShow, CommandToggle,
           CommandMediaSource, NotifyConfigChanged, Create, ApplyStatusUpdate, OnSigQuit, Quit,
           ServeGetLayout, ServeGetProperties, ServeToolTip, ServeEvents, EventsDone,
           CommandNone, CommandExit, Reload, PostStatusUpdate, OpenRoot, CloseRoot, AskAgain,
           Click, Desktop, ReceiveUpdate, ReceiveLayout, ReceiveProperties, ReceiveError,
           ReceiveToolTip, Receive, RunIdle, Serve, Command, Ask, vars
  <2> QED  BY <1>0, <2>1
<1>8. ASSUME ~ServeGetLayout PROVE FetchRoot \in ToSet(requests) => FetchRoot \in ToSet(requests')
  <2>1. FetchRoot.call = "GetLayout"  BY DEF FetchRoot
  <2> QED  BY <1>0, <1>8, <2>1, RequestServed
<1>9. ASSUME ~ReceiveUpdate, ~ReceiveLayout, NEW a \in ToSet(answers), TellsMenu(a)
      PROVE  a \in ToSet(answers')
  <2>1. a.kind \in {"layout", "layout-updated", "need-update"}  BY <1>9 DEF TellsMenu
  <2>2. ReceiveProperties \/ ReceiveError \/ ReceiveToolTip
            => Head(answers).kind \notin {"layout", "layout-updated", "need-update"}
    BY DEF ReceiveProperties, ReceiveError, ReceiveToolTip, Receive
  <2> QED  BY <1>0, <1>9, <2>1, <2>2, AnswerReceived DEF Desktop
<1>10. CASE ServeGetLayout
  <2>1. requests # <<>> /\ UNCHANGED <<menuRevision, firstRefresh, viewRevision>>
    BY <1>10 DEF ServeGetLayout, Serve
  <2>2. CASE Head(requests).parent = RootId
    <3>1. PICK a : a = Layout(RootId)  OBVIOUS
    <3>2. answers' = Append(answers, a)  BY <1>10, <2>2, <3>1 DEF ServeGetLayout, Known
    <3>3. a.kind = "layout" /\ a.parent = RootId /\ a.revision = menuRevision  BY <3>1 DEF Layout
    <3> QED  BY <1>2, <2>1, <3>2, <3>3 DEF TellsMenu
  <2>3. CASE Head(requests).parent # RootId
    <3>1. FetchRoot # Head(requests)  BY <2>3 DEF FetchRoot
    <3>2. FetchRoot \in ToSet(requests) => FetchRoot \in ToSet(requests')
      BY <1>0, <3>1, RequestServed
    <3>3. ~ReceiveUpdate /\ ~ReceiveLayout
      <4>1. main = "loop" /\ \E a : answers' = Append(answers, a)
        BY <1>10 DEF ServeGetLayout, Serve
      <4>2. ReceiveUpdate \/ ReceiveLayout => answers # <<>> /\ answers' = Tail(answers)
        BY DEF ReceiveUpdate, ReceiveLayout, Receive
      <4>3. Len(answers') = Len(answers) + 1 /\ Len(answers) \in Nat  BY <1>1, <4>1
      <4>4. answers # <<>> => Len(Tail(answers)) = Len(answers) - 1  BY <1>1
      <4> QED  BY <4>2, <4>3, <4>4
    <3> QED  BY <1>4, <1>7, <1>9, <2>1, <3>2, <3>3
  <2> QED  BY <2>2, <2>3
<1>11. CASE ReceiveUpdate
  <2>1. /\ answers # <<>> /\ UNCHANGED <<menuRevision, firstRefresh, viewRevision>>
        /\ Head(answers).kind \in {"layout-updated", "need-update"}
    BY <1>11 DEF ReceiveUpdate, Receive
  <2>2. Head(answers) \in ToSet(answers)  BY <1>1, <2>1, SeqFacts
  <2>3. CASE TellsMenu(Head(answers))
    <3>1. PICK b : b = Head(answers)  OBVIOUS
    <3>2. b.kind = "need-update" => b.ids = {RootId}
      BY <2>1, <2>2, <2>3, <3>1 DEF TellsMenu, RootAlone
    <3>3. requests' = Append(requests, FetchRoot)
      BY <1>11, <2>1, <3>1, <3>2 DEF ReceiveUpdate, Receive, Fetch, FetchRoot
    <3> QED  BY <1>3, <3>3
  <2>4. CASE ~TellsMenu(Head(answers))
    <3>1. \A a \in ToSet(answers) : TellsMenu(a) => a \in ToSet(answers')
      BY <1>0, <2>4, AnswerReceived
    <3>2. requests' = requests \/ \E x : requests' = Append(requests, x)
      BY <1>11 DEF ReceiveUpdate, Fetch
    <3>3. FetchRoot \in ToSet(requests) => FetchRoot \in ToSet(requests')
      <4>1. CASE requests' = requests  BY <4>1
      <4>2. ASSUME NEW x, requests' = Append(requests, x)
            PROVE  FetchRoot \in ToSet(requests) => FetchRoot \in ToSet(requests')
        <5>1. requests \in Seq(Request \cup {x})  BY <1>1
        <5> QED  BY <4>2, <5>1, SeqFacts
      <4> QED  BY <3>2, <4>1, <4>2
    <3> QED  BY <1>4, <1>7, <2>1, <3>1, <3>3
  <2> QED  BY <2>3, <2>4
<1>12. CASE ReceiveLayout
  <2>1. /\ answers # <<>> /\ UNCHANGED <<menuRevision, firstRefresh, requests>>
        /\ Head(answers).kind = "layout"
    BY <1>12 DEF ReceiveLayout, Receive
  <2>2. PICK b : b = Head(answers)  OBVIOUS
  <2>3. b \in Answer  BY <1>1, <2>1, <2>2, SeqFacts
  <2>4. CASE b.parent = RootId
    <3>1. viewRevision' = b.revision
      BY <1>12, <2>2, <2>4 DEF ReceiveLayout, RootId, SourceMenuId
    <3>2. CASE TellsMenu(b)  BY <2>1, <2>2, <3>1, <3>2 DEF TellsMenu
    <3>3. CASE ~TellsMenu(b)
      <4>1. viewRevision # menuRevision
        <5>1. LayoutNumber[b] = b.revision /\ b.revision # -1  BY <2>1, <2>2, <2>3, <2>4, NumberFacts
        <5>2. b.revision \in viewRevision .. menuRevision
          <6>1. 1 \in DOMAIN answers /\ answers[1] = b  BY <1>1, <2>1, <2>2
          <6> QED  BY <5>1, <6>1 DEF RevisionsInOrder, InOrder
        <5>3. b.revision # menuRevision  BY <2>1, <2>2, <2>4, <3>3 DEF TellsMenu
        <5> QED  BY <5>2, <5>3 DEF RevisionsInOrder, InOrder
      <4>2. \A a \in ToSet(answers) : TellsMenu(a) => a \in ToSet(answers')
        BY <1>0, <2>2, <3>3, AnswerReceived
      <4> QED  BY <1>0, <1>7, <2>1, <4>1, <4>2 DEF MenuTold, TellsMenu
    <3> QED  BY <3>2, <3>3
  <2>5. CASE b.parent # RootId
    <3>1. viewRevision' = viewRevision
      BY <1>12, <2>2, <2>5 DEF ReceiveLayout, RootId, SourceMenuId
    <3>2. ~TellsMenu(b)  BY <2>1, <2>2, <2>5 DEF TellsMenu
    <3>3. \A a \in ToSet(answers) : TellsMenu(a) => a \in ToSet(answers')
      BY <1>0, <2>2, <3>2, AnswerReceived
    <3> QED  BY <1>4, <1>7, <2>1, <3>1, <3>3
  <2> QED  BY <2>4, <2>5
<1>13. CASE ServeAboutToShow /\ RootId \in Head(requests).ids
  <2>1. PICK a : a = NeedUpdate(Head(requests).ids)  OBVIOUS
  <2>2. answers' = Append(answers, a)  BY <1>13, <2>1 DEF ServeAboutToShow
  <2>3. a.kind = "need-update" /\ RootId \in a.ids  BY <1>13, <2>1 DEF NeedUpdate
  <2> QED  BY <1>2, <2>2, <2>3 DEF TellsMenu
<1>14. CASE /\ ~ServeGetLayout /\ ~ReceiveUpdate /\ ~ReceiveLayout
            /\ UNCHANGED <<menuRevision, firstRefresh, viewRevision>>
  BY <1>4, <1>7, <1>8, <1>9, <1>14
<1>15. CASE \/ ServeAboutToShow /\ RootId \notin Head(requests).ids
            \/ ApplyStatusUpdate
            \/ ServeGetProperties \/ ServeToolTip \/ ServeEvents \/ EventsDone
            \/ CommandNone \/ CommandExit
            \/ Create \/ Reload \/ OnSigQuit \/ PostStatusUpdate
            \/ OpenRoot \/ CloseRoot \/ AskAgain \/ Click
            \/ ReceiveProperties \/ ReceiveError \/ ReceiveToolTip
            \/ UNCHANGED vars
  <2>1. UNCHANGED <<menuRevision, firstRefresh, viewRevision>>
    BY <1>0, <1>15
       DEF ServeAboutToShow, ApplyStatusUpdate, ServeGetProperties, ServeToolTip, ServeEvents,
           EventsDone, CommandNone, CommandExit, Create, Reload, OnSigQuit, Quit,
           PostStatusUpdate, OpenRoot, CloseRoot, AskAgain, Click, ReceiveProperties,
           ReceiveError, ReceiveToolTip, Receive, RunIdle, Serve, Command, Ask, vars
  <2> QED  BY <1>10, <1>11, <1>12, <1>14, <2>1
<1> QED
  BY <1>5, <1>6, <1>10, <1>11, <1>12, <1>13, <1>15 DEF Next, MainThread, Desktop

LEMMA StepRootAlone ==
    ASSUME Types, [Next]_vars, RootAlone
    PROVE  RootAlone'
<1> USE DEF tray, desktop, engine, menu
<1>1. answers \in Seq(Answer) /\ requests \in Seq(Request)  BY DEF Types
<1> DEFINE Calls(r) == r.call = "AboutToShow" /\ RootId \in r.ids => r.ids = {RootId}
           Updates(a) == a.kind = "need-update" /\ RootId \in a.ids => a.ids = {RootId}
<1>2. \A r \in ToSet(requests') : Calls(r)
  <2>1. ASSUME NEW r, Calls(r), requests' = Append(requests, r)
        PROVE  \A q \in ToSet(requests') : Calls(q)
    <3>1. requests \in Seq(Request \cup {r})  BY <1>1
    <3>2. ToSet(requests') = ToSet(requests) \cup {r}  BY <2>1, <3>1, SeqFacts
    <3> QED  BY <2>1, <3>2 DEF RootAlone
  <2>2. CASE OpenRoot \/ AskAgain \/ Click \/ ReceiveUpdate \/ ReceiveToolTip
    <3>1. CASE OpenRoot
      <4>1. PICK r : r = AboutToShow({RootId}, FALSE) /\ requests' = Append(requests, r)
        BY <3>1 DEF OpenRoot, Ask
      <4> QED  BY <2>1, <4>1 DEF AboutToShow
    <3>2. CASE AskAgain
      <4>1. PICK r, n : /\ Ask(r, n)
                        /\ \/ \E id : r = [call |-> "GetLayout", parent |-> id]
                           \/ \E group \in BOOLEAN : r = AboutToShow({SourceMenuId}, group)
                           \/ r = [call |-> "GetProperties", ids |-> DOMAIN view]
        BY <3>2 DEF AskAgain
      <4>2. \A group : AboutToShow({SourceMenuId}, group).ids = {SourceMenuId}
        BY DEF AboutToShow
      <4>3. Calls(r)
        <5>1. CASE \E id : r = [call |-> "GetLayout", parent |-> id]  BY <5>1
        <5>2. CASE r = [call |-> "GetProperties", ids |-> DOMAIN view]  BY <5>2
        <5>3. CASE \E group \in BOOLEAN : r = AboutToShow({SourceMenuId}, group)
          BY <4>2, <5>3 DEF SourceMenuId, RootId
        <5> QED  BY <4>1, <5>1, <5>2, <5>3
      <4> QED  BY <2>1, <4>1, <4>3 DEF Ask
    <3>3. CASE Click
      <4>1. PICK r : requests' = Append(requests, r) /\ r.call = "Events"
        BY <3>3 DEF Click, Ask
      <4> QED  BY <2>1, <4>1
    <3>4. CASE ReceiveUpdate \/ ReceiveToolTip
      <4>1. CASE requests' = requests  BY <4>1 DEF RootAlone
      <4>2. CASE \E r : r.call # "AboutToShow" /\ requests' = Append(requests, r)
        BY <2>1, <4>2
      <4> QED  BY <3>4, <4>1, <4>2 DEF ReceiveUpdate, ReceiveToolTip, Fetch
    <3> QED  BY <2>2, <3>1, <3>2, <3>3, <3>4
  <2>3. CASE \/ InitialMediaRefresh \/ ApplyStatusUpdate
             \/ ServeGetLayout \/ ServeGetProperties \/ ServeAboutToShow \/ ServeToolTip
             \/ ServeEvents \/ EventsDone \/ OnSigQuit
             \/ CommandNone \/ CommandToggle \/ CommandMediaSource \/ CommandExit
             \/ Create \/ Reload \/ PostStatusUpdate \/ CloseRoot
             \/ ReceiveLayout \/ ReceiveProperties \/ ReceiveError
             \/ UNCHANGED vars
    <3>1. \/ requests' = requests \/ requests' = <<>>
          \/ requests # <<>> /\ requests' = Tail(requests)
      BY <2>3
         DEF InitialMediaRefresh, ApplyStatusUpdate, ServeGetLayout, ServeGetProperties,
             ServeAboutToShow, ServeToolTip, ServeEvents, EventsDone, OnSigQuit, Quit,
             CommandNone, CommandToggle, CommandMediaSource, CommandExit, Create, Reload,
             PostStatusUpdate, CloseRoot, ReceiveLayout, ReceiveProperties, ReceiveError,
             RunIdle, Serve, Command, vars
    <3>2. ToSet(requests') \subseteq ToSet(requests)
      <4>1. /\ ToSet(<<>>) = {}
            /\ requests # <<>> => ToSet(Tail(requests)) \subseteq ToSet(requests)
        BY <1>1, SeqFacts
      <4> QED  BY <3>1, <4>1, Zenon
    <3> QED  BY <3>2 DEF RootAlone
  <2> QED  BY <2>2, <2>3 DEF Next, MainThread, Desktop
<1>3. \A a \in ToSet(answers') : Updates(a)
  <2>1. ASSUME NEW a, Updates(a), answers' = Append(answers, a)
        PROVE  \A b \in ToSet(answers') : Updates(b)
    <3>1. answers \in Seq(Answer \cup {a})  BY <1>1
    <3>2. ToSet(answers') = ToSet(answers) \cup {a}  BY <2>1, <3>1, SeqFacts
    <3> QED  BY <2>1, <3>2 DEF RootAlone
  <2>2. CASE ServeAboutToShow
    <3>1. requests # <<>> /\ Head(requests).call = "AboutToShow"
      BY <2>2 DEF ServeAboutToShow, Serve
    <3>2. Head(requests) \in ToSet(requests)  BY <1>1, <3>1, SeqFacts
    <3>3. PICK a : /\ answers' = Append(answers, a)
                   /\ a = NeedUpdate(Head(requests).ids) \/ a = NeedUpdate({})
      BY <2>2 DEF ServeAboutToShow
    <3>4. \A ids : NeedUpdate(ids).ids = ids  BY DEF NeedUpdate
    <3>5. Updates(a)  BY <3>1, <3>2, <3>3, <3>4 DEF RootAlone
    <3> QED  BY <2>1, <3>3, <3>5
  <2>3. CASE \/ ApplyStatusUpdate \/ ServeGetLayout \/ ServeGetProperties \/ ServeToolTip
             \/ CommandToggle \/ CommandMediaSource
    <3>1. PICK a : answers' = Append(answers, a) /\ a.kind # "need-update"
      <4>1. CASE ServeGetLayout
        <5>1. PICK a \in {Layout(Head(requests).parent), NoSuchItem} : answers' = Append(answers, a)
          BY <4>1 DEF ServeGetLayout
        <5> QED  BY <5>1 DEF Layout, NoSuchItem
      <4>2. CASE ServeGetProperties
        <5>1. PICK items : answers' = Append(answers, [kind |-> "properties", items |-> items])
          BY <4>2 DEF ServeGetProperties
        <5> QED  BY <5>1
      <4>3. CASE ServeToolTip \/ ApplyStatusUpdate
        BY <4>3 DEF ServeToolTip, ApplyStatusUpdate, NewToolTip
      <4>4. CASE CommandToggle \/ CommandMediaSource
        <5>1. PICK a : a = LayoutUpdated(menuRevision')  OBVIOUS
        <5>2. answers' = Append(answers, a)
          BY <4>4, <5>1 DEF CommandToggle, CommandMediaSource, NotifyConfigChanged
        <5> QED  BY <5>1, <5>2 DEF LayoutUpdated
      <4> QED  BY <2>3, <4>1, <4>2, <4>3, <4>4
    <3> QED  BY <2>1, <3>1
  <2>4. CASE \/ InitialMediaRefresh \/ ServeEvents \/ EventsDone \/ OnSigQuit
             \/ CommandNone \/ CommandExit
             \/ Create \/ Reload \/ PostStatusUpdate
             \/ OpenRoot \/ CloseRoot \/ AskAgain \/ Click \/ Desktop
             \/ UNCHANGED vars
    <3>1. \/ answers' = answers \/ answers' = <<>>
          \/ answers # <<>> /\ answers' = Tail(answers)
      BY <2>4
         DEF InitialMediaRefresh, ServeEvents, EventsDone, OnSigQuit, Quit, CommandNone,
             CommandExit, Create, Reload, PostStatusUpdate, OpenRoot, CloseRoot, AskAgain, Click,
             Desktop, ReceiveUpdate, ReceiveLayout, ReceiveProperties, ReceiveError,
             ReceiveToolTip, Receive, RunIdle, Serve, Command, Ask, vars
    <3>2. ToSet(answers') \subseteq ToSet(answers)
      <4>1. /\ ToSet(<<>>) = {}
            /\ answers # <<>> => ToSet(Tail(answers)) \subseteq ToSet(answers)
        BY <1>1, SeqFacts
      <4> QED  BY <3>1, <4>1, Zenon
    <3> QED  BY <3>2 DEF RootAlone
  <2> QED  BY <2>2, <2>3, <2>4 DEF Next, MainThread
<1> QED  BY <1>2, <1>3 DEF RootAlone

-----------------------------------------------------------------------------
(* The last status is displayed or under way *)

TipNumber == [a \in Answer |-> IF a.kind = "tooltip" THEN a.text ELSE -1]
StatusNumber == [s \in Nat |-> IF s = FirstRefresh THEN -1 ELSE s]

TipsInOrder ==
    /\ InOrder(answers, TipNumber, tip, statusText)
    /\ InOrder(idle, StatusNumber, statusText, status)

FetchTip == [call |-> "ToolTip"]
TellsTip(a) == a = NewToolTip \/ (a.kind = "tooltip" /\ a.text = status)

\* The engine has posted it and the main loop has not applied it yet.
Waits == status # FirstRefresh /\ status \in ToSet(idle)

TipTold ==
    main # "quit" =>
        /\ statusText = status \/ Waits
        /\ \/ tip = status
           \/ Waits
           \/ FetchTip \in ToSet(requests)
           \/ \E a \in ToSet(answers) : TellsTip(a)

LEMMA TipFacts ==
    /\ TipNumber \in [Answer -> Int] /\ StatusNumber \in [Nat -> Int]
    /\ \A a \in Answer : IF a.kind = "tooltip" THEN TipNumber[a] = a.text /\ a.text \in Nat
                         ELSE TipNumber[a] = -1
    /\ \A s \in Nat : StatusNumber[s] = IF s = FirstRefresh THEN -1 ELSE s
<1>1. \A a \in Answer : a.kind = "tooltip" => a.text \in Nat  BY DEF Answer
<1> QED  BY <1>1 DEF TipNumber, StatusNumber

LEMMA StepTipsInOrder ==
    ASSUME Types, Types', [Next]_vars, TipsInOrder
    PROVE  TipsInOrder'
<1> USE DEF tray, desktop, engine, menu
<1>1. answers \in Seq(Answer) /\ answers' \in Seq(Answer)
      /\ idle \in Seq(Nat) /\ idle' \in Seq(Nat)
  BY DEF Types
<1>2. /\ InOrder(answers, TipNumber, tip, statusText)
      /\ InOrder(idle, StatusNumber, statusText, status)
      /\ tip \in Nat /\ statusText \in Nat /\ status \in Nat /\ tip <= statusText
      /\ statusText <= status
  BY DEF TipsInOrder, InOrder
<1>3. TipNumber \in [Answer -> Int] /\ StatusNumber \in [Nat -> Int]  BY TipFacts
<1>16. \A h \in Nat, a \in Answer :
           statusText <= h /\ TipNumber[a] \in {-1, h} => InOrder(Append(answers, a), TipNumber, tip, h)
  BY <1>1, <1>2, <1>3, OrderKept
<1>17. \A h \in Nat, s \in Nat :
           status <= h /\ StatusNumber[s] \in {-1, h}
               => InOrder(Append(idle, s), StatusNumber, statusText, h)
  BY <1>1, <1>2, <1>3, OrderKept
<1>18. idle # <<>> =>
           IF StatusNumber[Head(idle)] = -1 THEN InOrder(Tail(idle), StatusNumber, statusText, status)
           ELSE /\ InOrder(Tail(idle), StatusNumber, StatusNumber[Head(idle)], status)
                /\ StatusNumber[Head(idle)] \in statusText .. status
  BY <1>1, <1>2, <1>3, OrderKept
<1>4. ASSUME InOrder(answers', TipNumber, tip', statusText'),
             InOrder(idle', StatusNumber, statusText', status')
      PROVE  TipsInOrder'
  BY <1>4 DEF TipsInOrder, TipNumber, StatusNumber
<1>5. ASSUME NEW a, a.kind # "tooltip", answers' = Append(answers, a),
             UNCHANGED <<idle, tip, statusText, status>>
      PROVE  TipsInOrder'
  <2>1. a \in Answer  BY <1>1, <1>5, LastAppended
  <2>2. TipNumber[a] = -1  BY <1>5, <2>1, TipFacts
  <2>3. InOrder(Append(answers, a), TipNumber, tip, statusText)
    BY <1>2, <1>16, <2>1, <2>2
  <2> QED  BY <1>2, <1>4, <1>5, <2>3
<1>6. CASE UNCHANGED <<answers, idle, tip, statusText, status>>  BY <1>2, <1>4, <1>6
<1>7. CASE ApplyStatusUpdate
  <2>1. /\ idle # <<>> /\ Head(idle) # FirstRefresh /\ idle' = Tail(idle)
        /\ statusText' = Head(idle) /\ answers' = Append(answers, NewToolTip)
        /\ UNCHANGED <<tip, status>>
    BY <1>7 DEF ApplyStatusUpdate, RunIdle
  <2>2. Head(idle) \in Nat  BY <1>1, <2>1
  <2>3. StatusNumber[Head(idle)] = Head(idle) /\ Head(idle) # -1  BY <2>1, <2>2, TipFacts
  <2>4. InOrder(Tail(idle), StatusNumber, Head(idle), status) /\ Head(idle) \in statusText .. status
    BY <1>18, <2>1, <2>3
  <2>5. NewToolTip \in Answer  BY <1>1, <2>1, LastAppended
  <2>6. TipNumber[NewToolTip] = -1  BY <2>5, TipFacts DEF NewToolTip
  <2>7. InOrder(Append(answers, NewToolTip), TipNumber, tip, Head(idle))
    BY <1>16, <2>2, <2>4, <2>5, <2>6
  <2> QED  BY <1>4, <2>1, <2>4, <2>7
<1>8. CASE InitialMediaRefresh
  <2>1. /\ idle # <<>> /\ Head(idle) = FirstRefresh /\ idle' = Tail(idle)
        /\ UNCHANGED <<answers, tip, statusText, status>>
    BY <1>8 DEF InitialMediaRefresh, RunIdle
  <2>2. StatusNumber[Head(idle)] = -1  BY <2>1, TipFacts DEF FirstRefresh
  <2>3. InOrder(Tail(idle), StatusNumber, statusText, status)
    BY <1>18, <2>1, <2>2
  <2> QED  BY <1>2, <1>4, <2>1, <2>3
<1>9. CASE PostStatusUpdate
  <2>1. /\ idle' = Append(idle, status + 1) /\ status' = status + 1
        /\ UNCHANGED <<answers, tip, statusText>>
    BY <1>9 DEF PostStatusUpdate
  <2>2. StatusNumber[status + 1] = status + 1  BY <1>2, TipFacts DEF FirstRefresh
  <2>3. InOrder(Append(idle, status + 1), StatusNumber, statusText, status + 1)
    BY <1>2, <1>17, <2>2
  <2> QED  BY <1>2, <1>4, <2>1, <2>3
<1>10. CASE Create
  <2>1. idle' = Append(idle, FirstRefresh) /\ UNCHANGED <<answers, tip, statusText, status>>
    BY <1>10 DEF Create
  <2>2. FirstRefresh \in Nat /\ StatusNumber[FirstRefresh] = -1  BY TipFacts DEF FirstRefresh
  <2>3. InOrder(Append(idle, FirstRefresh), StatusNumber, statusText, status)
    BY <1>2, <1>17, <2>2
  <2> QED  BY <1>2, <1>4, <2>1, <2>3
<1>11. CASE ServeToolTip
  <2>1. PICK a : a = [kind |-> "tooltip", text |-> statusText]  OBVIOUS
  <2>2. answers' = Append(answers, a) /\ UNCHANGED <<idle, tip, statusText, status>>
    BY <1>11, <2>1 DEF ServeToolTip, Serve
  <2>3. a \in Answer  BY <1>1, <2>2, LastAppended
  <2>4. TipNumber[a] = statusText  BY <2>1, <2>3, TipFacts
  <2>5. InOrder(Append(answers, a), TipNumber, tip, statusText)
    BY <1>2, <1>16, <2>3, <2>4
  <2> QED  BY <1>2, <1>4, <2>2, <2>5
<1>12. CASE Desktop
  <2>1. /\ answers # <<>> /\ answers' = Tail(answers) /\ UNCHANGED <<idle, statusText, status>>
    BY <1>12 DEF Desktop, ReceiveUpdate, ReceiveLayout, ReceiveProperties, ReceiveError,
                ReceiveToolTip, Receive
  <2>2. PICK a : a = Head(answers)  OBVIOUS
  <2>3. a \in Answer  BY <1>1, <2>1, <2>2, SeqFacts
  <2>4. tip' = IF a.kind = "tooltip" THEN a.text ELSE tip
    BY <1>12, <2>2
       DEF Desktop, ReceiveUpdate, ReceiveLayout, ReceiveProperties, ReceiveError,
           ReceiveToolTip, Receive
  <2>5. IF TipNumber[a] = -1 THEN InOrder(Tail(answers), TipNumber, tip, statusText)
        ELSE InOrder(Tail(answers), TipNumber, TipNumber[a], statusText)
    BY <1>1, <1>2, <1>3, <2>1, <2>2, OrderKept
  <2>6. InOrder(Tail(answers), TipNumber, tip', statusText)
    <3>1. CASE a.kind = "tooltip"
      <4>1. TipNumber[a] = a.text /\ a.text # -1  BY <2>3, <3>1, TipFacts
      <4> QED  BY <2>4, <2>5, <3>1, <4>1
    <3>2. CASE a.kind # "tooltip"
      <4>1. TipNumber[a] = -1  BY <2>3, <3>2, TipFacts
      <4> QED  BY <2>4, <2>5, <3>2, <4>1
    <3> QED  BY <3>1, <3>2
  <2> QED  BY <1>2, <1>4, <2>1, <2>6
<1>13. CASE Quit
  <2>1. answers' = <<>> /\ idle' = <<>> /\ tip' = 0 /\ UNCHANGED <<statusText, status>>
    BY <1>13 DEF Quit
  <2>2. InOrder(<<>>, TipNumber, 0, statusText) /\ InOrder(<<>>, StatusNumber, statusText, status)
    BY <1>2 DEF InOrder
  <2> QED  BY <1>4, <2>1, <2>2
<1>14. CASE ServeGetLayout \/ ServeGetProperties \/ ServeAboutToShow
            \/ CommandToggle \/ CommandMediaSource
  <2>1. UNCHANGED <<idle, tip, statusText, status>>
    BY <1>14 DEF ServeGetLayout, ServeGetProperties, ServeAboutToShow, CommandToggle,
                 CommandMediaSource, Serve, Command
  <2>2. PICK a : a.kind # "tooltip" /\ answers' = Append(answers, a)
    <3>1. CASE ServeGetLayout
      <4>1. PICK a \in {Layout(Head(requests).parent), NoSuchItem} : answers' = Append(answers, a)
        BY <3>1 DEF ServeGetLayout
      <4> QED  BY <4>1 DEF Layout, NoSuchItem
    <3>2. CASE ServeGetProperties
      <4>1. PICK items : answers' = Append(answers, [kind |-> "properties", items |-> items])
        BY <3>2 DEF ServeGetProperties
      <4> QED  BY <4>1
    <3>3. CASE ServeAboutToShow
      <4>1. PICK ids : answers' = Append(answers, NeedUpdate(ids))  BY <3>3 DEF ServeAboutToShow
      <4> QED  BY <4>1 DEF NeedUpdate
    <3>4. CASE CommandToggle \/ CommandMediaSource
      <4>1. PICK a : a = LayoutUpdated(menuRevision')  OBVIOUS
      <4>2. answers' = Append(answers, a)
        BY <3>4, <4>1 DEF CommandToggle, CommandMediaSource, NotifyConfigChanged
      <4> QED  BY <4>1, <4>2 DEF LayoutUpdated
    <3> QED  BY <1>14, <3>1, <3>2, <3>3, <3>4
  <2> QED  BY <1>5, <2>1, <2>2
<1>15. CASE \/ Reload \/ ServeEvents \/ (EventsDone /\ ~Quit) \/ CommandNone \/ CommandExit
            \/ OpenRoot \/ CloseRoot \/ AskAgain \/ Click \/ UNCHANGED vars
  <2>1. UNCHANGED <<answers, idle, tip, statusText, status>>
    BY <1>15
       DEF Reload, ServeEvents, EventsDone, CommandNone, CommandExit, OpenRoot, CloseRoot,
           AskAgain, Click, Serve, Command, Ask, vars
  <2> QED  BY <1>6, <2>1
<1> QED
  BY <1>7, <1>8, <1>9, <1>10, <1>11, <1>12, <1>13, <1>14, <1>15
     DEF Next, MainThread, OnSigQuit

\* The item that is gone tells nobody anything.
GoneInv == main = "quit" => viewRevision = 0 /\ ~registered /\ answers = <<>>

LEMMA StepGone ==
    ASSUME GoneInv, [Next]_vars
    PROVE  GoneInv'
<1> USE DEF tray, desktop, engine, menu
<1>1. CASE Quit  BY <1>1 DEF Quit, GoneInv
<1>2. CASE main' # "quit"  BY <1>2 DEF GoneInv
<1>3. CASE main = "quit" /\ ~Quit
  <2>1. UNCHANGED <<viewRevision, registered, answers>>
    BY <1>3
       DEF GoneInv, Next, MainThread, InitialMediaRefresh, ServeAboutToShow, CommandToggle,
           CommandMediaSource, Create, ApplyStatusUpdate, OnSigQuit,
           ServeGetLayout, ServeGetProperties, ServeToolTip, ServeEvents, EventsDone,
           CommandNone, CommandExit, Reload, PostStatusUpdate, OpenRoot, CloseRoot, AskAgain,
           Click, Desktop, ReceiveUpdate, ReceiveLayout, ReceiveProperties, ReceiveError,
           ReceiveToolTip, Receive, RunIdle, Serve, Command, Ask, vars
  <2> QED  BY <1>3, <2>1 DEF GoneInv
<1>4. ASSUME main # "quit", main' = "quit" PROVE Quit
  BY <1>4
     DEF Next, MainThread, InitialMediaRefresh, ServeAboutToShow, CommandToggle,
         CommandMediaSource, Create, ApplyStatusUpdate, OnSigQuit,
         ServeGetLayout, ServeGetProperties, ServeToolTip, ServeEvents, EventsDone,
         CommandNone, CommandExit, Reload, PostStatusUpdate, OpenRoot, CloseRoot, AskAgain,
         Click, Desktop, ReceiveUpdate, ReceiveLayout, ReceiveProperties, ReceiveError,
         ReceiveToolTip, Receive, RunIdle, Serve, Command, Ask, vars
<1> QED  BY <1>1, <1>2, <1>3, <1>4

LEMMA StepTipTold ==
    ASSUME Types, Types', [Next]_vars, TipsInOrder, TipTold
    PROVE  TipTold'
<1> USE DEF tray, desktop, engine, menu
<1> DEFINE Told == \/ tip = status
                   \/ Waits
                   \/ FetchTip \in ToSet(requests)
                   \/ \E a \in ToSet(answers) : TellsTip(a)
<1>0. SUFFICES ASSUME main' # "quit" PROVE (statusText = status \/ Waits)' /\ Told'
  BY DEF TipTold
<1>1. answers \in Seq(Answer) /\ requests \in Seq(Request) /\ idle \in Seq(Nat)
  BY DEF Types
<1>2. ASSUME NEW a, answers' = Append(answers, a) PROVE a \in ToSet(answers')
  <2>1. answers \in Seq(Answer \cup {a})  BY <1>1
  <2> QED  BY <1>2, <2>1, SeqFacts
<1>3. main # "quit"
  <2>1. main' = "quit" \/ main # "quit"
    BY DEF Next, MainThread, InitialMediaRefresh, ServeAboutToShow, CommandToggle,
           CommandMediaSource, NotifyConfigChanged, Create, ApplyStatusUpdate, OnSigQuit, Quit,
           ServeGetLayout, ServeGetProperties, ServeToolTip, ServeEvents, EventsDone,
           CommandNone, CommandExit, Reload, PostStatusUpdate, OpenRoot, CloseRoot, AskAgain,
           Click, Desktop, ReceiveUpdate, ReceiveLayout, ReceiveProperties, ReceiveError,
           ReceiveToolTip, Receive, RunIdle, Serve, Command, Ask, vars
  <2> QED  BY <1>0, <2>1
<1>4. (statusText = status \/ Waits) /\ Told  BY <1>3 DEF TipTold
\* What is under way stays under way, unless it is served or received.
<1>5. ASSUME ~ServeToolTip PROVE FetchTip \in ToSet(requests) => FetchTip \in ToSet(requests')
  <2>1. FetchTip.call = "ToolTip"  BY DEF FetchTip
  <2> QED  BY <1>0, <1>5, <2>1, RequestServed
<1>6. ASSUME ~ReceiveToolTip, NEW a \in ToSet(answers), TellsTip(a)
      PROVE  a \in ToSet(answers')
  <2>1. a.kind \in {"tooltip", "new-tooltip"}  BY <1>6 DEF TellsTip, NewToolTip
  <2>2. ReceiveUpdate \/ ReceiveLayout \/ ReceiveProperties \/ ReceiveError
            => Head(answers).kind \notin {"tooltip", "new-tooltip"}
    BY DEF ReceiveUpdate, ReceiveLayout, ReceiveProperties, ReceiveError, Receive
  <2> QED  BY <1>0, <1>6, <2>1, <2>2, AnswerReceived DEF Desktop
<1>7. CASE ApplyStatusUpdate
  <2>1. /\ idle # <<>> /\ Head(idle) # FirstRefresh /\ idle' = Tail(idle)
        /\ statusText' = Head(idle) /\ answers' = Append(answers, NewToolTip)
        /\ UNCHANGED status
    BY <1>7 DEF ApplyStatusUpdate, RunIdle
  <2>2. Told'  BY <1>2, <2>1 DEF TellsTip, NewToolTip
  <2>3. Head(idle) = status \/ Waits
    <3>1. Head(idle) \in Nat /\ 1 \in DOMAIN idle /\ Head(idle) = idle[1]  BY <1>1, <2>1
    <3>2. StatusNumber[Head(idle)] = Head(idle) /\ Head(idle) # -1
      BY <2>1, <3>1, TipFacts
    <3>3. Head(idle) \in statusText .. status
      BY <3>1, <3>2 DEF TipsInOrder, InOrder
    <3> QED  BY <1>4, <3>3 DEF TipsInOrder, InOrder
  <2>4. status \in ToSet(idle) => Head(idle) = status \/ status \in ToSet(idle')
    BY <1>1, <2>1, HeadOrTail
  <2>5. (statusText = status \/ Waits)'  BY <2>1, <2>3, <2>4 DEF Waits
  <2> QED  BY <2>2, <2>5
<1>8. CASE PostStatusUpdate
  <2>1. idle' = Append(idle, status') /\ status' = status + 1  BY <1>8 DEF PostStatusUpdate
  <2>2. status + 1 \in Nat /\ status + 1 # FirstRefresh  BY DEF Types, FirstRefresh
  <2>3. status' \in ToSet(idle')
    <3>1. PICK s : s = status + 1  OBVIOUS
    <3>2. ToSet(Append(idle, s)) = ToSet(idle) \cup {s}  BY <1>1, <2>2, <3>1, SeqFacts
    <3>3. idle' = Append(idle, s) /\ status' = s  BY <2>1, <3>1
    <3> QED  BY <3>2, <3>3
  <2> QED  BY <2>1, <2>2, <2>3 DEF Waits
<1>9. CASE ServeToolTip
  <2>1. PICK a : a = [kind |-> "tooltip", text |-> statusText]  OBVIOUS
  <2>2. answers' = Append(answers, a) /\ UNCHANGED <<idle, statusText, status>>
    BY <1>9, <2>1 DEF ServeToolTip, Serve
  <2>3. CASE Waits  BY <2>2, <2>3 DEF Waits
  <2>4. CASE statusText = status
    <3>1. TellsTip(a)'  BY <2>1, <2>2, <2>4 DEF TellsTip
    <3> QED  BY <1>2, <2>2, <2>4, <3>1
  <2> QED  BY <1>4, <2>3, <2>4
<1>10. CASE ReceiveToolTip
  <2>1. /\ answers # <<>> /\ answers' = Tail(answers)
        /\ UNCHANGED <<idle, statusText, status>>
    BY <1>10 DEF ReceiveToolTip, Receive
  <2>2. PICK b : b = Head(answers)  OBVIOUS
  <2>3. b \in Answer  BY <1>1, <2>1, <2>2, SeqFacts
  <2>4. (statusText = status \/ Waits)'  BY <1>4, <2>1 DEF Waits
  <2>5. CASE b.kind = "new-tooltip"
    <3>1. requests' = Append(requests, FetchTip)
      BY <1>10, <2>2, <2>5 DEF ReceiveToolTip, Receive, Fetch, FetchTip
    <3>2. requests \in Seq(Request \cup {FetchTip})  BY <1>1
    <3>3. FetchTip \in ToSet(requests')  BY <3>1, <3>2, SeqFacts
    <3> QED  BY <2>4, <3>3
  <2>6. CASE b.kind = "tooltip"
    <3>1. tip' = b.text /\ requests' = requests
      BY <1>10, <2>2, <2>6 DEF ReceiveToolTip, Receive
    <3>2. CASE b.text = status  BY <2>1, <2>4, <3>1, <3>2
    <3>3. CASE b.text # status
      <4>1. ~TellsTip(b)  BY <2>6, <3>3 DEF TellsTip, NewToolTip
      <4>2. \A a \in ToSet(answers) : TellsTip(a) => a \in ToSet(answers')
        BY <1>1, <2>1, <2>2, <4>1, HeadOrTail
      <4>3. tip # status
        <5>1. TipNumber[b] = b.text /\ b.text # -1  BY <2>3, <2>6, TipFacts
        <5>2. 1 \in DOMAIN answers /\ answers[1] = b  BY <1>1, <2>1, <2>2
        <5>3. b.text \in tip .. statusText  BY <5>1, <5>2 DEF TipsInOrder, InOrder
        <5> QED  BY <3>3, <5>3 DEF TipsInOrder, InOrder
      <4> QED  BY <1>4, <2>1, <2>4, <3>1, <4>2, <4>3 DEF TellsTip, Waits
    <3> QED  BY <3>2, <3>3
  <2> QED  BY <1>10, <2>2, <2>5, <2>6 DEF ReceiveToolTip, Receive
<1>11. ASSUME ~ServeToolTip, ~ReceiveToolTip, UNCHANGED <<tip, statusText, status>>,
              Waits => Waits'
       PROVE  (statusText = status \/ Waits)' /\ Told'
  BY <1>4, <1>5, <1>6, <1>11 DEF TellsTip
<1>12. CASE InitialMediaRefresh
  <2>1. /\ idle # <<>> /\ Head(idle) = FirstRefresh /\ idle' = Tail(idle)
        /\ UNCHANGED <<tip, statusText, status>>
    BY <1>12 DEF InitialMediaRefresh, RunIdle
  <2>2. Waits => Waits'  BY <1>1, <2>1, HeadOrTail DEF Waits
  <2> QED  BY <1>9, <1>10, <1>11, <2>1, <2>2
<1>13. CASE Create
  <2>1. idle' = Append(idle, FirstRefresh) /\ UNCHANGED <<tip, statusText, status>>
    BY <1>13 DEF Create
  <2>2. Waits => Waits'  BY <1>1, <2>1, SeqFacts DEF Waits, FirstRefresh
  <2> QED  BY <1>9, <1>10, <1>11, <2>1, <2>2
<1>14. CASE \/ ServeGetLayout \/ ServeGetProperties \/ ServeAboutToShow \/ ServeEvents \/ EventsDone
            \/ CommandNone \/ CommandToggle \/ CommandMediaSource \/ CommandExit
            \/ Reload \/ OnSigQuit \/ OpenRoot \/ CloseRoot \/ AskAgain \/ Click
            \/ ReceiveUpdate \/ ReceiveLayout \/ ReceiveProperties \/ ReceiveError
            \/ UNCHANGED vars
  <2>1. UNCHANGED <<idle, tip, statusText, status>>
    BY <1>0, <1>14
       DEF ServeGetLayout, ServeGetProperties, ServeAboutToShow, ServeEvents, EventsDone,
           CommandNone, CommandToggle, CommandMediaSource, CommandExit, Reload, OnSigQuit, Quit,
           OpenRoot, CloseRoot, AskAgain, Click, ReceiveUpdate, ReceiveLayout,
           ReceiveProperties, ReceiveError, Receive, Serve, Command, Ask, vars
  <2>2. Waits => Waits'  BY <2>1 DEF Waits
  <2> QED  BY <1>9, <1>10, <1>11, <2>1, <2>2
<1> QED
  BY <1>7, <1>8, <1>9, <1>10, <1>12, <1>13, <1>14 DEF Next, MainThread, Desktop

-----------------------------------------------------------------------------

\* While a desktop that has displayed a menu does not display the last one, the
\* announcement, the fetch or the answer is under way; so it is with the tooltip and
\* the engine's last status (NotifyConfigChanged, ApplyStatusUpdateNow).
THEOREM LastUpdateArrives == Spec => []NoUpdateLost
<1> DEFINE UpdatesInv == RevisionsInOrder /\ RootAlone /\ MenuTold /\ TipsInOrder /\ TipTold /\ GoneInv
<1>1. Init => UpdatesInv
  <2> SUFFICES ASSUME Init PROVE UpdatesInv  OBVIOUS
  <2>1. ToSet(<<>>) = {} /\ DOMAIN <<>> = {}  BY DEF ToSet
  <2>2. RevisionsInOrder /\ TipsInOrder  BY <2>1 DEF Init, RevisionsInOrder, TipsInOrder, InOrder
  <2> QED  BY <2>1, <2>2 DEF Init, RootAlone, MenuTold, TipTold, GoneInv
<1>2. IInv /\ UpdatesInv /\ [Next]_vars => UpdatesInv'
  <2> SUFFICES ASSUME IInv, UpdatesInv, [Next]_vars PROVE UpdatesInv'  OBVIOUS
  <2>1. Types /\ Types' /\ answers' \in Seq(Answer)
    <3>1. IInv'  BY Invariance
    <3> QED  BY <3>1 DEF IInv, Types
  <2>2. RevisionsInOrder'  BY <2>1, StepRevisionsInOrder
  <2>3. RootAlone'  BY <2>1, StepRootAlone
  <2>4. MenuTold'  BY <2>1, <2>2, StepMenuTold
  <2>5. TipsInOrder'  BY <2>1, StepTipsInOrder
  <2>6. TipTold'  BY <2>1, StepTipTold
  <2>7. GoneInv'  BY StepGone
  <2> QED  BY <2>2, <2>3, <2>4, <2>5, <2>6, <2>7
<1>3. IInv /\ UpdatesInv => NoUpdateLost
  <2> SUFFICES ASSUME IInv, UpdatesInv PROVE NoUpdateLost  OBVIOUS
  <2>1. 0 < viewRevision \/ registered => main # "quit"  BY DEF GoneInv
  <2>2. 0 < viewRevision /\ viewRevision < menuRevision /\ menuRevision # firstRefresh =>
            \/ FetchRoot \in ToSet(requests)
            \/ \E a \in ToSet(answers) : TellsMenu(a)
    BY <2>1 DEF MenuTold, RevisionsInOrder, InOrder
  <2>3. registered /\ tip # status =>
            \/ status \in ToSet(idle)
            \/ FetchTip \in ToSet(requests)
            \/ \E a \in ToSet(answers) : TellsTip(a)
    BY <2>1 DEF TipTold, Waits
  <2> QED  BY <2>2, <2>3 DEF NoUpdateLost, FetchRoot, TellsMenu, FetchTip, TellsTip
<1> QED  BY <1>1, <1>2, <1>3, Initially, Invariance, PTL DEF Spec

-----------------------------------------------------------------------------
(* An open menu.  One call asks for it, its answer says that the menu was just *)
(* built, and what is sent behind that answer shows no older settings.         *)

RootCalls == {r \in Request : r.call = "AboutToShow" /\ RootId \in r.ids}
RootUpdates == {a \in Answer : a.kind = "need-update" /\ RootId \in a.ids}

OpeningInv ==
    /\ AtMostOne(requests, RootCalls) /\ AtMostOne(answers, RootUpdates)
    /\ ~(Has(requests, RootCalls) /\ Has(answers, RootUpdates))
    /\ Has(requests, RootCalls) \/ Has(answers, RootUpdates) => root = "asked"

\* A mark that was right at some moment since the desktop asked.
RightMark(item) ==
    \E c \in since : item.on = IF item.command = "media-source"
                               THEN SourceItem(item.value, c).on
                               ELSE StaticItem(item.command, c).on

AllRight(items) == \A id \in DOMAIN items : RightMark(items[id])

Rightful == {a \in Answer : a.kind \in {"layout", "properties"} => AllRight(a.items)}

\* The menu that the desktop asked for has been built.
Due == Has(answers, RootUpdates) \/ root \in {"fetching", "open"}

MarksInv ==
    /\ root # "closed" => config \in since
    /\ Due => AllRight(menuIndex)
    /\ Behind(answers, RootUpdates, Rightful)
    /\ root \in {"fetching", "open"} => ToSet(answers) \subseteq Rightful
    /\ root = "open" => AllRight(view)

\* Only OpenRoot asks for the root.
LEMMA StepRootCalls ==
    ASSUME Types, Types', [Next]_vars, ~OpenRoot
    PROVE  /\ Has(requests', RootCalls) => Has(requests, RootCalls)
           /\ AtMostOne(requests, RootCalls) => AtMostOne(requests', RootCalls)
<1> USE DEF tray, desktop, engine, menu
<1>1. requests \in Seq(Request) /\ requests' \in Seq(Request)  BY DEF Types
<1> DEFINE Goal == /\ Has(requests', RootCalls) => Has(requests, RootCalls)
                   /\ AtMostOne(requests, RootCalls) => AtMostOne(requests', RootCalls)
<1>2. CASE requests' = requests  BY <1>2
<1>3. CASE requests' = <<>>  BY <1>1, <1>3, HasFacts
<1>4. CASE requests # <<>> /\ requests' = Tail(requests)  BY <1>1, <1>4, HasFacts
<1>5. ASSUME NEW r, r \notin RootCalls, requests' = Append(requests, r) PROVE Goal
  <2>1. r \in Request  BY <1>1, <1>5, LastAppended
  <2>2. /\ Has(Append(requests, r), RootCalls) => Has(requests, RootCalls)
        /\ AtMostOne(requests, RootCalls) => AtMostOne(Append(requests, r), RootCalls)
    BY <1>1, <1>5, <2>1, HasFacts
  <2> QED  BY <1>5, <2>2
<1>6. CASE AskAgain
  <2>1. PICK r, n : /\ Ask(r, n)
                    /\ \/ \E id : r = [call |-> "GetLayout", parent |-> id]
                       \/ \E group \in BOOLEAN : r = AboutToShow({SourceMenuId}, group)
                       \/ r = [call |-> "GetProperties", ids |-> DOMAIN view]
    BY <1>6 DEF AskAgain
  <2>2. \A group : AboutToShow({SourceMenuId}, group).ids = {SourceMenuId}
    BY DEF AboutToShow
  <2>3. r \notin RootCalls
    <3>1. CASE \E id : r = [call |-> "GetLayout", parent |-> id]  BY <3>1 DEF RootCalls
    <3>2. CASE r = [call |-> "GetProperties", ids |-> DOMAIN view]  BY <3>2 DEF RootCalls
    <3>3. CASE \E group \in BOOLEAN : r = AboutToShow({SourceMenuId}, group)
      BY <2>2, <3>3 DEF SourceMenuId, RootId, RootCalls
    <3> QED  BY <2>1, <3>1, <3>2, <3>3
  <2> QED  BY <1>5, <2>1, <2>3 DEF Ask
<1>7. CASE Click
  <2>1. PICK r : requests' = Append(requests, r) /\ r.call = "Events"
    BY <1>7 DEF Click, Ask
  <2> QED  BY <1>5, <2>1 DEF RootCalls
<1>8. CASE ReceiveUpdate \/ ReceiveToolTip
  <2>1. CASE \E r : r.call # "AboutToShow" /\ requests' = Append(requests, r)
    BY <1>5, <2>1 DEF RootCalls
  <2> QED  BY <1>2, <1>8, <2>1 DEF ReceiveUpdate, ReceiveToolTip, Fetch
<1>9. CASE \/ InitialMediaRefresh \/ ApplyStatusUpdate
           \/ ServeGetLayout \/ ServeGetProperties \/ ServeAboutToShow \/ ServeToolTip
           \/ ServeEvents \/ EventsDone \/ OnSigQuit
           \/ CommandNone \/ CommandToggle \/ CommandMediaSource \/ CommandExit
           \/ Create \/ Reload \/ PostStatusUpdate \/ CloseRoot
           \/ ReceiveLayout \/ ReceiveProperties \/ ReceiveError
           \/ UNCHANGED vars
  <2>1. \/ requests' = requests \/ requests' = <<>>
        \/ requests # <<>> /\ requests' = Tail(requests)
    BY <1>9
       DEF InitialMediaRefresh, ApplyStatusUpdate, ServeGetLayout, ServeGetProperties,
           ServeAboutToShow, ServeToolTip, ServeEvents, EventsDone, OnSigQuit, Quit,
           CommandNone, CommandToggle, CommandMediaSource, CommandExit, Create, Reload,
           PostStatusUpdate, CloseRoot, ReceiveLayout, ReceiveProperties, ReceiveError,
           RunIdle, Serve, Command, vars
  <2> QED  BY <1>2, <1>3, <1>4, <2>1
<1> QED  BY <1>6, <1>7, <1>8, <1>9 DEF Next, MainThread, Desktop

\* Only the answer to AboutToShow of the root says that it needs an update.
LEMMA StepRootUpdates ==
    ASSUME Types, Types', [Next]_vars, ~(ServeAboutToShow /\ RootId \in Head(requests).ids)
    PROVE  /\ Has(answers', RootUpdates) => Has(answers, RootUpdates)
           /\ AtMostOne(answers, RootUpdates) => AtMostOne(answers', RootUpdates)
<1> USE DEF tray, desktop, engine, menu
<1>1. answers \in Seq(Answer) /\ answers' \in Seq(Answer)  BY DEF Types
<1> DEFINE Goal == /\ Has(answers', RootUpdates) => Has(answers, RootUpdates)
                   /\ AtMostOne(answers, RootUpdates) => AtMostOne(answers', RootUpdates)
<1>2. CASE answers' = answers  BY <1>2
<1>3. CASE answers' = <<>>  BY <1>1, <1>3, HasFacts
<1>4. CASE answers # <<>> /\ answers' = Tail(answers)  BY <1>1, <1>4, HasFacts
<1>5. ASSUME NEW a, a \notin RootUpdates, answers' = Append(answers, a) PROVE Goal
  <2>1. a \in Answer  BY <1>1, <1>5, LastAppended
  <2>2. /\ Has(Append(answers, a), RootUpdates) => Has(answers, RootUpdates)
        /\ AtMostOne(answers, RootUpdates) => AtMostOne(Append(answers, a), RootUpdates)
    BY <1>1, <1>5, <2>1, HasFacts
  <2> QED  BY <1>5, <2>2
<1>6. CASE ServeAboutToShow
  <2>1. RootId \notin Head(requests).ids  BY <1>6
  <2>2. PICK a : /\ answers' = Append(answers, a)
                 /\ (a = NeedUpdate(Head(requests).ids) \/ a = NeedUpdate({}))
    BY <1>6 DEF ServeAboutToShow
  <2>3. \A ids : NeedUpdate(ids).ids = ids  BY DEF NeedUpdate
  <2> QED  BY <1>5, <2>1, <2>2, <2>3 DEF RootUpdates
<1>7. CASE \/ ApplyStatusUpdate \/ ServeGetLayout \/ ServeGetProperties \/ ServeToolTip
           \/ CommandToggle \/ CommandMediaSource
  <2>1. PICK a : a.kind # "need-update" /\ answers' = Append(answers, a)
    <3>1. CASE ServeGetLayout
      <4>1. PICK a \in {Layout(Head(requests).parent), NoSuchItem} : answers' = Append(answers, a)
        BY <3>1 DEF ServeGetLayout
      <4> QED  BY <4>1 DEF Layout, NoSuchItem
    <3>2. CASE ServeGetProperties
      <4>1. PICK items : answers' = Append(answers, [kind |-> "properties", items |-> items])
        BY <3>2 DEF ServeGetProperties
      <4> QED  BY <4>1
    <3>3. CASE ServeToolTip
      <4>1. answers' = Append(answers, [kind |-> "tooltip", text |-> statusText])
        BY <3>3 DEF ServeToolTip
      <4> QED  BY <4>1
    <3>4. CASE ApplyStatusUpdate  BY <3>4 DEF ApplyStatusUpdate, NewToolTip
    <3>5. CASE CommandToggle \/ CommandMediaSource
      <4>1. PICK a : a = LayoutUpdated(menuRevision')  OBVIOUS
      <4>2. answers' = Append(answers, a)
        BY <3>5, <4>1 DEF CommandToggle, CommandMediaSource, NotifyConfigChanged
      <4> QED  BY <4>1, <4>2 DEF LayoutUpdated
    <3> QED  BY <1>7, <3>1, <3>2, <3>3, <3>4, <3>5
  <2> QED  BY <1>5, <2>1 DEF RootUpdates
<1>8. CASE \/ InitialMediaRefresh \/ ServeEvents \/ EventsDone \/ OnSigQuit
           \/ CommandNone \/ CommandExit
           \/ Create \/ Reload \/ PostStatusUpdate
           \/ OpenRoot \/ CloseRoot \/ AskAgain \/ Click \/ Desktop
           \/ UNCHANGED vars
  <2>1. \/ answers' = answers \/ answers' = <<>>
        \/ answers # <<>> /\ answers' = Tail(answers)
    BY <1>8
       DEF InitialMediaRefresh, ServeEvents, EventsDone, OnSigQuit, Quit, CommandNone,
           CommandExit, Create, Reload, PostStatusUpdate, OpenRoot, CloseRoot, AskAgain, Click,
           Desktop, ReceiveUpdate, ReceiveLayout, ReceiveProperties, ReceiveError,
           ReceiveToolTip, Receive, RunIdle, Serve, Command, Ask, vars
  <2> QED  BY <1>2, <1>3, <1>4, <2>1
<1> QED  BY <1>6, <1>7, <1>8 DEF Next, MainThread

LEMMA StepOpening ==
    ASSUME Types, Types', [Next]_vars, OpeningInv
    PROVE  OpeningInv'
<1> USE DEF tray, desktop, engine, menu
<1>1. /\ requests \in Seq(Request) /\ requests' \in Seq(Request)
      /\ answers \in Seq(Answer) /\ answers' \in Seq(Answer)
  BY DEF Types
<1>2. ASSUME AtMostOne(requests', RootCalls), AtMostOne(answers', RootUpdates),
             ~(Has(requests', RootCalls) /\ Has(answers', RootUpdates)),
             Has(requests', RootCalls) \/ Has(answers', RootUpdates) => root' = "asked"
      PROVE  OpeningInv'
  BY <1>2 DEF OpeningInv, RootCalls, RootUpdates
<1>3. CASE OpenRoot
  <2>1. PICK r : r = AboutToShow({RootId}, FALSE)  OBVIOUS
  <2>2. /\ requests' = Append(requests, r) /\ answers' = answers
        /\ root = "closed" /\ root' = "asked"
    BY <1>3, <2>1 DEF OpenRoot, Ask
  <2>3. r \in Request  BY <1>1, <2>2, LastAppended
  <2>4. ~Has(requests, RootCalls) /\ ~Has(answers, RootUpdates)  BY <2>2 DEF OpeningInv
  <2>5. AtMostOne(Append(requests, r), RootCalls)  BY <1>1, <2>3, <2>4, HasFacts DEF OpeningInv
  <2> QED  BY <1>2, <2>2, <2>4, <2>5 DEF OpeningInv
<1>4. CASE ServeAboutToShow /\ RootId \in Head(requests).ids
  <2>1. PICK a : a = NeedUpdate(Head(requests).ids)  OBVIOUS
  <2>2. /\ requests # <<>> /\ requests' = Tail(requests) /\ answers' = Append(answers, a)
        /\ root' = root /\ Head(requests).call = "AboutToShow"
    BY <1>4, <2>1 DEF ServeAboutToShow, Serve
  <2>3. Head(requests) \in RootCalls  BY <1>1, <1>4, <2>2, SeqFacts DEF RootCalls
  <2>4. Has(requests, RootCalls) /\ ~Has(Tail(requests), RootCalls)
        /\ AtMostOne(Tail(requests), RootCalls)
    BY <1>1, <2>2, <2>3, HasFacts DEF OpeningInv
  <2>5. a \in Answer  BY <1>1, <2>2, LastAppended
  <2>6. AtMostOne(Append(answers, a), RootUpdates)
    BY <1>1, <2>4, <2>5, HasFacts DEF OpeningInv
  <2> QED  BY <1>2, <2>2, <2>4, <2>6 DEF OpeningInv
<1>5. ASSUME ~OpenRoot, ~(ServeAboutToShow /\ RootId \in Head(requests).ids),
             \/ root' = root
             \/ ~Has(requests', RootCalls) /\ ~Has(answers', RootUpdates)
      PROVE  OpeningInv'
  <2>1. /\ Has(requests', RootCalls) => Has(requests, RootCalls)
        /\ AtMostOne(requests, RootCalls) => AtMostOne(requests', RootCalls)
    BY <1>5, StepRootCalls
  <2>2. /\ Has(answers', RootUpdates) => Has(answers, RootUpdates)
        /\ AtMostOne(answers, RootUpdates) => AtMostOne(answers', RootUpdates)
    BY <1>5, StepRootUpdates
  <2> QED  BY <1>2, <1>5, <2>1, <2>2 DEF OpeningInv
<1>6. ASSUME ~OpenRoot, ~(ServeAboutToShow /\ RootId \in Head(requests).ids),
             root \in {"fetching", "open"}
      PROVE  OpeningInv'
  <2>1. ~Has(requests, RootCalls) /\ ~Has(answers, RootUpdates)  BY <1>6 DEF OpeningInv
  <2> QED  BY <1>5, <1>6, <2>1, StepRootCalls, StepRootUpdates
<1>7. CASE ReceiveUpdate /\ ~OpenRoot /\ ~(ServeAboutToShow /\ RootId \in Head(requests).ids)
  <2>1. answers # <<>> /\ answers' = Tail(answers)  BY <1>7 DEF ReceiveUpdate, Receive
  <2>2. CASE Head(answers) \in RootUpdates
    <3>1. Has(answers, RootUpdates) /\ ~Has(Tail(answers), RootUpdates)
      BY <1>1, <2>1, <2>2, HasFacts DEF OpeningInv
    <3>2. ~Has(requests', RootCalls)  BY <1>7, <3>1, StepRootCalls DEF OpeningInv
    <3> QED  BY <1>5, <1>7, <2>1, <3>1, <3>2
  <2>3. CASE Head(answers) \notin RootUpdates
    <3>1. Head(answers) \in Answer  BY <1>1, <2>1, SeqFacts
    <3>2. root' = root  BY <1>7, <2>3, <3>1 DEF ReceiveUpdate, Receive, RootUpdates
    <3> QED  BY <1>5, <1>7, <3>2
  <2> QED  BY <2>2, <2>3
<1>8. CASE Quit
  <2>1. requests' = <<>> /\ answers' = <<>>  BY <1>8 DEF Quit
  <2> QED  BY <1>1, <1>2, <2>1, HasFacts
<1>9. CASE ReceiveLayout \/ CloseRoot
  <2>1. root' = root \/ root \in {"fetching", "open"}
    BY <1>9 DEF ReceiveLayout, CloseRoot
  <2> QED  BY <1>3, <1>4, <1>5, <1>6, <2>1
<1>10. CASE \/ InitialMediaRefresh \/ ApplyStatusUpdate
            \/ ServeGetLayout \/ ServeGetProperties \/ ServeAboutToShow \/ ServeToolTip
            \/ ServeEvents \/ (EventsDone /\ ~Quit)
            \/ CommandNone \/ CommandToggle \/ CommandMediaSource \/ CommandExit
            \/ Create \/ Reload \/ PostStatusUpdate \/ AskAgain \/ Click
            \/ ReceiveProperties \/ ReceiveError \/ ReceiveToolTip
            \/ UNCHANGED vars
  <2>1. root' = root
    BY <1>10
       DEF InitialMediaRefresh, ApplyStatusUpdate, ServeGetLayout, ServeGetProperties,
           ServeAboutToShow, ServeToolTip, ServeEvents, EventsDone, CommandNone, CommandToggle,
           CommandMediaSource, CommandExit, Create, Reload, PostStatusUpdate, AskAgain, Click,
           ReceiveProperties, ReceiveError, ReceiveToolTip, Receive, RunIdle, Serve, Command,
           Ask, vars
  <2> QED  BY <1>3, <1>4, <1>5, <2>1
<1> QED
  BY <1>3, <1>4, <1>7, <1>8, <1>9, <1>10 DEF Next, MainThread, Desktop, OnSigQuit

\* A menu that is built has the marks of its settings.
LEMMA RebuiltRight ==
    ASSUME Types, NEW s \in Seq(Values), NEW c \in Configs, RebuildMenuTree(s, c), c \in since'
    PROVE  AllRight(menuIndex)'
<1> DEFINE New == nextMenuId .. nextMenuId + Len(s) - 1
<1> DEFINE F(id) == IF id \in StaticIds THEN StaticItem(StaticItems[id], c)
                    ELSE SourceItem(s[id - nextMenuId + 1], c)
<1>1. PICK m : m = menuIndex'  OBVIOUS
<1>2. m = [id \in StaticIds \cup New |-> F(id)]  BY <1>1 DEF RebuildMenuTree
<1>3. ASSUME NEW id \in DOMAIN m
      PROVE  m[id].on = IF m[id].command = "media-source" THEN SourceItem(m[id].value, c).on
                        ELSE StaticItem(m[id].command, c).on
  <2>1. CASE id \in StaticIds
    <3>1. m[id] = StaticItem(StaticItems[id], c)  BY <1>2, <2>1
    <3>2. m[id].command = StaticItems[id] /\ StaticItems[id] # "media-source"
      BY <2>1, <3>1, ItemFacts
    <3> QED  BY <3>1, <3>2
  <2>2. CASE id \notin StaticIds
    <3>1. m[id] = SourceItem(s[id - nextMenuId + 1], c) /\ id \in New  BY <1>2, <2>2
    <3>2. s[id - nextMenuId + 1] \in Values  BY <3>1 DEF Types
    <3>3. m[id].command = "media-source" /\ m[id].value = s[id - nextMenuId + 1]
      BY <3>1, <3>2, ItemFacts
    <3> QED  BY <3>1, <3>3
  <2> QED  BY <2>1, <2>2
<1> QED  BY <1>1, <1>3 DEF AllRight, RightMark

\* A menu is built with the settings that hold after the step.
LEMMA BuiltOrKept ==
    ASSUME Types, MenuInv, [Next]_vars
    PROVE  UNCHANGED menuIndex \/ \E s \in Seq(Values) : RebuildMenuTree(s, config')
<1> USE DEF tray, desktop, engine, menu
<1>1. CASE InitialMediaRefresh \/ ServeAboutToShow
  <2>1. UNCHANGED menu \/ \E s \in GetAvailableSources : RebuildMenuTree(s, config)
    BY <1>1 DEF InitialMediaRefresh, ServeAboutToShow, RefreshMediaSourcesAndRebuild
  <2>2. config' = config  BY <1>1 DEF InitialMediaRefresh, ServeAboutToShow, RunIdle, Serve
  <2> QED  BY <2>1, <2>2, ListedSources
<1>2. CASE CommandToggle \/ CommandMediaSource
  <2>1. RebuildMenuTree(MediaSources, config')
    BY <1>2 DEF CommandToggle, CommandMediaSource, NotifyConfigChanged
  <2> QED  BY <2>1, StandingSources
<1>3. CASE \/ ApplyStatusUpdate
           \/ ServeGetLayout \/ ServeGetProperties \/ ServeToolTip
           \/ ServeEvents \/ EventsDone \/ OnSigQuit
           \/ CommandNone \/ CommandExit
           \/ Create \/ Reload \/ PostStatusUpdate
           \/ OpenRoot \/ CloseRoot \/ AskAgain \/ Click \/ Desktop
           \/ UNCHANGED vars
  BY <1>3
     DEF ApplyStatusUpdate, ServeGetLayout, ServeGetProperties, ServeToolTip, ServeEvents,
         EventsDone, OnSigQuit, Quit, CommandNone, CommandExit, Create, Reload,
         PostStatusUpdate, OpenRoot, CloseRoot, AskAgain, Click, Desktop, ReceiveUpdate,
         ReceiveLayout, ReceiveProperties, ReceiveError, ReceiveToolTip, Receive, RunIdle,
         Serve, Command, Ask, vars
<1> QED  BY <1>1, <1>2, <1>3 DEF Next, MainThread

\* Between asking and closing, what was right stays right.
LEMMA StepSince ==
    ASSUME [Next]_vars, ~OpenRoot, ~CloseRoot, ~Quit
    PROVE  /\ since \subseteq since'
           /\ root' # "closed" => root # "closed" \/ ReceiveUpdate
           /\ root # "closed" /\ config \in since => config' \in since'
<1> USE DEF tray, desktop, engine, menu
<1>1. CASE Reload \/ CommandToggle \/ CommandMediaSource
  <2>1. \E c : config' = c /\ Witnessed(c) /\ root' = root
    BY <1>1 DEF Reload, CommandToggle, CommandMediaSource, NotifyConfigChanged, Command
  <2> QED  BY <2>1 DEF Witnessed
<1>2. CASE \/ InitialMediaRefresh \/ ApplyStatusUpdate
           \/ ServeGetLayout \/ ServeGetProperties \/ ServeAboutToShow \/ ServeToolTip
           \/ ServeEvents \/ EventsDone
           \/ CommandNone \/ CommandExit
           \/ Create \/ PostStatusUpdate \/ AskAgain \/ Click \/ Desktop
           \/ UNCHANGED vars
  <2>1. /\ since' = since /\ config' = config
        /\ root' # "closed" => root # "closed" \/ ReceiveUpdate
    BY <1>2
       DEF InitialMediaRefresh, ApplyStatusUpdate, ServeGetLayout, ServeGetProperties,
           ServeAboutToShow, ServeToolTip, ServeEvents, EventsDone, CommandNone, CommandExit,
           Create, PostStatusUpdate, AskAgain, Click, Desktop, ReceiveUpdate, ReceiveLayout,
           ReceiveProperties, ReceiveError, ReceiveToolTip, Receive, RunIdle, Serve, Command,
           Ask, vars
  <2> QED  BY <2>1
<1> QED  BY <1>1, <1>2 DEF Next, MainThread, OnSigQuit

LEMMA RightStays ==
    ASSUME since \subseteq since'
    PROVE  /\ \A items : AllRight(items) => AllRight(items)'
           /\ Rightful \subseteq Rightful'
<1>1. \A items : AllRight(items) => AllRight(items)'  BY DEF AllRight, RightMark
<1> QED  BY <1>1 DEF Rightful


LEMMA StepDue ==
    ASSUME Types, Types', [Next]_vars
    PROVE  /\ root' \in {"fetching", "open"} =>
                  \/ root \in {"fetching", "open"}
                  \/ answers # <<>> /\ answers' = Tail(answers) /\ Head(answers) \in RootUpdates
           /\ Due' => \/ Due
                      \/ ServeAboutToShow /\ RootId \in Head(requests).ids
<1> USE DEF tray, desktop, engine, menu
<1>1. answers \in Seq(Answer)  BY DEF Types
<1>2. root' \in {"fetching", "open"} =>
          \/ root \in {"fetching", "open"}
          \/ answers # <<>> /\ answers' = Tail(answers) /\ Head(answers) \in RootUpdates
  <2>1. CASE ReceiveUpdate
    <3>1. answers # <<>> /\ answers' = Tail(answers)  BY <2>1 DEF ReceiveUpdate, Receive
    <3>2. Head(answers) \in Answer  BY <1>1, <3>1, SeqFacts
    <3>3. root' = root \/ Head(answers) \in RootUpdates
      BY <2>1, <3>2 DEF ReceiveUpdate, Receive, RootUpdates
    <3> QED  BY <3>1, <3>3
  <2>2. CASE ReceiveLayout  BY <2>2 DEF ReceiveLayout
  <2>3. CASE \/ Create \/ MainThread \/ Reload \/ OnSigQuit \/ PostStatusUpdate
             \/ OpenRoot \/ CloseRoot \/ AskAgain \/ Click
             \/ ReceiveProperties \/ ReceiveError \/ ReceiveToolTip
             \/ UNCHANGED vars
    <3>1. root' \in {root, "closed", "asked"}
      BY <2>3
         DEF Create, MainThread, InitialMediaRefresh, ApplyStatusUpdate, ServeGetLayout,
             ServeGetProperties, ServeAboutToShow, ServeToolTip, ServeEvents, EventsDone,
             CommandNone, CommandToggle, CommandMediaSource, CommandExit, Reload, OnSigQuit,
             Quit, PostStatusUpdate, OpenRoot, CloseRoot, AskAgain, Click, ReceiveProperties,
             ReceiveError, ReceiveToolTip, Receive, RunIdle, Serve, Command, Ask, vars
    <3> QED  BY <3>1
  <2> QED  BY <2>1, <2>2, <2>3 DEF Next, Desktop
<1>3. ASSUME answers # <<>>, Head(answers) \in RootUpdates PROVE Has(answers, RootUpdates)
  <2>1. 1 \in DOMAIN answers /\ Head(answers) = answers[1]  BY <1>1, <1>3
  <2> QED  BY <1>3, <2>1 DEF Has
<1>4. \/ Has(answers', RootUpdates) => Has(answers, RootUpdates)
      \/ ServeAboutToShow /\ RootId \in Head(requests).ids
  BY StepRootUpdates
<1>5. Due' <=> Has(answers', RootUpdates) \/ root' \in {"fetching", "open"}
  BY DEF Due, RootUpdates
<1> QED  BY <1>2, <1>3, <1>4, <1>5 DEF Due

\* The menu, once it is due, is right.
LEMMA StepMenuRight ==
    ASSUME Types, Types', MenuInv, OpeningInv', MarksInv, [Next]_vars,
           ~OpenRoot, ~CloseRoot, ~Quit, root' # "closed" => config' \in since', Due'
    PROVE  AllRight(menuIndex)'
<1>1. config' \in Configs  BY DEF Types
<1>2. root' # "closed"  BY DEF Due, OpeningInv
<1>3. ASSUME NEW s \in Seq(Values), RebuildMenuTree(s, config') PROVE AllRight(menuIndex)'
  <2>1. PICK c : c = config'  OBVIOUS
  <2>2. c \in Configs /\ c \in since' /\ RebuildMenuTree(s, c)  BY <1>1, <1>2, <1>3, <2>1
  <2> QED  BY <2>2, RebuiltRight
<1>4. CASE ServeAboutToShow /\ RootId \in Head(requests).ids
  <2>1. (\E s \in GetAvailableSources : RebuildMenuTree(s, config)) /\ config' = config
    BY <1>4 DEF ServeAboutToShow, RefreshMediaSourcesAndRebuild, Serve
  <2> QED  BY <1>3, <2>1, ListedSources
<1>5. CASE UNCHANGED menuIndex /\ Due
  <2>1. AllRight(menuIndex)  BY <1>5 DEF MarksInv
  <2>2. PICK m : m = menuIndex  OBVIOUS
  <2>3. AllRight(m)'  BY <2>1, <2>2, StepSince, RightStays
  <2>4. m = menuIndex'  BY <1>5, <2>2
  <2> QED  BY <2>3, <2>4 DEF AllRight
<1> QED  BY <1>3, <1>4, <1>5, BuiltOrKept, StepDue

\* What is sent then is right as well.
LEMMA StepAnswersRight ==
    ASSUME Types, Types', MarksInv, [Next]_vars, ~OpenRoot, ~CloseRoot, ~Quit
    PROVE  /\ Behind(answers', RootUpdates, Rightful')
           /\ root' \in {"fetching", "open"} => ToSet(answers') \subseteq Rightful'
<1> USE DEF tray, desktop, engine, menu
<1> DEFINE Goal == /\ Behind(answers', RootUpdates, Rightful')
                   /\ root' \in {"fetching", "open"} => ToSet(answers') \subseteq Rightful'
<1>1. answers \in Seq(Answer) /\ answers' \in Seq(Answer) /\ menuIndex \in Menus
  BY DEF Types
<1>2. Rightful \subseteq Rightful' /\ \A items : AllRight(items) => AllRight(items)'
  BY StepSince, RightStays
<1>3. /\ Behind(answers, RootUpdates, Rightful')
      /\ root \in {"fetching", "open"} => ToSet(answers) \subseteq Rightful'
  BY <1>2 DEF MarksInv, Behind
<1>4. CASE answers' = answers
  <2>1. root' \in {"fetching", "open"} => root \in {"fetching", "open"}
    <3>1. answers # <<>> => Tail(answers) # answers
      <4> SUFFICES ASSUME answers # <<>> PROVE Tail(answers) # answers  OBVIOUS
      <4>1. PICK t : t = Tail(answers)  OBVIOUS
      <4>2. /\ DOMAIN answers = 1 .. Len(answers) /\ Len(answers) \in Nat /\ Len(answers) >= 1
            /\ DOMAIN t = 1 .. Len(answers) - 1
        BY <1>1, <4>1, Places
      <4>3. Len(answers) \in DOMAIN answers /\ Len(answers) \notin DOMAIN t  BY <4>2
      <4> QED  BY <4>1, <4>3
    <3> QED  BY <1>4, <3>1, StepDue
  <2> QED  BY <1>3, <1>4, <2>1
<1>5. CASE answers # <<>> /\ answers' = Tail(answers)
  <2>1. PICK G : G = Rightful'  OBVIOUS
  <2>2. Behind(answers, RootUpdates, G)  BY <1>3, <2>1
  <2>3. /\ Behind(Tail(answers), RootUpdates, G)
        /\ Head(answers) \in RootUpdates => ToSet(Tail(answers)) \subseteq G
    BY <1>1, <1>5, <2>2, BehindFacts
  <2>4. ToSet(Tail(answers)) \subseteq ToSet(answers)  BY <1>1, <1>5, SeqFacts
  <2>5. root' \in {"fetching", "open"} =>
            root \in {"fetching", "open"} \/ Head(answers) \in RootUpdates
    BY StepDue
  <2> QED  BY <1>3, <1>5, <2>1, <2>3, <2>4, <2>5
<1>6. ASSUME NEW a, answers' = Append(answers, a), root' = root,
             Due /\ a.kind \in {"layout", "properties"} => AllRight(a.items)
      PROVE  Goal
  <2>1. a \in Answer  BY <1>1, <1>6, LastAppended
  <2>2. Due => a \in Rightful'  BY <1>2, <1>6, <2>1 DEF Rightful
  <2>3. PICK G : G = Rightful'  OBVIOUS
  <2>4. Behind(answers, RootUpdates, G) /\ (Has(answers, RootUpdates) => a \in G)
    BY <1>3, <2>2, <2>3 DEF Due
  <2>5. Behind(Append(answers, a), RootUpdates, G)  BY <1>1, <2>1, <2>4, BehindFacts
  <2>6. ToSet(Append(answers, a)) = ToSet(answers) \cup {a}  BY <1>1, <2>1, SeqFacts
  <2> QED  BY <1>3, <1>6, <2>2, <2>3, <2>5, <2>6 DEF Due
<1>7. \A D \in SUBSET DOMAIN menuIndex : Due => AllRight([id \in D |-> menuIndex[id]])
  BY DEF MarksInv, AllRight
<1>8. AllRight(Nothing)  BY MenuFacts DEF AllRight
<1>9. CASE ServeGetLayout
  <2>1. PICK a \in {Layout(Head(requests).parent), NoSuchItem} : answers' = Append(answers, a)
    BY <1>9 DEF ServeGetLayout
  <2>2. a = NoSuchItem => a.kind = "error"  BY DEF NoSuchItem
  <2>3. PICK parent : parent = Head(requests).parent  OBVIOUS
  <2>4. \/ Layout(parent).items = menuIndex \/ Layout(parent).items = Nothing
        \/ Layout(parent).items = [id \in DOMAIN menuIndex \ StaticIds |-> menuIndex[id]]
    BY DEF Layout
  <2>5. Due => AllRight(Layout(parent).items)  BY <1>7, <1>8, <2>4 DEF MarksInv
  <2>6. root' = root  BY <1>9 DEF ServeGetLayout, Serve
  <2> QED  BY <1>6, <2>1, <2>2, <2>3, <2>5, <2>6
<1>10. CASE ServeGetProperties
  <2>1. PICK ids : ids = Head(requests).ids \cap DOMAIN menuIndex  OBVIOUS
  <2>2. PICK items : items = [id \in ids |-> menuIndex[id]]  OBVIOUS
  <2>3. Due => AllRight(items)  BY <1>7, <2>1, <2>2
  <2>4. answers' = Append(answers, [kind |-> "properties", items |-> items]) /\ root' = root
    BY <1>10, <2>1, <2>2 DEF ServeGetProperties, Serve
  <2> QED  BY <1>6, <2>3, <2>4
<1>11. CASE ServeAboutToShow \/ ApplyStatusUpdate \/ ServeToolTip
            \/ CommandToggle \/ CommandMediaSource
  <2>1. PICK a : a.kind \notin {"layout", "properties"} /\ answers' = Append(answers, a)
    <3>1. \A ids : NeedUpdate(ids).kind = "need-update"  BY DEF NeedUpdate
    <3>2. LayoutUpdated(menuRevision').kind = "layout-updated"  BY DEF LayoutUpdated
    <3>3. CASE ServeAboutToShow
      <4>1. \E ids : answers' = Append(answers, NeedUpdate(ids))  BY <3>3 DEF ServeAboutToShow
      <4> QED  BY <3>1, <4>1
    <3>4. CASE CommandToggle \/ CommandMediaSource
      <4>1. answers' = Append(answers, LayoutUpdated(menuRevision'))
        BY <3>4 DEF CommandToggle, CommandMediaSource, NotifyConfigChanged
      <4> QED  BY <3>2, <4>1
    <3>5. CASE ApplyStatusUpdate  BY <3>5 DEF ApplyStatusUpdate, NewToolTip
    <3>6. CASE ServeToolTip
      <4>1. answers' = Append(answers, [kind |-> "tooltip", text |-> statusText])
        BY <3>6 DEF ServeToolTip
      <4> QED  BY <4>1
    <3> QED  BY <1>11, <3>3, <3>4, <3>5, <3>6
  <2>2. root' = root
    BY <1>11 DEF ServeAboutToShow, ApplyStatusUpdate, ServeToolTip, CommandToggle,
                 CommandMediaSource, RunIdle, Serve, Command
  <2> QED  BY <1>6, <2>1, <2>2
<1>12. CASE \/ InitialMediaRefresh \/ ServeEvents \/ EventsDone
            \/ CommandNone \/ CommandExit
            \/ Create \/ Reload \/ PostStatusUpdate \/ AskAgain \/ Click \/ Desktop
            \/ UNCHANGED vars
  <2>1. \/ answers' = answers
        \/ answers # <<>> /\ answers' = Tail(answers)
    BY <1>12
       DEF InitialMediaRefresh, ServeEvents, EventsDone, CommandNone, CommandExit, Create,
           Reload, PostStatusUpdate, AskAgain, Click, Desktop, ReceiveUpdate, ReceiveLayout,
           ReceiveProperties, ReceiveError, ReceiveToolTip, Receive, RunIdle, Serve, Command,
           Ask, vars
  <2> QED  BY <1>4, <1>5, <2>1
<1> QED
  BY <1>9, <1>10, <1>11, <1>12 DEF Next, MainThread, OnSigQuit


\* So are the widgets of a menu that is open.
LEMMA StepViewRight ==
    ASSUME Types, MarksInv, [Next]_vars, ~OpenRoot, ~CloseRoot, ~Quit, root' = "open"
    PROVE  AllRight(view)'
<1> USE DEF tray, desktop, engine, menu
<1>1. answers \in Seq(Answer) /\ view \in Menus  BY DEF Types
<1>2. \A items : AllRight(items) => AllRight(items)'  BY StepSince, RightStays
<1>3. SUFFICES ASSUME NEW v, v = view' PROVE AllRight(v)
  <2>1. PICK v : v = view'  OBVIOUS
  <2>2. AllRight(v)'  BY <1>2, <1>3, <2>1
  <2> QED  BY <2>1, <2>2 DEF AllRight
<1>4. root = "open" => AllRight(view)  BY DEF MarksInv
<1>5. answers # <<>> /\ root \in {"fetching", "open"}
          /\ Head(answers).kind \in {"layout", "properties"} => AllRight(Head(answers).items)
  <2> SUFFICES ASSUME answers # <<>>, root \in {"fetching", "open"},
                      Head(answers).kind \in {"layout", "properties"}
               PROVE  AllRight(Head(answers).items)
    OBVIOUS
  <2>1. Head(answers) \in ToSet(answers)  BY <1>1, SeqFacts
  <2>2. Head(answers) \in Rightful  BY <2>1 DEF MarksInv
  <2> QED  BY <2>2 DEF Rightful
<1>6. CASE ReceiveLayout
  <2>1. PICK a : a = Head(answers)  OBVIOUS
  <2>2. answers # <<>> /\ a.kind = "layout"  BY <1>6, <2>1 DEF ReceiveLayout, Receive
  <2>3. root \in {"fetching", "open"}  BY <1>6 DEF ReceiveLayout
  <2>4. AllRight(a.items)  BY <1>5, <2>1, <2>2, <2>3
  <2>5. CASE a.parent = RootId
    <3>1. v = a.items  BY <1>3, <1>6, <2>1, <2>5 DEF ReceiveLayout, RootId, SourceMenuId
    <3> QED  BY <2>4, <3>1
  <2>6. CASE a.parent # RootId
    <3>1. root' = root
      BY <1>6, <2>1, <2>6 DEF ReceiveLayout
    <3>2. AllRight(view)  BY <1>4, <3>1
    <3>3. \/ v = view
          \/ v = [id \in DOMAIN a.items \cup (DOMAIN view \cap StaticIds) |->
                     IF id \in DOMAIN a.items THEN a.items[id] ELSE view[id]]
      BY <1>3, <1>6, <2>1, <2>6 DEF ReceiveLayout
    <3> QED  BY <2>4, <3>2, <3>3 DEF AllRight
  <2> QED  BY <2>5, <2>6
<1>7. CASE ReceiveProperties
  <2>1. PICK items : items = Head(answers).items  OBVIOUS
  <2>2. answers # <<>> /\ Head(answers).kind = "properties" /\ root' = root
    BY <1>7 DEF ReceiveProperties, Receive
  <2>3. AllRight(items) /\ AllRight(view)  BY <1>4, <1>5, <2>1, <2>2
  <2>4. v = [id \in DOMAIN view |-> IF id \in DOMAIN items THEN items[id] ELSE view[id]]
    BY <1>3, <1>7, <2>1 DEF ReceiveProperties
  <2> QED  BY <2>3, <2>4 DEF AllRight
<1>8. CASE \/ Create \/ MainThread \/ Reload \/ PostStatusUpdate \/ AskAgain \/ Click
           \/ ReceiveUpdate \/ ReceiveError \/ ReceiveToolTip
           \/ UNCHANGED vars
  <2>1. view' = view /\ root' \in {root, "fetching"}
    BY <1>8
       DEF Create, MainThread, InitialMediaRefresh, ApplyStatusUpdate, ServeGetLayout,
           ServeGetProperties, ServeAboutToShow, ServeToolTip, ServeEvents, EventsDone,
           CommandNone, CommandToggle, CommandMediaSource, CommandExit, Reload,
           PostStatusUpdate, AskAgain, Click, ReceiveUpdate, ReceiveError, ReceiveToolTip,
           Receive, RunIdle, Serve, Command, Ask, vars
  <2> QED  BY <1>3, <1>4, <2>1
<1> QED  BY <1>6, <1>7, <1>8 DEF Next, Desktop, OnSigQuit

LEMMA StepMarks ==
    ASSUME Types, Types', MenuInv, OpeningInv, OpeningInv', MarksInv, [Next]_vars
    PROVE  MarksInv'
<1> USE DEF tray, desktop, engine, menu
<1>1. answers \in Seq(Answer) /\ answers' \in Seq(Answer)  BY DEF Types
<1>2. ASSUME root' # "closed" => config' \in since',
             Due' => AllRight(menuIndex)',
             Behind(answers', RootUpdates, Rightful'),
             root' \in {"fetching", "open"} => ToSet(answers') \subseteq Rightful',
             root' = "open" => AllRight(view)'
      PROVE  MarksInv'
  BY <1>2 DEF MarksInv, RootUpdates
<1>3. ASSUME root' # "closed" => config' \in since',
             root' \notin {"fetching", "open"}, ~Has(answers', RootUpdates)
      PROVE  MarksInv'
  <2>1. ~Due'  BY <1>3 DEF Due, RootUpdates
  <2>2. Behind(answers', RootUpdates, Rightful')  BY <1>3 DEF Has, Behind
  <2> QED  BY <1>2, <1>3, <2>1, <2>2
<1>4. CASE OpenRoot
  <2>1. /\ root = "closed" /\ root' = "asked" /\ since' = {config} /\ config' = config
        /\ answers' = answers
    BY <1>4 DEF OpenRoot, Ask
  <2>2. ~Has(answers', RootUpdates)  BY <2>1 DEF OpeningInv
  <2> QED  BY <1>3, <2>1, <2>2
<1>5. CASE CloseRoot
  <2>1. root = "open" /\ root' = "closed" /\ answers' = answers  BY <1>5 DEF CloseRoot
  <2>2. ~Has(answers', RootUpdates)  BY <2>1 DEF OpeningInv
  <2> QED  BY <1>3, <2>1, <2>2
<1>6. CASE Quit
  <2>1. root' = "closed" /\ answers' = <<>>  BY <1>6 DEF Quit
  <2>2. ~Has(answers', RootUpdates)  BY <1>1, <2>1, HasFacts
  <2> QED  BY <1>3, <2>1, <2>2
<1>7. CASE ~OpenRoot /\ ~CloseRoot /\ ~Quit
  <2>1. root' # "closed" => root # "closed"
    <3>1. root = "closed" => ~Has(answers, RootUpdates)  BY DEF OpeningInv
    <3>2. CASE ReceiveUpdate
      <4>1. answers # <<>>  BY <3>2 DEF ReceiveUpdate, Receive
      <4>2. 1 \in DOMAIN answers /\ Head(answers) = answers[1] /\ Head(answers) \in Answer
        BY <1>1, <4>1
      <4>3. root' = root \/ Head(answers) \in RootUpdates
        BY <3>2, <4>2 DEF ReceiveUpdate, Receive, RootUpdates
      <4> QED  BY <3>1, <4>2, <4>3 DEF Has
    <3> QED  BY <1>7, <3>2, StepSince
  <2>2. root' # "closed" => config' \in since'  BY <1>7, <2>1, StepSince DEF MarksInv
  <2>3. Due' => AllRight(menuIndex)'  BY <1>7, <2>2, StepMenuRight
  <2>4. /\ Behind(answers', RootUpdates, Rightful')
        /\ root' \in {"fetching", "open"} => ToSet(answers') \subseteq Rightful'
    BY <1>7, StepAnswersRight
  <2>5. root' = "open" => AllRight(view)'  BY <1>7, StepViewRight
  <2> QED  BY <1>2, <2>2, <2>3, <2>4, <2>5
<1> QED  BY <1>4, <1>5, <1>6, <1>7

\* Every mark in a menu that is open was right at some moment since the desktop
\* asked to open it, whatever the bus still carried when it did
\* (AboutToShow, OnReloadRequested).
THEOREM OpenMenuShowsNoOldMark == Spec => []OpenMenuIsNotOld
<1> DEFINE Inv == IInv /\ OpeningInv /\ MarksInv
<1>1. Init => Inv
  <2> SUFFICES ASSUME Init PROVE Inv  OBVIOUS
  <2>1. /\ requests = <<>> /\ answers = <<>> /\ root = "closed"
    BY DEF Init
  <2>2. ~Has(<<>>, RootCalls) /\ ~Has(<<>>, RootUpdates)
        /\ AtMostOne(<<>>, RootCalls) /\ AtMostOne(<<>>, RootUpdates)
        /\ Behind(<<>>, RootUpdates, Rightful)
    BY DEF Has, AtMostOne, Behind
  <2>3. OpeningInv  BY <2>1, <2>2 DEF OpeningInv
  <2>4. MarksInv  BY <2>1, <2>2 DEF MarksInv, Due
  <2> QED  BY <2>3, <2>4, Initially
<1>2. Inv /\ [Next]_vars => Inv'
  <2> SUFFICES ASSUME Inv, [Next]_vars PROVE Inv'  OBVIOUS
  <2>1. IInv'  BY Invariance
  <2>2. Types /\ MenuInv /\ Types'  BY <2>1 DEF IInv
  <2>3. OpeningInv'  BY <2>2, StepOpening
  <2>4. MarksInv'  BY <2>2, <2>3, StepMarks
  <2> QED  BY <2>1, <2>3, <2>4
<1>3. Inv => OpenMenuIsNotOld  BY DEF MarksInv, OpenMenuIsNotOld, AllRight, RightMark
<1> QED  BY <1>1, <1>2, <1>3, PTL DEF Spec
=============================================================================
