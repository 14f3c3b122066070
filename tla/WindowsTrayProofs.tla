--------------------------- MODULE WindowsTrayProofs ---------------------------
(***************************************************************************)
(* Theorems about the tray on Windows, for any number of sessions, clicks, *)
(* statuses and restarts of the shell: no refresh is lost, what is edited  *)
(* is saved and applied, and the icon tells the last status.               *)
(*                                                                         *)
(* The first and the last rest on the order of the queue: a message is     *)
(* never overtaken by one that says something older.                       *)
(***************************************************************************)
EXTENDS WindowsTray, TLAPS

\* What a refresh brings is never older than what came before it.
RefreshInv ==
    /\ freshAfter <= listedAfter /\ listedAfter <= asked
    /\ \A i \in DOMAIN queue : queue[i].message = "sources" =>
           /\ freshAfter <= queue[i].after /\ queue[i].after <= listedAfter
           /\ \A j \in DOMAIN queue : i < j /\ queue[j].message = "sources" =>
                  queue[i].after <= queue[j].after
    /\ window =>
           \/ requested
           \/ refresher \in {"listing", "posting"} /\ listedAfter = asked
           \/ \E i \in DOMAIN queue : queue[i].message = "sources" /\ queue[i].after = asked
           \/ freshAfter = asked

\* What differs from the file waits for the prompt that will save it.
EditsInv ==
    /\ polled = saved.source /\ currentMediaSourceId = saved.source
    /\ saved = config \/ \E i \in DOMAIN stack : stack[i].frame = "prompt" /\ stack[i].field = "url"

\* The tooltip is the last status but those in the queue, and the icon has it but
\* after a restart of the shell that the queue tells of.
TipInv ==
    /\ tip <= status
    /\ \A i \in DOMAIN queue : queue[i].message = "status" =>
           /\ tip < queue[i].text /\ queue[i].text <= status
           /\ \A j \in DOMAIN queue : i < j /\ queue[j].message = "status" =>
                  queue[i].text < queue[j].text
    /\ window =>
           \/ tip = status
           \/ \E i \in DOMAIN queue : queue[i].message = "status" /\ queue[i].text = status

IconInv ==
    /\ main # "loop" => ~window
    /\ window /\ explorer =>
           \/ icon = tip
           \/ \E i \in DOMAIN queue : queue[i].message = "taskbar-created"

\* The media source items are those of the list, always; nothing but the balloon's
\* box opens over a menu, and the settings stay as they are until the menu is gone.
Item == [source : Sources, on : BOOLEAN]

MenuInv ==
    /\ sourceMenu \in Seq(Item) /\ Len(sourceMenu) = Len(mediaSources)
    /\ \A i \in DOMAIN sourceMenu : sourceMenu[i].source = mediaSources[i]
    /\ \A i, j \in DOMAIN stack : i < j /\ stack[i].frame = "menu" => stack[j].frame = "box"
    /\ MenuIsOpen =>
           /\ marks = Marks(config)
           /\ (\E i \in DOMAIN sourceMenu : sourceMenu[i].source = config.source) =>
                  \A i \in DOMAIN sourceMenu :
                      sourceMenu[i].on <=> sourceMenu[i].source = config.source

IInv == TypeOK /\ RefreshInv /\ EditsInv /\ TipInv /\ IconInv /\ MenuInv

-----------------------------------------------------------------------------
(* Sequences *)

LEMMA SeqFacts ==
    ASSUME NEW S, NEW q \in Seq(S)
    PROVE  /\ DOMAIN q = 1 .. Len(q) /\ Len(q) \in Nat
           /\ \A x \in S : /\ Append(q, x) \in Seq(S) /\ Len(Append(q, x)) = Len(q) + 1
                           /\ Append(q, x)[Len(q) + 1] = x
                           /\ \A i \in 1 .. Len(q) : Append(q, x)[i] = q[i]
           /\ q # <<>> => /\ Len(q) > 0 /\ q[1] \in S /\ Head(q) = q[1]
                          /\ Tail(q) \in Seq(S) /\ Len(Tail(q)) = Len(q) - 1
                          /\ \A i \in 1 .. Len(q) - 1 : Tail(q)[i] = q[i + 1]
OBVIOUS

LEMMA FrontFacts ==
    ASSUME NEW S, NEW q \in Seq(S), q # <<>>
    PROVE  /\ Front(q) \in Seq(S) /\ Len(Front(q)) = Len(q) - 1
           /\ \A i \in 1 .. Len(q) - 1 : Front(q)[i] = q[i]
           /\ Last(q) \in S /\ Last(q) = q[Len(q)]
BY DEF Front, Last

LEMMA FrameFacts ==
    /\ [frame |-> "menu"] \in Frame /\ [frame |-> "box"] \in Frame /\ [frame |-> "report"] \in Frame
    /\ \A f \in {"id", "url"}, t \in Texts :
           [frame |-> "prompt", field |-> f, original |-> t] \in Frame
    /\ \A x \in Frame : x.frame = "prompt" => x.field \in {"id", "url"} /\ x.original \in Texts
BY DEF Frame

LEMMA MessageFacts ==
    /\ [message |-> "trayicon"] \in Message /\ [message |-> "taskbar-created"] \in Message
    /\ \A n \in Nat : [message |-> "status", text |-> n] \in Message
    /\ \A l \in Listings, n \in Nat :
           [message |-> "sources", sources |-> l, after |-> n] \in Message
    /\ \A m \in Message : /\ m.message = "status" => m.text \in Nat
                          /\ m.message = "sources" => m.sources \in Listings /\ m.after \in Nat
BY DEF Message

LEMMA ListingFacts ==
    /\ <<>> \in Listings
    /\ \A l \in Listings : <<ITunes>> \o l \in Seq(Sources)
<1>1. <<>> \in Listings
  <2>1. <<>> \in [1 .. 0 -> Players] /\ IsInjective(<<>>)  BY DEF IsInjective
  <2>2. 0 \in 0 .. MaxListed  BY WindowsTrayAssumption
  <2> QED  BY <2>1, <2>2 DEF Listings
<1>2. ASSUME NEW l \in Listings PROVE <<ITunes>> \o l \in Seq(Sources)
  <2>1. PICK n \in 0 .. MaxListed : l \in [1 .. n -> Players]  BY DEF Listings
  <2>2. n \in Nat  BY WindowsTrayAssumption
  <2>3. l \in Seq(Sources)  BY <2>1, <2>2 DEF Sources
  <2>4. <<ITunes>> \in Seq(Sources)  BY DEF Sources
  <2> QED  BY <2>3, <2>4
<1> QED  BY <1>1, <1>2
LEMMA TailFacts ==
    ASSUME NEW S, NEW q \in Seq(S), q # <<>>
    PROVE  /\ \A i \in DOMAIN Tail(q) : i + 1 \in DOMAIN q /\ Tail(q)[i] = q[i + 1]
           /\ \A i \in DOMAIN q : i = 1 \/ (i - 1 \in DOMAIN Tail(q) /\ Tail(q)[i - 1] = q[i])
           /\ \A i, j \in DOMAIN Tail(q) : i < j => i + 1 < j + 1
           /\ \A i \in DOMAIN Tail(q) : 1 < i + 1
           /\ 1 \in DOMAIN q /\ q[1] = Head(q) /\ Head(q) \in S
OBVIOUS

\* A message is posted while there is a window (PostMessageW).
LEMMA PostTypes ==
    ASSUME TypeOK, NEW m \in Message, Post(m)
    PROVE  queue' \in Seq(Message)
BY SeqFacts DEF TypeOK, Post

LEMMA StepCases ==
    ASSUME [Next]_vars
    PROVE  \/ TakeRequest \/ GetAvailableSources \/ PostSources
           \/ ShowContextMenu \/ SetTooltip \/ UpdateMediaSources \/ AddIconAgain
           \/ FirstRunBalloon
           \/ Click
           \/ Nothing \/ ToggleBroadcast \/ SetArtModeAuto \/ SelectMediaSource
           \/ EditApplicationId \/ EditCustomArtUrl \/ BuildDiagnosticReport \/ Exit
           \/ ConfirmPrompt \/ CancelPrompt \/ CloseBox
           \/ ReportIsBuilt \/ MessageLoopEnds \/ StopEngine \/ RemoveIcon
           \/ PostStatusUpdate \/ ExplorerEnds \/ ExplorerStarts
           \/ UNCHANGED vars
BY DEF Next, RefreshThread, Messages, User, Ending

-----------------------------------------------------------------------------
(* Type correctness *)

\* New settings in the file and for the engine (NotifyConfigChanged, applyConfig).
LEMMA NotifyTypes ==
    ASSUME TypeOK, NEW c \in Configs, NotifyConfigChanged(c)
    PROVE  /\ config' \in Configs /\ saved' \in Configs
           /\ currentMediaSourceId' \in Sources /\ polled' \in Sources
<1>1. c.source \in Sources  BY DEF Configs
<1> QED  BY <1>1 DEF TypeOK, NotifyConfigChanged

\* What a prompt leaves (TrayIcon::HandleCommand).
LEMMA PromptTypes ==
    ASSUME TypeOK, NEW x \in Frame, x.frame = "prompt", NEW text \in Texts, AfterPrompt(x, text)
    PROVE  /\ config' \in Configs /\ saved' \in Configs
           /\ currentMediaSourceId' \in Sources /\ polled' \in Sources
<1>1. x.field \in {"id", "url"}  BY FrameFacts
<1>2. [config EXCEPT ![x.field] = text] \in Configs  BY <1>1 DEF TypeOK, Configs
<1> QED  BY <1>2, NotifyTypes DEF AfterPrompt, settings, TypeOK

LEMMA Fields == config \in Configs =>
    /\ config.id \in Texts /\ config.url \in Texts
    /\ [config EXCEPT !.broadcast = ~@] \in Configs
    /\ [config EXCEPT !.mode = "Auto"] \in Configs
    /\ [config EXCEPT !.mode = "Custom"] \in Configs
    /\ \A source \in Sources : [config EXCEPT !.source = source] \in Configs
BY DEF Configs

LEMMA StepTypeOK == ASSUME TypeOK, [Next]_vars PROVE TypeOK'
<1> USE DEF TypeOK, menus, refresh, shell, worker
<1>1. CASE TakeRequest  BY <1>1 DEF TakeRequest, settings
<1>2. CASE GetAvailableSources  BY <1>2 DEF GetAvailableSources, settings
<1>3. CASE PostSources
  <2>1. queue' \in Seq(Message)  BY <1>3, PostTypes, MessageFacts DEF PostSources
  <2> QED  BY <1>3, <2>1, ListingFacts DEF PostSources, settings
<1>4. CASE ShowContextMenu \/ SetTooltip \/ UpdateMediaSources \/ AddIconAgain
  <2>1. queue # <<>> /\ queue' = Tail(queue)
    BY <1>4 DEF ShowContextMenu, SetTooltip, UpdateMediaSources, AddIconAgain, Dispatch
  <2>2. queue' \in Seq(Message) /\ Head(queue) \in Message  BY <2>1, SeqFacts
  <2>3. CASE ShowContextMenu
    <3>1. stack' \in Seq(Frame)  BY <2>3, SeqFacts, FrameFacts DEF ShowContextMenu
    <3> QED  BY <2>2, <2>3, <3>1 DEF ShowContextMenu, Dispatch, settings
  <2>4. CASE SetTooltip
    <3>1. Head(queue).text \in Nat  BY <2>2, <2>4, MessageFacts DEF SetTooltip, Dispatch
    <3> QED  BY <2>2, <2>4, <3>1 DEF SetTooltip, Dispatch, settings
  <2>5. CASE UpdateMediaSources
    <3>1. Head(queue).after \in Nat /\ Head(queue).sources \in Listings
      BY <2>2, <2>5, MessageFacts DEF UpdateMediaSources, Dispatch
    <3>2. mediaSources' \in Seq(Sources)
      BY <2>5, <3>1, ListingFacts DEF UpdateMediaSources
    <3> QED  BY <2>2, <2>5, <3>1, <3>2 DEF UpdateMediaSources, Dispatch, settings
  <2>6. CASE AddIconAgain  BY <2>2, <2>6 DEF AddIconAgain, Dispatch, settings
  <2> QED  BY <1>4, <2>3, <2>4, <2>5, <2>6
<1>5. CASE FirstRunBalloon
  <2>1. stack' \in Seq(Frame)  BY <1>5, SeqFacts, FrameFacts DEF FirstRunBalloon
  <2> QED  BY <1>5, <2>1 DEF FirstRunBalloon, settings
<1>6. CASE Click
  <2>1. queue' \in Seq(Message)  BY <1>6, PostTypes, MessageFacts DEF Click
  <2> QED  BY <1>6, <2>1 DEF Click, settings
<1>7. CASE \/ Nothing \/ ToggleBroadcast \/ SetArtModeAuto \/ SelectMediaSource
           \/ EditApplicationId \/ EditCustomArtUrl \/ BuildDiagnosticReport \/ Exit
  <2>1. Chosen
    BY <1>7 DEF Nothing, ToggleBroadcast, SetArtModeAuto, SelectMediaSource, EditApplicationId,
                EditCustomArtUrl, BuildDiagnosticReport, Exit
  <2>2. Front(stack) \in Seq(Frame)  BY <2>1, FrontFacts DEF Chosen
  <2>3. CASE Nothing  BY <2>1, <2>2, <2>3 DEF Nothing, Chosen, Frames, settings
  <2>4. CASE ToggleBroadcast
    BY <2>1, <2>2, <2>4, NotifyTypes, Fields DEF ToggleBroadcast, Chosen, Frames
  <2>5. CASE SetArtModeAuto
    BY <2>1, <2>2, <2>5, NotifyTypes, Fields DEF SetArtModeAuto, Chosen, Frames
  <2>6. CASE SelectMediaSource
    <3>1. PICK i \in DOMAIN sourceMenu \cap DOMAIN mediaSources :
              NotifyConfigChanged([config EXCEPT !.source = mediaSources[i]])
      BY <2>6 DEF SelectMediaSource
    <3>2. mediaSources[i] \in Sources  OBVIOUS
    <3> QED  BY <2>1, <2>2, <2>6, <3>1, <3>2, NotifyTypes, Fields
             DEF SelectMediaSource, Chosen, Frames
  <2>7. CASE EditApplicationId
    <3>1. stack' \in Seq(Frame)
      BY <2>2, <2>7, SeqFacts, FrameFacts, Fields DEF EditApplicationId, Prompt
    <3> QED  BY <2>1, <2>7, <3>1 DEF EditApplicationId, Chosen, Frames, settings
  <2>8. CASE EditCustomArtUrl
    <3>1. stack' \in Seq(Frame)
      BY <2>2, <2>8, SeqFacts, FrameFacts, Fields DEF EditCustomArtUrl, Prompt
    <3> QED  BY <2>1, <2>8, <3>1, Fields DEF EditCustomArtUrl, Chosen, Frames
  <2>9. CASE BuildDiagnosticReport
    <3>1. stack' \in Seq(Frame)  BY <2>2, <2>9, SeqFacts, FrameFacts DEF BuildDiagnosticReport
    <3> QED  BY <2>1, <2>9, <3>1 DEF BuildDiagnosticReport, Chosen, Frames, settings
  <2>10. CASE Exit
    <3>1. <<>> \in Seq(Message)  OBVIOUS
    <3> QED  BY <2>1, <2>2, <2>10, <3>1 DEF Exit, Chosen, settings
  <2> QED  BY <1>7, <2>3, <2>4, <2>5, <2>6, <2>7, <2>8, <2>9, <2>10
<1>8. CASE ConfirmPrompt \/ CancelPrompt
  <2>1. On("prompt") /\ stack # <<>>  BY <1>8 DEF ConfirmPrompt, CancelPrompt, On
  <2>2. Last(stack) \in Frame /\ Last(stack).frame = "prompt" /\ stack' \in Seq(Frame)
    BY <2>1, FrontFacts DEF On
  <2>3. PICK text \in Texts : AfterPrompt(Last(stack), text)
    BY <1>8, <2>2, FrameFacts DEF ConfirmPrompt, CancelPrompt
  <2> QED  BY <2>1, <2>2, <2>3, PromptTypes DEF On
<1>9. CASE CloseBox \/ ReportIsBuilt
  <2>1. stack' \in Seq(Frame)  BY <1>9, FrontFacts DEF CloseBox, ReportIsBuilt, On
  <2> QED  BY <1>9, <2>1 DEF CloseBox, ReportIsBuilt, On, settings
<1>10. CASE MessageLoopEnds \/ StopEngine \/ RemoveIcon
  BY <1>10 DEF MessageLoopEnds, StopEngine, RemoveIcon, settings, NoIcon
<1>11. CASE PostStatusUpdate
  <2>1. queue' \in Seq(Message)  BY <1>11, PostTypes, MessageFacts DEF PostStatusUpdate
  <2> QED  BY <1>11, <2>1 DEF PostStatusUpdate, settings
<1>12. CASE ExplorerEnds
  <2>1. restarts' \in Nat /\ icon' = NoIcon  BY <1>12 DEF ExplorerEnds
  <2> QED  BY <1>12, <2>1 DEF ExplorerEnds, settings
<1>13. CASE ExplorerStarts
  <2>1. queue' \in Seq(Message)  BY <1>13, PostTypes, MessageFacts DEF ExplorerStarts
  <2> QED  BY <1>13, <2>1 DEF ExplorerStarts, settings
<1>14. CASE UNCHANGED vars  BY <1>14 DEF vars, settings
<1> QED  BY StepCases, <1>1, <1>2, <1>3, <1>4, <1>5, <1>6, <1>7, <1>8, <1>9, <1>10,
            <1>11, <1>12, <1>13, <1>14
LEMMA InitTypeOK == Init => TypeOK
<1> SUFFICES ASSUME Init PROVE TypeOK
  OBVIOUS
<1>1. <<>> \in Seq(Frame) /\ <<>> \in Seq(Message) /\ <<ITunes>> \in Seq(Sources)
  BY DEF Sources
<1>2. config \in Configs /\ config.source \in Sources
  BY WindowsTrayAssumption DEF Init, Configs, Sources
<1> QED  BY <1>1, <1>2, ListingFacts DEF Init, Create, TypeOK

\* Every variable has its type (TrayIcon, wWinMain).
THEOREM TypeCorrect == Spec => []TypeOK
BY InitTypeOK, StepTypeOK, PTL DEF Spec

-----------------------------------------------------------------------------
(* Edits *)

LEMMA StepEdits == ASSUME TypeOK, EditsInv, [Next]_vars PROVE EditsInv'
<1> USE DEF EditsInv
<1> DEFINE Unsaved == \E i \in DOMAIN stack : /\ stack[i].frame = "prompt"
                                              /\ stack[i].field = "url"
<1>1. stack \in Seq(Frame)  BY DEF TypeOK
<1>2. CASE /\ UNCHANGED settings
           /\ stack' = stack \/ \E x \in Frame : stack' = Append(stack, x)
  <2>1. Unsaved => Unsaved'  BY <1>1, <1>2, SeqFacts
  <2> QED  BY <1>2, <2>1 DEF settings
<1>3. CASE \/ TakeRequest \/ GetAvailableSources \/ PostSources
           \/ ShowContextMenu \/ SetTooltip \/ UpdateMediaSources \/ AddIconAgain
           \/ FirstRunBalloon \/ Click
           \/ MessageLoopEnds \/ StopEngine \/ RemoveIcon
           \/ PostStatusUpdate \/ ExplorerEnds \/ ExplorerStarts
           \/ UNCHANGED vars
  <2>1. UNCHANGED settings
    BY <1>3 DEF TakeRequest, GetAvailableSources, PostSources, ShowContextMenu, SetTooltip,
                UpdateMediaSources, AddIconAgain, FirstRunBalloon, Click, MessageLoopEnds,
                StopEngine, RemoveIcon, PostStatusUpdate, ExplorerEnds, ExplorerStarts,
                Dispatch, vars
  <2>2. stack' = stack \/ \E x \in Frame : stack' = Append(stack, x)
    BY <1>3, FrameFacts
       DEF TakeRequest, GetAvailableSources, PostSources, ShowContextMenu, SetTooltip,
           UpdateMediaSources, AddIconAgain, FirstRunBalloon, Click, MessageLoopEnds,
           StopEngine, RemoveIcon, PostStatusUpdate, ExplorerEnds, ExplorerStarts, vars
  <2> QED  BY <1>2, <2>1, <2>2
<1>4. ASSUME stack # <<>>, Last(stack).frame # "prompt" \/ Last(stack).field # "url", Unsaved
      PROVE  \E i \in DOMAIN Front(stack) : /\ Front(stack)[i].frame = "prompt"
                                            /\ Front(stack)[i].field = "url"
  <2>1. PICK i \in 1 .. Len(stack) : stack[i].frame = "prompt" /\ stack[i].field = "url"
    BY <1>1, <1>4, SeqFacts
  <2>2. i # Len(stack)  BY <1>1, <1>4, <2>1, FrontFacts
  <2>3. DOMAIN Front(stack) = 1 .. Len(stack) - 1 /\ Front(stack)[i] = stack[i]
        /\ i \in 1 .. Len(stack) - 1
    <3>1. /\ Front(stack) \in Seq(Frame) /\ Len(Front(stack)) = Len(stack) - 1
          /\ \A k \in 1 .. Len(stack) - 1 : Front(stack)[k] = stack[k]
      BY <1>1, <1>4, FrontFacts
    <3>2. DOMAIN Front(stack) = 1 .. Len(stack) - 1  BY <3>1, SeqFacts
    <3>3. Len(stack) \in Nat  BY <1>1, SeqFacts
    <3> QED  BY <2>1, <2>2, <3>1, <3>2, <3>3
  <2> QED  BY <2>1, <2>3
<1>5. CASE ToggleBroadcast \/ SetArtModeAuto \/ SelectMediaSource
  BY <1>5 DEF ToggleBroadcast, SetArtModeAuto, SelectMediaSource, NotifyConfigChanged
<1>6. CASE Nothing \/ Exit \/ CloseBox \/ ReportIsBuilt
  <2>1. stack # <<>> /\ Last(stack).frame # "prompt" /\ stack' = Front(stack) /\ UNCHANGED settings
    BY <1>6 DEF Nothing, Exit, Chosen, CloseBox, ReportIsBuilt, On
  <2> QED  BY <1>4, <2>1 DEF settings
<1>7. CASE EditApplicationId \/ BuildDiagnosticReport
  <2>1. PICK x \in Frame : stack' = Append(Front(stack), x)
    BY <1>7, FrameFacts, Fields DEF EditApplicationId, BuildDiagnosticReport, Prompt, TypeOK
  <2>2. stack # <<>> /\ Last(stack).frame # "prompt" /\ UNCHANGED settings
    BY <1>7 DEF EditApplicationId, BuildDiagnosticReport, Chosen
  <2>3. Front(stack) \in Seq(Frame)  BY <1>1, <2>2, FrontFacts
  <2>4. Unsaved => Unsaved'  BY <1>4, <2>1, <2>2, <2>3, SeqFacts
  <2> QED  BY <2>2, <2>4 DEF settings
<1>8. CASE EditCustomArtUrl
  <2>1. stack' = Append(Front(stack), Prompt("url")) /\ stack # <<>>
        /\ UNCHANGED <<saved, currentMediaSourceId, polled>>
    BY <1>8 DEF EditCustomArtUrl, Chosen
  <2>2. Prompt("url") \in Frame /\ Prompt("url").frame = "prompt" /\ Prompt("url").field = "url"
    BY FrameFacts, Fields DEF Prompt, TypeOK
  <2>3. Front(stack) \in Seq(Frame)  BY <1>1, <2>1, FrontFacts
  <2>4. Unsaved'  BY <2>1, <2>2, <2>3, SeqFacts
  <2> QED  BY <2>1, <2>4
<1>9. CASE ConfirmPrompt \/ CancelPrompt
  <2>1. stack # <<>> /\ Last(stack).frame = "prompt" /\ stack' = Front(stack)
    BY <1>9 DEF ConfirmPrompt, CancelPrompt, On
  <2>2. PICK text : AfterPrompt(Last(stack), text)
    BY <1>9 DEF ConfirmPrompt, CancelPrompt
  <2>3. CASE UNCHANGED settings /\ Last(stack).field = "id"
    <3>1. Unsaved => Unsaved'  BY <1>4, <2>1, <2>3
    <3> QED  BY <2>3, <3>1 DEF settings
  <2>4. CASE \E c : NotifyConfigChanged(c)  BY <2>4 DEF NotifyConfigChanged
  <2> QED  BY <2>2, <2>3, <2>4 DEF AfterPrompt
<1> QED  BY StepCases, <1>3, <1>5, <1>6, <1>7, <1>8, <1>9

-----------------------------------------------------------------------------
(* Refreshes *)

LEMMA StepRefresh == ASSUME TypeOK, RefreshInv, [Next]_vars PROVE RefreshInv'
<1> USE DEF RefreshInv
<1>1. queue \in Seq(Message) /\ {asked, listedAfter, freshAfter} \subseteq Nat
      /\ window \in BOOLEAN
  BY DEF TypeOK
<1>2. CASE UNCHANGED <<queue, window, requested, refresher, asked, listedAfter, freshAfter>>
  BY <1>2
<1>3. CASE TakeRequest
  <2>1. /\ UNCHANGED <<queue, window, asked, freshAfter>>
        /\ IF shouldExit THEN UNCHANGED <<requested, listedAfter>>
           ELSE refresher' = "listing" /\ listedAfter' = asked
        /\ refresher = "wait"
    BY <1>3 DEF TakeRequest, refresh, TypeOK
  <2>2. CASE shouldExit  BY <2>1, <2>2
  <2>3. CASE ~shouldExit
    <3>1. \A i \in DOMAIN queue : queue[i].message = "sources" =>
              queue[i].after \in Nat /\ queue[i].after <= asked
      BY <1>1, MessageFacts
    <3> QED  BY <1>1, <2>1, <2>3, <3>1
  <2> QED  BY <2>2, <2>3
<1>4. CASE GetAvailableSources
  <2>1. UNCHANGED <<queue, window, requested, asked, listedAfter, freshAfter>>
        /\ refresher = "listing" /\ refresher' = "posting"
    BY <1>4 DEF GetAvailableSources
  <2> QED  BY <2>1
<1>5. CASE PostSources
  <2> DEFINE m == [message |-> "sources", sources |-> listing, after |-> listedAfter]
  <2>1. /\ UNCHANGED <<window, requested, asked, freshAfter, listedAfter>>
        /\ Post(m)
    BY <1>5 DEF PostSources
  <2>2. m \in Message /\ m.message = "sources" /\ m.after = listedAfter
    BY MessageFacts DEF TypeOK
  <2> HIDE DEF m
  <2>3. CASE window
    <3>1. queue' = Append(queue, m)  BY <2>1, <2>3 DEF Post
    <3> QED  BY <1>1, <2>1, <2>2, <3>1, SeqFacts
  <2>4. CASE ~window
    <3>1. queue' = queue  BY <2>1, <2>4 DEF Post
    <3> QED  BY <2>1, <2>4, <3>1
  <2> QED  BY <1>1, <2>3, <2>4
<1>6. CASE ShowContextMenu
  <2>1. /\ queue # <<>> /\ queue' = Tail(queue) /\ Head(queue).message = "trayicon"
        /\ requested' = TRUE /\ asked' = asked + 1 /\ UNCHANGED <<listedAfter, freshAfter>>
    BY <1>6 DEF ShowContextMenu, Dispatch, refresh
  <2> QED  BY <1>1, <2>1, SeqFacts
<1>7. CASE UpdateMediaSources
  <2>1. /\ queue # <<>> /\ queue' = Tail(queue) /\ Head(queue).message = "sources"
        /\ freshAfter' = Head(queue).after
        /\ UNCHANGED <<window, requested, refresher, asked, listedAfter>>
    BY <1>7 DEF UpdateMediaSources, Dispatch, refresh
  <2>2. Head(queue).after \in Nat  BY <1>1, <2>1, SeqFacts, MessageFacts
  <2>3. freshAfter <= freshAfter' /\ freshAfter' <= listedAfter
    BY <1>1, <2>1, SeqFacts
  <2>4. \A i \in DOMAIN queue' : i + 1 \in DOMAIN queue /\ queue'[i] = queue[i + 1] /\ 1 < i + 1
    BY <1>1, <2>1, TailFacts
  <2>5. \A i \in DOMAIN queue' : queue'[i].message = "sources" =>
            freshAfter' <= queue'[i].after /\ queue'[i].after <= listedAfter
    BY <1>1, <2>1, <2>4, SeqFacts
  <2>6. \A i, j \in DOMAIN queue' :
            queue'[i].message = "sources" /\ i < j /\ queue'[j].message = "sources" =>
                queue'[i].after <= queue'[j].after
    <3>1. \A i, j \in DOMAIN queue' : i < j => i + 1 < j + 1  BY <1>1, <2>1, SeqFacts
    <3> QED  BY <2>4, <3>1
  <2>7. \A i \in DOMAIN queue : i # 1 => i - 1 \in DOMAIN queue' /\ queue'[i - 1] = queue[i]
    BY <1>1, <2>1, SeqFacts
  <2>8. freshAfter = asked => freshAfter' = asked  BY <1>1, <2>1, <2>2, <2>3
  <2>9. queue[1].after = freshAfter'  BY <1>1, <2>1, SeqFacts
  <2>10. window' =>
           \/ requested'
           \/ refresher' \in {"listing", "posting"} /\ listedAfter' = asked'
           \/ \E i \in DOMAIN queue' : queue'[i].message = "sources" /\ queue'[i].after = asked'
           \/ freshAfter' = asked'
    BY <2>1, <2>7, <2>8, <2>9
  <2> QED  BY <2>1, <2>3, <2>5, <2>6, <2>10
<1>8. ASSUME NEW m \in Message, m.message # "sources", Post(m),
             UNCHANGED <<window, requested, refresher, asked, listedAfter, freshAfter>>
      PROVE  RefreshInv'
  <2>1. CASE window
    <3>1. queue' = Append(queue, m)  BY <1>8, <2>1 DEF Post
    <3> QED  BY <1>1, <1>8, <3>1, SeqFacts
  <2>2. CASE ~window
    <3>1. queue' = queue  BY <1>8, <2>2 DEF Post
    <3> QED  BY <1>8, <2>2, <3>1
  <2> QED  BY <1>1, <2>1, <2>2
<1>9. CASE Click \/ PostStatusUpdate \/ ExplorerStarts
  <2>1. UNCHANGED <<window, requested, refresher, asked, listedAfter, freshAfter>>
    BY <1>9 DEF Click, PostStatusUpdate, ExplorerStarts, refresh
  <2>2. \E m \in Message : m.message # "sources" /\ Post(m)
    BY <1>9, MessageFacts DEF Click, PostStatusUpdate, ExplorerStarts, TypeOK
  <2> QED  BY <1>8, <2>1, <2>2
<1>10. CASE SetTooltip \/ AddIconAgain
  <2>1. /\ queue # <<>> /\ queue' = Tail(queue) /\ Head(queue).message # "sources"
        /\ UNCHANGED <<window, requested, refresher, asked, listedAfter, freshAfter>>
    BY <1>10 DEF SetTooltip, AddIconAgain, Dispatch, refresh
  <2>2. \A i \in DOMAIN queue' : i + 1 \in DOMAIN queue /\ queue'[i] = queue[i + 1]
    BY <1>1, <2>1, TailFacts
  <2>3. \A i, j \in DOMAIN queue' : i < j => i + 1 < j + 1  BY <1>1, <2>1, TailFacts
  <2>4. \A i \in DOMAIN queue : queue[i].message = "sources" =>
            i - 1 \in DOMAIN queue' /\ queue'[i - 1] = queue[i]
    BY <1>1, <2>1, TailFacts
  <2> QED  BY <2>1, <2>2, <2>3, <2>4
<1>11. CASE Exit
  <2>1. window' = FALSE /\ queue' = <<>> /\ UNCHANGED <<asked, listedAfter, freshAfter>>
    BY <1>11 DEF Exit, Chosen, refresh
  <2> QED  BY <2>1
<1>12. CASE \/ FirstRunBalloon
            \/ Nothing \/ ToggleBroadcast \/ SetArtModeAuto \/ SelectMediaSource
            \/ EditApplicationId \/ EditCustomArtUrl \/ BuildDiagnosticReport
            \/ ConfirmPrompt \/ CancelPrompt \/ CloseBox
            \/ ReportIsBuilt \/ MessageLoopEnds \/ StopEngine \/ RemoveIcon
            \/ ExplorerEnds
            \/ UNCHANGED vars
  BY <1>2, <1>12
     DEF FirstRunBalloon, Nothing, ToggleBroadcast, SetArtModeAuto, SelectMediaSource,
         EditApplicationId, EditCustomArtUrl, BuildDiagnosticReport, ConfirmPrompt,
         CancelPrompt, CloseBox, ReportIsBuilt, MessageLoopEnds, StopEngine, RemoveIcon,
         ExplorerEnds, Chosen, On, Frames, refresh, vars
<1> QED  BY StepCases, <1>3, <1>4, <1>5, <1>6, <1>7, <1>9, <1>10, <1>11, <1>12
-----------------------------------------------------------------------------
(* The icon *)

LEMMA StepTip == ASSUME TypeOK, TipInv, [Next]_vars PROVE TipInv'
<1> USE DEF TipInv
<1>1. queue \in Seq(Message) /\ tip \in Nat /\ status \in Nat /\ window \in BOOLEAN
  BY DEF TypeOK
<1>2. CASE SetTooltip
  <2>1. /\ queue # <<>> /\ queue' = Tail(queue) /\ Head(queue).message = "status"
        /\ tip' = Head(queue).text /\ UNCHANGED <<window, status>>
    BY <1>2 DEF SetTooltip, Dispatch, worker
  <2>2. tip' \in Nat /\ queue[1].text = tip' /\ 1 \in DOMAIN queue
        /\ queue[1].message = "status"
    BY <1>1, <2>1, TailFacts, MessageFacts
  <2>3. tip < tip' /\ tip' <= status  BY <2>2
  <2>4. \A i \in DOMAIN queue' : i + 1 \in DOMAIN queue /\ queue'[i] = queue[i + 1] /\ 1 < i + 1
    BY <1>1, <2>1, TailFacts
  <2>5. \A i \in DOMAIN queue' : queue'[i].message = "status" =>
            tip' < queue'[i].text /\ queue'[i].text <= status
    BY <2>2, <2>4
  <2>6. \A i, j \in DOMAIN queue' :
            queue'[i].message = "status" /\ i < j /\ queue'[j].message = "status" =>
                queue'[i].text < queue'[j].text
    <3>1. \A i, j \in DOMAIN queue' : i < j => i + 1 < j + 1  BY <1>1, <2>1, TailFacts
    <3> QED  BY <2>4, <3>1
  <2>7. \A i \in DOMAIN queue : i # 1 => i - 1 \in DOMAIN queue' /\ queue'[i - 1] = queue[i]
    BY <1>1, <2>1, TailFacts
  <2>8. tip # status  BY <1>1, <2>2, <2>3
  <2>9. window' =>
           \/ tip' = status'
           \/ \E i \in DOMAIN queue' : queue'[i].message = "status" /\ queue'[i].text = status'
    BY <2>1, <2>2, <2>7, <2>8
  <2> QED  BY <2>1, <2>3, <2>5, <2>6, <2>9
<1>3. CASE ShowContextMenu \/ UpdateMediaSources \/ AddIconAgain
  <2>1. /\ queue # <<>> /\ queue' = Tail(queue) /\ Head(queue).message # "status"
        /\ UNCHANGED <<window, tip, status>>
    BY <1>3 DEF ShowContextMenu, UpdateMediaSources, AddIconAgain, Dispatch, worker
  <2>2. \A i \in DOMAIN queue' : i + 1 \in DOMAIN queue /\ queue'[i] = queue[i + 1]
    BY <1>1, <2>1, TailFacts
  <2>3. \A i, j \in DOMAIN queue' : i < j => i + 1 < j + 1  BY <1>1, <2>1, TailFacts
  <2>4. \A i \in DOMAIN queue : queue[i].message = "status" =>
            i - 1 \in DOMAIN queue' /\ queue'[i - 1] = queue[i]
    BY <1>1, <2>1, TailFacts
  <2> QED  BY <2>1, <2>2, <2>3, <2>4
<1>4. CASE PostStatusUpdate
  <2> DEFINE m == [message |-> "status", text |-> status + 1]
  <2>1. status' = status + 1 /\ Post(m) /\ UNCHANGED <<window, tip>>
    BY <1>4 DEF PostStatusUpdate
  <2>2. m \in Message /\ m.message = "status" /\ m.text = status + 1
    BY <1>1, MessageFacts
  <2> HIDE DEF m
  <2>3. \A i \in DOMAIN queue : queue[i].message = "status" => queue[i].text \in Nat
    BY <1>1, MessageFacts
  <2>4. CASE window
    <3>1. queue' = Append(queue, m)  BY <2>1, <2>4 DEF Post
    <3>2. DOMAIN queue' = 1 .. Len(queue) + 1 /\ DOMAIN queue = 1 .. Len(queue) /\ Len(queue) \in Nat
          /\ queue'[Len(queue) + 1] = m /\ \A i \in DOMAIN queue : queue'[i] = queue[i]
      BY <1>1, <2>2, <3>1, SeqFacts
    <3> QED  BY <1>1, <2>1, <2>2, <2>3, <3>2
  <2>5. CASE ~window
    <3>1. queue' = queue  BY <2>1, <2>5 DEF Post
    <3> QED  BY <1>1, <2>1, <2>3, <2>5, <3>1
  <2> QED  BY <1>1, <2>4, <2>5
<1>5. ASSUME NEW m \in Message, m.message # "status", Post(m), UNCHANGED <<window, tip, status>>
      PROVE  TipInv'
  <2>1. CASE window
    <3>1. queue' = Append(queue, m)  BY <1>5, <2>1 DEF Post
    <3> QED  BY <1>1, <1>5, <3>1, SeqFacts
  <2>2. CASE ~window
    <3>1. queue' = queue  BY <1>5, <2>2 DEF Post
    <3> QED  BY <1>5, <2>2, <3>1
  <2> QED  BY <1>1, <2>1, <2>2
<1>6. CASE Click \/ PostSources \/ ExplorerStarts
  <2>1. UNCHANGED <<window, tip, status>>  BY <1>6 DEF Click, PostSources, ExplorerStarts, worker
  <2>2. \E m \in Message : m.message # "status" /\ Post(m)
    BY <1>6, MessageFacts DEF Click, PostSources, ExplorerStarts, TypeOK
  <2> QED  BY <1>5, <2>1, <2>2
<1>7. CASE Exit
  <2>1. window' = FALSE /\ queue' = <<>> /\ UNCHANGED <<tip, status>>
    BY <1>7 DEF Exit, Chosen, worker
  <2> QED  BY <2>1
<1>8. CASE \/ TakeRequest \/ GetAvailableSources \/ FirstRunBalloon
           \/ Nothing \/ ToggleBroadcast \/ SetArtModeAuto \/ SelectMediaSource
           \/ EditApplicationId \/ EditCustomArtUrl \/ BuildDiagnosticReport
           \/ ConfirmPrompt \/ CancelPrompt \/ CloseBox
           \/ ReportIsBuilt \/ MessageLoopEnds \/ StopEngine \/ RemoveIcon
           \/ ExplorerEnds
           \/ UNCHANGED vars
  <2>1. UNCHANGED <<queue, window, tip, status>>
    BY <1>8
       DEF TakeRequest, GetAvailableSources, FirstRunBalloon, Nothing, ToggleBroadcast,
           SetArtModeAuto, SelectMediaSource, EditApplicationId, EditCustomArtUrl,
           BuildDiagnosticReport, ConfirmPrompt, CancelPrompt, CloseBox, ReportIsBuilt,
           MessageLoopEnds, StopEngine, RemoveIcon, ExplorerEnds, Chosen, On, Frames, worker, vars
  <2> QED  BY <2>1
<1> QED  BY StepCases, <1>2, <1>3, <1>4, <1>6, <1>7, <1>8

LEMMA StepIcon == ASSUME TypeOK, IconInv, [Next]_vars PROVE IconInv'
<1> USE DEF IconInv
<1> DEFINE Told == \E i \in DOMAIN queue : queue[i].message = "taskbar-created"
<1>1. queue \in Seq(Message) /\ tip \in Nat /\ tip # NoIcon  BY DEF TypeOK, NoIcon
<1>2. CASE ShowContextMenu \/ SetTooltip \/ UpdateMediaSources
  <2>1. /\ queue # <<>> /\ queue' = Tail(queue) /\ Head(queue).message # "taskbar-created"
        /\ UNCHANGED <<main, window, explorer>>
    BY <1>2 DEF ShowContextMenu, SetTooltip, UpdateMediaSources, Dispatch
  <2>2. \A i \in DOMAIN queue : queue[i].message = "taskbar-created" =>
            i - 1 \in DOMAIN queue' /\ queue'[i - 1] = queue[i]
    BY <1>1, <2>1, TailFacts
  <2>3. icon = tip => icon' = tip'
    BY <1>1, <1>2 DEF ShowContextMenu, SetTooltip, UpdateMediaSources, Dispatch
  <2> QED  BY <2>1, <2>2, <2>3
<1>3. CASE AddIconAgain
  <2>1. UNCHANGED <<main, window, explorer, tip>> /\ (explorer => icon' = tip)
    BY <1>3 DEF AddIconAgain, Dispatch
  <2> QED  BY <2>1
<1>4. ASSUME NEW m \in Message, Post(m), window PROVE (Told \/ m.message = "taskbar-created") => Told'
  <2>1. queue' = Append(queue, m)  BY <1>4 DEF Post
  <2> QED  BY <1>1, <1>4, <2>1, SeqFacts
<1>5. CASE Click \/ PostSources \/ PostStatusUpdate
  <2>1. UNCHANGED <<main, window, explorer, icon, tip>>
    BY <1>5 DEF Click, PostSources, PostStatusUpdate, shell
  <2>2. \E m \in Message : Post(m)
    BY <1>5, MessageFacts DEF Click, PostSources, PostStatusUpdate, TypeOK
  <2> QED  BY <1>4, <2>1, <2>2
<1>6. CASE ExplorerStarts
  <2>1. UNCHANGED <<main, window>> /\ Post([message |-> "taskbar-created"])
    BY <1>6 DEF ExplorerStarts
  <2>2. window => Told'  BY <1>4, <2>1, MessageFacts
  <2> QED  BY <2>1, <2>2
<1>7. CASE ExplorerEnds
  <2>1. explorer' = FALSE /\ UNCHANGED <<main, window>>  BY <1>7 DEF ExplorerEnds
  <2> QED  BY <2>1
<1>8. CASE Exit  BY <1>8 DEF Exit
<1>9. CASE MessageLoopEnds \/ StopEngine \/ RemoveIcon
  BY <1>9 DEF MessageLoopEnds, StopEngine, RemoveIcon
<1>10. CASE \/ TakeRequest \/ GetAvailableSources \/ FirstRunBalloon
            \/ Nothing \/ ToggleBroadcast \/ SetArtModeAuto \/ SelectMediaSource
            \/ EditApplicationId \/ EditCustomArtUrl \/ BuildDiagnosticReport
            \/ ConfirmPrompt \/ CancelPrompt \/ CloseBox \/ ReportIsBuilt
            \/ UNCHANGED vars
  <2>1. UNCHANGED <<main, queue, window, tip, explorer, icon>>
    BY <1>10
       DEF TakeRequest, GetAvailableSources, FirstRunBalloon, Nothing, ToggleBroadcast,
           SetArtModeAuto, SelectMediaSource, EditApplicationId, EditCustomArtUrl,
           BuildDiagnosticReport, ConfirmPrompt, CancelPrompt, CloseBox, ReportIsBuilt,
           Chosen, On, Frames, shell, vars
  <2> QED  BY <2>1
<1> QED  BY StepCases, <1>2, <1>3, <1>5, <1>6, <1>7, <1>8, <1>9, <1>10

-----------------------------------------------------------------------------
(* The menu *)

\* A radio group changes no item but for its mark, and marks the source that is
\* listed (SyncMenuState).
LEMMA RadioFacts ==
    ASSUME NEW items \in Seq(Item), NEW source
    PROVE  /\ Radio(items, source) \in Seq(Item) /\ Len(Radio(items, source)) = Len(items)
           /\ \A i \in DOMAIN items : Radio(items, source)[i].source = items[i].source
           /\ (\E i \in DOMAIN items : items[i].source = source) =>
                  \A i \in DOMAIN items :
                      Radio(items, source)[i].on <=> items[i].source = source
<1> DEFINE Listed == {i \in DOMAIN items : items[i].source = source}
           Marked == [i \in DOMAIN items |-> [items[i] EXCEPT !.on = i \in Listed]]
<1>1. /\ Listed = {} => Radio(items, source) = items
      /\ Listed # {} => Radio(items, source) = Marked
  BY DEF Radio
<1>2. ASSUME NEW i \in DOMAIN items
      PROVE  /\ Marked[i] \in Item /\ Marked[i].source = items[i].source
             /\ Marked[i].on <=> items[i].source = source
  <2>1. items[i] \in Item /\ (i \in Listed) \in BOOLEAN  OBVIOUS
  <2>2. /\ [items[i] EXCEPT !.on = i \in Listed] \in Item
        /\ [items[i] EXCEPT !.on = i \in Listed].source = items[i].source
        /\ [items[i] EXCEPT !.on = i \in Listed].on = (i \in Listed)
    BY <2>1 DEF Item
  <2>3. Marked[i] = [items[i] EXCEPT !.on = i \in Listed]  OBVIOUS
  <2>4. i \in Listed <=> items[i].source = source  OBVIOUS
  <2> HIDE DEF Marked, Listed
  <2> QED  BY <2>2, <2>3, <2>4
<1>3. Marked \in Seq(Item) /\ Len(Marked) = Len(items)
  <2>1. DOMAIN items = 1 .. Len(items) /\ Len(items) \in Nat  OBVIOUS
  <2>2. Marked \in [1 .. Len(items) -> Item]
    <3>1. DOMAIN Marked = 1 .. Len(items) /\ Marked = [i \in 1 .. Len(items) |-> Marked[i]]
      BY <2>1
    <3> HIDE DEF Marked
    <3> QED  BY <1>2, <2>1, <3>1
  <2> HIDE DEF Marked
  <2> QED  BY <2>1, <2>2
<1> HIDE DEF Marked
<1> QED  BY <1>1, <1>2, <1>3

LEMMA UnmarkedFacts ==
    ASSUME NEW sources \in Seq(Sources)
    PROVE  /\ Unmarked(sources) \in Seq(Item) /\ Len(Unmarked(sources)) = Len(sources)
           /\ \A i \in DOMAIN sources : Unmarked(sources)[i].source = sources[i]
<1>1. DOMAIN sources = 1 .. Len(sources) /\ Len(sources) \in Nat  OBVIOUS
<1>2. Unmarked(sources) \in [1 .. Len(sources) -> Item]
  BY <1>1 DEF Unmarked, Item
<1>3. \A i \in DOMAIN sources : Unmarked(sources)[i].source = sources[i]  BY DEF Unmarked
<1> QED  BY <1>1, <1>2, <1>3

\* Above an open menu there are only boxes, so it is the only one, and a prompt or a
\* menu on top has no menu below (TrackPopupMenu, BuildDiagnosticReport).
LEMMA TopIsAlone ==
    ASSUME TypeOK, MenuInv, stack # <<>>
    PROVE  /\ Front(stack) \in Seq(Frame) /\ Len(Front(stack)) = Len(stack) - 1
           /\ \A i \in 1 .. Len(stack) - 1 : Front(stack)[i] = stack[i]
           /\ Last(stack).frame # "box" =>
                  \A i \in DOMAIN Front(stack) : Front(stack)[i].frame # "menu"
<1>1. stack \in Seq(Frame)  BY DEF TypeOK
<1>2. /\ Front(stack) \in Seq(Frame) /\ Len(Front(stack)) = Len(stack) - 1
      /\ \A i \in 1 .. Len(stack) - 1 : Front(stack)[i] = stack[i]
      /\ Last(stack) = stack[Len(stack)]
  BY <1>1, FrontFacts
<1>3. ASSUME Last(stack).frame # "box", NEW i \in DOMAIN Front(stack)
      PROVE  Front(stack)[i].frame # "menu"
  <2>1. i \in DOMAIN stack /\ Len(stack) \in DOMAIN stack /\ i < Len(stack)
    BY <1>1, <1>2, <1>3
  <2>2. Front(stack)[i] = stack[i]  BY <1>1, <1>2, <1>3
  <2> QED  BY <1>2, <1>3, <2>1, <2>2 DEF MenuInv
<1> QED  BY <1>2, <1>3

LEMMA StepMenu == ASSUME TypeOK, MenuInv, [Next]_vars PROVE MenuInv'
<1> DEFINE Listed == /\ sourceMenu \in Seq(Item) /\ Len(sourceMenu) = Len(mediaSources)
                     /\ \A i \in DOMAIN sourceMenu : sourceMenu[i].source = mediaSources[i]
           Nested == \A i, j \in DOMAIN stack :
                         i < j /\ stack[i].frame = "menu" => stack[j].frame = "box"
           Current == /\ marks = Marks(config)
                      /\ (\E i \in DOMAIN sourceMenu : sourceMenu[i].source = config.source) =>
                             \A i \in DOMAIN sourceMenu :
                                 sourceMenu[i].on <=> sourceMenu[i].source = config.source
<1>1. stack \in Seq(Frame) /\ mediaSources \in Seq(Sources) /\ config \in Configs
      /\ queue \in Seq(Message)
  BY DEF TypeOK
<1>2. Listed /\ Nested /\ (MenuIsOpen => Current)  BY DEF MenuInv
<1>3. ASSUME Listed', Nested', MenuIsOpen' => Current' PROVE MenuInv'
  BY <1>3 DEF MenuInv
<1>4. ASSUME NEW items \in Seq(Item), SyncMenuState(items), UNCHANGED config,
             mediaSources' \in Seq(Sources), Len(items) = Len(mediaSources'),
             \A i \in DOMAIN items : items[i].source = mediaSources'[i]
      PROVE  Listed' /\ Current'
  <2>1. sourceMenu' = Radio(items, config.source) /\ marks' = Marks(config)
    BY <1>4 DEF SyncMenuState
  <2>2. DOMAIN items = 1 .. Len(items) /\ DOMAIN sourceMenu' = DOMAIN items
    BY <1>4, <2>1, RadioFacts
  <2> QED  BY <1>4, <2>1, <2>2, RadioFacts
<1>5. ASSUME NEW f \in Frame, f.frame = "box", stack' = Append(stack, f),
             UNCHANGED <<menus, config>>
      PROVE  MenuInv'
  <2>1. /\ DOMAIN stack' = 1 .. Len(stack) + 1 /\ DOMAIN stack = 1 .. Len(stack)
        /\ Len(stack) \in Nat
        /\ stack'[Len(stack) + 1] = f /\ \A i \in 1 .. Len(stack) : stack'[i] = stack[i]
    BY <1>1, <1>5, SeqFacts
  <2>2. Nested'  BY <1>2, <1>5, <2>1
  <2>3. MenuIsOpen' => MenuIsOpen  BY <1>5, <2>1 DEF MenuIsOpen
  <2> QED  BY <1>2, <1>3, <1>5, <2>2, <2>3 DEF menus, Marks
<1>6. ASSUME UNCHANGED <<stack, menus, config>> PROVE MenuInv'
  BY <1>2, <1>3, <1>6 DEF menus, MenuIsOpen, Marks
<1>7. ASSUME stack # <<>>, UNCHANGED menus,
             \/ stack' = Front(stack)
             \/ \E f \in Frame : f.frame # "menu" /\ stack' = Append(Front(stack), f),
             Last(stack).frame # "box"
      PROVE  MenuInv'
  <2>1. /\ Front(stack) \in Seq(Frame)
        /\ \A i \in DOMAIN Front(stack) : Front(stack)[i].frame # "menu"
    BY <1>7, TopIsAlone
  <2>2. \A i \in DOMAIN stack' : stack'[i].frame # "menu"
    <3>1. CASE stack' = Front(stack)  BY <2>1, <3>1
    <3>2. ASSUME NEW f \in Frame, f.frame # "menu", stack' = Append(Front(stack), f)
          PROVE  \A i \in DOMAIN stack' : stack'[i].frame # "menu"
      BY <2>1, <3>2, SeqFacts
    <3> QED  BY <1>7, <3>1, <3>2
  <2>3. Nested' /\ ~MenuIsOpen'  BY <2>2 DEF MenuIsOpen
  <2> QED  BY <1>2, <1>3, <1>7, <2>3 DEF menus
<1>8. CASE ShowContextMenu
  <2>1. SyncMenuState(sourceMenu) /\ UNCHANGED <<mediaSources, config>>
    BY <1>8 DEF ShowContextMenu, Dispatch, settings
  <2>2. Listed' /\ Current'  BY <1>1, <1>2, <1>4, <2>1
  <2>3. Nested'
    <3>1. CASE MenuIsOpen  BY <1>2, <1>8, <3>1 DEF ShowContextMenu
    <3>2. CASE ~MenuIsOpen
      <4>1. stack' = Append(stack, [frame |-> "menu"])  BY <1>8, <3>2 DEF ShowContextMenu
      <4>2. \A i \in DOMAIN stack : stack[i].frame # "menu"  BY <3>2 DEF MenuIsOpen
      <4>3. /\ DOMAIN stack' = 1 .. Len(stack) + 1 /\ DOMAIN stack = 1 .. Len(stack)
            /\ Len(stack) \in Nat /\ \A i \in 1 .. Len(stack) : stack'[i] = stack[i]
        BY <1>1, <4>1, SeqFacts, FrameFacts
      <4> QED  BY <4>2, <4>3
    <3> QED  BY <3>1, <3>2
  <2> QED  BY <1>3, <2>2, <2>3
<1>9. CASE UpdateMediaSources
  <2> DEFINE Updated == <<ITunes>> \o Head(queue).sources
  <2>1. /\ UNCHANGED <<stack, config>>
        /\ \/ UNCHANGED menus
           \/ mediaSources' = Updated /\ SyncMenuState(Unmarked(Updated))
    BY <1>9 DEF UpdateMediaSources, Dispatch, settings
  <2>2. Updated \in Seq(Sources)
    <3>1. queue # <<>> /\ Head(queue).message = "sources"
      BY <1>9 DEF UpdateMediaSources, Dispatch
    <3>2. Head(queue).sources \in Listings  BY <1>1, <3>1, SeqFacts, MessageFacts
    <3> QED  BY <3>2, ListingFacts
  <2> HIDE DEF Updated
  <2>3. CASE mediaSources' = Updated /\ SyncMenuState(Unmarked(Updated))
    <3>1. Listed' /\ Current'  BY <1>4, <2>1, <2>2, <2>3, UnmarkedFacts
    <3> QED  BY <1>2, <1>3, <2>1, <3>1
  <2> QED  BY <1>6, <2>1, <2>3
<1>10. CASE FirstRunBalloon
  <2>1. UNCHANGED <<menus, config>>
        /\ (stack' = stack \/ stack' = Append(stack, [frame |-> "box"]))
    BY <1>10 DEF FirstRunBalloon, settings
  <2> QED  BY <1>5, <1>6, <2>1, FrameFacts
<1>11. CASE \/ Nothing \/ ToggleBroadcast \/ SetArtModeAuto \/ SelectMediaSource
            \/ EditApplicationId \/ EditCustomArtUrl \/ BuildDiagnosticReport \/ Exit
  <2>1. Chosen
    BY <1>11 DEF Nothing, ToggleBroadcast, SetArtModeAuto, SelectMediaSource, EditApplicationId,
                 EditCustomArtUrl, BuildDiagnosticReport, Exit
  <2>2. stack # <<>> /\ Last(stack).frame = "menu" /\ UNCHANGED menus  BY <2>1 DEF Chosen
  <2>3. CASE Nothing \/ ToggleBroadcast \/ SetArtModeAuto \/ SelectMediaSource \/ Exit
    BY <1>7, <2>2, <2>3 DEF Nothing, ToggleBroadcast, SetArtModeAuto, SelectMediaSource, Exit
  <2>4. CASE EditApplicationId \/ EditCustomArtUrl \/ BuildDiagnosticReport
    <3>1. Prompt("id") \in Frame /\ Prompt("url") \in Frame
          /\ Prompt("id").frame = "prompt" /\ Prompt("url").frame = "prompt"
      BY <1>1, FrameFacts, Fields DEF Prompt
    <3>2. \E f \in Frame : f.frame # "menu" /\ stack' = Append(Front(stack), f)
      BY <2>4, <3>1, FrameFacts DEF EditApplicationId, EditCustomArtUrl, BuildDiagnosticReport
    <3> QED  BY <1>7, <2>2, <3>2
  <2> QED  BY <1>11, <2>3, <2>4
<1>12. CASE ConfirmPrompt \/ CancelPrompt \/ ReportIsBuilt
  <2>1. stack # <<>> /\ Last(stack).frame # "box" /\ stack' = Front(stack) /\ UNCHANGED menus
    BY <1>12 DEF ConfirmPrompt, CancelPrompt, ReportIsBuilt, On
  <2> QED  BY <1>7, <2>1
<1>13. CASE CloseBox
  <2>1. stack # <<>> /\ stack' = Front(stack) /\ UNCHANGED <<menus, config>>
    BY <1>13 DEF CloseBox, On, settings
  <2>2. /\ DOMAIN stack' = 1 .. Len(stack) - 1 /\ DOMAIN stack = 1 .. Len(stack)
        /\ Len(stack) \in Nat /\ \A i \in 1 .. Len(stack) - 1 : stack'[i] = stack[i]
    BY <1>1, <2>1, TopIsAlone
  <2>3. Nested'  BY <1>2, <2>2
  <2>4. MenuIsOpen' => MenuIsOpen  BY <2>2 DEF MenuIsOpen
  <2> QED  BY <1>2, <1>3, <2>1, <2>3, <2>4 DEF menus, Marks
<1>14. CASE \/ TakeRequest \/ GetAvailableSources \/ PostSources
            \/ SetTooltip \/ AddIconAgain \/ Click
            \/ MessageLoopEnds \/ StopEngine \/ RemoveIcon
            \/ PostStatusUpdate \/ ExplorerEnds \/ ExplorerStarts
            \/ UNCHANGED vars
  <2>1. UNCHANGED <<stack, menus, config>>
    BY <1>14
       DEF TakeRequest, GetAvailableSources, PostSources, SetTooltip, AddIconAgain, Click,
           MessageLoopEnds, StopEngine, RemoveIcon, PostStatusUpdate, ExplorerEnds,
           ExplorerStarts, Dispatch, settings, vars
  <2> QED  BY <1>6, <2>1
<1> QED  BY StepCases, <1>8, <1>9, <1>10, <1>11, <1>12, <1>13, <1>14

LEMMA InitMenu == Init => MenuInv
<1> SUFFICES ASSUME Init PROVE MenuInv
  OBVIOUS
<1>1. mediaSources \in Seq(Sources) /\ sourceMenu = Radio(Unmarked(mediaSources), ITunes)
  BY DEF Init, Create, BuildMenuOnce, Sources
<1>2. stack = <<>>  BY DEF Init
<1>3. Unmarked(mediaSources) \in Seq(Item)  BY <1>1, UnmarkedFacts
<1>4. /\ sourceMenu \in Seq(Item) /\ Len(sourceMenu) = Len(mediaSources)
      /\ \A i \in DOMAIN sourceMenu : sourceMenu[i].source = mediaSources[i]
  BY <1>1, <1>3, UnmarkedFacts, RadioFacts
<1> QED  BY <1>2, <1>4 DEF MenuInv, MenuIsOpen

-----------------------------------------------------------------------------
(* The theorems *)

LEMMA InitIInv == Init => IInv
BY InitTypeOK, InitMenu DEF IInv, Init, Create, RefreshInv, EditsInv, TipInv, IconInv

LEMMA StepIInv == IInv /\ [Next]_vars => IInv'
BY StepTypeOK, StepRefresh, StepEdits, StepTip, StepIcon, StepMenu DEF IInv

LEMMA Invariance == Spec => []IInv
BY InitIInv, StepIInv, PTL DEF Spec

\* Every click is followed by a listing of the sessions that begins after it
\* (RequestMediaSourcesRefresh, StartMediaSourcesRefreshThread).
THEOREM RefreshesAreServed == Spec => []NoRefreshLost
<1>1. IInv => NoRefreshLost
  <2> SUFFICES ASSUME IInv PROVE NoRefreshLost
    OBVIOUS
  <2>1. \A i \in DOMAIN queue : queue[i] \in ToSet(queue)  BY DEF ToSet
  <2> QED  BY <2>1 DEF IInv, RefreshInv, NoRefreshLost
<1> QED  BY Invariance, <1>1, PTL

\* What was edited is saved and applied once no prompt is open
\* (TrayIcon::HandleCommand, wWinMain's applyConfig).
THEOREM EditsReachFileAndEngine == Spec => []EditsAreApplied
<1>1. IInv => EditsAreApplied  BY DEF IInv, EditsInv, EditsAreApplied
<1> QED  BY Invariance, <1>1, PTL

\* The icon is there and tells the last status, but for messages still in the queue
\* (PostStatusUpdate, SetTooltip, TaskbarCreated).
THEOREM IconIsTrue == Spec => []IconTellsStatus
<1>1. IInv => IconTellsStatus
  <2> SUFFICES ASSUME IInv PROVE IconTellsStatus
    OBVIOUS
  <2>1. \A i \in DOMAIN queue : queue[i] \in ToSet(queue)  BY DEF ToSet
  <2> QED  BY <2>1 DEF IInv, TipInv, IconInv, IconTellsStatus
<1> QED  BY Invariance, <1>1, PTL

\* An open menu shows the settings and lists what a click is resolved against, also
\* after the list was replaced under it (SyncMenuState, RefreshSourceMenuItems).
THEOREM MenuTellsSettings == Spec => []OpenMenuIsCurrent
<1>1. IInv => OpenMenuIsCurrent
  <2> SUFFICES ASSUME IInv, MenuIsOpen PROVE OpenMenuIsCurrent
    BY DEF OpenMenuIsCurrent
  <2>1. mediaSources \in Seq(Sources) /\ sourceMenu \in Seq(Item)
        /\ Len(sourceMenu) = Len(mediaSources)
        /\ \A i \in DOMAIN sourceMenu : sourceMenu[i].source = mediaSources[i]
    BY DEF IInv, TypeOK, MenuInv
  <2>2. DOMAIN sourceMenu = DOMAIN mediaSources  BY <2>1
  <2>3. [i \in DOMAIN sourceMenu |-> sourceMenu[i].source] = mediaSources  BY <2>1, <2>2
  <2>4. config.source \in ToSet(mediaSources) =>
            \E i \in DOMAIN sourceMenu : sourceMenu[i].source = config.source
    BY <2>1, <2>2 DEF ToSet
  <2> QED  BY <2>1, <2>2, <2>3, <2>4 DEF IInv, MenuInv, OpenMenuIsCurrent
<1> QED  BY Invariance, <1>1, PTL
=============================================================================
