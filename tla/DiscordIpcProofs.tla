--------------------------- MODULE DiscordIpcProofs ---------------------------
(***************************************************************************)
(* Theorems about the IPC client, for any number of endpoints and          *)
(* connections and any period of the nonces: it takes no answer for        *)
(* another's, leaves no connection behind, and does what DiscordLink says. *)
(*                                                                         *)
(* All three rest on the dialogue being strict: no frame is on its way     *)
(* when a call begins, and one at most while it runs.                      *)
(***************************************************************************)
EXTENDS DiscordIpc, TLAPS

Quiet(s) == requests[s] = <<>> /\ answers[s] = <<>>

\* Our end of a connection is open where, and only where, the client has it.
OwnInv == \A s \in Sockets : ours[s] <=> s = fd

\* What a connection carries, also one that the client has closed.
LineInv ==
    \A s \in Sockets :
        /\ ~theirs[s] => requests[s] = <<>> /\ shows[s] = Dark
        /\ ~ours[s] => answers[s] = <<>>
        /\ \/ requests[s] = <<>>
           \/ \E r \in Request : requests[s] = <<r>> /\ (r.nonce = Hello => shows[s] = Dark)

\* What the client's connection carries at each point of a call.
DialogInv ==
    /\ pc \in {"connect", "hello", "welcome"} => wish # Dark
    /\ pc \in {"connect", "hello", "welcome", "write"} => ~done
    /\ pc \in {"hello", "welcome"} => shows[fd] = Dark
    /\ pc \in {"idle", "hello", "write"} /\ fd # NoSocket => Quiet(fd)
    /\ pc = "welcome" =>
           \/ requests[fd] = <<[nonce |-> Hello, show |-> Dark]>> /\ answers[fd] = <<>>
           \/ requests[fd] = <<>> /\ (answers[fd] = <<>> \/ \E a \in Answer : answers[fd] = <<a>>)
    /\ pc = "read" =>
           \/ /\ requests[fd] = <<[nonce |-> nonce, show |-> wish]>>
              /\ answers[fd] = <<>> /\ ~done
           \/ Quiet(fd)
           \/ /\ requests[fd] = <<>> /\ done
              /\ \E a \in Answer : a.nonce = nonce /\ answers[fd] = <<a>>

IInv == TypeOK /\ OwnInv /\ LineInv /\ DialogInv /\ AnswerIsOwn

-----------------------------------------------------------------------------
(* The actions of Next, one by one *)

\* A step of the specification is one of its actions or a stutter.
LEMMA StepCases ==
    ASSUME [Next]_vars
    PROVE  \/ CallDisconnect \/ CallClearActivity
           \/ \E activity \in Activities : CallSetActivity(activity)
           \/ Connect \/ WriteHandshake \/ ReadHandshake \/ WriteRequest \/ ReadAnswer
           \/ \E s \in Sockets, oversize \in BOOLEAN : Handle(s, oversize)
           \/ \E s \in Sockets : RefuseHandshake(s)
           \/ \E s \in Sockets : SeeClose(s)
           \/ \E e \in Endpoints : Quit(e)
           \/ \E e \in Endpoints : Start(e)
           \/ UNCHANGED vars
BY DEF Next, Call, Client, Discord, Serve

\* Sequences of one element
LEMMA Singles ==
    ASSUME NEW x
    PROVE  /\ Append(<<>>, x) = <<x>>
           /\ Head(<<x>>) = x /\ Tail(<<x>>) = <<>> /\ <<x>> # <<>>
OBVIOUS

-----------------------------------------------------------------------------
(* Type correctness *)

LEMMA RequestSeqs ==
    /\ <<>> \in Seq(Request)
    /\ \A q \in Seq(Request), x \in Request : Append(q, x) \in Seq(Request)
    /\ \A q \in Seq(Request) : q # <<>> => Head(q) \in Request /\ Tail(q) \in Seq(Request)
OBVIOUS

LEMMA AnswerSeqs ==
    /\ <<>> \in Seq(Answer)
    /\ \A q \in Seq(Answer), x \in Answer : Append(q, x) \in Seq(Answer)
    /\ \A q \in Seq(Answer) : q # <<>> => Head(q) \in Answer /\ Tail(q) \in Seq(Answer)
OBVIOUS

LEMMA NextIndex == index \in Endpoints => index + 1 \in 0 .. LastEndpoint + 1
BY IpcAssumption DEF Endpoints

LEMMA NextNonce == nonce \in 0 .. Nonces - 1 => (nonce + 1) % Nonces \in 0 .. Nonces - 1
BY IpcAssumption

LEMMA Frames ==
    /\ \A n \in 0 .. Nonces - 1, w \in Activities \cup {Dark} : [nonce |-> n, show |-> w] \in Request
    /\ [nonce |-> Hello, show |-> Dark] \in Request
    /\ \A r \in Request : r.nonce \in 0 .. Hello /\ r.show \in Activities \cup {Dark}
    /\ \A n \in 0 .. Hello, o \in BOOLEAN : [nonce |-> n, oversize |-> o] \in Answer
    /\ \A a \in Answer : a.nonce \in 0 .. Hello
BY IpcAssumption DEF Request, Answer, Hello

\* close() leaves types and no open connection (DiscordIpcClient::Disconnect).
LEMMA DisconnectTypes ==
    ASSUME TypeOK, Disconnect
    PROVE  fd' = NoSocket /\ ours' \in [Sockets -> BOOLEAN] /\ answers' \in [Sockets -> Seq(Answer)]
<1>1. ours \in [Sockets -> BOOLEAN] /\ answers \in [Sockets -> Seq(Answer)]
      /\ fd \in Sockets \cup {NoSocket}
  BY DEF TypeOK
<1> QED  BY <1>1, AnswerSeqs DEF Disconnect

\* Discord's answer to the first request of a connection (DiscordIpcClient::ReadFrame
\* waits for it).
LEMMA RepliesTypes ==
    ASSUME TypeOK, NEW s \in Sockets, NEW o \in BOOLEAN, requests[s] # <<>>, Replies(s, o)
    PROVE  answers' \in [Sockets -> Seq(Answer)]
<1>1. Head(requests[s]) \in Request  BY RequestSeqs DEF TypeOK
<1>2. [nonce |-> Head(requests[s]).nonce, oversize |-> o] \in Answer  BY <1>1, Frames
<1>3. answers \in [Sockets -> Seq(Answer)]  BY DEF TypeOK
<1> QED  BY <1>2, <1>3, AnswerSeqs DEF Replies

\* A frame more on its way to Discord (DiscordIpcClient::WriteFrame).
LEMMA SendsTypes ==
    ASSUME TypeOK, fd # NoSocket, NEW frame \in Request, Sends(frame)
    PROVE  /\ requests' \in [Sockets -> Seq(Request)]
           /\ UNCHANGED <<ours, answers, fd>>
<1>1. requests \in [Sockets -> Seq(Request)] /\ fd \in Sockets  BY DEF TypeOK
<1>2. Append(requests[fd], frame) \in Seq(Request)  BY <1>1, RequestSeqs
<1> QED  BY <1>1, <1>2 DEF Sends

\* A frame of Discord's less to read (DiscordIpcClient::ReadFrame).
LEMMA TakesTypes ==
    ASSUME TypeOK, fd # NoSocket, ReadsFrame, TakesFrame
    PROVE  /\ answers' \in [Sockets -> Seq(Answer)]
           /\ Head(answers[fd]).nonce \in 0 .. Hello
           /\ UNCHANGED <<ours, fd>>
<1>1. answers \in [Sockets -> Seq(Answer)] /\ fd \in Sockets  BY DEF TypeOK
<1>2. Head(answers[fd]) \in Answer /\ Tail(answers[fd]) \in Seq(Answer)
  BY <1>1, AnswerSeqs DEF ReadsFrame
<1>3. Head(answers[fd]).nonce \in 0 .. Hello  BY <1>2, Frames
<1> QED  BY <1>1, <1>2, <1>3 DEF TakesFrame

LEMMA InitTypeOK == Init => TypeOK
<1> SUFFICES ASSUME Init PROVE TypeOK
  OBVIOUS
<1>1. requests \in [Sockets -> Seq(Request)] /\ answers \in [Sockets -> Seq(Answer)]
  BY RequestSeqs, AnswerSeqs DEF Init
<1>2. index \in 0 .. LastEndpoint + 1 /\ nonce \in 0 .. Nonces - 1 /\ got \in 0 .. Hello
  BY IpcAssumption DEF Init, Hello
<1>3. at \in [Sockets -> Endpoints]
  BY IpcAssumption DEF Init, Endpoints
<1> QED  BY <1>1, <1>2, <1>3 DEF Init, TypeOK, Pcs

LEMMA StepTypeOK == ASSUME TypeOK, [Next]_vars PROVE TypeOK'
<1> USE DEF TypeOK, Pcs, client, sockets
<1>1. CASE CallDisconnect  BY <1>1, DisconnectTypes DEF CallDisconnect
<1>2. CASE CallClearActivity  BY <1>2 DEF CallClearActivity, Finish
<1>3. CASE \E activity \in Activities : CallSetActivity(activity)
  <2>1. 0 \in 0 .. LastEndpoint + 1  BY IpcAssumption
  <2> QED  BY <1>3, <2>1 DEF CallSetActivity
<1>4. CASE Connect
  <2>1. CASE fd' # fd
    <3>1. PICK s \in Sockets :
             /\ fd' = s /\ ours' = [ours EXCEPT ![s] = TRUE]
             /\ theirs' = [theirs EXCEPT ![s] = TRUE] /\ at' = [at EXCEPT ![s] = index]
             /\ index \in Endpoints /\ index' = index /\ ok' = ok /\ pc' = "hello"
      BY <1>4, <2>1 DEF Connect
    <3>2. ours'[fd'] /\ fd' # NoSocket  BY <3>1, IpcAssumption
    <3> QED  BY <1>4, <3>1, <3>2 DEF Connect
  <2>2. CASE fd' = fd  BY <1>4, <2>2, NextIndex, IpcAssumption DEF Connect, Finish
  <2> QED  BY <2>1, <2>2
<1>5. CASE WriteHandshake
  <2>1. index \in Endpoints  BY <1>5 DEF WriteHandshake
  <2>2. CASE WriteFails /\ ~PipeKills
    <3>1. NextEndpoint  BY <1>5, <2>2 DEF WriteHandshake, FailOr
    <3> QED  BY <1>5, <2>1, <2>2, <3>1, DisconnectTypes, NextIndex
             DEF WriteHandshake, FailOr, NextEndpoint
  <2>3. CASE WriteFails /\ PipeKills  BY <1>5, <2>3 DEF WriteHandshake, FailOr
  <2>4. CASE ~WriteFails
    <3>1. Sends([nonce |-> Hello, show |-> Dark])  BY <1>5, <2>4 DEF WriteHandshake
    <3>2. fd # NoSocket  BY <1>5 DEF WriteHandshake
    <3>3. /\ requests' \in [Sockets -> Seq(Request)]
          /\ UNCHANGED <<ours, answers, fd>>
      BY <3>1, <3>2, SendsTypes, Frames
    <3> QED  BY <1>5, <2>1, <2>4, <3>3 DEF WriteHandshake
  <2> QED  BY <2>2, <2>3, <2>4
<1>6. CASE ReadHandshake
  <2>1. index \in Endpoints  BY <1>6 DEF ReadHandshake
  <2>2. CASE ReadsFrame
    <3>1. TakesFrame /\ fd # NoSocket  BY <1>6, <2>2 DEF ReadHandshake
    <3>2. /\ answers' \in [Sockets -> Seq(Answer)]
          /\ UNCHANGED <<ours, fd>>
      BY <2>2, <3>1, TakesTypes
    <3> QED  BY <1>6, <2>1, <2>2, <3>2 DEF ReadHandshake
  <2>3. CASE ~ReadsFrame
    <3>1. NextEndpoint  BY <1>6, <2>3 DEF ReadHandshake
    <3> QED  BY <1>6, <2>1, <2>3, <3>1, DisconnectTypes, NextIndex DEF ReadHandshake, NextEndpoint
  <2> QED  BY <2>2, <2>3
<1>7. CASE WriteRequest
  <2>2. CASE WriteFails /\ ~PipeKills
    <3>1. GiveUp /\ nonce' \in 0 .. Nonces - 1
      BY <1>7, <2>2, NextNonce DEF WriteRequest, FailOr
    <3> QED  BY <1>7, <2>2, <3>1, DisconnectTypes DEF WriteRequest, FailOr, GiveUp, Finish
  <2>3. CASE WriteFails /\ PipeKills  BY <1>7, <2>3 DEF WriteRequest, FailOr
  <2>4. CASE ~WriteFails
    <3>1. nonce' \in 0 .. Nonces - 1 /\ Sends([nonce |-> nonce', show |-> wish])
      BY <1>7, <2>4, NextNonce DEF WriteRequest
    <3>2. [nonce |-> nonce', show |-> wish] \in Request  BY <3>1, Frames
    <3>3. /\ requests' \in [Sockets -> Seq(Request)]
          /\ UNCHANGED <<ours, answers, fd>>
      BY <1>7, <3>1, <3>2, SendsTypes DEF WriteRequest
    <3> QED  BY <1>7, <2>4, <3>1, <3>3 DEF WriteRequest
  <2> QED  BY <2>2, <2>3, <2>4
<1>8. CASE ReadAnswer
  <2>2. CASE ReadsFrame
    <3>1. TakesFrame /\ fd # NoSocket  BY <1>8, <2>2 DEF ReadAnswer
    <3>2. /\ answers' \in [Sockets -> Seq(Answer)]
          /\ Head(answers[fd]).nonce \in 0 .. Hello
          /\ UNCHANGED <<ours, fd>>
      BY <2>2, <3>1, TakesTypes
    <3> QED  BY <1>8, <2>2, <3>2 DEF ReadAnswer, Finish
  <2>3. CASE ~ReadsFrame
    <3>1. GiveUp  BY <1>8, <2>3 DEF ReadAnswer
    <3> QED  BY <1>8, <2>3, <3>1, DisconnectTypes DEF ReadAnswer, GiveUp, Finish
  <2> QED  BY <2>2, <2>3
<1>9. CASE \E s \in Sockets, oversize \in BOOLEAN : Handle(s, oversize)
  BY <1>9, RequestSeqs, RepliesTypes, Frames DEF Handle
<1>10. CASE \E s \in Sockets : RefuseHandshake(s)
  BY <1>10, RequestSeqs, RepliesTypes DEF RefuseHandshake
<1>11. CASE \E s \in Sockets : SeeClose(s)  BY <1>11 DEF SeeClose
<1>12. CASE \E e \in Endpoints : Quit(e)  BY <1>12, RequestSeqs DEF Quit
<1>13. CASE \E e \in Endpoints : Start(e)  BY <1>13 DEF Start
<1>14. CASE UNCHANGED vars  BY <1>14 DEF vars
<1> QED  BY StepCases, <1>1, <1>2, <1>3, <1>4, <1>5, <1>6, <1>7, <1>8, <1>9, <1>10,
            <1>11, <1>12, <1>13, <1>14

\* Every variable has its type, and frames are written and read on an open
\* connection only (DiscordIpcClient; UnixSocketIpcTransport, whose _fd may be -1).
THEOREM TypeCorrect == Spec => []TypeOK
BY InitTypeOK, StepTypeOK, PTL DEF Spec

-----------------------------------------------------------------------------
(* Connections *)

\* What the proofs below need of TypeOK, without the frames.
LEMMA Facts ==
    ASSUME TypeOK
    PROVE  /\ ours \in [Sockets -> BOOLEAN] /\ theirs \in [Sockets -> BOOLEAN]
           /\ DOMAIN requests = Sockets /\ DOMAIN answers = Sockets /\ DOMAIN shows = Sockets
           /\ requests = [s \in Sockets |-> requests[s]]
           /\ answers = [s \in Sockets |-> answers[s]]
           /\ shows = [s \in Sockets |-> shows[s]]
           /\ fd = NoSocket \/ fd \in Sockets
           /\ NoSocket \notin Sockets
           /\ pc \in {"hello", "welcome", "write", "read"} => fd \in Sockets
           /\ pc = "connect" => fd = NoSocket
BY IpcAssumption DEF TypeOK

LEMMA DisconnectOwn == ASSUME TypeOK, OwnInv, Disconnect PROVE OwnInv'
BY Facts DEF OwnInv, Disconnect

LEMMA StepOwn == ASSUME TypeOK, OwnInv, [Next]_vars PROVE OwnInv'
<1> USE DEF client, sockets
<1>1. CASE CallDisconnect  BY <1>1, DisconnectOwn DEF CallDisconnect
<1>2. CASE Connect
  BY <1>2, Facts DEF Connect, OwnInv
<1>3. CASE WriteHandshake
  BY <1>3, DisconnectOwn DEF WriteHandshake, FailOr, NextEndpoint, Sends, OwnInv
<1>4. CASE ReadHandshake
  BY <1>4, DisconnectOwn DEF ReadHandshake, NextEndpoint, TakesFrame, OwnInv
<1>5. CASE WriteRequest
  BY <1>5, DisconnectOwn DEF WriteRequest, FailOr, GiveUp, Sends, OwnInv
<1>6. CASE ReadAnswer
  BY <1>6, DisconnectOwn DEF ReadAnswer, GiveUp, TakesFrame, OwnInv
<1>7. CASE UNCHANGED <<ours, fd>>  BY <1>7 DEF OwnInv
<1>8. CASE \/ CallClearActivity \/ \E activity \in Activities : CallSetActivity(activity)
           \/ \E s \in Sockets, oversize \in BOOLEAN : Handle(s, oversize)
           \/ \E s \in Sockets : RefuseHandshake(s)
           \/ \E s \in Sockets : SeeClose(s)
           \/ \E e \in Endpoints : Quit(e)
           \/ \E e \in Endpoints : Start(e)
           \/ UNCHANGED vars
  BY <1>7, <1>8
     DEF CallClearActivity, CallSetActivity, Handle, RefuseHandshake, SeeClose, Quit, Start, vars
<1> QED  BY StepCases, <1>1, <1>2, <1>3, <1>4, <1>5, <1>6, <1>8

-----------------------------------------------------------------------------
(* What the connections carry *)

LEMMA DisconnectLine ==
    ASSUME TypeOK, OwnInv, LineInv, Disconnect, UNCHANGED <<theirs, requests, shows>>
    PROVE  LineInv'
BY Facts DEF OwnInv, LineInv, Disconnect

LEMMA StepLine == ASSUME TypeOK, OwnInv, LineInv, DialogInv, [Next]_vars PROVE LineInv'
<1> USE DEF client, sockets
<1>1. CASE CallDisconnect  BY <1>1, DisconnectLine DEF CallDisconnect
<1>2. CASE Connect
  BY <1>2, Facts DEF Connect, LineInv
<1>3. CASE WriteHandshake
  <2>1. CASE WriteFails /\ ~PipeKills
    BY <1>3, <2>1, DisconnectLine DEF WriteHandshake, FailOr, NextEndpoint
  <2>2. CASE WriteFails /\ PipeKills
    BY <1>3, <2>2 DEF WriteHandshake, FailOr, LineInv
  <2>3. CASE ~WriteFails
    <3>1. fd \in Sockets /\ theirs[fd] /\ requests[fd] = <<>> /\ shows[fd] = Dark
      BY <1>3, <2>3, Facts DEF WriteHandshake, WriteFails, DialogInv, Quiet
    <3>2. requests' = [requests EXCEPT ![fd] = <<[nonce |-> Hello, show |-> Dark]>>]
      BY <1>3, <2>3, <3>1, Singles DEF WriteHandshake, Sends
    <3>3. UNCHANGED <<ours, theirs, answers, shows>>
      BY <1>3, <2>3 DEF WriteHandshake, Sends
    <3> QED  BY <3>1, <3>2, <3>3, Facts, Frames DEF LineInv
  <2> QED  BY <2>1, <2>2, <2>3
<1>4. CASE ReadHandshake
  <2>1. CASE ReadsFrame
    BY <1>4, <2>1, Facts DEF ReadHandshake, TakesFrame, LineInv, OwnInv
  <2>2. CASE ~ReadsFrame
    BY <1>4, <2>2, DisconnectLine DEF ReadHandshake, NextEndpoint
  <2> QED  BY <2>1, <2>2
<1>5. CASE WriteRequest
  <2>1. CASE WriteFails /\ ~PipeKills
    BY <1>5, <2>1, DisconnectLine DEF WriteRequest, FailOr, GiveUp
  <2>2. CASE WriteFails /\ PipeKills
    BY <1>5, <2>2 DEF WriteRequest, FailOr, LineInv
  <2>3. CASE ~WriteFails
    <3>1. fd \in Sockets /\ theirs[fd] /\ requests[fd] = <<>>
      BY <1>5, <2>3, Facts DEF WriteRequest, WriteFails, DialogInv, Quiet
    <3>2. requests' = [requests EXCEPT ![fd] = <<[nonce |-> nonce', show |-> wish]>>]
      BY <1>5, <2>3, <3>1, Singles DEF WriteRequest, Sends
    <3>3. UNCHANGED <<ours, theirs, answers, shows>> /\ nonce' \in 0 .. Nonces - 1
          /\ wish \in Activities \cup {Dark}
      BY <1>5, <2>3, NextNonce DEF WriteRequest, Sends, TypeOK
    <3>4. [nonce |-> nonce', show |-> wish] \in Request /\ nonce' # Hello
      BY <3>3, Frames, IpcAssumption DEF Hello
    <3> QED  BY <3>1, <3>2, <3>3, <3>4, Facts DEF LineInv
  <2> QED  BY <2>1, <2>2, <2>3
<1>6. CASE ReadAnswer
  <2>1. CASE ReadsFrame
    BY <1>6, <2>1, Facts DEF ReadAnswer, TakesFrame, LineInv, OwnInv
  <2>2. CASE ~ReadsFrame
    BY <1>6, <2>2, DisconnectLine DEF ReadAnswer, GiveUp
  <2> QED  BY <2>1, <2>2
<1>7. CASE \E s \in Sockets, oversize \in BOOLEAN : Handle(s, oversize)
  <2>1. PICK s \in Sockets, o \in BOOLEAN : Handle(s, o)  BY <1>7
  <2>2. PICK r \in Request : requests[s] = <<r>> /\ (r.nonce = Hello => shows[s] = Dark)
    BY <2>1 DEF Handle, LineInv
  <2>3. /\ requests' = [requests EXCEPT ![s] = <<>>]
        /\ UNCHANGED <<ours, theirs>> /\ theirs[s]
        /\ shows' = [shows EXCEPT ![s] = r.show]
    BY <2>1, <2>2, Singles DEF Handle
  <2>4. \A t \in Sockets : ~ours[t] => answers'[t] = <<>>
    BY <2>1, Facts DEF Handle, Replies, LineInv
  <2> QED  BY <2>3, <2>4, Facts DEF LineInv
<1>8. CASE \E s \in Sockets : RefuseHandshake(s)
  <2>1. PICK s \in Sockets : RefuseHandshake(s)  BY <1>8
  <2>2. PICK r \in Request : requests[s] = <<r>> /\ (r.nonce = Hello => shows[s] = Dark)
    BY <2>1 DEF RefuseHandshake, LineInv
  <2>3. shows[s] = Dark  BY <2>1, <2>2, Singles DEF RefuseHandshake
  <2>4. \A t \in Sockets : ~ours[t] => answers'[t] = <<>>
    BY <2>1, Facts DEF RefuseHandshake, Replies, LineInv
  <2> QED  BY <2>1, <2>3, <2>4, Facts DEF RefuseHandshake, LineInv
<1>9. CASE \E s \in Sockets : SeeClose(s)  BY <1>9, Facts DEF SeeClose, LineInv
<1>10. CASE \E e \in Endpoints : Quit(e)  BY <1>10, Facts DEF Quit, LineInv
<1>11. CASE \/ CallClearActivity \/ \E activity \in Activities : CallSetActivity(activity)
            \/ \E e \in Endpoints : Start(e)
            \/ UNCHANGED vars
  <2>1. UNCHANGED <<ours, theirs, requests, answers, shows>>
    BY <1>11 DEF CallClearActivity, CallSetActivity, Start, vars
  <2> QED  BY <2>1 DEF LineInv
<1> QED  BY StepCases, <1>1, <1>2, <1>3, <1>4, <1>5, <1>6, <1>7, <1>8, <1>9, <1>10, <1>11

-----------------------------------------------------------------------------
(* The dialogue *)

\* The frame that the client reads is the only one (DiscordIpcClient::ReadFrame).
LEMMA FrameRead ==
    ASSUME TypeOK, DialogInv, pc \in {"welcome", "read"}, ReadsFrame, TakesFrame
    PROVE  /\ fd \in Sockets /\ requests[fd] = <<>> /\ answers'[fd] = <<>>
           /\ pc = "read" => done /\ Head(answers[fd]).nonce = nonce
<1>1. fd \in Sockets  BY Facts
<1>2. requests[fd] = <<>> /\ \E a \in Answer : /\ answers[fd] = <<a>>
                                               /\ pc = "read" => done /\ a.nonce = nonce
  BY Singles DEF DialogInv, ReadsFrame, Quiet
<1> QED  BY <1>1, <1>2, Facts, Singles DEF TakesFrame

LEMMA StepDialog ==
    ASSUME TypeOK, OwnInv, LineInv, DialogInv, [Next]_vars
    PROVE  DialogInv'
<1> USE DEF client, sockets
<1>1. CASE CallDisconnect
  <2>1. pc' = "idle" /\ fd' = NoSocket  BY <1>1 DEF CallDisconnect, Disconnect
  <2> QED  BY <2>1 DEF DialogInv
<1>2. CASE CallClearActivity
  <2>1. UNCHANGED <<fd, sockets>> /\ pc = "idle" /\ pc' \in {"idle", "write"}
        /\ (pc' = "write" => fd # NoSocket /\ ~done')
    BY <1>2 DEF CallClearActivity, Finish
  <2> QED  BY <2>1 DEF DialogInv, Quiet
<1>3. CASE \E activity \in Activities : CallSetActivity(activity)
  <2>1. /\ UNCHANGED <<fd, sockets>> /\ pc = "idle" /\ wish' \in Activities /\ ~done'
        /\ pc' = IF fd = NoSocket THEN "connect" ELSE "write"
    BY <1>3 DEF CallSetActivity
  <2> QED  BY <2>1, IpcAssumption DEF DialogInv, Quiet
<1>4. CASE Connect
  <2>1. UNCHANGED <<wish, done, requests, answers, shows>> /\ pc = "connect"
    BY <1>4 DEF Connect
  <2>2. CASE pc' = "hello"
    <3>1. PICK s \in Sockets : ~ours[s] /\ ~theirs[s] /\ fd' = s
      BY <1>4, <2>2 DEF Connect, Finish
    <3>2. requests[s] = <<>> /\ answers[s] = <<>> /\ shows[s] = Dark
      BY <3>1 DEF LineInv
    <3> QED  BY <2>1, <2>2, <3>1, <3>2 DEF DialogInv, Quiet
  <2>3. CASE pc' # "hello"
    <3>1. pc' \in {"idle", "connect"} /\ fd' = NoSocket
      BY <1>4, <2>3, Facts DEF Connect, Finish
    <3> QED  BY <2>1, <3>1 DEF DialogInv
  <2> QED  BY <2>2, <2>3
<1>5. CASE WriteHandshake
  <2>1. CASE WriteFails /\ ~PipeKills
    <3>1. pc' = "connect" /\ fd' = NoSocket /\ UNCHANGED <<wish, done>> /\ pc = "hello"
      BY <1>5, <2>1 DEF WriteHandshake, FailOr, NextEndpoint, Disconnect
    <3> QED  BY <3>1 DEF DialogInv
  <2>2. CASE WriteFails /\ PipeKills
    <3>1. pc' = "killed"  BY <1>5, <2>2 DEF WriteHandshake, FailOr
    <3> QED  BY <3>1 DEF DialogInv
  <2>3. CASE ~WriteFails
    <3>1. fd \in Sockets /\ Quiet(fd) /\ shows[fd] = Dark /\ pc = "hello"
      BY <1>5, <2>3, Facts DEF WriteHandshake, DialogInv
    <3>2. /\ requests' = [requests EXCEPT ![fd] = <<[nonce |-> Hello, show |-> Dark]>>]
          /\ pc' = "welcome" /\ UNCHANGED <<wish, done, fd, answers, shows>>
      BY <1>5, <2>3, <3>1, Singles DEF WriteHandshake, Sends, Quiet
    <3> QED  BY <3>1, <3>2, Facts DEF DialogInv, Quiet
  <2> QED  BY <2>1, <2>2, <2>3
<1>6. CASE ReadHandshake
  <2>1. CASE ReadsFrame
    <3>1. fd \in Sockets /\ requests[fd] = <<>> /\ answers'[fd] = <<>>
      BY <1>6, <2>1, FrameRead DEF ReadHandshake
    <3>2. pc = "welcome" /\ pc' = "write" /\ UNCHANGED <<wish, done, fd, requests, shows>>
      BY <1>6, <2>1 DEF ReadHandshake, TakesFrame
    <3> QED  BY <3>1, <3>2 DEF DialogInv, Quiet
  <2>2. CASE ~ReadsFrame
    <3>1. pc' = "connect" /\ fd' = NoSocket /\ UNCHANGED <<wish, done>> /\ pc = "welcome"
      BY <1>6, <2>2 DEF ReadHandshake, NextEndpoint, Disconnect
    <3> QED  BY <3>1 DEF DialogInv
  <2> QED  BY <2>1, <2>2
<1>7. CASE WriteRequest
  <2>1. CASE WriteFails /\ ~PipeKills
    <3>1. pc' = "idle" /\ fd' = NoSocket
      BY <1>7, <2>1 DEF WriteRequest, FailOr, GiveUp, Finish, Disconnect
    <3> QED  BY <3>1 DEF DialogInv
  <2>2. CASE WriteFails /\ PipeKills
    <3>1. pc' = "killed"  BY <1>7, <2>2 DEF WriteRequest, FailOr
    <3> QED  BY <3>1 DEF DialogInv
  <2>3. CASE ~WriteFails
    <3>1. fd \in Sockets /\ Quiet(fd) /\ ~done
      BY <1>7, <2>3, Facts DEF WriteRequest, DialogInv
    <3>2. /\ requests' = [requests EXCEPT ![fd] = <<[nonce |-> nonce', show |-> wish]>>]
          /\ pc' = "read" /\ UNCHANGED <<wish, done, fd, answers, shows>>
      BY <1>7, <2>3, <3>1, Singles DEF WriteRequest, Sends, Quiet
    <3> QED  BY <3>1, <3>2, Facts DEF DialogInv, Quiet
  <2> QED  BY <2>1, <2>2, <2>3
<1>8. CASE ReadAnswer
  <2>1. CASE ReadsFrame
    <3>1. fd \in Sockets /\ requests[fd] = <<>> /\ answers'[fd] = <<>>
      BY <1>8, <2>1, FrameRead DEF ReadAnswer
    <3>2. pc' = "idle" /\ UNCHANGED <<fd, requests>>
      BY <1>8, <2>1 DEF ReadAnswer, TakesFrame, Finish
    <3> QED  BY <3>1, <3>2 DEF DialogInv, Quiet
  <2>2. CASE ~ReadsFrame
    <3>1. pc' = "idle" /\ fd' = NoSocket
      BY <1>8, <2>2 DEF ReadAnswer, GiveUp, Finish, Disconnect
    <3> QED  BY <3>1 DEF DialogInv
  <2> QED  BY <2>1, <2>2
<1>9. CASE \E s \in Sockets, oversize \in BOOLEAN : Handle(s, oversize)
  <2>1. PICK s \in Sockets, o \in BOOLEAN : Handle(s, o)  BY <1>9
  <2>2. PICK r \in Request : requests[s] = <<r>> /\ (r.nonce = Hello => shows[s] = Dark)
    BY <2>1 DEF Handle, LineInv
  <2>3. /\ requests' = [requests EXCEPT ![s] = <<>>]
        /\ shows' = [shows EXCEPT ![s] = r.show]
        /\ UNCHANGED <<pc, wish, fd, nonce, ours>>
        /\ done' = (done \/ (s = fd /\ pc = "read"))
    BY <2>1, <2>2, Singles DEF Handle
  <2>4. CASE s # fd
    <3>1. answers'[fd] = answers[fd] \/ fd \notin Sockets
      BY <2>1, <2>4, Facts DEF Handle, Replies
    <3>2. (requests'[fd] = requests[fd] /\ shows'[fd] = shows[fd]) \/ fd \notin Sockets
      BY <2>3, <2>4, Facts
    <3>3. done' = done  BY <2>3, <2>4 DEF TypeOK
    <3> QED  BY <2>3, <3>1, <3>2, <3>3, Facts DEF DialogInv, Quiet
  <2>5. CASE s = fd
    <3>1. pc \in {"welcome", "read", "killed"}  BY <2>2, <2>5, Singles, Facts DEF DialogInv, Quiet, TypeOK, Pcs
    <3>2. CASE pc = "killed"  BY <2>3, <3>2 DEF DialogInv
    <3>3. CASE pc \in {"welcome", "read"}
      <4>1. answers[fd] = <<>> /\ ours[fd]
        BY <2>2, <2>5, <3>3, Singles DEF DialogInv, Quiet, OwnInv
      <4>2. answers' = [answers EXCEPT ![fd] = <<[nonce |-> r.nonce, oversize |-> o]>>]
        BY <2>1, <2>2, <2>5, <4>1, Singles DEF Handle, Replies
      <4>3. [nonce |-> r.nonce, oversize |-> o] \in Answer  BY Frames
      <4>4. requests'[fd] = <<>> /\ answers'[fd] = <<[nonce |-> r.nonce, oversize |-> o]>>
        BY <2>3, <2>5, <4>2, Facts
      <4>5. pc = "welcome" => r.show = Dark
        BY <2>2, <2>5, Singles DEF DialogInv
      <4>6. pc = "read" => r.nonce = nonce
        BY <2>2, <2>5, Singles DEF DialogInv, Quiet
      <4>7. CASE pc = "welcome"
        <5>1. shows'[fd] = Dark /\ done' = done  BY <2>3, <2>5, <4>5, <4>7, Facts DEF TypeOK
        <5> QED  BY <2>3, <4>3, <4>4, <4>7, <5>1 DEF DialogInv
      <4>8. CASE pc = "read"
        <5>1. done'  BY <2>3, <2>5, <4>8
        <5>2. \E a \in Answer : a.nonce = nonce' /\ answers'[fd'] = <<a>>
          BY <2>3, <4>3, <4>4, <4>6, <4>8
        <5> QED  BY <2>3, <4>4, <4>8, <5>1, <5>2 DEF DialogInv
      <4> QED  BY <3>3, <4>7, <4>8
    <3> QED  BY <3>1, <3>2, <3>3
  <2> QED  BY <2>4, <2>5
<1>10. CASE \E s \in Sockets : RefuseHandshake(s)
  <2>1. PICK s \in Sockets : RefuseHandshake(s)  BY <1>10
  <2>2. PICK r \in Request : requests[s] = <<r>> /\ r.nonce = Hello
    BY <2>1, Singles DEF RefuseHandshake, LineInv
  <2>3. /\ requests' = [requests EXCEPT ![s] = <<>>]
        /\ UNCHANGED <<pc, wish, fd, nonce, done, ours, shows>>
    BY <2>1 DEF RefuseHandshake
  <2>4. CASE s # fd
    <3>1. answers'[fd] = answers[fd] \/ fd \notin Sockets
      BY <2>1, <2>4, Facts DEF RefuseHandshake, Replies
    <3>2. requests'[fd] = requests[fd] \/ fd \notin Sockets
      BY <2>3, <2>4, Facts
    <3> QED  BY <2>3, <3>1, <3>2, Facts DEF DialogInv, Quiet
  <2>5. CASE s = fd
    <3>1. nonce # Hello  BY IpcAssumption DEF TypeOK, Hello
    <3>2. pc \in {"welcome", "killed"}
      <4>1. fd \in Sockets /\ fd # NoSocket /\ pc # "connect"  BY <2>1, <2>5, Facts
      <4>2. ~Quiet(fd)  BY <2>2, <2>5, Singles DEF Quiet
      <4>3. pc # "read"  BY <2>2, <2>5, <3>1, <4>2, Singles DEF DialogInv
      <4> QED  BY <4>1, <4>2, <4>3 DEF DialogInv, TypeOK, Pcs
    <3>3. CASE pc = "killed"  BY <2>3, <3>3 DEF DialogInv
    <3>4. CASE pc = "welcome"
      <4>1. answers[fd] = <<>> /\ ours[fd]
        BY <2>2, <2>5, <3>4, Singles DEF DialogInv, OwnInv
      <4>2. answers' = [answers EXCEPT ![fd] = <<[nonce |-> Hello, oversize |-> FALSE]>>]
        BY <2>1, <2>2, <2>5, <4>1, Singles DEF RefuseHandshake, Replies
      <4>3. [nonce |-> Hello, oversize |-> FALSE] \in Answer
        BY Frames, IpcAssumption DEF Hello
      <4>4. requests'[fd] = <<>> /\ answers'[fd] = <<[nonce |-> Hello, oversize |-> FALSE]>>
        BY <2>3, <2>5, <4>2, Facts
      <4> QED  BY <2>3, <3>4, <4>3, <4>4 DEF DialogInv
    <3> QED  BY <3>2, <3>3, <3>4
  <2> QED  BY <2>4, <2>5
<1>11. CASE \E s \in Sockets : SeeClose(s)
  <2>1. PICK s \in Sockets : SeeClose(s)  BY <1>11
  <2>2. s # fd  BY <2>1 DEF SeeClose, OwnInv
  <2>3. fd \in Sockets => shows'[fd] = shows[fd]  BY <2>1, <2>2, Facts DEF SeeClose
  <2> QED  BY <2>1, <2>3, Facts DEF SeeClose, DialogInv, Quiet
<1>12. CASE \E e \in Endpoints : Quit(e)
  <2>1. UNCHANGED <<pc, wish, fd, nonce, done, answers>>  BY <1>12 DEF Quit
  <2>2. fd \in Sockets => /\ requests'[fd] \in {requests[fd], <<>>}
                          /\ shows'[fd] \in {shows[fd], Dark}
    BY <1>12 DEF Quit
  <2> QED  BY <2>1, <2>2, Facts DEF DialogInv, Quiet
<1>13. CASE (\E e \in Endpoints : Start(e)) \/ UNCHANGED vars
  <2>1. UNCHANGED <<client, sockets>>  BY <1>13 DEF Start, vars
  <2> QED  BY <2>1 DEF DialogInv, Quiet
<1> QED  BY StepCases, <1>1, <1>2, <1>3, <1>4, <1>5, <1>6, <1>7, <1>8, <1>9, <1>10,
            <1>11, <1>12, <1>13

LEMMA StepAnswer ==
    ASSUME TypeOK, DialogInv, AnswerIsOwn, [Next]_vars
    PROVE  AnswerIsOwn'
<1> USE DEF client, sockets, AnswerIsOwn
<1>1. CASE ReadAnswer
  <2>1. CASE ReadsFrame
    <3>1. Head(answers[fd]).nonce = nonce  BY <1>1, <2>1, FrameRead DEF ReadAnswer
    <3> QED  BY <1>1, <2>1, <3>1 DEF ReadAnswer
  <2>2. CASE ~ReadsFrame  BY <1>1, <2>2 DEF ReadAnswer, GiveUp, Finish
  <2> QED  BY <2>1, <2>2
<1>2. CASE WriteRequest  BY <1>2 DEF WriteRequest, FailOr, GiveUp, Finish
<1>3. CASE \/ CallDisconnect \/ CallClearActivity
           \/ \E activity \in Activities : CallSetActivity(activity)
           \/ Connect \/ WriteHandshake \/ ReadHandshake
  BY <1>3 DEF CallDisconnect, CallClearActivity, CallSetActivity, Connect, WriteHandshake,
              ReadHandshake, FailOr, NextEndpoint, Finish
<1>4. CASE \/ \E s \in Sockets, oversize \in BOOLEAN : Handle(s, oversize)
           \/ \E s \in Sockets : RefuseHandshake(s)
           \/ \E s \in Sockets : SeeClose(s)
           \/ \E e \in Endpoints : Quit(e)
           \/ \E e \in Endpoints : Start(e)
           \/ UNCHANGED vars
  BY <1>4 DEF Handle, RefuseHandshake, SeeClose, Quit, Start, vars
<1> QED  BY StepCases, <1>1, <1>2, <1>3, <1>4

LEMMA InitIInv == Init => IInv
<1> SUFFICES ASSUME Init PROVE IInv
  OBVIOUS
<1>1. TypeOK  BY InitTypeOK
<1>2. OwnInv /\ LineInv /\ DialogInv /\ AnswerIsOwn
  BY IpcAssumption DEF Init, OwnInv, LineInv, DialogInv, AnswerIsOwn
<1> QED  BY <1>1, <1>2 DEF IInv

LEMMA StepIInv == IInv /\ [Next]_vars => IInv'
BY StepTypeOK, StepOwn, StepLine, StepDialog, StepAnswer DEF IInv

LEMMA Invariance == Spec => []IInv
BY InitIInv, StepIInv, PTL DEF Spec

\* The frame a call takes for its answer is the answer to its own request, though
\* nobody compares the nonces (DiscordIpcClient::TrySend).
THEOREM AnswersAreOwn == Spec => []AnswerIsOwn
<1>1. IInv => AnswerIsOwn  BY DEF IInv
<1> QED  BY Invariance, <1>1, PTL

\* No connection stays open behind the client's back, whatever failed
\* (DiscordIpcClient::Connect, TrySend, Disconnect).
THEOREM NoneForgotten == Spec => []NoForgottenSocket
<1>1. IInv => NoForgottenSocket  BY DEF IInv, OwnInv, NoForgottenSocket
<1> QED  BY Invariance, <1>1, PTL

-----------------------------------------------------------------------------
(* Refinement of DiscordLink *)

\* A process that SIGPIPE ended had a connection whose other end was gone.
KilledInv == pc = "killed" => fd \in Sockets /\ ~theirs[fd]

LEMMA StepKilled == ASSUME TypeOK, KilledInv, [Next]_vars PROVE KilledInv'
<1> USE DEF client, sockets
<1>1. CASE WriteHandshake \/ WriteRequest
  <2>1. pc \in {"hello", "write"} /\ fd \in Sockets /\ theirs' = theirs
    BY <1>1, Facts DEF WriteHandshake, WriteRequest
  <2>2. pc' = "killed" => WriteFails /\ fd' = fd
    BY <1>1 DEF WriteHandshake, WriteRequest, FailOr, NextEndpoint, GiveUp, Finish
  <2> QED  BY <2>1, <2>2 DEF KilledInv, WriteFails
<1>2. CASE \/ CallDisconnect \/ CallClearActivity
           \/ \E activity \in Activities : CallSetActivity(activity)
           \/ Connect \/ ReadHandshake \/ ReadAnswer
  <2>1. pc' # "killed"
    BY <1>2 DEF CallDisconnect, CallClearActivity, CallSetActivity, Connect, ReadHandshake,
                ReadAnswer, NextEndpoint, GiveUp, Finish
  <2> QED  BY <2>1 DEF KilledInv
<1>3. CASE \/ \E s \in Sockets, oversize \in BOOLEAN : Handle(s, oversize)
           \/ \E s \in Sockets : RefuseHandshake(s)
           \/ \E s \in Sockets : SeeClose(s)
           \/ \E e \in Endpoints : Quit(e)
           \/ \E e \in Endpoints : Start(e)
           \/ UNCHANGED vars
  <2>1. UNCHANGED <<pc, fd>>
    BY <1>3 DEF Handle, RefuseHandshake, SeeClose, Quit, Start, vars
  <2>2. \A s \in Sockets : ~theirs[s] => ~theirs'[s]
    BY <1>3, Facts DEF Handle, RefuseHandshake, SeeClose, Quit, Start, vars
  <2> QED  BY <2>1, <2>2 DEF KilledInv
<1> QED  BY StepCases, <1>1, <1>2, <1>3

LinkInv == IInv /\ KilledInv

LEMMA InitLink == Init => L!Init
BY DEF Init, L!Init

\* Each action of the client or of Discord is one of the link, or a stutter.
LEMMA StepLink == ASSUME LinkInv, [Next]_vars PROVE [L!Next]_(L!vars)
<1> USE DEF client, sockets, LinkInv, IInv
<1> DEFINE Shown == IF fd = NoSocket THEN Dark ELSE shows[fd]
<1>1. CASE CallDisconnect
  BY <1>1 DEF CallDisconnect, Disconnect, L!Next, L!HangUp
<1>2. CASE CallClearActivity
  <2>1. CASE fd = NoSocket
    BY <1>2, <2>1 DEF CallClearActivity, Finish, L!Next, L!CallInVain
  <2>2. CASE fd # NoSocket
    <3>1. L!Call(Dark)  BY <1>2, <2>2 DEF CallClearActivity, L!Call
    <3> QED  BY <3>1 DEF L!Next
  <2> QED  BY <2>1, <2>2
<1>3. CASE \E activity \in Activities : CallSetActivity(activity)
  <2>1. PICK activity \in Activities : CallSetActivity(activity)  BY <1>3
  <2>2. activity # Dark  BY IpcAssumption
  <2>3. pc = "idle" /\ pc' # "idle" /\ ~done' /\ wish' = activity /\ UNCHANGED <<ok, fd, shows>>
    BY <2>1 DEF CallSetActivity
  <2>4. L!Call(activity)  BY <2>2, <2>3 DEF L!Call
  <2> QED  BY <2>4 DEF L!Next
<1>4. CASE Connect
  <2>1. UNCHANGED <<wish, done, shows>> /\ pc = "connect" /\ fd = NoSocket /\ ~done /\ wish # Dark
    BY <1>4, Facts DEF Connect, DialogInv
  <2>2. CASE pc' = "hello"
    <3>1. PICK s \in Sockets : ~ours[s] /\ ~theirs[s] /\ fd' = s /\ ok' = ok
      BY <1>4, <2>2 DEF Connect, Finish
    <3>2. shows[s] = Dark  BY <3>1 DEF LineInv
    <3>3. L!Reconnect  BY <2>1, <2>2, <3>1, <3>2 DEF L!Reconnect
    <3> QED  BY <3>3 DEF L!Next
  <2>3. CASE pc' = "idle"
    <3>1. fd' = NoSocket /\ ok' = FALSE  BY <1>4, <2>1, <2>3 DEF Connect, Finish
    <3>2. L!Fail  BY <2>1, <2>3, <3>1 DEF L!Fail
    <3> QED  BY <3>2 DEF L!Next
  <2>4. CASE pc' \notin {"hello", "idle"}
    <3>1. UNCHANGED <<pc, fd, ok>>  BY <1>4, <2>4 DEF Connect, Finish
    <3> QED  BY <2>1, <3>1 DEF L!vars
  <2> QED  BY <2>2, <2>3, <2>4
<1>5. CASE WriteHandshake
  <2>1. UNCHANGED <<wish, done, shows, ok>> /\ pc = "hello" /\ fd # NoSocket /\ ~done
        /\ wish # Dark /\ shows[fd] = Dark
    BY <1>5, Facts DEF WriteHandshake, FailOr, DialogInv
  <2>2. CASE WriteFails /\ ~PipeKills
    <3>1. pc' = "connect" /\ fd' = NoSocket
      BY <1>5, <2>2 DEF WriteHandshake, FailOr, NextEndpoint, Disconnect
    <3>2. L!Reconnect  BY <2>1, <3>1 DEF L!Reconnect
    <3> QED  BY <3>2 DEF L!Next
  <2>3. CASE ~WriteFails \/ PipeKills
    <3>1. pc' # "idle" /\ fd' = fd  BY <1>5, <2>3 DEF WriteHandshake, FailOr, Sends
    <3> QED  BY <2>1, <3>1 DEF L!vars
  <2> QED  BY <2>2, <2>3
<1>6. CASE ReadHandshake
  <2>1. UNCHANGED <<wish, done, shows, ok>> /\ pc = "welcome" /\ fd # NoSocket /\ ~done
        /\ wish # Dark /\ shows[fd] = Dark
    BY <1>6, Facts DEF ReadHandshake, DialogInv
  <2>2. CASE ~ReadsFrame
    <3>1. pc' = "connect" /\ fd' = NoSocket
      BY <1>6, <2>2 DEF ReadHandshake, NextEndpoint, Disconnect
    <3>2. L!Reconnect  BY <2>1, <3>1 DEF L!Reconnect
    <3> QED  BY <3>2 DEF L!Next
  <2>3. CASE ReadsFrame
    <3>1. pc' # "idle" /\ fd' = fd  BY <1>6, <2>3 DEF ReadHandshake, TakesFrame
    <3> QED  BY <2>1, <3>1 DEF L!vars
  <2> QED  BY <2>2, <2>3
<1>7. CASE WriteRequest
  <2>1. UNCHANGED <<wish, done, shows>> /\ pc = "write" /\ fd # NoSocket /\ ~done
    BY <1>7, Facts DEF WriteRequest, FailOr, DialogInv
  <2>2. CASE WriteFails /\ ~PipeKills
    <3>1. pc' = "idle" /\ ok' = FALSE /\ fd' = NoSocket
      BY <1>7, <2>2 DEF WriteRequest, FailOr, GiveUp, Finish, Disconnect
    <3>2. L!Fail  BY <2>1, <3>1 DEF L!Fail
    <3> QED  BY <3>2 DEF L!Next
  <2>3. CASE ~WriteFails \/ PipeKills
    <3>1. pc' # "idle" /\ fd' = fd /\ ok' = ok  BY <1>7, <2>3 DEF WriteRequest, FailOr, Sends
    <3> QED  BY <2>1, <3>1 DEF L!vars
  <2> QED  BY <2>2, <2>3
<1>8. CASE ReadAnswer
  <2>1. UNCHANGED <<wish, done, shows>> /\ pc = "read"
    BY <1>8 DEF ReadAnswer
  <2>2. CASE ReadsFrame
    <3>1. pc' = "idle" /\ ok' = TRUE /\ fd' = fd
      BY <1>8, <2>2 DEF ReadAnswer, TakesFrame, Finish
    <3>2. done  BY <1>8, <2>2, FrameRead DEF ReadAnswer
    <3>3. L!Succeed  BY <2>1, <3>1, <3>2 DEF L!Succeed
    <3> QED  BY <3>3 DEF L!Next
  <2>3. CASE ~ReadsFrame
    <3>1. pc' = "idle" /\ ok' = FALSE /\ fd' = NoSocket
      BY <1>8, <2>3 DEF ReadAnswer, GiveUp, Finish, Disconnect
    <3>2. L!Fail  BY <2>1, <3>1 DEF L!Fail
    <3> QED  BY <3>2 DEF L!Next
  <2> QED  BY <2>2, <2>3
<1>9. CASE \E s \in Sockets, oversize \in BOOLEAN : Handle(s, oversize)
  <2>1. PICK s \in Sockets, o \in BOOLEAN : Handle(s, o)  BY <1>9
  <2>2. PICK r \in Request : requests[s] = <<r>> /\ (r.nonce = Hello => shows[s] = Dark)
    BY <2>1 DEF Handle, LineInv
  <2>3. /\ shows' = [shows EXCEPT ![s] = r.show] /\ theirs[s]
        /\ UNCHANGED <<pc, wish, fd, ok>>
        /\ done' = (done \/ (s = fd /\ pc = "read"))
    BY <2>1, <2>2, Singles DEF Handle
  <2>4. CASE s # fd \/ pc = "idle"
    <3>1. pc = "idle" => s # fd  BY <2>2, Singles, Facts DEF DialogInv, Quiet
    <3>2. Shown' = Shown /\ done' = done  BY <2>3, <2>4, <3>1, Facts DEF TypeOK
    <3> QED  BY <2>3, <3>2 DEF L!vars
  <2>5. CASE s = fd /\ pc # "idle"
    <3>1. fd \in Sockets /\ fd # NoSocket /\ pc # "connect"  BY <2>5, Facts
    <3>2. ~Quiet(fd) /\ pc # "killed"  BY <2>2, <2>3, <2>5, Singles DEF Quiet, KilledInv
    <3>3. pc \in {"welcome", "read"}  BY <2>5, <3>1, <3>2 DEF DialogInv, TypeOK, Pcs
    <3>4. Shown = shows[fd] /\ Shown' = r.show  BY <2>3, <2>5, <3>1, Facts
    <3>5. CASE pc = "welcome"
      <4>1. r.show = Dark /\ shows[fd] = Dark /\ ~done  BY <2>2, <2>5, <3>5, Singles DEF DialogInv
      <4> QED  BY <2>3, <3>4, <3>5, <4>1 DEF L!vars
    <3>6. CASE pc = "read"
      <4>1. r.show = wish /\ ~done  BY <2>2, <2>5, <3>2, <3>6, Singles DEF DialogInv
      <4>2. L!Apply  BY <2>3, <2>5, <3>1, <3>4, <3>6, <4>1 DEF L!Apply
      <4> QED  BY <4>2 DEF L!Next
    <3> QED  BY <3>3, <3>5, <3>6
  <2> QED  BY <2>4, <2>5
<1>10. CASE \E s \in Sockets : RefuseHandshake(s)
  BY <1>10 DEF RefuseHandshake, L!vars
<1>11. CASE \E s \in Sockets : SeeClose(s)
  <2>1. PICK s \in Sockets : SeeClose(s)  BY <1>11
  <2>2. s # fd  BY <2>1 DEF SeeClose, OwnInv
  <2>3. UNCHANGED <<pc, wish, ok, done, fd>> /\ (fd \in Sockets => shows'[fd] = shows[fd])
    BY <2>1, <2>2, Facts DEF SeeClose
  <2> QED  BY <2>3, Facts DEF L!vars
<1>12. CASE \E e \in Endpoints : Quit(e)
  <2>1. UNCHANGED <<pc, wish, ok, done, fd>>  BY <1>12 DEF Quit
  <2>2. fd \in Sockets => shows'[fd] \in {shows[fd], Dark}
    BY <1>12 DEF Quit
  <2>3. Shown' = Shown \/ Shown' = Dark  BY <2>1, <2>2, Facts
  <2>4. CASE Shown' = Shown  BY <2>1, <2>4 DEF L!vars
  <2>5. CASE Shown' = Dark
    <3>1. L!Vanish  BY <2>1, <2>5 DEF L!Vanish
    <3> QED  BY <3>1 DEF L!Next
  <2> QED  BY <2>3, <2>4, <2>5
<1>13. CASE (\E e \in Endpoints : Start(e)) \/ UNCHANGED vars
  BY <1>13 DEF Start, vars, L!vars
<1> QED  BY StepCases, <1>1, <1>2, <1>3, <1>4, <1>5, <1>6, <1>7, <1>8, <1>9, <1>10,
            <1>11, <1>12, <1>13

\* The client, its sockets and any Discords do what DiscordLink promises the engine:
\* a call that returned true was carried out, one that returned false left no
\* connection behind (DiscordIpcClient).
THEOREM LinkImplemented == Spec => ImplementsLink
<1>1. Init => KilledInv  BY DEF Init, KilledInv
<1>2. LinkInv /\ [Next]_vars => LinkInv'  BY StepIInv, StepKilled DEF LinkInv, IInv
<1>3. Init => LinkInv  BY <1>1, InitIInv DEF LinkInv
<1> QED  BY <1>2, <1>3, InitLink, StepLink, PTL DEF Spec, ImplementsLink, L!Spec

=============================================================================
