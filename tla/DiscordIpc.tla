------------------------------ MODULE DiscordIpc ------------------------------
(***************************************************************************)
(* core::DiscordIpcClient over its transport, frame by frame: the search   *)
(* through the endpoints discord-ipc-0 to -9, the handshake, a request and *)
(* its answer - against Discord clients that start, quit, refuse an        *)
(* application id, send frames that are too long, and take their time to   *)
(* notice a closed connection.  Reads have no timeout.                     *)
(*                                                                         *)
(* A frame is written and read in one step: the two writes of WriteFrame   *)
(* concern one reader that waits for the whole frame.                      *)
(***************************************************************************)
EXTENDS Integers, Sequences, FiniteSets

CONSTANTS
    LastEndpoint,   \* 9 in the code
    Sockets,        \* connections that can exist at a time: a bound
    NoSocket,       \* _fd is -1, _pipe is INVALID_HANDLE_VALUE
    Activities,     \* what can be shown
    Dark,           \* an activity with no body: ClearActivity
    Nonces,         \* the counter of MakeNonce, modulo this bound
    PipeKills       \* SIGPIPE has its default action

Endpoints == 0 .. LastEndpoint
Hello == Nonces     \* the handshake, in the place of a nonce

ASSUME IpcAssumption ==
    /\ LastEndpoint \in Nat
    /\ NoSocket \notin Sockets
    /\ Dark \notin Activities
    /\ Nonces \in Nat \ {0, 1}
    /\ PipeKills \in BOOLEAN

VARIABLES
    \* the client
    pc,         \* where the call is
    wish,       \* what the call asks for
    index,      \* the endpoint Connect is at
    fd,         \* the transport's descriptor
    nonce,      \* the last nonce made
    got,        \* the nonce in the last answer; nobody looks at it
    ok,         \* the last call's result
    done,       \* Discord did what the call asked for: a history variable
    \* the sockets, by end
    ours,       \* our end is open
    theirs,     \* Discord's end is open
    at,         \* the endpoint it was made to
    requests,   \* frames on the way to Discord
    answers,    \* frames on the way to us
    shows,      \* what Discord shows for the connection
    \* Discord
    up          \* who listens at each endpoint

client == <<pc, wish, index, fd, nonce, got, ok, done>>
sockets == <<ours, theirs, at, requests, answers, shows>>
vars == <<client, sockets, up>>

Pcs == {"idle", "connect", "hello", "welcome", "write", "read", "killed"}
Request == [nonce : 0 .. Nonces - 1, show : Activities \cup {Dark}]
           \cup [nonce : {Hello}, show : {Dark}]
Answer == [nonce : 0 .. Hello, oversize : BOOLEAN]

Init ==
    /\ pc = "idle" /\ wish = Dark /\ index = 0 /\ fd = NoSocket
    /\ nonce = 0 /\ got = 0 /\ ok = FALSE /\ done = FALSE
    /\ ours = [s \in Sockets |-> FALSE]
    /\ theirs = [s \in Sockets |-> FALSE]
    /\ at = [s \in Sockets |-> 0]
    /\ requests = [s \in Sockets |-> <<>>]
    /\ answers = [s \in Sockets |-> <<>>]
    /\ shows = [s \in Sockets |-> Dark]
    /\ up \in [Endpoints -> BOOLEAN]

-----------------------------------------------------------------------------
(* The transport.  "Mutant" operators are the definition that follows them  *)
(* with a plausible bug; they are not part of the model.                    *)

\* close(): what Discord sent is lost, what we sent is still on its way.
MutantDisconnect ==
    /\ fd' = NoSocket
    /\ UNCHANGED <<ours, answers>>

Disconnect ==
    /\ fd' = NoSocket
    /\ IF fd = NoSocket THEN UNCHANGED <<ours, answers>>
       ELSE /\ ours' = [ours EXCEPT ![fd] = FALSE]
            /\ answers' = [answers EXCEPT ![fd] = <<>>]

\* write() to a connection whose other end is gone
WriteFails == ~theirs[fd]

\* WriteExact raises SIGPIPE on POSIX before it can return false.
FailOr(failure) ==
    IF PipeKills /\ WriteFails
    THEN /\ pc' = "killed"
         /\ UNCHANGED <<wish, index, fd, nonce, got, ok, ours, answers>>
    ELSE failure

Sends(frame) ==
    /\ requests' = [requests EXCEPT ![fd] = Append(@, frame)]
    /\ UNCHANGED <<ours, answers, fd>>

\* ReadExact blocks until there is a frame or an end of file.
CanRead == answers[fd] # <<>> \/ ~theirs[fd]

\* ReadFrame has a value: a frame came, of at most kMaxFrameSize.
ReadsFrame == answers[fd] # <<>> /\ ~Head(answers[fd]).oversize

TakesFrame ==
    /\ answers' = [answers EXCEPT ![fd] = Tail(@)]
    /\ UNCHANGED <<ours, fd>>

-----------------------------------------------------------------------------
(* The client *)

Finish(result) == pc' = "idle" /\ ok' = result

CallSetActivity(activity) ==
    /\ pc = "idle"
    /\ wish' = activity /\ done' = FALSE
    /\ index' = 0
    /\ pc' = IF fd = NoSocket THEN "connect" ELSE "write"
    /\ UNCHANGED <<fd, nonce, got, ok, sockets, up>>

CallClearActivity ==
    /\ pc = "idle"
    /\ IF fd = NoSocket THEN Finish(FALSE) /\ UNCHANGED <<wish, done>>
       ELSE wish' = Dark /\ pc' = "write" /\ done' = FALSE /\ UNCHANGED ok
    /\ UNCHANGED <<index, fd, nonce, got, sockets, up>>

\* The transport connects to the endpoint of the index, or the next one is tried.
Connect ==
    /\ pc = "connect"
    /\ \/ /\ index \in Endpoints /\ up[index]
          /\ \E s \in Sockets :
                /\ ~ours[s] /\ ~theirs[s]
                /\ fd' = s
                /\ ours' = [ours EXCEPT ![s] = TRUE]
                /\ theirs' = [theirs EXCEPT ![s] = TRUE]
                /\ at' = [at EXCEPT ![s] = index]
          /\ pc' = "hello"
          /\ UNCHANGED <<index, ok>>
       \/ /\ index \in Endpoints /\ ~up[index]
          /\ index' = index + 1
          /\ UNCHANGED <<pc, ok, fd, ours, theirs, at>>
       \/ /\ index \notin Endpoints
          /\ Finish(FALSE)
          /\ UNCHANGED <<index, fd, ours, theirs, at>>
    /\ UNCHANGED <<wish, nonce, got, done, requests, answers, shows, up>>

\* A handshake that fails: close, and try the next endpoint.
MutantNextEndpoint == Disconnect /\ pc' = "connect" /\ UNCHANGED index
NextEndpoint == Disconnect /\ pc' = "connect" /\ index' = index + 1

MutantWriteHandshake ==
    /\ pc = "hello"
    /\ IF WriteFails
       THEN FailOr(NextEndpoint /\ UNCHANGED <<wish, nonce, got, ok>>) /\ UNCHANGED requests
       ELSE /\ Sends([nonce |-> Hello, show |-> Dark])
            /\ pc' = "write"
            /\ UNCHANGED <<wish, index, nonce, got, ok>>
    /\ UNCHANGED <<done, theirs, at, shows, up>>

WriteHandshake ==
    /\ pc = "hello"
    /\ IF WriteFails
       THEN FailOr(NextEndpoint /\ UNCHANGED <<wish, nonce, got, ok>>) /\ UNCHANGED requests
       ELSE /\ Sends([nonce |-> Hello, show |-> Dark])
            /\ pc' = "welcome"
            /\ UNCHANGED <<wish, index, nonce, got, ok>>
    /\ UNCHANGED <<done, theirs, at, shows, up>>

\* Any frame will do, a refusal too.
ReadHandshake ==
    /\ pc = "welcome" /\ CanRead
    /\ IF ReadsFrame THEN TakesFrame /\ pc' = "write" /\ UNCHANGED index
                     ELSE NextEndpoint
    /\ UNCHANGED <<wish, nonce, got, ok, done, theirs, at, requests, shows, up>>

GiveUp == Disconnect /\ Finish(FALSE)

\* TrySend: write the request ...
MutantWriteRequest ==
    /\ pc = "write"
    /\ nonce' = (nonce + 1) % Nonces
    /\ got' = nonce'
    /\ IF WriteFails
       THEN GiveUp /\ UNCHANGED <<wish, index, requests>>
       ELSE /\ Sends([nonce |-> nonce', show |-> wish])
            /\ Finish(TRUE)
            /\ UNCHANGED <<wish, index>>
    /\ UNCHANGED <<done, theirs, at, shows, up>>

WriteRequest ==
    /\ pc = "write"
    /\ IF WriteFails
       THEN FailOr(GiveUp /\ nonce' = (nonce + 1) % Nonces
                          /\ UNCHANGED <<wish, index, got>>) /\ UNCHANGED requests
       ELSE /\ nonce' = (nonce + 1) % Nonces
            /\ Sends([nonce |-> nonce', show |-> wish])
            /\ pc' = "read"
            /\ UNCHANGED <<wish, index, got, ok>>
    /\ UNCHANGED <<done, theirs, at, shows, up>>

\* ... and read one frame, whatever it says.
ReadAnswer ==
    /\ pc = "read" /\ CanRead
    /\ IF ReadsFrame
       THEN TakesFrame /\ got' = Head(answers[fd]).nonce /\ Finish(TRUE)
       ELSE GiveUp /\ UNCHANGED got
    /\ UNCHANGED <<wish, index, nonce, done, theirs, at, requests, shows, up>>

\* The engine gives the connection up: new settings, a sleep, the end.
CallDisconnect ==
    /\ pc = "idle"
    /\ Disconnect
    /\ UNCHANGED <<pc, wish, index, nonce, got, ok, done, theirs, at, requests, shows, up>>

Call == CallDisconnect \/ CallClearActivity \/ \E activity \in Activities : CallSetActivity(activity)
Client == Connect \/ WriteHandshake \/ ReadHandshake \/ WriteRequest \/ ReadAnswer

-----------------------------------------------------------------------------
(* Discord *)

Replies(s, oversize) ==
    answers' = [answers EXCEPT
        ![s] = IF ours[s]
               THEN Append(@, [nonce |-> Head(requests[s]).nonce, oversize |-> oversize])
               ELSE <<>>]

\* One frame in, one frame out.
Handle(s, oversize) ==
    /\ theirs[s] /\ requests[s] # <<>>
    /\ requests' = [requests EXCEPT ![s] = Tail(@)]
    /\ shows' = [shows EXCEPT ![s] = Head(requests[s]).show]
    /\ Replies(s, oversize)
    /\ done' = (done \/ (s = fd /\ pc = "read"))
    /\ UNCHANGED <<pc, wish, index, fd, nonce, got, ok, ours, theirs, at, up>>

\* An unknown application id is answered, and the connection closed.
RefuseHandshake(s) ==
    /\ theirs[s] /\ requests[s] # <<>> /\ Head(requests[s]).nonce = Hello
    /\ requests' = [requests EXCEPT ![s] = <<>>]
    /\ theirs' = [theirs EXCEPT ![s] = FALSE]
    /\ Replies(s, FALSE)
    /\ UNCHANGED <<client, ours, at, shows, up>>

\* Discord reads the end of file, after what was sent before it.
SeeClose(s) ==
    /\ theirs[s] /\ ~ours[s] /\ requests[s] = <<>>
    /\ theirs' = [theirs EXCEPT ![s] = FALSE]
    /\ shows' = [shows EXCEPT ![s] = Dark]
    /\ UNCHANGED <<client, ours, at, requests, answers, up>>

Serve(s) ==
    \/ \E oversize \in BOOLEAN : Handle(s, oversize)
    \/ RefuseHandshake(s)
    \/ SeeClose(s)

Quit(e) ==
    /\ up[e]
    /\ up' = [up EXCEPT ![e] = FALSE]
    /\ LET gone == {s \in Sockets : at[s] = e}
       IN  /\ theirs' = [s \in Sockets |-> theirs[s] /\ s \notin gone]
           /\ shows' = [s \in Sockets |-> IF s \in gone THEN Dark ELSE shows[s]]
           /\ requests' = [s \in Sockets |-> IF s \in gone THEN <<>> ELSE requests[s]]
    /\ UNCHANGED <<client, ours, at, answers>>

Start(e) ==
    /\ ~up[e]
    /\ up' = [up EXCEPT ![e] = TRUE]
    /\ UNCHANGED <<client, sockets>>

Discord ==
    \/ \E s \in Sockets : Serve(s)
    \/ \E e \in Endpoints : Quit(e) \/ Start(e)

Next == Call \/ Client \/ Discord

\* The worker runs; Discord promises nothing.
Spec == Init /\ [][Next]_vars /\ WF_vars(Client)

-----------------------------------------------------------------------------
(* Properties *)

\* The types; and frames are written and read on an open connection only
\* (DiscordIpcClient and its transport, whose _fd may be -1).
TypeOK ==
    /\ pc \in {"hello", "welcome", "write", "read"} => fd # NoSocket
    /\ fd # NoSocket => ours[fd]
    /\ pc = "connect" => fd = NoSocket
    /\ pc \in Pcs
    /\ wish \in Activities \cup {Dark}
    /\ index \in 0 .. LastEndpoint + 1
    /\ pc \in {"hello", "welcome"} => index \in Endpoints
    /\ fd \in Sockets \cup {NoSocket}
    /\ nonce \in 0 .. Nonces - 1
    /\ got \in 0 .. Hello
    /\ ok \in BOOLEAN /\ done \in BOOLEAN
    /\ ours \in [Sockets -> BOOLEAN] /\ theirs \in [Sockets -> BOOLEAN]
    /\ at \in [Sockets -> Endpoints]
    /\ requests \in [Sockets -> Seq(Request)]
    /\ answers \in [Sockets -> Seq(Answer)]
    /\ shows \in [Sockets -> Activities \cup {Dark}]
    /\ up \in [Endpoints -> BOOLEAN]

\* The frame a call takes for its answer is the answer to its own request, not
\* to the handshake or to an earlier call that failed (TrySend, which does not
\* look at the nonce, and the Disconnect after every failure).
AnswerIsOwn == pc = "idle" /\ ok => got = nonce

\* The client has no open connection but the one it knows of: none that a failed
\* handshake or a failed call left behind, in which Discord would go on showing
\* an old activity (Connect, TrySend, Disconnect).
NoForgottenSocket == \A s \in Sockets : ours[s] => s = fd

\* A call returns if the Discords it talks to serve their connections; there is
\* no timeout, so it need not otherwise (ReadExact).
Served == \A s \in Sockets : WF_vars(Serve(s))
CallReturns == Served => (pc # "idle" ~> pc = "idle")

\* The client does what module DiscordLink says.
L == INSTANCE DiscordLink WITH
        phase <- IF pc = "idle" THEN "idle" ELSE IF done THEN "applied" ELSE "called",
        open <- fd # NoSocket,
        shown <- IF fd = NoSocket THEN Dark ELSE shows[fd]

ImplementsLink == L!Spec

-----------------------------------------------------------------------------
(* What a comment says, and POSIX does not do by itself *)

\* "Discord likely closed/restarted - drop the connection so the next call
\* reconnects": a Discord that goes away does not take the process with it.
SurvivesDiscord == pc # "killed"
=============================================================================
