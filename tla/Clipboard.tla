------------------------------ MODULE Clipboard ------------------------------
(***************************************************************************)
(* CopyToClipboard on Linux: a text goes to the first clipboard tool that  *)
(* takes it, and to a file when none does.  The tools are processes of     *)
(* their own; the main loop learns of their exit, of a broken pipe and of  *)
(* its own timeout in any order, and a second click can start a second     *)
(* chain meanwhile.                                                        *)
(***************************************************************************)
EXTENDS Integers, SequencesExt

CONSTANTS
    Clicks,     \* the clicks on Copy Diagnostic Info
    Installed   \* bound: how many of wl-copy, xclip and xsel are tried at most

ASSUME ClipboardAssumption == Installed \in Nat

VARIABLES
    ignored,    \* SIGPIPE is ignored
    trayAlive,  \* the tray's process
    phase,      \* of a click: "idle", "pending" (PendingCommand), "done"
    remaining,  \* how many remainingCommands there are
    tools,      \* its processes, in order: "running", "succeeded", "failed"
    timers,     \* the timeout sources of the main loop, by what they point to
    timeoutId,  \* it is not zero
    stdin,      \* of the last tool: "unwritten", "written"
    result,     \* of the communication with it: "none", "exited", "error"
    fallback    \* the text was written to the fallback file

clip == <<phase, remaining, tools, timers, timeoutId, stdin, result, fallback>>
clipVars == <<ignored, trayAlive, clip>>

ClipInit ==
    /\ ignored = FALSE /\ trayAlive = TRUE
    /\ phase = [c \in Clicks |-> "idle"]
    /\ remaining = [c \in Clicks |-> 0]
    /\ tools = [c \in Clicks |-> <<>>]
    /\ timers = {}
    /\ timeoutId = [c \in Clicks |-> FALSE]
    /\ stdin = [c \in Clicks |-> "unwritten"]
    /\ result = [c \in Clicks |-> "none"]
    /\ fallback = [c \in Clicks |-> FALSE]

\* a PendingCommand: the click it is for and what it leaves to be tried
Pending(c) == <<c, remaining[c]>>

-----------------------------------------------------------------------------
(* "Mutant" operators are the definition that follows them with a plausible  *)
(* bug; they are not part of the model.                                      *)

WriteFallbackFile(c) ==
    /\ phase' = [phase EXCEPT ![c] = "done"]
    /\ remaining' = [remaining EXCEPT ![c] = 0]
    /\ timeoutId' = [timeoutId EXCEPT ![c] = FALSE]
    \* an unwritable directory leaves no file
    /\ \E written \in BOOLEAN : fallback' = [fallback EXCEPT ![c] = written]
    /\ UNCHANGED <<tools, stdin, result>>

\* TryNextClipboardCommand with n commands to try and these timers: a command that
\* cannot be spawned is skipped at once.
TryNextClipboardCommand(c, n, others) ==
    \/ WriteFallbackFile(c) /\ timers' = others
    \/ \E rest \in 0 .. n - 1 :
           /\ phase' = [phase EXCEPT ![c] = "pending"]
           /\ remaining' = [remaining EXCEPT ![c] = rest]
           /\ tools' = [tools EXCEPT ![c] = Append(@, "running")]
           /\ timers' = others \cup {<<c, rest>>}
           /\ timeoutId' = [timeoutId EXCEPT ![c] = TRUE]
           /\ stdin' = [stdin EXCEPT ![c] = "unwritten"]
           /\ result' = [result EXCEPT ![c] = "none"]
           /\ UNCHANGED fallback

\* a writer that dies with its reader
MutantEnsureSigpipeIgnored == ignored' = ignored

EnsureSigpipeIgnored == ignored' = TRUE

CopyToClipboard(c) ==
    /\ trayAlive /\ phase[c] = "idle"
    /\ EnsureSigpipeIgnored
    /\ \E n \in 0 .. Installed : TryNextClipboardCommand(c, n, timers)
    /\ UNCHANGED trayAlive

-----------------------------------------------------------------------------
(* The tools, and what GLib does for g_subprocess_communicate_async *)

Set(f, c, value) == [f EXCEPT ![c] = value]

\* A tool ends; wl-copy does not until another program takes the clipboard.  An
\* abandoned tool runs on.
ToolEnds(c) ==
    \E i \in DOMAIN tools[c] :
        /\ tools[c][i] = "running"
        /\ \E how \in {"succeeded", "failed"} : tools' = [tools EXCEPT ![c][i] = how]
        /\ UNCHANGED <<ignored, trayAlive, phase, remaining, timers, timeoutId, stdin, result,
                       fallback>>

\* The text is written to the tool.  Its end of the pipe is gone when it has ended:
\* SIGPIPE, or an error of the communication when that is ignored.
WriteText(c) ==
    /\ trayAlive /\ phase[c] = "pending" /\ stdin[c] = "unwritten" /\ result[c] = "none"
    /\ IF Last(tools[c]) = "running"
       THEN stdin' = Set(stdin, c, "written") /\ UNCHANGED <<trayAlive, result>>
       ELSE IF ignored THEN result' = Set(result, c, "error") /\ UNCHANGED <<trayAlive, stdin>>
       ELSE trayAlive' = FALSE /\ UNCHANGED <<result, stdin>>
    /\ UNCHANGED <<ignored, phase, remaining, tools, timers, timeoutId, fallback>>

CommunicationEnds(c) ==
    /\ trayAlive /\ phase[c] = "pending" /\ result[c] = "none"
    /\ stdin[c] = "written" /\ Last(tools[c]) # "running"
    /\ result' = Set(result, c, "exited")
    /\ UNCHANGED <<ignored, trayAlive, phase, remaining, tools, timers, timeoutId, stdin, fallback>>

-----------------------------------------------------------------------------
(* Callbacks of the main loop *)

\* a wait that goes on
MutantOnCommandTimeout(c, n) ==
    /\ trayAlive /\ <<c, n>> \in timers
    /\ timers' = timers \ {<<c, n>>}
    /\ timeoutId' = Set(timeoutId, c, FALSE)
    /\ UNCHANGED <<ignored, trayAlive, phase, remaining, tools, stdin, result, fallback>>

\* A cancelled task reports that it was cancelled, also when its result was there
\* already and waits to be dispatched.
OnCommandTimeout(c, n) ==
    /\ trayAlive /\ <<c, n>> \in timers
    /\ timers' = timers \ {<<c, n>>}
    /\ timeoutId' = Set(timeoutId, c, FALSE)
    /\ result' = Set(result, c, "error")
    /\ UNCHANGED <<ignored, trayAlive, phase, remaining, tools, stdin, fallback>>

\* a tool that is still running counts as one that failed
MutantTreatAsSuccess(c) == result[c] = "exited" /\ Last(tools[c]) = "succeeded"

\* A wait that ended without an exit is taken for the timeout's.
TreatAsSuccess(c) == result[c] = "exited" => Last(tools[c]) = "succeeded"

\* the timeout is left to itself
MutantRemoveTimeout(c) == timers

RemoveTimeout(c) == IF timeoutId[c] THEN timers \ {Pending(c)} ELSE timers

OnClipboardCommandDone(c) ==
    /\ trayAlive /\ phase[c] = "pending" /\ result[c] # "none"
    /\ IF TreatAsSuccess(c)
       THEN /\ phase' = Set(phase, c, "done")
            /\ timers' = RemoveTimeout(c) /\ timeoutId' = Set(timeoutId, c, FALSE)
            /\ UNCHANGED <<remaining, tools, stdin, result, fallback>>
       ELSE TryNextClipboardCommand(c, remaining[c], RemoveTimeout(c))
    /\ UNCHANGED <<ignored, trayAlive>>

-----------------------------------------------------------------------------
MainLoop(c) ==
    \/ WriteText(c) \/ CommunicationEnds(c) \/ OnClipboardCommandDone(c)
    \/ \E n \in 0 .. Installed : OnCommandTimeout(c, n)

ClipNext == \E c \in Clicks : CopyToClipboard(c) \/ ToolEnds(c) \/ MainLoop(c)

ClipSpec == ClipInit /\ [][ClipNext]_clipVars

\* The main loop runs its callbacks and time passes; the tools promise nothing.
Fairness == \A c \in Clicks : WF_clipVars(MainLoop(c))

FairClipSpec == ClipSpec /\ Fairness

-----------------------------------------------------------------------------
(* Properties *)

ClipTypeOK ==
    /\ {ignored, trayAlive} \subseteq BOOLEAN
    /\ phase \in [Clicks -> {"idle", "pending", "done"}]
    /\ remaining \in [Clicks -> 0 .. Installed]
    /\ tools \in [Clicks -> Seq({"running", "succeeded", "failed"})]
    /\ timers \subseteq Clicks \X (0 .. Installed)
    /\ timeoutId \in [Clicks -> BOOLEAN] /\ fallback \in [Clicks -> BOOLEAN]
    /\ stdin \in [Clicks -> {"unwritten", "written"}]
    /\ result \in [Clicks -> {"none", "exited", "error"}]

\* No timeout fires on a command that is deleted, and the next command's is not
\* removed in its place, in whatever order timeout, exit and broken pipe are served
\* (OnCommandTimeout, OnClipboardCommandDone).
NoTimeoutOutlivesCommand ==
    /\ \A t \in timers : phase[t[1]] = "pending" /\ t = Pending(t[1])
    /\ \A c \in Clicks : timeoutId[c] <=> Pending(c) \in timers /\ phase[c] = "pending"

\* The text goes to the file only when every tool that ran had failed: no tool has
\* it, and none that still runs will (OnClipboardCommandDone's treatAsSuccess).
FileIsLastResort ==
    \A c \in Clicks : fallback[c] => ToSet(tools[c]) \subseteq {"failed"}

\* Every click ends, though wl-copy never exits (kToolPatienceMs, OnCommandTimeout)
\* and though a tool may close its end before it has read the text, which must not
\* take the tray with it (EnsureSigpipeIgnored).
EveryClickEnds == \A c \in Clicks : phase[c] = "pending" ~> phase[c] = "done"

\* "Our timeout cancelled the wait - the tool is still running" (Clipboard.cpp:128-130)
UnfinishedMeansRunning ==
    [][\A c \in Clicks : OnClipboardCommandDone(c) /\ result[c] = "error"
                             => Last(tools[c]) = "running"]_clipVars
=============================================================================
