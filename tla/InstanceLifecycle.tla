-------------------------- MODULE InstanceLifecycle --------------------------
(***************************************************************************)
(* FeatherRPC processes on Linux from exec to exit - the single-instance   *)
(* lock, the pidfile, the signals - and the command-line tool that finds   *)
(* and steers them through the pidfile (`daemon start|stop|restart`, and   *)
(* the reload every `set` command ends with).  Processes are started by    *)
(* the user, by autostart or by the tool; any of them may crash.           *)
(*                                                                         *)
(* A process id is used once: the reuse of ids is not modelled.            *)
(***************************************************************************)
EXTENDS Integers, FiniteSets

CONSTANTS
    Pids,           \* process ids still to be given out
    NoPid,          \* no process
    UserModes,      \* how the user or autostart launches the application
    Commands,       \* the commands given to the tool
    MayCrash,       \* whether a process can crash
    WaitChecks      \* how many times waitUntil looks (10 or 15 in the code)

Signals == {"HUP", "TERM"}
Modes == {"tray", "headless"}

ASSUME LifecycleAssumption ==
    /\ NoPid \notin Pids
    /\ UserModes \subseteq Modes
    /\ Commands \subseteq {"start", "stop", "restart", "reload"}
    /\ MayCrash \in BOOLEAN
    /\ WaitChecks \in Nat \ {0}

VARIABLES
    pc,         \* where each process is in main()
    mode,       \* tray or headless (--no-tray)
    exitCode,   \* how a process ended, or what main will return
    caught,     \* signals that are blocked or handled, not fatal
    pending,    \* signals delivered and not yet acted on
    lockRefs,   \* processes that have the locked file description open
    helpers,    \* processes with a launched child that holds their descriptors
    pidfile,    \* the id in the pidfile; NoPid when it is missing or empty
    cli         \* the command-line tool, see CliPcs

vars == <<pc, mode, exitCode, caught, pending, lockRefs, helpers, pidfile, cli>>

\* main() of a process, tray and headless
ProcPcs == {"unborn", "lock", "block", "truncate", "write", "create", "hookHup",
            "hookTerm", "run", "prompt", "unhook", "stop", "readPid", "removePid",
            "return", "dead"}

\* 0, 1, 75, killed by a signal, crashed; "none" before that
ExitCodes == {"none", "ok", "failed", "refused", "signal", "crash"}

Alive(p) == pc[p] \notin {"unborn", "dead"}

\* past TryAcquire, and alive
Holders == {p \in Pids : Alive(p) /\ pc[p] # "lock"}

\* The tool is idle or in IsRunning ("check"), RequestReload or RequestQuit
\* ("signal"), waitUntil ("waitOff", "waitOn") or SpawnDaemon ("spawn",
\* "confirm").  The first five read the pidfile, then signal what it named.
CliPcs == {"idle", "check", "signal", "waitOff", "spawn", "confirm", "waitOn"}

\* pid and hasRead: what the pidfile said, once it is read; left: looks of
\* waitUntil to go; child: the process spawned; said: the outcome the last
\* command printed
IdleCli == [pc |-> "idle", cmd |-> "none", hasRead |-> FALSE, pid |-> NoPid,
            left |-> 0, child |-> NoPid, said |-> "nothing"]

Sayings == {"nothing", "Started", "AlreadyRunning", "Failed", "Unconfirmed",
            "Stopped", "NotRunning", "StillRunning", "Restarted", "AppliedLive",
            "NextStart"}

Init ==
    /\ pc = [p \in Pids |-> "unborn"]
    /\ mode = [p \in Pids |-> "tray"]
    /\ exitCode = [p \in Pids |-> "none"]
    /\ caught = [p \in Pids |-> {}]
    /\ pending = [p \in Pids |-> {}]
    /\ lockRefs = {}
    /\ helpers = {}
    /\ pidfile = NoPid
    /\ cli = IdleCli

-----------------------------------------------------------------------------
(* A process.  "Mutant" operators are the definition that follows them with *)
(* a plausible bug; they are not part of the model.                         *)

GoTo(p, where) == pc' = [pc EXCEPT ![p] = where]

\* The kernel closes the descriptors of a process that ends and forgets its
\* signals; children that inherited the descriptors keep theirs.
Die(p, code) ==
    /\ GoTo(p, "dead")
    /\ exitCode' = [exitCode EXCEPT ![p] = code]
    /\ lockRefs' = lockRefs \ {p}
    /\ caught' = [caught EXCEPT ![p] = {}]
    /\ pending' = [pending EXCEPT ![p] = {}]

\* exec by the user, autostart or a login manager
Launch(p, m) ==
    /\ pc[p] = "unborn"
    /\ GoTo(p, "lock")
    /\ mode' = [mode EXCEPT ![p] = m]
    /\ UNCHANGED <<exitCode, caught, pending, lockRefs, helpers, pidfile, cli>>

\* flock(LOCK_EX | LOCK_NB) of a fresh description fails while any process has
\* the locked one open, a child that inherited it included.
MutantLockFree == helpers = {} /\ \A p \in lockRefs : pc[p] # "run"

LockFree == lockRefs = {} /\ helpers = {}

AfterLock(p) == IF mode[p] = "headless" THEN "block" ELSE "truncate"

TryAcquire(p) ==
    /\ pc[p] = "lock"
    /\ IF LockFree
       THEN /\ lockRefs' = {p}
            /\ GoTo(p, AfterLock(p))
            /\ UNCHANGED <<exitCode, caught, pending>>
       ELSE Die(p, "refused")
    /\ UNCHANGED <<mode, helpers, pidfile, cli>>

\* sigprocmask, headless only, before the pidfile makes the process known
MutantBlockSignals(p) ==
    /\ pc[p] = "block"
    /\ GoTo(p, "truncate")
    /\ UNCHANGED <<mode, exitCode, caught, pending, lockRefs, helpers, pidfile, cli>>

BlockSignals(p) ==
    /\ pc[p] = "block"
    /\ caught' = [caught EXCEPT ![p] = Signals]
    /\ GoTo(p, "truncate")
    /\ UNCHANGED <<mode, exitCode, pending, lockRefs, helpers, pidfile, cli>>

\* DaemonWritePidFile: the open truncates, the write comes later.
TruncatePidFile(p) ==
    /\ pc[p] = "truncate"
    /\ pidfile' = NoPid
    /\ GoTo(p, "write")
    /\ UNCHANGED <<mode, exitCode, caught, pending, lockRefs, helpers, cli>>

WritePidFile(p) ==
    /\ pc[p] = "write"
    /\ pidfile' = p
    /\ GoTo(p, IF mode[p] = "headless" THEN "run" ELSE "create")
    /\ UNCHANGED <<mode, exitCode, caught, pending, lockRefs, helpers, cli>>

\* tray.Create(), which fails without a session bus; the failure path removes
\* the pidfile too.
CreateTray(p) ==
    /\ pc[p] = "create"
    /\ \/ GoTo(p, "hookHup") /\ UNCHANGED exitCode
       \/ GoTo(p, "readPid") /\ exitCode' = [exitCode EXCEPT ![p] = "failed"]
    /\ UNCHANGED <<mode, caught, pending, lockRefs, helpers, pidfile, cli>>

\* RunMessageLoop: g_unix_signal_add(SIGHUP), then (SIGTERM)
HookHup(p) ==
    /\ pc[p] = "hookHup"
    /\ caught' = [caught EXCEPT ![p] = @ \cup {"HUP"}]
    /\ GoTo(p, "hookTerm")
    /\ UNCHANGED <<mode, exitCode, pending, lockRefs, helpers, pidfile, cli>>

HookTerm(p) ==
    /\ pc[p] = "hookTerm"
    /\ caught' = [caught EXCEPT ![p] = @ \cup {"TERM"}]
    /\ GoTo(p, "run")
    /\ UNCHANGED <<mode, exitCode, pending, lockRefs, helpers, pidfile, cli>>

\* sigwait or the main loop takes SIGHUP and reloads the configuration.
Reload(p) ==
    /\ pc[p] = "run" /\ "HUP" \in pending[p]
    /\ pending' = [pending EXCEPT ![p] = @ \ {"HUP"}]
    /\ UNCHANGED <<pc, mode, exitCode, caught, lockRefs, helpers, pidfile, cli>>

MutantQuit(p) ==
    /\ pc[p] = "run" /\ "TERM" \in pending[p]
    /\ GoTo(p, IF mode[p] = "headless" THEN "stop" ELSE "run")
    /\ UNCHANGED <<mode, exitCode, caught, pending, lockRefs, helpers, pidfile, cli>>

\* The headless loop breaks.  The tray's thunk also drops its own source, which
\* puts SIGTERM back to its default action.
Quit(p) ==
    /\ pc[p] = "run" /\ "TERM" \in pending[p]
    /\ pending' = [pending EXCEPT ![p] = @ \ {"TERM"}]
    /\ IF mode[p] = "headless"
       THEN GoTo(p, "stop") /\ UNCHANGED caught
       ELSE GoTo(p, "unhook") /\ caught' = [caught EXCEPT ![p] = @ \ {"TERM"}]
    /\ UNCHANGED <<mode, exitCode, lockRefs, helpers, pidfile, cli>>

\* Exit in the tray's menu
ExitMenu(p) ==
    /\ pc[p] = "run" /\ mode[p] = "tray"
    /\ GoTo(p, "unhook")
    /\ UNCHANGED <<mode, exitCode, caught, pending, lockRefs, helpers, pidfile, cli>>

\* OpenAppDirectory: std::system("xdg-open ... &").  The lock's descriptor is
\* not close-on-exec, so whatever is launched inherits it.
OpenAppDirectory(p) ==
    /\ pc[p] = "run" /\ mode[p] = "tray"
    /\ p \notin helpers                   \* one at a time: a bound
    /\ helpers' = helpers \cup {p}
    /\ UNCHANGED <<pc, mode, exitCode, caught, pending, lockRefs, pidfile, cli>>

HelperExits(p) ==
    /\ p \in helpers /\ pc[p] # "prompt"
    /\ helpers' = helpers \ {p}
    /\ UNCHANGED <<pc, mode, exitCode, caught, pending, lockRefs, pidfile, cli>>

\* A menu entry that asks for a text: the main loop's thread reads the dialog's
\* pipe, and dispatches no signal, until the user closes the dialog.  The dialog
\* holds the descriptors too.
OpenPrompt(p) ==
    /\ pc[p] = "run" /\ mode[p] = "tray"
    /\ p \notin helpers                   \* the same bound
    /\ helpers' = helpers \cup {p}
    /\ GoTo(p, "prompt")
    /\ UNCHANGED <<mode, exitCode, caught, pending, lockRefs, pidfile, cli>>

ClosePrompt(p) ==
    /\ pc[p] = "prompt"
    /\ helpers' = helpers \ {p}
    /\ GoTo(p, "run")
    /\ UNCHANGED <<mode, exitCode, caught, pending, lockRefs, pidfile, cli>>

\* g_source_remove(sigHupId) puts SIGHUP back to its default action.
Unhook(p) ==
    /\ pc[p] = "unhook"
    /\ caught' = [caught EXCEPT ![p] = @ \ {"HUP"}]
    /\ GoTo(p, "stop")
    /\ UNCHANGED <<mode, exitCode, pending, lockRefs, helpers, pidfile, cli>>

\* engine.Stop() joins the worker, which may be in a lookup or a send.
MutantStopEngine(p) ==
    /\ pc[p] = "stop"
    /\ exitCode' = [exitCode EXCEPT ![p] = "ok"]
    /\ lockRefs' = lockRefs \ {p}
    /\ GoTo(p, "readPid")
    /\ UNCHANGED <<mode, caught, pending, helpers, pidfile, cli>>

StopEngine(p) ==
    /\ pc[p] = "stop"
    /\ exitCode' = [exitCode EXCEPT ![p] = "ok"]
    /\ GoTo(p, "readPid")
    /\ UNCHANGED <<mode, caught, pending, lockRefs, helpers, pidfile, cli>>

\* DaemonRemovePidFile: read it, compare, remove.
MutantReadOwnPid(p) ==
    /\ pc[p] = "readPid"
    /\ GoTo(p, "return")
    /\ UNCHANGED <<mode, exitCode, caught, pending, lockRefs, helpers, pidfile, cli>>

ReadOwnPid(p) ==
    /\ pc[p] = "readPid"
    /\ GoTo(p, IF pidfile = p THEN "removePid" ELSE "return")
    /\ UNCHANGED <<mode, exitCode, caught, pending, lockRefs, helpers, pidfile, cli>>

RemovePidFile(p) ==
    /\ pc[p] = "removePid"
    /\ pidfile' = NoPid
    /\ GoTo(p, "return")
    /\ UNCHANGED <<mode, exitCode, caught, pending, lockRefs, helpers, cli>>

\* main returns; the lock, its first local, is released last.
Return(p) ==
    /\ pc[p] = "return"
    /\ Die(p, exitCode[p])
    /\ UNCHANGED <<mode, helpers, pidfile, cli>>

\* Any other end: a fault, SIGKILL, the machine.  Nothing is cleaned up but the
\* descriptors.
Crash(p) ==
    /\ MayCrash /\ Alive(p)
    /\ Die(p, "crash")
    /\ UNCHANGED <<mode, helpers, pidfile, cli>>

\* A signal arrives at a live process: it waits there when it is blocked or
\* handled, and ends the process otherwise.
Deliver(sig, p) ==
    IF sig \in caught[p]
    THEN /\ pending' = [pending EXCEPT ![p] = @ \cup {sig}]
         /\ UNCHANGED <<pc, exitCode, lockRefs, caught>>
    ELSE Die(p, "signal")

-----------------------------------------------------------------------------
(* The command-line tool, one command at a time *)

Finish(saying) ==
    cli' = [IdleCli EXCEPT !.cmd = cli.cmd, !.said = saying]

CliAt(where, looks) ==
    cli' = [cli EXCEPT !.pc = where, !.hasRead = FALSE, !.pid = NoPid,
                       !.left = looks]

CliBegin(c) ==
    /\ cli.pc = "idle"
    /\ cli' = [IdleCli EXCEPT !.cmd = c,
                              !.pc = IF c = "reload" THEN "signal" ELSE "check"]
    /\ UNCHANGED <<pc, mode, exitCode, caught, pending, lockRefs, helpers, pidfile>>

\* ReadPidFile: an empty file reads as no process.
CliReadPidFile ==
    /\ cli.pc \in {"check", "signal", "waitOff", "waitOn"} /\ ~cli.hasRead
    /\ cli' = [cli EXCEPT !.hasRead = TRUE, !.pid = pidfile]
    /\ UNCHANGED <<pc, mode, exitCode, caught, pending, lockRefs, helpers, pidfile>>

\* kill(pid, 0) succeeds for a live process and for the tool's own child that
\* ended and was not waited for.
MutantSawRunning == cli.pid # NoPid
SawRunning == cli.pid # NoPid /\ (Alive(cli.pid) \/ cli.pid = cli.child)

CliCheck ==
    /\ cli.pc = "check" /\ cli.hasRead
    /\ CASE cli.cmd = "start" /\ SawRunning    -> Finish("AlreadyRunning")
         [] cli.cmd = "stop" /\ ~SawRunning    -> Finish("NotRunning")
         [] cli.cmd # "start" /\ SawRunning    -> CliAt("signal", 0)
         [] OTHER                              -> CliAt("spawn", 0)
    /\ UNCHANGED <<pc, mode, exitCode, caught, pending, lockRefs, helpers, pidfile>>

\* RequestReload says what came of it, RequestQuit's result is not looked at.
CliSignal ==
    /\ cli.pc = "signal" /\ cli.hasRead
    /\ LET hit == cli.pid # NoPid /\ Alive(cli.pid)
           sig == IF cli.cmd = "reload" THEN "HUP" ELSE "TERM"
       IN  /\ IF hit THEN Deliver(sig, cli.pid)
                     ELSE UNCHANGED <<pc, exitCode, caught, pending, lockRefs>>
           /\ cli' = IF cli.cmd = "reload"
                     THEN [IdleCli EXCEPT !.cmd = "reload",
                               !.said = IF hit THEN "AppliedLive" ELSE "NextStart"]
                     ELSE [cli EXCEPT !.pc = "waitOff", !.hasRead = FALSE,
                               !.pid = NoPid, !.left = WaitChecks]
    /\ UNCHANGED <<mode, helpers, pidfile>>

MutantCliWaitOff ==
    /\ cli.pc = "waitOff" /\ cli.hasRead
    /\ IF SawRunning
       THEN CliAt("waitOff", cli.left - 1)
       ELSE IF cli.cmd = "restart" THEN CliAt("spawn", 0) ELSE Finish("Stopped")
    /\ UNCHANGED <<pc, mode, exitCode, caught, pending, lockRefs, helpers, pidfile>>

\* waitUntil(false, 15): the tool goes on when the process is gone or when it
\* has looked often enough.
CliWaitOff ==
    /\ cli.pc = "waitOff" /\ cli.hasRead
    /\ IF SawRunning /\ cli.left > 1
       THEN CliAt("waitOff", cli.left - 1)
       ELSE IF cli.cmd = "restart" THEN CliAt("spawn", 0)
            ELSE Finish(IF SawRunning THEN "StillRunning" ELSE "Stopped")
    /\ UNCHANGED <<pc, mode, exitCode, caught, pending, lockRefs, helpers, pidfile>>

\* SpawnDaemon: fork and exec with --no-tray
CliSpawn(p) ==
    /\ cli.pc = "spawn" /\ pc[p] = "unborn"
    /\ GoTo(p, "lock")
    /\ mode' = [mode EXCEPT ![p] = "headless"]
    /\ cli' = [cli EXCEPT !.pc = "confirm", !.child = p]
    /\ UNCHANGED <<exitCode, caught, pending, lockRefs, helpers, pidfile>>

\* waitpid for half a second: an exit in that time is a failure to start, and a
\* child that is slow to get to its exit counts as healthy.
CliConfirm ==
    /\ cli.pc = "confirm"
    /\ IF Alive(cli.child) THEN CliAt("waitOn", WaitChecks) ELSE Finish("Failed")
    /\ UNCHANGED <<pc, mode, exitCode, caught, pending, lockRefs, helpers, pidfile>>

\* waitUntil(true, 10)
CliWaitOn ==
    /\ cli.pc = "waitOn" /\ cli.hasRead
    /\ IF SawRunning
       THEN Finish(IF cli.cmd = "start" THEN "Started" ELSE "Restarted")
       ELSE IF cli.left > 1 THEN CliAt("waitOn", cli.left - 1)
            ELSE Finish("Unconfirmed")
    /\ UNCHANGED <<pc, mode, exitCode, caught, pending, lockRefs, helpers, pidfile>>

-----------------------------------------------------------------------------

\* main() going on by itself
Proceed(p) ==
    \/ TryAcquire(p) \/ BlockSignals(p) \/ TruncatePidFile(p) \/ WritePidFile(p)
    \/ CreateTray(p) \/ HookHup(p) \/ HookTerm(p) \/ Quit(p) \/ Unhook(p)
    \/ StopEngine(p) \/ ReadOwnPid(p) \/ RemovePidFile(p) \/ Return(p)

Cli ==
    \/ CliReadPidFile \/ CliCheck \/ CliSignal \/ CliWaitOff
    \/ (\E p \in Pids : CliSpawn(p)) \/ CliConfirm \/ CliWaitOn

Next ==
    \/ \E p \in Pids : \/ \E m \in UserModes : Launch(p, m)
                       \/ Proceed(p) \/ Reload(p)
                       \/ ExitMenu(p) \/ OpenAppDirectory(p) \/ HelperExits(p)
                       \/ OpenPrompt(p) \/ ClosePrompt(p)
                       \/ Crash(p)
    \/ \E c \in Commands : CliBegin(c)
    \/ Cli

Spec == Init /\ [][Next]_vars

\* main() and the tool keep running; users, crashes and other programs promise
\* nothing.  A user who never closes a text prompt keeps its main loop for ever.
FairSpec ==
    /\ Spec
    /\ \A p \in Pids : WF_vars(Proceed(p))
    /\ WF_vars(Cli)

-----------------------------------------------------------------------------
(* Properties *)

\* The types of the variables (lifecycle of main_linux.cpp and the tool).
TypeOK ==
    /\ pc \in [Pids -> ProcPcs]
    /\ mode \in [Pids -> Modes]
    /\ exitCode \in [Pids -> ExitCodes]
    /\ caught \in [Pids -> SUBSET Signals]
    /\ pending \in [Pids -> SUBSET Signals]
    /\ lockRefs \subseteq Pids
    /\ helpers \subseteq Pids
    /\ pidfile \in Pids \cup {NoPid}
    /\ cli \in [pc : CliPcs, cmd : {"none"} \cup Commands, hasRead : BOOLEAN,
               pid : Pids \cup {NoPid}, left : 0 .. WaitChecks,
               child : Pids \cup {NoPid},
               said : Sayings]

\* Two instances never run side by side, in whatever modes and however they
\* were launched (SingleInstanceLock).
OneInstance == \A p, q \in Holders : p = q

\* The pidfile names the instance that runs: neither a refused second start,
\* nor the late clean-up of an earlier instance takes its identity away
\* (DaemonRemovePidFile, and the lock outliving it in main).
PidfileNamesRunner ==
    \A p \in Pids : pc[p] \in {"run", "prompt"} => pidfile = p

\* An instance that was asked to leave and did so leaves no pidfile behind that
\* names it (DaemonRemovePidFile before main returns).
CleanExitLeavesNoPidfile ==
    \A p \in Pids : pc[p] = "dead" /\ exitCode[p] = "ok" => pidfile # p

\* The tool never kills a headless instance with a signal: the mask is set
\* before the pidfile makes it known (DaemonBlockSignalsAndWritePidFile).
HeadlessNotKilled ==
    \A p \in Pids : exitCode[p] = "signal" => mode[p] = "tray"

\* "Started." and "Already running." are said of a process that got the lock,
\* not of a refused or dead one that an old pidfile names (IsRunning and its
\* kill check), as long as the tool's own child does not die under its eyes.
\* Said when the tool prints it: an action property.
SaysRunningOfHolder ==
    [][\A p \in Pids :
          /\ cli'.said \in {"Started", "Restarted", "AlreadyRunning"}
          /\ cli.said = "nothing" /\ cli.pid = p /\ p # cli.child
          => p \in Holders]_vars

\* SIGTERM taken by an instance ends it (Quit, engine.Stop, the removal of the
\* pidfile, return), or a crash does, unless a text prompt is opened first.  A
\* signal that arrives at an open prompt waits; once that is closed the same is
\* promised again.
QuitIsAnswered ==
    \A p \in Pids : "TERM" \in pending[p] /\ pc[p] # "prompt"
                        ~> pc[p] \in {"dead", "prompt"}

-----------------------------------------------------------------------------
(* What documents and comments say, and the code does not do *)

\* When no process is left the next launch gets the lock.
NobodyLeftMeansLockFree == (\A p \in Pids : ~Alive(p)) => LockFree

\* After `daemon restart`, without a crash, something runs.
RestartLeavesOneRunning ==
    cli.cmd = "restart" /\ cli.pc = "idle" => \E p \in Pids : Alive(p)
=============================================================================
