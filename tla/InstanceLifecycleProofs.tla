----------------------- MODULE InstanceLifecycleProofs -----------------------
(***************************************************************************)
(* Proofs about InstanceLifecycle, for any number of processes and any     *)
(* mixture of modes, commands and crashes.                                 *)
(*                                                                         *)
(* That the pidfile names the one instance that runs rests on the lock:    *)
(* every write and removal of the pidfile happens while the process holds  *)
(* it.  That the tool cannot kill a headless instance rests on the order   *)
(* of the mask and the pidfile.                                            *)
(***************************************************************************)
EXTENDS InstanceLifecycle, TLAPS

\* main() before the pidfile names the process, and while it does
Early == {"unborn", "lock", "block", "truncate", "write"}
Named == {"create", "hookHup", "hookTerm", "run", "prompt", "unhook", "stop",
          "readPid", "removePid"}

\* The lock is open in exactly the processes past TryAcquire, one at most.
LockInv ==
    /\ \A p \in Pids : p \in lockRefs <=> pc[p] \notin {"unborn", "lock", "dead"}
    /\ \A p, q \in lockRefs : p = q

\* Only the holder of the lock writes the pidfile, and it names the holder from
\* the write to the removal.
PidfileInv ==
    /\ \A p \in Pids : pc[p] \in Named => pidfile = p
    /\ \A p \in Pids : pc[p] \in Early \cup {"return"} => pidfile # p
    /\ CleanExitLeavesNoPidfile

\* The tool signals only processes it read from the pidfile, and a headless one
\* had its mask set before it was there.
SignalInv ==
    /\ \A p \in Pids : pc[p] \in Early => cli.pid # p
    /\ \A p \in Pids :
          mode[p] = "headless" /\ pc[p] \notin {"unborn", "lock", "block", "dead"}
              => /\ caught[p] = Signals
                 /\ pc[p] \notin {"create", "hookHup", "hookTerm", "prompt", "unhook"}
    /\ \A p \in Pids : pc[p] # "dead" => exitCode[p] \in {"none", "ok", "failed"}
    /\ HeadlessNotKilled

IInv == TypeOK /\ LockInv /\ PidfileInv /\ SignalInv

\* The steps of the tool that touch no process, its states, and what it says of
\* a process it believes to run
ToolLooks ==
    \/ \E c \in Commands : CliBegin(c)
    \/ CliReadPidFile \/ CliCheck \/ CliWaitOff \/ CliConfirm \/ CliWaitOn
ToolStates ==
    [pc : CliPcs, cmd : {"none"} \cup Commands, hasRead : BOOLEAN,
     pid : Pids \cup {NoPid}, left : 0 .. WaitChecks,
     child : Pids \cup {NoPid}, said : Sayings]
RunningSaid == {"Started", "Restarted", "AlreadyRunning"}

-----------------------------------------------------------------------------

\* A step of the specification is one of its actions or a stutter.
LEMMA StepCases ==
    ASSUME [Next]_vars
    PROVE  \/ \E p \in Pids, m \in UserModes : Launch(p, m)
           \/ \E p \in Pids :
                 \/ TryAcquire(p) \/ BlockSignals(p) \/ TruncatePidFile(p)
                 \/ WritePidFile(p) \/ CreateTray(p) \/ HookHup(p) \/ HookTerm(p)
                 \/ Quit(p) \/ Unhook(p) \/ StopEngine(p) \/ ReadOwnPid(p)
                 \/ RemovePidFile(p) \/ Return(p)
                 \/ Reload(p) \/ ExitMenu(p) \/ OpenAppDirectory(p)
                 \/ HelperExits(p) \/ OpenPrompt(p) \/ ClosePrompt(p) \/ Crash(p)
           \/ \E p \in Pids : CliSpawn(p)
           \/ CliSignal \/ ToolLooks
           \/ UNCHANGED vars
BY DEF Next, Proceed, Cli, ToolLooks

\* A command that ends leaves the tool idle.
LEMMA FinishState ==
    ASSUME TypeOK, NEW s \in Sayings, Finish(s)
    PROVE  cli' \in ToolStates /\ cli'.pid = NoPid /\ cli'.said = s
<1>1. cli' = [pc |-> "idle", cmd |-> cli.cmd, hasRead |-> FALSE, pid |-> NoPid,
              left |-> 0, child |-> NoPid, said |-> s]
  BY DEF Finish, IdleCli
<1>2. 0 \in 0 .. WaitChecks
  BY LifecycleAssumption
<1>3. cli.cmd \in {"none"} \cup Commands
  BY DEF TypeOK
<1>4. QED
  BY <1>1, <1>2, <1>3 DEF ToolStates, CliPcs

\* Moving on, the tool forgets what it read.
LEMMA CliAtState ==
    ASSUME TypeOK, NEW w \in CliPcs, NEW n \in 0 .. WaitChecks, CliAt(w, n)
    PROVE  cli' \in ToolStates /\ cli'.pid = NoPid /\ cli'.said = cli.said
<1>1. cli \in ToolStates
  BY DEF TypeOK, ToolStates
<1>2. QED
  BY <1>1 DEF CliAt, ToolStates

\* Looking about, the tool changes nothing but itself, knows no process but the
\* one in the pidfile, and says of a process that it runs when kill found it.
LEMMA ToolStep ==
    ASSUME TypeOK, ToolLooks
    PROVE  /\ UNCHANGED <<pc, mode, exitCode, caught, pending, lockRefs,
                         helpers, pidfile>>
           /\ cli' \in ToolStates
           /\ cli'.pid \in {NoPid, pidfile}
           /\ cli'.said \in RunningSaid /\ cli.said = "nothing"
                 => cli.pid = cli.child \/ Alive(cli.pid)
<1> DEFINE Said == cli'.said \in RunningSaid /\ cli.said = "nothing"
                      => cli.pid = cli.child \/ Alive(cli.pid)
           Result == cli' \in ToolStates /\ cli'.pid \in {NoPid, pidfile} /\ Said
<1>1. /\ cli \in ToolStates
      /\ 0 \in 0 .. WaitChecks /\ WaitChecks \in 0 .. WaitChecks
      /\ \A n \in 0 .. WaitChecks : n > 1 => n - 1 \in 0 .. WaitChecks
  BY LifecycleAssumption DEF TypeOK, ToolStates
<1>2. ASSUME NEW s \in Sayings, Finish(s), s \in RunningSaid => SawRunning
      PROVE  Result
  BY <1>2, FinishState DEF SawRunning
<1>3. ASSUME NEW w \in CliPcs, NEW n \in 0 .. WaitChecks, CliAt(w, n)
      PROVE  Result
  BY <1>3, CliAtState DEF RunningSaid
<1>4. ASSUME NEW c \in Commands, CliBegin(c)
      PROVE  Result
  <2>1. cli' = [pc |-> IF c = "reload" THEN "signal" ELSE "check", cmd |-> c,
                hasRead |-> FALSE, pid |-> NoPid, left |-> 0, child |-> NoPid,
                said |-> "nothing"]
    BY <1>4 DEF CliBegin, IdleCli
  <2>2. QED
    BY <2>1, <1>1 DEF ToolStates, CliPcs, Sayings, RunningSaid
<1>5. CASE CliReadPidFile
  <2>1. pidfile \in Pids \cup {NoPid}
    BY DEF TypeOK
  <2>2. QED
    BY <1>1, <1>5, <2>1 DEF CliReadPidFile, ToolStates, RunningSaid
<1>6. CASE CliCheck
  BY <1>1, <1>2, <1>3, <1>6 DEF CliCheck, CliPcs, Sayings, RunningSaid
<1>7. CASE CliWaitOff
  <2>1. cli.left \in 0 .. WaitChecks
    BY <1>1 DEF ToolStates
  <2>2. QED
    BY <1>1, <1>2, <1>3, <1>7, <2>1 DEF CliWaitOff, CliPcs, Sayings, RunningSaid
<1>8. CASE CliConfirm
  BY <1>1, <1>2, <1>3, <1>8 DEF CliConfirm, CliPcs, Sayings, RunningSaid
<1>9. CASE CliWaitOn
  <2>1. cli.left \in 0 .. WaitChecks
    BY <1>1 DEF ToolStates
  <2>2. QED
    BY <1>1, <1>2, <1>3, <1>9, <2>1 DEF CliWaitOn, CliPcs, Sayings, RunningSaid
<1>10. UNCHANGED <<pc, mode, exitCode, caught, pending, lockRefs, helpers, pidfile>>
  BY DEF ToolLooks, CliBegin, CliReadPidFile, CliCheck, CliWaitOff, CliConfirm,
         CliWaitOn
<1>11. QED
  BY <1>4, <1>5, <1>6, <1>7, <1>8, <1>9, <1>10 DEF ToolLooks

\* A step keeps the types.
LEMMA TypeStep ==
    ASSUME TypeOK, [Next]_vars
    PROVE  TypeOK'
<1> USE LifecycleAssumption DEF TypeOK, ToolStates, ProcPcs, Modes, ExitCodes, Signals, CliPcs, Sayings
<1>1. ASSUME NEW p \in Pids, NEW m \in UserModes, Launch(p, m)
     PROVE  TypeOK'
  BY <1>1 DEF Launch, GoTo
<1>2. ASSUME NEW p \in Pids, TryAcquire(p)
     PROVE  TypeOK'
  BY <1>2 DEF TryAcquire, AfterLock, LockFree, Die, GoTo
<1>3. ASSUME NEW p \in Pids, BlockSignals(p)
     PROVE  TypeOK'
  BY <1>3 DEF BlockSignals, GoTo
<1>4. ASSUME NEW p \in Pids, TruncatePidFile(p)
     PROVE  TypeOK'
  BY <1>4 DEF TruncatePidFile, GoTo
<1>5. ASSUME NEW p \in Pids, WritePidFile(p)
     PROVE  TypeOK'
  BY <1>5 DEF WritePidFile, GoTo
<1>6. ASSUME NEW p \in Pids, CreateTray(p)
     PROVE  TypeOK'
  BY <1>6 DEF CreateTray, GoTo
<1>7. ASSUME NEW p \in Pids, HookHup(p)
     PROVE  TypeOK'
  BY <1>7 DEF HookHup, GoTo
<1>8. ASSUME NEW p \in Pids, HookTerm(p)
     PROVE  TypeOK'
  BY <1>8 DEF HookTerm, GoTo
<1>9. ASSUME NEW p \in Pids, Quit(p)
     PROVE  TypeOK'
  BY <1>9 DEF Quit, GoTo
<1>10. ASSUME NEW p \in Pids, Unhook(p)
     PROVE  TypeOK'
  BY <1>10 DEF Unhook, GoTo
<1>11. ASSUME NEW p \in Pids, StopEngine(p)
     PROVE  TypeOK'
  BY <1>11 DEF StopEngine, GoTo
<1>12. ASSUME NEW p \in Pids, ReadOwnPid(p)
     PROVE  TypeOK'
  BY <1>12 DEF ReadOwnPid, GoTo
<1>13. ASSUME NEW p \in Pids, RemovePidFile(p)
     PROVE  TypeOK'
  BY <1>13 DEF RemovePidFile, GoTo
<1>14. ASSUME NEW p \in Pids, Return(p)
     PROVE  TypeOK'
  BY <1>14 DEF Return, Die, GoTo
<1>15. ASSUME NEW p \in Pids, Reload(p)
     PROVE  TypeOK'
  BY <1>15 DEF Reload
<1>16. ASSUME NEW p \in Pids, ExitMenu(p)
     PROVE  TypeOK'
  BY <1>16 DEF ExitMenu, GoTo
<1>17. ASSUME NEW p \in Pids, OpenAppDirectory(p)
     PROVE  TypeOK'
  BY <1>17 DEF OpenAppDirectory
<1>18. ASSUME NEW p \in Pids, HelperExits(p)
     PROVE  TypeOK'
  BY <1>18 DEF HelperExits
<1>19. ASSUME NEW p \in Pids, Crash(p)
     PROVE  TypeOK'
  BY <1>19 DEF Crash, Die, GoTo, Alive
<1>20. ASSUME NEW p \in Pids, CliSpawn(p)
     PROVE  TypeOK'
  BY <1>20 DEF CliSpawn, GoTo
<1>21. CASE CliSignal
  <2>1. /\ cli \in ToolStates
        /\ 0 \in 0 .. WaitChecks /\ WaitChecks \in 0 .. WaitChecks
    BY LifecycleAssumption
  <2>2. cli' \in ToolStates
    BY <1>21, <2>1 DEF CliSignal, IdleCli
  <2>3. cli.pid # NoPid => cli.pid \in Pids
    BY <2>1
  <2>4. QED
    BY <1>21, <2>2, <2>3 DEF CliSignal, Deliver, Die, GoTo
<1>22. CASE ToolLooks
  BY <1>22, ToolStep
<1>23. CASE UNCHANGED vars
  BY <1>23 DEF vars
<1>24. ASSUME NEW p \in Pids, OpenPrompt(p)
     PROVE  TypeOK'
  BY <1>24 DEF OpenPrompt, GoTo
<1>25. ASSUME NEW p \in Pids, ClosePrompt(p)
     PROVE  TypeOK'
  BY <1>25 DEF ClosePrompt, GoTo
<1>26. QED
  BY StepCases, <1>1, <1>2, <1>3, <1>4, <1>5, <1>6, <1>7, <1>8, <1>9, <1>10, <1>11, <1>12, <1>13, <1>14, <1>15, <1>16, <1>17, <1>18, <1>19, <1>20, <1>21, <1>22, <1>23, <1>24, <1>25

\* A step keeps the lock with one holder.
LEMMA LockStep ==
    ASSUME IInv, [Next]_vars
    PROVE  LockInv'
<1> USE LifecycleAssumption DEF IInv, TypeOK, LockInv, ProcPcs
<1>1. ASSUME NEW p \in Pids, NEW m \in UserModes, Launch(p, m)
     PROVE  LockInv'
  BY <1>1 DEF Launch, GoTo
<1>2. ASSUME NEW p \in Pids, TryAcquire(p)
     PROVE  LockInv'
  BY <1>2 DEF TryAcquire, AfterLock, LockFree, Die, GoTo
<1>3. ASSUME NEW p \in Pids, BlockSignals(p)
     PROVE  LockInv'
  BY <1>3 DEF BlockSignals, GoTo
<1>4. ASSUME NEW p \in Pids, TruncatePidFile(p)
     PROVE  LockInv'
  BY <1>4 DEF TruncatePidFile, GoTo
<1>5. ASSUME NEW p \in Pids, WritePidFile(p)
     PROVE  LockInv'
  BY <1>5 DEF WritePidFile, GoTo
<1>6. ASSUME NEW p \in Pids, CreateTray(p)
     PROVE  LockInv'
  BY <1>6 DEF CreateTray, GoTo
<1>7. ASSUME NEW p \in Pids, HookHup(p)
     PROVE  LockInv'
  BY <1>7 DEF HookHup, GoTo
<1>8. ASSUME NEW p \in Pids, HookTerm(p)
     PROVE  LockInv'
  BY <1>8 DEF HookTerm, GoTo
<1>9. ASSUME NEW p \in Pids, Quit(p)
     PROVE  LockInv'
  BY <1>9 DEF Quit, GoTo
<1>10. ASSUME NEW p \in Pids, Unhook(p)
     PROVE  LockInv'
  BY <1>10 DEF Unhook, GoTo
<1>11. ASSUME NEW p \in Pids, StopEngine(p)
     PROVE  LockInv'
  BY <1>11 DEF StopEngine, GoTo
<1>12. ASSUME NEW p \in Pids, ReadOwnPid(p)
     PROVE  LockInv'
  BY <1>12 DEF ReadOwnPid, GoTo
<1>13. ASSUME NEW p \in Pids, RemovePidFile(p)
     PROVE  LockInv'
  BY <1>13 DEF RemovePidFile, GoTo
<1>14. ASSUME NEW p \in Pids, Return(p)
     PROVE  LockInv'
  BY <1>14 DEF Return, Die, GoTo
<1>15. ASSUME NEW p \in Pids, Reload(p)
     PROVE  LockInv'
  BY <1>15 DEF Reload
<1>16. ASSUME NEW p \in Pids, ExitMenu(p)
     PROVE  LockInv'
  BY <1>16 DEF ExitMenu, GoTo
<1>17. ASSUME NEW p \in Pids, OpenAppDirectory(p)
     PROVE  LockInv'
  BY <1>17 DEF OpenAppDirectory
<1>18. ASSUME NEW p \in Pids, HelperExits(p)
     PROVE  LockInv'
  BY <1>18 DEF HelperExits
<1>19. ASSUME NEW p \in Pids, Crash(p)
     PROVE  LockInv'
  BY <1>19 DEF Crash, Die, GoTo, Alive
<1>20. ASSUME NEW p \in Pids, CliSpawn(p)
     PROVE  LockInv'
  BY <1>20 DEF CliSpawn, GoTo
<1>21. CASE CliSignal
  BY <1>21 DEF CliSignal, Deliver, Die, GoTo, Alive, IdleCli
<1>22. CASE ToolLooks
  BY <1>22, ToolStep
<1>23. CASE UNCHANGED vars
  BY <1>23 DEF vars
<1>24. ASSUME NEW p \in Pids, OpenPrompt(p)
     PROVE  LockInv'
  BY <1>24 DEF OpenPrompt, GoTo
<1>25. ASSUME NEW p \in Pids, ClosePrompt(p)
     PROVE  LockInv'
  BY <1>25 DEF ClosePrompt, GoTo
<1>26. QED
  BY StepCases, <1>1, <1>2, <1>3, <1>4, <1>5, <1>6, <1>7, <1>8, <1>9, <1>10, <1>11, <1>12, <1>13, <1>14, <1>15, <1>16, <1>17, <1>18, <1>19, <1>20, <1>21, <1>22, <1>23, <1>24, <1>25

\* A step keeps the pidfile true.
LEMMA PidfileStep ==
    ASSUME IInv, [Next]_vars
    PROVE  PidfileInv'
<1> USE LifecycleAssumption DEF IInv, TypeOK, LockInv, PidfileInv, CleanExitLeavesNoPidfile, Early, Named, ProcPcs
<1>1. ASSUME NEW p \in Pids, NEW m \in UserModes, Launch(p, m)
     PROVE  PidfileInv'
  BY <1>1 DEF Launch, GoTo
<1>2. ASSUME NEW p \in Pids, TryAcquire(p)
     PROVE  PidfileInv'
  BY <1>2 DEF TryAcquire, AfterLock, LockFree, Die, GoTo
<1>3. ASSUME NEW p \in Pids, BlockSignals(p)
     PROVE  PidfileInv'
  BY <1>3 DEF BlockSignals, GoTo
<1>4. ASSUME NEW p \in Pids, TruncatePidFile(p)
     PROVE  PidfileInv'
  BY <1>4 DEF TruncatePidFile, GoTo
<1>5. ASSUME NEW p \in Pids, WritePidFile(p)
     PROVE  PidfileInv'
  BY <1>5 DEF WritePidFile, GoTo
<1>6. ASSUME NEW p \in Pids, CreateTray(p)
     PROVE  PidfileInv'
  BY <1>6 DEF CreateTray, GoTo
<1>7. ASSUME NEW p \in Pids, HookHup(p)
     PROVE  PidfileInv'
  BY <1>7 DEF HookHup, GoTo
<1>8. ASSUME NEW p \in Pids, HookTerm(p)
     PROVE  PidfileInv'
  BY <1>8 DEF HookTerm, GoTo
<1>9. ASSUME NEW p \in Pids, Quit(p)
     PROVE  PidfileInv'
  BY <1>9 DEF Quit, GoTo
<1>10. ASSUME NEW p \in Pids, Unhook(p)
     PROVE  PidfileInv'
  BY <1>10 DEF Unhook, GoTo
<1>11. ASSUME NEW p \in Pids, StopEngine(p)
     PROVE  PidfileInv'
  BY <1>11 DEF StopEngine, GoTo
<1>12. ASSUME NEW p \in Pids, ReadOwnPid(p)
     PROVE  PidfileInv'
  BY <1>12 DEF ReadOwnPid, GoTo
<1>13. ASSUME NEW p \in Pids, RemovePidFile(p)
     PROVE  PidfileInv'
  BY <1>13 DEF RemovePidFile, GoTo
<1>14. ASSUME NEW p \in Pids, Return(p)
     PROVE  PidfileInv'
  BY <1>14 DEF Return, Die, GoTo
<1>15. ASSUME NEW p \in Pids, Reload(p)
     PROVE  PidfileInv'
  BY <1>15 DEF Reload
<1>16. ASSUME NEW p \in Pids, ExitMenu(p)
     PROVE  PidfileInv'
  BY <1>16 DEF ExitMenu, GoTo
<1>17. ASSUME NEW p \in Pids, OpenAppDirectory(p)
     PROVE  PidfileInv'
  BY <1>17 DEF OpenAppDirectory
<1>18. ASSUME NEW p \in Pids, HelperExits(p)
     PROVE  PidfileInv'
  BY <1>18 DEF HelperExits
<1>19. ASSUME NEW p \in Pids, Crash(p)
     PROVE  PidfileInv'
  BY <1>19 DEF Crash, Die, GoTo, Alive
<1>20. ASSUME NEW p \in Pids, CliSpawn(p)
     PROVE  PidfileInv'
  BY <1>20 DEF CliSpawn, GoTo
<1>21. CASE CliSignal
  BY <1>21 DEF CliSignal, Deliver, Die, GoTo, Alive, IdleCli
<1>22. CASE ToolLooks
  BY <1>22, ToolStep
<1>23. CASE UNCHANGED vars
  BY <1>23 DEF vars
<1>24. ASSUME NEW p \in Pids, OpenPrompt(p)
     PROVE  PidfileInv'
  BY <1>24 DEF OpenPrompt, GoTo
<1>25. ASSUME NEW p \in Pids, ClosePrompt(p)
     PROVE  PidfileInv'
  BY <1>25 DEF ClosePrompt, GoTo
<1>26. QED
  BY StepCases, <1>1, <1>2, <1>3, <1>4, <1>5, <1>6, <1>7, <1>8, <1>9, <1>10, <1>11, <1>12, <1>13, <1>14, <1>15, <1>16, <1>17, <1>18, <1>19, <1>20, <1>21, <1>22, <1>23, <1>24, <1>25

\* A step keeps headless instances out of a signal's way.
LEMMA SignalStep ==
    ASSUME IInv, [Next]_vars
    PROVE  SignalInv'
<1> USE LifecycleAssumption DEF IInv, TypeOK, PidfileInv, SignalInv, HeadlessNotKilled, Early, Named, ProcPcs, Modes, Signals, ExitCodes
<1>1. ASSUME NEW p \in Pids, NEW m \in UserModes, Launch(p, m)
     PROVE  SignalInv'
  BY <1>1 DEF Launch, GoTo
<1>2. ASSUME NEW p \in Pids, TryAcquire(p)
     PROVE  SignalInv'
  BY <1>2 DEF TryAcquire, AfterLock, LockFree, Die, GoTo
<1>3. ASSUME NEW p \in Pids, BlockSignals(p)
     PROVE  SignalInv'
  BY <1>3 DEF BlockSignals, GoTo
<1>4. ASSUME NEW p \in Pids, TruncatePidFile(p)
     PROVE  SignalInv'
  BY <1>4 DEF TruncatePidFile, GoTo
<1>5. ASSUME NEW p \in Pids, WritePidFile(p)
     PROVE  SignalInv'
  BY <1>5 DEF WritePidFile, GoTo
<1>6. ASSUME NEW p \in Pids, CreateTray(p)
     PROVE  SignalInv'
  BY <1>6 DEF CreateTray, GoTo
<1>7. ASSUME NEW p \in Pids, HookHup(p)
     PROVE  SignalInv'
  BY <1>7 DEF HookHup, GoTo
<1>8. ASSUME NEW p \in Pids, HookTerm(p)
     PROVE  SignalInv'
  BY <1>8 DEF HookTerm, GoTo
<1>9. ASSUME NEW p \in Pids, Quit(p)
     PROVE  SignalInv'
  BY <1>9 DEF Quit, GoTo
<1>10. ASSUME NEW p \in Pids, Unhook(p)
     PROVE  SignalInv'
  BY <1>10 DEF Unhook, GoTo
<1>11. ASSUME NEW p \in Pids, StopEngine(p)
     PROVE  SignalInv'
  BY <1>11 DEF StopEngine, GoTo
<1>12. ASSUME NEW p \in Pids, ReadOwnPid(p)
     PROVE  SignalInv'
  BY <1>12 DEF ReadOwnPid, GoTo
<1>13. ASSUME NEW p \in Pids, RemovePidFile(p)
     PROVE  SignalInv'
  BY <1>13 DEF RemovePidFile, GoTo
<1>14. ASSUME NEW p \in Pids, Return(p)
     PROVE  SignalInv'
  BY <1>14 DEF Return, Die, GoTo
<1>15. ASSUME NEW p \in Pids, Reload(p)
     PROVE  SignalInv'
  BY <1>15 DEF Reload
<1>16. ASSUME NEW p \in Pids, ExitMenu(p)
     PROVE  SignalInv'
  BY <1>16 DEF ExitMenu, GoTo
<1>17. ASSUME NEW p \in Pids, OpenAppDirectory(p)
     PROVE  SignalInv'
  BY <1>17 DEF OpenAppDirectory
<1>18. ASSUME NEW p \in Pids, HelperExits(p)
     PROVE  SignalInv'
  BY <1>18 DEF HelperExits
<1>19. ASSUME NEW p \in Pids, Crash(p)
     PROVE  SignalInv'
  BY <1>19 DEF Crash, Die, GoTo, Alive
<1>20. ASSUME NEW p \in Pids, CliSpawn(p)
     PROVE  SignalInv'
  BY <1>20 DEF CliSpawn, GoTo
<1>21. CASE CliSignal
  BY <1>21 DEF CliSignal, Deliver, Die, GoTo, Alive, IdleCli
<1>22. CASE ToolLooks
  BY <1>22, ToolStep
<1>23. CASE UNCHANGED vars
  BY <1>23 DEF vars
<1>24. ASSUME NEW p \in Pids, OpenPrompt(p)
     PROVE  SignalInv'
  BY <1>24 DEF OpenPrompt, GoTo
<1>25. ASSUME NEW p \in Pids, ClosePrompt(p)
     PROVE  SignalInv'
  BY <1>25 DEF ClosePrompt, GoTo
<1>26. QED
  BY StepCases, <1>1, <1>2, <1>3, <1>4, <1>5, <1>6, <1>7, <1>8, <1>9, <1>10, <1>11, <1>12, <1>13, <1>14, <1>15, <1>16, <1>17, <1>18, <1>19, <1>20, <1>21, <1>22, <1>23, <1>24, <1>25

-----------------------------------------------------------------------------

\* The strengthened invariant holds at the start.
LEMMA InvInit ==
    ASSUME Init
    PROVE  IInv
BY LifecycleAssumption
DEF Init, IInv, TypeOK, LockInv, PidfileInv, SignalInv, CleanExitLeavesNoPidfile,
    HeadlessNotKilled, Early, Named, ProcPcs, Modes, ExitCodes, Signals, IdleCli,
    CliPcs, Sayings

\* The strengthened invariant always holds.
LEMMA Invariance == Spec => []IInv
<1>1. IInv /\ [Next]_vars => IInv'
  BY TypeStep, LockStep, PidfileStep, SignalStep DEF IInv
<1>2. Init => IInv
  BY InvInit
<1>3. QED
  BY <1>1, <1>2, PTL DEF Spec

\* The variables of processes and tool keep their types.
THEOREM TypeCorrect == Spec => []TypeOK
<1>1. IInv => TypeOK
  BY DEF IInv
<1>2. QED
  BY <1>1, Invariance, PTL

\* SingleInstanceLock: two instances never run side by side.
THEOREM SingleInstance == Spec => []OneInstance
<1>1. IInv => OneInstance
  BY DEF IInv, LockInv, OneInstance, Holders, Alive
<1>2. QED
  BY <1>1, Invariance, PTL

\* The pidfile names the instance that runs.
THEOREM Identity == Spec => []PidfileNamesRunner
<1>1. IInv => PidfileNamesRunner
  BY DEF IInv, PidfileInv, PidfileNamesRunner, Named
<1>2. QED
  BY <1>1, Invariance, PTL

\* A clean exit leaves no pidfile of its own behind.
THEOREM CleanExit == Spec => []CleanExitLeavesNoPidfile
<1>1. IInv => CleanExitLeavesNoPidfile
  BY DEF IInv, PidfileInv
<1>2. QED
  BY <1>1, Invariance, PTL

\* The tool's signals do not kill a headless instance.
THEOREM HeadlessSurvives == Spec => []HeadlessNotKilled
<1>1. IInv => HeadlessNotKilled
  BY DEF IInv, SignalInv
<1>2. QED
  BY <1>1, Invariance, PTL

\* What the tool says about a running instance is about a holder of the lock.
THEOREM SaysRunning == Spec => SaysRunningOfHolder
<1> DEFINE A == \A p \in Pids :
                   /\ cli'.said \in RunningSaid
                   /\ cli.said = "nothing" /\ cli.pid = p /\ p # cli.child
                   => p \in Holders
<1>1. IInv /\ [Next]_vars => A
  <2> SUFFICES ASSUME IInv, [Next]_vars, NEW p \in Pids,
                      cli'.said \in RunningSaid, cli.said = "nothing",
                      cli.pid = p, p # cli.child
               PROVE  p \in Holders
    OBVIOUS
  <2>1. cli' # cli /\ cli'.said # cli.said
    BY DEF RunningSaid
  <2>2. ~CliSignal
    BY DEF CliSignal, IdleCli, RunningSaid, IInv, TypeOK, ToolStates
  <2>3. \A q \in Pids : ~CliSpawn(q)
    BY <2>1 DEF CliSpawn, IInv, TypeOK, ToolStates
  <2>4. ToolLooks
    BY <2>1, <2>2, <2>3, StepCases
       DEF vars, Launch, TryAcquire, BlockSignals, TruncatePidFile, WritePidFile,
           CreateTray, HookHup, HookTerm, Quit, Unhook, StopEngine, ReadOwnPid,
           RemovePidFile, Return, Reload, ExitMenu, OpenAppDirectory, HelperExits,
           OpenPrompt, ClosePrompt, Crash
  <2>5. Alive(p)
    BY <2>4, ToolStep DEF IInv
  <2>6. QED
    BY <2>5 DEF Holders, IInv, SignalInv, Early, Alive
<1>2. QED
  BY <1>1, Invariance, PTL DEF Spec, SaysRunningOfHolder, RunningSaid
=============================================================================
