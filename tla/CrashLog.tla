------------------------------- MODULE CrashLog -------------------------------
(***************************************************************************)
(* core::Log, the crash ring it fills and the crash handler that reads the *)
(* ring: threads log while others crash, the process is killed between any *)
(* two steps of a rotation and started again, and a second launch, which   *)
(* the instance lock refuses, logs to the same file.                       *)
(*                                                                         *)
(* Lines are numbered in the order they enter the ring; a file is the      *)
(* sequence of its lines.                                                  *)
(***************************************************************************)
EXTENDS Integers, Sequences, FiniteSets, SequencesExt

CONSTANTS
    Threads,        \* the worker, the tray's threads and the main thread
    Slots,          \* kCrashRingSlots
    Backups,        \* kMaxBackups
    Full,           \* lines of a file that is just within kMaxSizeBytes
    MaxLines,       \* lines that are logged in all: a bound
    MaxSessions,    \* starts of the program: a bound
    MaxRefused      \* launches that are refused: a bound

None == "none"

ASSUME CrashLogAssumption ==
    /\ Slots \in Nat \ {0} /\ Backups \in Nat \ {0} /\ Full \in Nat
    /\ MaxLines \in Nat /\ MaxSessions \in Nat \ {0} /\ MaxRefused \in Nat
    /\ None \notin Threads

VARIABLES
    \* the threads
    pc,         \* where each is in Write or in the crash handler
    mine,       \* the line each is logging
    at,         \* the slot each has reserved
    \* the ring
    total,      \* writeIndex
    slots,      \* line, the threads that are copying into it, torn by two of them
    \* the files
    mutex,      \* s_mutex: who holds it
    files,      \* 0 is featherrpc.log, i is featherrpc.log.i
    handle,     \* the file s_file is open on
    rotation,   \* the backup RotateIfNeeded moves next
    \* the crash report
    handling,   \* g_handling
    scan,       \* the slots WriteRecentLog has still to read
    seen,       \* what it found in the one it is at
    report,     \* featherrpc-crash.log, line by line; the header is line 0
    place,      \* the file offset
    \* history
    session,    \* the number of this start
    alive,      \* the process runs
    lines,      \* lines logged so far
    written,    \* the lines that reached a file, in order
    kept,       \* lines that were whole in the ring when the handler began
    complete,   \* the session the report is complete of, or 0
    refused,    \* launches refused so far
    moved       \* one of them moved the file the instance has open

threads == <<pc, mine, at>>
ring == <<total, slots>>
file == <<files, handle, rotation, written>>
crash == <<handling, scan, seen, report, place, kept, complete>>
vars == <<threads, ring, mutex, file, crash, session, alive, lines, refused, moved>>

Gone == Backups + 1     \* a file that has no name any more
Empty == [line |-> 0, busy |-> {}, torn |-> FALSE]
Quiet(s) == s.busy = {} /\ ~s.torn

Idle == [t \in Threads |-> "idle"]

Init ==
    /\ pc = Idle
    /\ mine = [t \in Threads |-> 0] /\ at = [t \in Threads |-> 0]
    /\ total = 0 /\ slots = [i \in 0 .. Slots - 1 |-> Empty]
    /\ mutex = None
    /\ files = [i \in 0 .. Backups |-> <<>>] /\ handle = 0 /\ rotation = 0
    /\ handling = FALSE /\ scan = <<>> /\ seen = Empty
    /\ report = <<>> /\ place = 0
    /\ session = 1 /\ alive = TRUE /\ lines = 0
    /\ written = <<>> /\ kept = {} /\ complete = 0
    /\ refused = 0 /\ moved = FALSE

-----------------------------------------------------------------------------
(* Log::Write: the ring first, without a lock ... *)

Reserve(t) ==
    /\ alive /\ pc[t] = "idle" /\ lines < MaxLines
    /\ pc' = [pc EXCEPT ![t] = "reserved"]
    /\ lines' = lines + 1
    /\ mine' = [mine EXCEPT ![t] = lines + 1]
    /\ at' = [at EXCEPT ![t] = total % Slots]
    /\ total' = total + 1
    /\ UNCHANGED <<slots, mutex, file, crash, session, alive, refused, moved>>

BeginCopy(t) ==
    /\ pc[t] = "reserved"
    /\ pc' = [pc EXCEPT ![t] = "copying"]
    /\ slots' = [slots EXCEPT ![at[t]] =
                    [line |-> mine[t], busy |-> @.busy \cup {t}, torn |-> @.busy # {}]]
    /\ UNCHANGED <<mine, at, total, mutex, file, crash, session, alive, lines, refused, moved>>

EndCopy(t) ==
    /\ pc[t] = "copying"
    /\ pc' = [pc EXCEPT ![t] = "copied"]
    /\ slots' = [slots EXCEPT ![at[t]].busy = @ \ {t}]
    /\ UNCHANGED <<mine, at, total, mutex, file, crash, session, alive, lines, refused, moved>>

(* ... then the file, under s_mutex.  "Mutant" operators are the definition *)
(* that follows them with a plausible bug; they are not part of the model.  *)

Lock(t) ==
    /\ pc[t] = "copied" /\ mutex = None
    /\ mutex' = t
    /\ IF Len(files[0]) > Full
       THEN pc' = [pc EXCEPT ![t] = "rotate"] /\ rotation' = Backups
       ELSE pc' = [pc EXCEPT ![t] = "append"] /\ UNCHANGED rotation
    /\ UNCHANGED <<mine, at, ring, files, handle, written, crash, session, alive, lines, refused, moved>>

\* One file operation: the oldest backup is removed, or a file takes its place.
Rotate(t) ==
    /\ pc[t] = "rotate"
    /\ IF rotation = Backups
       THEN files' = [files EXCEPT ![Backups] = <<>>]
       ELSE files' = IF files[rotation] = <<>> THEN files
                     ELSE [files EXCEPT ![rotation + 1] = files[rotation], ![rotation] = <<>>]
    /\ IF rotation = 0
       THEN /\ pc' = [pc EXCEPT ![t] = "append"]
            /\ handle' = 0
            /\ UNCHANGED rotation
       ELSE rotation' = rotation - 1 /\ UNCHANGED <<pc, handle>>
    /\ UNCHANGED <<mine, at, ring, mutex, written, crash, session, alive, lines, refused, moved>>

\* The line is written and flushed.  A file that lost its name takes it along.
AppendLine(t) ==
    /\ pc[t] = "append"
    /\ pc' = [pc EXCEPT ![t] = "idle"]
    /\ mutex' = None
    /\ written' = Append(written, mine[t])
    /\ files' = IF handle = Gone THEN files ELSE [files EXCEPT ![handle] = Append(@, mine[t])]
    /\ UNCHANGED <<mine, at, ring, handle, rotation, crash, session, alive, lines, refused, moved>>

-----------------------------------------------------------------------------
(* The crash handler *)

Die ==
    /\ alive' = FALSE
    /\ pc' = Idle
    /\ mutex' = None
    /\ handling' = FALSE /\ scan' = <<>> /\ seen' = Empty

\* The ring's slots from the oldest line on.
MutantScanOrder == [i \in 1 .. total % Slots |-> i - 1]

ScanOrder ==
    LET start == IF total >= Slots THEN total % Slots ELSE 0
        count == IF total >= Slots THEN Slots ELSE total
    IN  [i \in 1 .. count |-> (start + i - 1) % Slots]

\* What the report at hand must show: whole lines nobody is about to overwrite.
Whole ==
    {slots[i].line : i \in {i \in 0 .. Slots - 1 :
        /\ Quiet(slots[i]) /\ slots[i].line # 0
        /\ \A t \in Threads : pc[t] \in {"reserved", "copying"} => at[t] # i}}

Put(entry) ==
    /\ report' = IF place < Len(report) THEN [report EXCEPT ![place + 1] = entry]
                                        ELSE Append(report, entry)
    /\ place' = place + 1

Header == [session |-> session, line |-> 0, whole |-> TRUE]

\* A thread faults: the first one writes the report from the file's start ...
Fault(t) ==
    /\ alive /\ pc[t] # "report" /\ ~handling
    /\ pc' = [pc EXCEPT ![t] = "report"]
    /\ handling' = TRUE
    /\ scan' = ScanOrder /\ seen' = Empty
    /\ report' = IF report = <<>> THEN <<Header>> ELSE [report EXCEPT ![1] = Header]
    /\ place' = 1
    /\ kept' = Whole
    /\ complete' = 0
    /\ UNCHANGED <<mine, at, ring, mutex, file, session, alive, lines, refused, moved>>

\* ... and one that faults after it ends the process.
FaultAgain(t) ==
    /\ alive /\ pc[t] # "report" /\ handling
    /\ Die
    /\ UNCHANGED <<mine, at, ring, file, report, place, kept, complete, session, lines, refused, moved>>

\* WriteRecentLog: the line is measured ...
Look(t) ==
    /\ pc[t] = "report" /\ scan # <<>> /\ seen = Empty
    /\ IF slots[Head(scan)].line = 0 THEN scan' = Tail(scan) /\ UNCHANGED seen
       ELSE seen' = slots[Head(scan)] /\ UNCHANGED scan
    /\ UNCHANGED <<threads, ring, mutex, file, handling, report, place, kept, complete,
                   session, alive, lines, refused, moved>>

\* ... and written, whole if nobody touched it in between.
Copy(t) ==
    /\ pc[t] = "report" /\ scan # <<>> /\ seen # Empty
    /\ Put([session |-> session, line |-> slots[Head(scan)].line,
            whole |-> Quiet(seen) /\ slots[Head(scan)] = seen])
    /\ scan' = Tail(scan)
    /\ seen' = Empty
    /\ UNCHANGED <<threads, ring, mutex, file, handling, kept, complete,
                   session, alive, lines, refused, moved>>

\* ftruncate to the offset, fsync, and the signal again.
MutantTruncate(t) ==
    /\ pc[t] = "report" /\ scan = <<>>
    /\ complete' = session
    /\ Die
    /\ UNCHANGED <<mine, at, ring, file, report, place, kept, session, lines, refused, moved>>

Truncate(t) ==
    /\ pc[t] = "report" /\ scan = <<>>
    /\ report' = SubSeq(report, 1, place)
    /\ complete' = session
    /\ Die
    /\ UNCHANGED <<mine, at, ring, file, place, kept, session, lines, refused, moved>>

-----------------------------------------------------------------------------
(* The process *)

\* Killed, or the machine goes down.
Kill ==
    /\ alive
    /\ Die
    /\ UNCHANGED <<mine, at, ring, file, report, place, kept, complete, session, lines, refused, moved>>

\* Log::Init and InstallCrashHandler: both files are opened as they are.
MutantStart ==
    /\ ~alive /\ session < MaxSessions
    /\ alive' = TRUE
    /\ session' = session + 1
    /\ total' = 0 /\ slots' = [i \in 0 .. Slots - 1 |-> Empty]
    /\ handle' = 0 /\ rotation' = 0
    /\ place' = 0
    /\ files' = [files EXCEPT ![0] = <<>>]
    /\ UNCHANGED <<threads, mutex, written, handling, scan, seen, report, kept, complete,
                   lines, refused, moved>>

Start ==
    /\ ~alive /\ session < MaxSessions
    /\ alive' = TRUE
    /\ session' = session + 1
    /\ total' = 0 /\ slots' = [i \in 0 .. Slots - 1 |-> Empty]
    /\ handle' = 0 /\ rotation' = 0
    /\ place' = 0
    /\ UNCHANGED <<threads, mutex, files, written, handling, scan, seen, report, kept, complete,
                   lines, refused, moved>>

\* A launch that is refused has logged by then (two lines, here one): it rotates
\* the files too, under the running instance's handle.
Refuse ==
    /\ alive /\ refused < MaxRefused /\ lines < MaxLines
    /\ refused' = refused + 1
    /\ lines' = lines + 1
    /\ written' = Append(written, lines + 1)
    /\ IF Len(files[0]) > Full
       THEN /\ files' = [i \in 0 .. Backups |-> IF i = 0 THEN <<lines + 1>> ELSE files[i - 1]]
            /\ handle' = IF handle = Gone THEN Gone ELSE handle + 1
            /\ moved' = TRUE
       ELSE files' = [files EXCEPT ![0] = Append(@, lines + 1)] /\ UNCHANGED <<handle, moved>>
    /\ UNCHANGED <<threads, ring, mutex, rotation, crash, session, alive>>

Write(t) == Reserve(t) \/ BeginCopy(t) \/ EndCopy(t) \/ Lock(t) \/ Rotate(t) \/ AppendLine(t)
Handler(t) == Fault(t) \/ FaultAgain(t) \/ Look(t) \/ Copy(t) \/ Truncate(t)

Next ==
    \/ \E t \in Threads : Write(t) \/ Handler(t)
    \/ Kill
    \/ Start
    \/ Refuse

Spec == Init /\ [][Next]_vars

ThreadSymmetry == Permutations(Threads)

-----------------------------------------------------------------------------
(* Properties *)

Entries == [session : 1 .. MaxSessions, line : 0 .. MaxLines, whole : BOOLEAN]

\* The types, and the mutex is held by whom it protects (Log::Write).
TypeOK ==
    /\ \A t \in Threads : pc[t] \in {"rotate", "append"} => mutex = t
    /\ pc \in [Threads -> {"idle", "reserved", "copying", "copied", "rotate", "append", "report"}]
    /\ mutex \in Threads \cup {None}
    /\ at \in [Threads -> 0 .. Slots - 1]
    /\ handle \in 0 .. Gone /\ rotation \in 0 .. Backups
    /\ DOMAIN files = 0 .. Backups /\ DOMAIN slots = 0 .. Slots - 1
    /\ \A i \in DOMAIN report : report[i] \in Entries

\* A finished crash report is of the crash it reports.  All its lines are of one
\* session: no line of an older, longer report comes after it or within it (the
\* file is opened without truncation, CrashHandlerImpl).  And each line that was
\* whole in the ring when the thread crashed is whole in it, unless another thread
\* has overwritten it since (the ring is read without a lock: WriteRecentLog).
ReportIsOfTheCrash ==
    /\ complete # 0 => report # <<>> /\ \A i \in DOMAIN report : report[i].session = complete
    /\ complete = session =>
           \A n \in kept :
               \/ \E i \in DOMAIN report : report[i].line = n /\ report[i].whole
               \/ \A i \in DOMAIN slots : slots[i].line # n

\* The files, oldest first, hold the lines in the order they were written, and
\* none is missing but the oldest - also after the program was killed in the
\* middle of a rotation and started again (RotateIfNeeded) - unless a refused
\* launch has moved the files.  File i holds what was written between two cuts.
LogHasNoGap ==
    moved \/ \E cut \in [0 .. Gone -> 0 .. Len(written)] :
                 /\ cut[0] = Len(written)
                 /\ \A i \in 0 .. Backups :
                        /\ cut[i + 1] <= cut[i]
                        /\ files[i] = SubSeq(written, cut[i + 1] + 1, cut[i])

-----------------------------------------------------------------------------
(* What the documentation says, and the program does not do *)

\* "the log rotates at 2MB (keeping 3 backups)": the last line of the running
\* instance is in the log, not in a backup nobody rotates any more.
LastLineInLog == alive => handle = 0
=============================================================================
