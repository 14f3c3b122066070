---------------------------- MODULE ConfigReload ----------------------------
(***************************************************************************)
(* The settings on Linux and their four copies: config.json, the engine's  *)
(* _config, the tray menu's config_, and the copy a `set` command of the   *)
(* command-line tool works on.  The tool loads, edits, saves and signals;  *)
(* a running instance answers SIGHUP by loading, saving again and handing  *)
(* the settings on; the tray's menu edits its own copy and saves that.     *)
(* Nothing locks the file, and a save truncates it before it writes.       *)
(*                                                                         *)
(* A save writes its text in one piece (it is smaller than the stream's    *)
(* buffer).  Where two saves overlap, a later load parses what the last    *)
(* one wrote: the parser stops at the end of the first JSON value.         *)
(***************************************************************************)
EXTENDS Naturals

CONSTANTS
    Tools,          \* invocations of the command-line tool that may overlap
    LiveFields,     \* settings whose `set` command ends in ReportReload
    QueuedFields,   \* those whose command does not: `tray on`, `tray off`
    MenuFields,     \* settings the tray's menu edits; {} for a headless instance
    Values,         \* what a setting can be
    Default,        \* what it is in a file that is missing or does not parse
    NoField,        \* no setting
    NoText,         \* the file is missing or just truncated
    BeginAt,        \* where the instance may be when a tool is started
    LaunchDuring    \* where the tools may be when an instance is launched

Fields == LiveFields \cup QueuedFields
Configs == [Fields -> Values]
InstPcs == {"off", "starting", "idle", "prompt", "truncate", "write", "update"}
ToolPcs == {"idle", "truncate", "write", "signal"}

ASSUME ReloadAssumption ==
    /\ LiveFields \cap QueuedFields = {}
    /\ MenuFields \subseteq Fields
    /\ Default \in Values
    /\ NoText \notin Configs /\ NoField \notin Fields
    /\ BeginAt \subseteq InstPcs
    /\ LaunchDuring \subseteq ToolPcs

VARIABLES
    file,       \* config.json
    ipc,        \* where the instance is
    saving,     \* newConfig of the applyConfig under way, or Defaults
    engine,     \* PresenceEngine::_config
    menu,       \* SniTray::config_
    hup,        \* SIGHUP is pending
    tpc,        \* where each tool is
    edited,     \* each tool's config, Defaults before and after
    field,      \* the setting each tool edits, or NoField
    wanted,     \* every setting as it was last set: what the user asked for
    hasty       \* the user's habit: acting before the last edit took effect

inst == <<ipc, saving, engine, menu>>
tool == <<tpc, edited, field>>
vars == <<file, inst, hup, tool, wanted, hasty>>

Defaults == [f \in Fields |-> Default]

\* LoadConfig: what does not parse gives the defaults, and no error.
LoadConfig == IF file = NoText THEN Defaults ELSE file

Init ==
    /\ file \in Configs \cup {NoText}
    /\ ipc = "off"
    /\ saving = Defaults
    /\ engine = Defaults
    /\ menu = Defaults
    /\ hup = FALSE
    /\ tpc = [t \in Tools |-> "idle"]
    /\ edited = [t \in Tools |-> Defaults]
    /\ field = [t \in Tools |-> NoField]
    /\ wanted = LoadConfig
    /\ hasty \in BOOLEAN

\* Every edit has taken effect.
AtRest == ipc \in {"off", "idle"} /\ ~hup /\ \A t \in Tools : tpc[t] = "idle"

UserActs == hasty \/ AtRest

-----------------------------------------------------------------------------
(* The instance.  "Mutant" operators are the definition that follows them    *)
(* with a plausible bug; they are not part of the model.                     *)

\* main() loads the settings for the engine and the tray ...
Launch ==
    /\ ipc = "off"
    /\ \A t \in Tools : tpc[t] \in LaunchDuring
    /\ engine' = LoadConfig
    /\ menu' = LoadConfig
    /\ ipc' = "starting"
    /\ UNCHANGED <<file, saving, hup, tool, wanted, hasty>>

\* ... and writes the pidfile later.
Announce ==
    /\ ipc = "starting"
    /\ ipc' = "idle"
    /\ UNCHANGED <<file, saving, engine, menu, hup, tool, wanted, hasty>>

\* SIGHUP: OnReloadRequested, or the headless loop
Reload ==
    /\ ipc = "idle" /\ hup
    /\ hup' = FALSE
    /\ saving' = LoadConfig
    /\ ipc' = "truncate"
    /\ UNCHANGED <<file, engine, menu, tool, wanted, hasty>>

\* A menu command edits the tray's own copy and applies that, at once or when
\* its text prompt is answered.
MenuEdit(f, v) ==
    /\ ipc = "prompt" \/ (ipc = "idle" /\ UserActs)
    /\ menu' = [menu EXCEPT ![f] = v]
    /\ saving' = menu'
    /\ wanted' = [wanted EXCEPT ![f] = v]
    /\ ipc' = "truncate"
    /\ UNCHANGED <<file, engine, hup, tool, hasty>>

\* PromptForText reads from a dialog's pipe on the main loop's thread: no
\* signal is dispatched while the dialog is open.
OpenPrompt ==
    /\ ipc = "idle" /\ UserActs
    /\ ipc' = "prompt"
    /\ UNCHANGED <<file, saving, engine, menu, hup, tool, wanted, hasty>>

CancelPrompt ==
    /\ ipc = "prompt"
    /\ ipc' = "idle"
    /\ UNCHANGED <<file, saving, engine, menu, hup, tool, wanted, hasty>>

\* applyConfig: SaveConfig opens (and truncates), then writes ...
SaveTruncates ==
    /\ ipc = "truncate"
    /\ file' = NoText
    /\ ipc' = "write"
    /\ UNCHANGED <<saving, engine, menu, hup, tool, wanted, hasty>>

SaveWrites ==
    /\ ipc = "write"
    /\ file' = saving
    /\ ipc' = "update"
    /\ UNCHANGED <<saving, engine, menu, hup, tool, wanted, hasty>>

\* without the call of SetInitialState after a reload
MutantUpdate ==
    /\ ipc = "update"
    /\ engine' = saving
    /\ saving' = Defaults
    /\ ipc' = "idle"
    /\ UNCHANGED <<file, menu, hup, tool, wanted, hasty>>

\* a pending flag that is reset when the reload is done
MutantUpdateResets ==
    /\ ipc = "update"
    /\ engine' = saving
    /\ menu' = saving
    /\ hup' = FALSE
    /\ saving' = Defaults
    /\ ipc' = "idle"
    /\ UNCHANGED <<file, tool, wanted, hasty>>

\* ... then engine.UpdateConfig, and SetInitialState for the tray's copy
Update ==
    /\ ipc = "update"
    /\ engine' = saving
    /\ menu' = saving
    /\ saving' = Defaults
    /\ ipc' = "idle"
    /\ UNCHANGED <<file, hup, tool, wanted, hasty>>

\* The instance ends; what was pending is gone with it.
Exit ==
    /\ ipc = "idle" /\ UserActs
    /\ ipc' = "off"
    /\ hup' = FALSE
    /\ UNCHANGED <<file, saving, engine, menu, tool, wanted, hasty>>

-----------------------------------------------------------------------------
(* The tool: a command that sets field f to v *)

\* Bound: `tray on` and `tray off`, which signal nobody, are given at rest only.
QueuedBegins == AtRest /\ ~hasty

ToolBegin(t, f, v) ==
    /\ tpc[t] = "idle"
    /\ ipc \in BeginAt
    /\ IF f \in QueuedFields THEN QueuedBegins ELSE UserActs
    /\ edited' = [edited EXCEPT ![t] = [LoadConfig EXCEPT ![f] = v]]
    /\ field' = [field EXCEPT ![t] = f]
    /\ tpc' = [tpc EXCEPT ![t] = "truncate"]
    /\ wanted' = [wanted EXCEPT ![f] = v]
    /\ UNCHANGED <<file, inst, hup, hasty>>

ToolTruncates(t) ==
    /\ tpc[t] = "truncate"
    /\ file' = NoText
    /\ tpc' = [tpc EXCEPT ![t] = "write"]
    /\ UNCHANGED <<inst, hup, edited, field, wanted, hasty>>

ToolWrites(t) ==
    /\ tpc[t] = "write"
    /\ file' = edited[t]
    /\ tpc' = [tpc EXCEPT ![t] = "signal"]
    /\ UNCHANGED <<inst, hup, edited, field, wanted, hasty>>

\* ReportReload reaches an instance that has written its pidfile; HandleTray
\* signals nobody.
ToolSignals(t) ==
    /\ tpc[t] = "signal"
    /\ hup' = (hup \/ (field[t] \in LiveFields /\ ipc \notin {"off", "starting"}))
    /\ tpc' = [tpc EXCEPT ![t] = "idle"]
    /\ edited' = [edited EXCEPT ![t] = Defaults]
    /\ field' = [field EXCEPT ![t] = NoField]
    /\ UNCHANGED <<file, inst, wanted, hasty>>

-----------------------------------------------------------------------------

Instance ==
    \/ Launch \/ Announce \/ Reload
    \/ \E f \in MenuFields : OpenPrompt \/ \E v \in Values : MenuEdit(f, v)
    \/ CancelPrompt
    \/ SaveTruncates \/ SaveWrites \/ Update
    \/ Exit

Tool ==
    \E t \in Tools :
        \/ \E f \in Fields, v \in Values : ToolBegin(t, f, v)
        \/ ToolTruncates(t) \/ ToolWrites(t) \/ ToolSignals(t)

Next == Instance \/ Tool

Spec == Init /\ [][Next]_vars

-----------------------------------------------------------------------------
(* Properties *)

\* The types; in particular nothing but the file is ever without a text: a load
\* in the middle of a save gives settings, if not the right ones (LoadConfig).
TypeOK ==
    /\ file \in Configs \cup {NoText}
    /\ ipc \in InstPcs
    /\ saving \in Configs /\ engine \in Configs /\ menu \in Configs
    /\ hup \in BOOLEAN
    /\ tpc \in [Tools -> ToolPcs]
    /\ edited \in [Tools -> Configs]
    /\ field \in [Tools -> Fields \cup {NoField}]
    /\ wanted \in Configs
    /\ hasty \in BOOLEAN

\* Once every tool is done and its signal answered, the file, the engine and the
\* tray's menu agree on every setting that is applied live, however loads and
\* saves overlapped: the signal that follows every save is not lost, although
\* signals coalesce (ReportReload, OnReloadRequested, applyConfig).
CopiesAgree ==
    AtRest /\ ipc = "idle" =>
        \A f \in LiveFields : engine[f] = LoadConfig[f] /\ menu[f] = LoadConfig[f]

\* For a user who waits until an edit has taken effect, every live setting is as it
\* was last set, by the tool or in the menu, in the file and in a running instance
\* (HandleBoolToggle and its like, applyConfig, SetInitialState on reload).
LiveEditsKept ==
    AtRest /\ ~hasty => \A f \in LiveFields :
                            /\ LoadConfig[f] = wanted[f]
                            /\ ipc = "idle" => engine[f] = wanted[f]

\* "Saved - applied live.": "a running instance (tray or headless) picked the change
\* up immediately, no restart needed" (docs/CLI.md:127-128), said to every user.
HastyEditsKept ==
    AtRest => \A f \in LiveFields : LoadConfig[f] = wanted[f]

\* "Saved - takes effect next launch": the file keeps `tray on` and `tray off`.
QueuedEditsKept == AtRest => \A f \in QueuedFields : LoadConfig[f] = wanted[f]
=============================================================================
