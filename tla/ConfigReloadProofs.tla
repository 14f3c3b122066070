-------------------------- MODULE ConfigReloadProofs --------------------------
(***************************************************************************)
(* Theorems about the settings and their copies, for any number of tools,  *)
(* settings and values.                                                    *)
(*                                                                         *)
(* That the copies agree at rest needs no pacing of the user: AgreeInv     *)
(* says what each step of a save leaves to the next one.  That no edit is  *)
(* lost needs a user who waits: OneAtATime says that then one actor acts   *)
(* at a time, and PacedInv which copies hold what was asked for meanwhile. *)
(***************************************************************************)
EXTENDS ConfigReload, TLAPS

AllIdle == \A t \in Tools : tpc[t] = "idle"

\* Two settings agree on what is applied live.
Alike(c, d) == \A f \in LiveFields : c[f] = d[f]

-----------------------------------------------------------------------------
(* The actions of Next, one by one *)

\* A step of the specification is one of its actions or a stutter.
LEMMA StepCases ==
    ASSUME [Next]_vars
    PROVE  \/ Launch \/ Announce \/ Reload
           \/ \E f \in MenuFields, v \in Values : MenuEdit(f, v)
           \/ OpenPrompt \/ CancelPrompt
           \/ SaveTruncates \/ SaveWrites \/ Update \/ Exit
           \/ \E t \in Tools, f \in Fields, v \in Values : ToolBegin(t, f, v)
           \/ \E t \in Tools : ToolTruncates(t)
           \/ \E t \in Tools : ToolWrites(t)
           \/ \E t \in Tools : ToolSignals(t)
           \/ UNCHANGED vars
BY DEF Next, Instance, Tool

-----------------------------------------------------------------------------
(* Type correctness *)

LEMMA LoadGivesConfig == ASSUME TypeOK PROVE LoadConfig \in Configs
BY ReloadAssumption DEF TypeOK, LoadConfig, Configs, Defaults

LEMMA SetGivesConfig ==
    ASSUME NEW c \in Configs, NEW f \in Fields, NEW v \in Values
    PROVE  [c EXCEPT ![f] = v] \in Configs
BY DEF Configs

LEMMA DefaultsAreConfig == Defaults \in Configs
BY ReloadAssumption DEF Defaults, Configs

LEMMA InitTypeOK == Init => TypeOK
BY ReloadAssumption, DefaultsAreConfig DEF Init, TypeOK, LoadConfig, InstPcs, ToolPcs

LEMMA StepTypeOK == TypeOK /\ [Next]_vars => TypeOK'
<1> SUFFICES ASSUME TypeOK, [Next]_vars PROVE TypeOK'
  OBVIOUS
<1> USE LoadGivesConfig, DefaultsAreConfig DEF TypeOK, InstPcs, ToolPcs, inst, tool
<1>1. CASE Launch  BY <1>1 DEF Launch
<1>2. CASE Announce  BY <1>2 DEF Announce
<1>3. CASE Reload  BY <1>3 DEF Reload
<1>4. CASE \E f \in MenuFields, v \in Values : MenuEdit(f, v)
  <2> PICK f \in MenuFields, v \in Values : MenuEdit(f, v)  BY <1>4
  <2>1. f \in Fields  BY ReloadAssumption
  <2> QED  BY <2>1, SetGivesConfig DEF MenuEdit
<1>5. CASE OpenPrompt  BY <1>5 DEF OpenPrompt
<1>6. CASE CancelPrompt  BY <1>6 DEF CancelPrompt
<1>7. CASE SaveTruncates  BY <1>7 DEF SaveTruncates
<1>8. CASE SaveWrites  BY <1>8 DEF SaveWrites
<1>9. CASE Update  BY <1>9 DEF Update
<1>10. CASE Exit  BY <1>10 DEF Exit
<1>11. CASE \E t \in Tools, f \in Fields, v \in Values : ToolBegin(t, f, v)
  <2> PICK t \in Tools, f \in Fields, v \in Values : ToolBegin(t, f, v)  BY <1>11
  <2>1. [LoadConfig EXCEPT ![f] = v] \in Configs  BY SetGivesConfig
  <2> QED  BY <2>1, SetGivesConfig DEF ToolBegin
<1>12. CASE \E t \in Tools : ToolTruncates(t)  BY <1>12 DEF ToolTruncates
<1>13. CASE \E t \in Tools : ToolWrites(t)  BY <1>13 DEF ToolWrites
<1>14. CASE \E t \in Tools : ToolSignals(t)  BY <1>14 DEF ToolSignals
<1>15. CASE UNCHANGED vars  BY <1>15 DEF vars
<1> QED  BY StepCases, <1>1, <1>2, <1>3, <1>4, <1>5, <1>6, <1>7, <1>8, <1>9, <1>10,
            <1>11, <1>12, <1>13, <1>14, <1>15

\* Every copy of the settings is a whole configuration at any time, whatever a load
\* found in the file (LoadConfig).
THEOREM TypeCorrect == Spec => []TypeOK
BY InitTypeOK, StepTypeOK, PTL DEF Spec

-----------------------------------------------------------------------------
(* The copies agree *)

\* What the steps of overlapping saves leave to each other.  Only a queued edit
\* ends without a signal, and it is alone.
AgreeInv ==
    /\ \A t \in Tools : tpc[t] # "idle" => field[t] \in Fields
    /\ ipc = "off" => ~hup
    /\ ipc = "starting" => AllIdle /\ ~hup
    /\ AllIdle /\ ~hup /\ ipc \in {"starting", "idle", "prompt"} =>
           Alike(engine, LoadConfig) /\ Alike(menu, LoadConfig)
    /\ AllIdle /\ ~hup /\ ipc = "update" => file = saving
    /\ \A t \in Tools : tpc[t] # "idle" /\ field[t] \in QueuedFields =>
           /\ ~hasty /\ ~hup /\ ipc \in {"off", "idle"}
           /\ \A u \in Tools : tpc[u] # "idle" => u = t
           /\ ipc = "idle" => Alike(engine, edited[t]) /\ Alike(menu, edited[t])
           /\ tpc[t] = "signal" => file = edited[t]

\* Not every edit has taken effect while a tool is at work.
LEMMA NoActWhileBusy ==
    ASSUME NEW t \in Tools, tpc[t] # "idle"
    PROVE  ~AtRest
BY DEF AtRest

LEMMA LoadWhole == ASSUME file \in Configs PROVE LoadConfig = file
BY ReloadAssumption DEF LoadConfig

LEMMA StepAgrees ==
    ASSUME "starting" \notin BeginAt, LaunchDuring \subseteq {"idle"},
           TypeOK, AgreeInv, [Next]_vars
    PROVE  AgreeInv'
<1>1. CASE Launch
  <2>1. AllIdle /\ ~hup  BY <1>1 DEF Launch, AllIdle, AgreeInv
  <2> QED  BY <1>1, <2>1 DEF Launch, AllIdle, AgreeInv, Alike, LoadConfig, tool
<1>2. CASE Announce
  BY <1>2 DEF Announce, AgreeInv, AllIdle, Alike, LoadConfig, tool
<1>3. CASE Reload
  BY <1>3 DEF Reload, AgreeInv, AllIdle, Alike, LoadConfig, tool
<1>4. CASE \E f \in MenuFields, v \in Values : MenuEdit(f, v)
  <2> PICK f \in MenuFields, v \in Values : MenuEdit(f, v)  BY <1>4
  <2>1. ASSUME NEW t \in Tools, tpc[t] # "idle" PROVE field[t] \notin QueuedFields
    BY <2>1, NoActWhileBusy DEF MenuEdit, AgreeInv, UserActs
  <2> QED  BY <2>1 DEF MenuEdit, AgreeInv, AllIdle, Alike, LoadConfig, tool
<1>5. CASE OpenPrompt
  <2>1. ASSUME NEW t \in Tools, tpc[t] # "idle" PROVE field[t] \notin QueuedFields
    BY <1>5, <2>1, NoActWhileBusy DEF OpenPrompt, AgreeInv, UserActs
  <2> QED  BY <1>5, <2>1 DEF OpenPrompt, AgreeInv, AllIdle, Alike, LoadConfig, tool
<1>6. CASE CancelPrompt
  BY <1>6 DEF CancelPrompt, AgreeInv, AllIdle, Alike, LoadConfig, tool
<1>7. CASE SaveTruncates
  BY <1>7 DEF SaveTruncates, AgreeInv, AllIdle, Alike, LoadConfig, tool
<1>8. CASE SaveWrites
  BY <1>8 DEF SaveWrites, AgreeInv, AllIdle, Alike, LoadConfig, tool
<1>9. CASE Update
  <2>1. AllIdle /\ ~hup => LoadConfig = saving
    BY <1>9, LoadWhole DEF Update, AgreeInv, TypeOK
  <2> QED  BY <1>9, <2>1 DEF Update, AgreeInv, AllIdle, Alike, LoadConfig, tool
<1>10. CASE Exit
  BY <1>10 DEF Exit, AgreeInv, AllIdle, Alike, LoadConfig, tool
<1>11. CASE \E t \in Tools, f \in Fields, v \in Values : ToolBegin(t, f, v)
  <2> PICK t \in Tools, f \in Fields, v \in Values : ToolBegin(t, f, v)  BY <1>11
  <2>1. ipc # "starting" /\ tpc'[t] = "truncate" /\ field'[t] = f
        /\ edited'[t] = [LoadConfig EXCEPT ![f] = v]
    BY DEF ToolBegin, TypeOK
  <2>2. ~AllIdle'
    BY <2>1 DEF AllIdle
  <2>3. ASSUME NEW u \in Tools, u # t
        PROVE tpc'[u] = tpc[u] /\ field'[u] = field[u] /\ edited'[u] = edited[u]
    BY <2>3 DEF ToolBegin, TypeOK
  <2>4. ASSUME NEW u \in Tools, tpc[u] # "idle" PROVE field[u] \notin QueuedFields
    BY <2>4, NoActWhileBusy DEF ToolBegin, AgreeInv, UserActs, QueuedBegins
  <2>5. CASE f \in QueuedFields
    <3>1. AllIdle /\ ~hup /\ ~hasty /\ ipc \in {"off", "idle"}
      BY <2>5 DEF ToolBegin, QueuedBegins, AtRest, AllIdle
    <3>2. Alike(LoadConfig, edited'[t])
      BY <2>1, <2>5, LoadGivesConfig, ReloadAssumption DEF Alike, Configs, Fields
    <3>3. ipc = "idle" => Alike(engine, edited'[t]) /\ Alike(menu, edited'[t])
      BY <3>1, <3>2 DEF AgreeInv, Alike
    <3> QED  BY <2>1, <2>2, <2>3, <3>1, <3>3 DEF ToolBegin, AgreeInv, AllIdle, Alike, inst
  <2>6. CASE f \notin QueuedFields
    BY <2>1, <2>2, <2>3, <2>4, <2>6 DEF ToolBegin, AgreeInv, AllIdle, inst
  <2> QED  BY <2>5, <2>6
<1>12. CASE \E t \in Tools : ToolTruncates(t)
  <2> PICK t \in Tools : ToolTruncates(t)  BY <1>12
  <2>1. tpc[t] = "truncate" /\ tpc'[t] = "write" /\ ~AllIdle /\ ~AllIdle'
        /\ \A u \in Tools : u # t => tpc'[u] = tpc[u]
    BY DEF ToolTruncates, TypeOK, AllIdle
  <2> QED  BY <2>1 DEF ToolTruncates, AgreeInv, Alike, inst
<1>13. CASE \E t \in Tools : ToolWrites(t)
  <2> PICK t \in Tools : ToolWrites(t)  BY <1>13
  <2>1. tpc[t] = "write" /\ tpc'[t] = "signal" /\ ~AllIdle /\ ~AllIdle'
        /\ \A u \in Tools : u # t => tpc'[u] = tpc[u]
    BY DEF ToolWrites, TypeOK, AllIdle
  <2> QED  BY <2>1 DEF ToolWrites, AgreeInv, Alike, inst
<1>14. CASE \E t \in Tools : ToolSignals(t)
  <2> PICK t \in Tools : ToolSignals(t)  BY <1>14
  <2>1. tpc[t] = "signal" /\ tpc'[t] = "idle" /\ ipc # "starting"
        /\ \A u \in Tools : u # t => /\ tpc'[u] = tpc[u] /\ field'[u] = field[u]
                                     /\ edited'[u] = edited[u]
    BY DEF ToolSignals, TypeOK, AllIdle, AgreeInv
  <2>2. CASE field[t] \in QueuedFields
    <3>1. ~hup' /\ ipc \in {"off", "idle"} /\ file = edited[t] /\ AllIdle'
      BY <2>1, <2>2, ReloadAssumption DEF ToolSignals, AgreeInv, AllIdle, TypeOK
    <3>2. LoadConfig' = edited[t]
      BY <2>1, <3>1, ReloadAssumption DEF ToolSignals, LoadConfig, TypeOK
    <3>3. ipc = "idle" => Alike(engine, edited[t]) /\ Alike(menu, edited[t])
      BY <2>1, <2>2 DEF AgreeInv
    <3> QED  BY <2>1, <3>1, <3>2, <3>3 DEF ToolSignals, AgreeInv, AllIdle, Alike, inst
  <2>3. CASE field[t] \notin QueuedFields
    <3>1. field[t] \in LiveFields  BY <2>1, <2>3 DEF AgreeInv, Fields
    <3>2. ipc # "off" => hup'  BY <2>1, <3>1 DEF ToolSignals
    <3>3. \A u \in Tools : tpc[u] # "idle" => field[u] \notin QueuedFields
      BY <2>1, <2>3 DEF AgreeInv
    <3>4. ipc = "off" => ~hup'  BY <2>1 DEF ToolSignals, AgreeInv
    <3> QED  BY <2>1, <3>2, <3>3, <3>4 DEF ToolSignals, AgreeInv, AllIdle, inst
  <2> QED  BY <2>2, <2>3
<1>15. CASE UNCHANGED vars
  BY <1>15 DEF vars, inst, tool, AgreeInv, AllIdle, Alike, LoadConfig
<1> QED  BY StepCases, <1>1, <1>2, <1>3, <1>4, <1>5, <1>6, <1>7, <1>8, <1>9, <1>10,
            <1>11, <1>12, <1>13, <1>14, <1>15

\* However loads, saves and signals of any number of tools, the menu and reloads
\* overlap: at rest the file, the engine and the menu agree on what is applied live
\* (ReportReload, applyConfig) - provided no tool is started before the pidfile is
\* written, and no instance while a tool is at work.
THEOREM SavesAgree ==
    ASSUME "starting" \notin BeginAt, LaunchDuring \subseteq {"idle"}
    PROVE  Spec => []CopiesAgree
<1>1. Init => AgreeInv
  BY DEF Init, AgreeInv, AllIdle
<1>2. TypeOK /\ AgreeInv /\ [Next]_vars => AgreeInv'
  BY StepAgrees
<1>3. AgreeInv => CopiesAgree
  BY DEF AgreeInv, CopiesAgree, AtRest, AllIdle, Alike
<1> QED  BY <1>1, <1>2, <1>3, TypeCorrect, PTL DEF Spec

-----------------------------------------------------------------------------
(* No edit is lost *)

\* A user who waits: one actor at a time ...
OneAtATime ==
    /\ \A t, u \in Tools : tpc[t] # "idle" /\ tpc[u] # "idle" => t = u
    /\ ~AllIdle => ipc \in {"off", "idle"} /\ ~hup
    /\ hup => ipc = "idle"

\* ... and the copy that is worked on holds what was asked for.
CopiesKept ==
    /\ \A t \in Tools : tpc[t] # "idle" => Alike(edited[t], wanted)
    /\ \A t \in Tools : tpc[t] = "signal" => file = edited[t]
    /\ AllIdle /\ ipc \in {"off", "starting", "idle", "prompt"} => Alike(LoadConfig, wanted)
    /\ AllIdle /\ ~hup /\ ipc \in {"starting", "idle", "prompt"} =>
           Alike(engine, wanted) /\ Alike(menu, wanted)
    /\ \A t \in Tools : tpc[t] # "idle" /\ field[t] \in QueuedFields /\ ipc = "idle" =>
           Alike(engine, wanted) /\ Alike(menu, wanted)
    /\ ipc \in {"truncate", "write", "update"} => Alike(saving, wanted)
    /\ ipc = "update" => file = saving

PacedInv ==
    /\ \A t \in Tools : tpc[t] # "idle" => field[t] \in Fields
    /\ ~hasty => OneAtATime /\ CopiesKept

LEMMA SetAlike ==
    ASSUME NEW c \in Configs, NEW d \in Configs, NEW f \in Fields, NEW v \in Values,
           Alike(c, d)
    PROVE  Alike([c EXCEPT ![f] = v], [d EXCEPT ![f] = v])
BY DEF Alike, Configs, Fields

LEMMA StepKeeps ==
    ASSUME LaunchDuring \subseteq {"idle"}, TypeOK, PacedInv, [Next]_vars
    PROVE  PacedInv'
<1>0. hasty' = hasty
  BY StepCases DEF Launch, Announce, Reload, MenuEdit, OpenPrompt, CancelPrompt, SaveTruncates,
     SaveWrites, Update, Exit, ToolBegin, ToolTruncates, ToolWrites, ToolSignals, vars
<1>f. (\A t \in Tools : tpc[t] # "idle" => field[t] \in Fields)'
  <2>1. CASE UNCHANGED tool  BY <2>1 DEF PacedInv, tool
  <2>2. CASE \E t \in Tools, f \in Fields, v \in Values : ToolBegin(t, f, v)
    BY <2>2 DEF PacedInv, ToolBegin, TypeOK
  <2>3. CASE \E t \in Tools : ToolTruncates(t) \/ ToolWrites(t) \/ ToolSignals(t)
    BY <2>3 DEF PacedInv, ToolTruncates, ToolWrites, ToolSignals, TypeOK
  <2> QED
    BY StepCases, <2>1, <2>2, <2>3 DEF Launch, Announce, Reload, MenuEdit, OpenPrompt,
       CancelPrompt, SaveTruncates, SaveWrites, Update, Exit, vars, tool
<1> SUFFICES ASSUME ~hasty PROVE OneAtATime' /\ CopiesKept'
  BY <1>0, <1>f DEF PacedInv
<1>h. OneAtATime /\ CopiesKept  BY DEF PacedInv
<1>1. CASE Launch
  <2>1. AllIdle /\ ~hup  BY <1>1, <1>h DEF Launch, AllIdle, OneAtATime
  <2> QED  BY <1>1, <1>h, <2>1 DEF Launch, OneAtATime, CopiesKept, AllIdle, Alike, LoadConfig, tool
<1>2. CASE Announce
  BY <1>2, <1>h DEF Announce, OneAtATime, CopiesKept, AllIdle, Alike, LoadConfig, tool
<1>3. CASE Reload
  BY <1>3, <1>h DEF Reload, OneAtATime, CopiesKept, AllIdle, Alike, LoadConfig, tool
<1>4. CASE \E f \in MenuFields, v \in Values : MenuEdit(f, v)
  <2> PICK f \in MenuFields, v \in Values : MenuEdit(f, v)  BY <1>4
  <2>1. AllIdle /\ ~hup /\ ipc \in {"prompt", "idle"}
    BY <1>h DEF MenuEdit, OneAtATime, UserActs, AtRest, AllIdle
  <2>2. Alike(menu, wanted)  BY <1>h, <2>1 DEF CopiesKept
  <2>3. Alike(saving', wanted')
    BY <2>2, SetAlike, ReloadAssumption DEF MenuEdit, TypeOK
  <2> QED  BY <1>h, <2>1, <2>3 DEF MenuEdit, OneAtATime, CopiesKept, AllIdle, tool
<1>5. CASE OpenPrompt
  <2>1. AllIdle /\ ~hup  BY <1>5 DEF OpenPrompt, UserActs, AtRest, AllIdle
  <2> QED  BY <1>5, <1>h, <2>1 DEF OpenPrompt, OneAtATime, CopiesKept, AllIdle, Alike, LoadConfig, tool
<1>6. CASE CancelPrompt
  BY <1>6, <1>h DEF CancelPrompt, OneAtATime, CopiesKept, AllIdle, Alike, LoadConfig, tool
<1>7. CASE SaveTruncates
  BY <1>7, <1>h DEF SaveTruncates, OneAtATime, CopiesKept, AllIdle, Alike, tool
<1>8. CASE SaveWrites
  BY <1>8, <1>h DEF SaveWrites, OneAtATime, CopiesKept, AllIdle, Alike, tool
<1>9. CASE Update
  <2>1. AllIdle /\ LoadConfig = saving
    BY <1>9, <1>h, LoadWhole DEF Update, OneAtATime, CopiesKept, TypeOK
  <2> QED  BY <1>9, <1>h, <2>1 DEF Update, OneAtATime, CopiesKept, AllIdle, Alike, LoadConfig, tool
<1>10. CASE Exit
  <2>1. AllIdle /\ ~hup  BY <1>10 DEF Exit, UserActs, AtRest, AllIdle
  <2> QED  BY <1>10, <1>h, <2>1 DEF Exit, OneAtATime, CopiesKept, AllIdle, Alike, LoadConfig, tool
<1>11. CASE \E t \in Tools, f \in Fields, v \in Values : ToolBegin(t, f, v)
  <2> PICK t \in Tools, f \in Fields, v \in Values : ToolBegin(t, f, v)  BY <1>11
  <2>1. AllIdle /\ ~hup /\ ipc \in {"off", "idle"}
    BY DEF ToolBegin, UserActs, QueuedBegins, AtRest, AllIdle
  <2>2. /\ tpc'[t] = "truncate" /\ field'[t] = f
        /\ edited'[t] = [LoadConfig EXCEPT ![f] = v]
        /\ wanted' = [wanted EXCEPT ![f] = v]
        /\ \A u \in Tools : u # t => tpc'[u] = "idle"
    BY <2>1 DEF ToolBegin, TypeOK, AllIdle
  <2>3. ~AllIdle'  BY <2>2 DEF AllIdle
  <2>4. Alike(edited'[t], wanted')
    <3>1. Alike(LoadConfig, wanted)  BY <1>h, <2>1 DEF CopiesKept
    <3>2. LoadConfig \in Configs /\ wanted \in Configs  BY LoadGivesConfig DEF TypeOK
    <3>3. Alike([LoadConfig EXCEPT ![f] = v], [wanted EXCEPT ![f] = v])
      BY <3>1, <3>2, SetAlike
    <3> QED  BY <2>2, <3>3
  <2>5. f \in QueuedFields => Alike(wanted, wanted')
    BY <2>2, ReloadAssumption DEF Alike, TypeOK, Configs, Fields
  <2>6. f \in QueuedFields /\ ipc = "idle" => Alike(engine, wanted') /\ Alike(menu, wanted')
    BY <1>h, <2>1, <2>5 DEF CopiesKept, Alike
  <2> QED  BY <2>1, <2>2, <2>3, <2>4, <2>6 DEF ToolBegin, OneAtATime, CopiesKept, inst
<1>12. CASE \E t \in Tools : ToolTruncates(t)
  <2> PICK t \in Tools : ToolTruncates(t)  BY <1>12
  <2>1. tpc[t] = "truncate" /\ tpc'[t] = "write" /\ ~AllIdle /\ ~AllIdle'
        /\ \A u \in Tools : u # t => tpc'[u] = tpc[u]
    BY DEF ToolTruncates, TypeOK, AllIdle
  <2> QED  BY <1>h, <2>1 DEF ToolTruncates, OneAtATime, CopiesKept, Alike, inst
<1>13. CASE \E t \in Tools : ToolWrites(t)
  <2> PICK t \in Tools : ToolWrites(t)  BY <1>13
  <2>1. tpc[t] = "write" /\ tpc'[t] = "signal" /\ ~AllIdle /\ ~AllIdle'
        /\ \A u \in Tools : u # t => tpc'[u] = tpc[u]
    BY DEF ToolWrites, TypeOK, AllIdle
  <2> QED  BY <1>h, <2>1 DEF ToolWrites, OneAtATime, CopiesKept, Alike, inst
<1>14. CASE \E t \in Tools : ToolSignals(t)
  <2> PICK t \in Tools : ToolSignals(t)  BY <1>14
  <2>1. tpc[t] = "signal" /\ ~AllIdle /\ AllIdle' /\ ipc \in {"off", "idle"}
    BY <1>h DEF ToolSignals, TypeOK, AllIdle, OneAtATime
  <2>2. LoadConfig' = edited[t] /\ Alike(edited[t], wanted)
    BY <1>h, <2>1, ReloadAssumption DEF ToolSignals, LoadConfig, CopiesKept, TypeOK
  <2>3. ipc = "idle" /\ ~hup' => Alike(engine, wanted) /\ Alike(menu, wanted)
    <3>1. ipc = "idle" /\ ~hup' => field[t] \notin LiveFields  BY DEF ToolSignals
    <3> QED  BY <1>h, <2>1, <3>1 DEF CopiesKept, PacedInv, Fields
  <2>4. hup' => ipc = "idle"  BY <1>h, <2>1 DEF ToolSignals, OneAtATime
  <2> QED  BY <2>1, <2>2, <2>3, <2>4 DEF ToolSignals, OneAtATime, CopiesKept, AllIdle, Alike, inst
<1>15. CASE UNCHANGED vars
  BY <1>15, <1>h DEF vars, inst, tool, OneAtATime, CopiesKept, AllIdle, Alike, LoadConfig
<1> QED  BY StepCases, <1>1, <1>2, <1>3, <1>4, <1>5, <1>6, <1>7, <1>8, <1>9, <1>10,
            <1>11, <1>12, <1>13, <1>14, <1>15

\* For a user who waits until an edit has taken effect, no live setting is ever lost,
\* whoever edits it, across exits and launches (applyConfig, SetInitialState, Load).
THEOREM WaitingUserLosesNothing ==
    ASSUME LaunchDuring \subseteq {"idle"}
    PROVE  Spec => []LiveEditsKept
<1>1. Init => PacedInv
  BY DEF Init, PacedInv, OneAtATime, CopiesKept, AllIdle, Alike, LoadConfig
<1>2. TypeOK /\ PacedInv /\ [Next]_vars => PacedInv'
  BY StepKeeps
<1>3. PacedInv => LiveEditsKept
  BY DEF PacedInv, CopiesKept, LiveEditsKept, AtRest, AllIdle, Alike
<1> QED  BY <1>1, <1>2, <1>3, TypeCorrect, PTL DEF Spec

=============================================================================
