------------------------- MODULE ShimToggle_proofs --------------------------
(***************************************************************************)
(* Theorems about ShimToggle, for any set of targets, as long as a command *)
(* does not outlive its ssh session.  The inductive invariant says where   *)
(* the genuine library is, what a command has established by the step it   *)
(* has reached, and that only the command shimBusy_ waits for is running.  *)
(***************************************************************************)
EXTENDS ShimToggle, TLAPS

(* The genuine library is under the live name or, once moved, for good     *)
(* under libqcxclient.so.real, and never under both.                       *)
OneGenuine ==
  \A t \in Targets :
    \/ live[t] = "genuine" /\ backup[t] = "absent"
    \/ live[t] # "genuine" /\ backup[t] = "genuine"

(* The command that runs is the one the toggle in flight waits for.        *)
OneCommand ==
  \A s \in Slots : ~Idle(s) =>
    /\ job = "toggle" /\ jobSlot = s /\ answer = "waiting"
    /\ box[s] \in Targets

(* What a command knows of the backup and of its scratch link.             *)
Established ==
  \A s \in Slots :
    /\ at[s] \in {"chmod", "test", "move", "pick", "copy"} => aim[s] = "Shim"
    /\ at[s] \in {"unlink", "link", "switch"} /\ aim[s] = "Real"
          => backup[box[s]] = "genuine"
    /\ at[s] = "move" => backup[box[s]] = "absent"
    /\ at[s] \in {"pick", "copy", "switch"} => backup[box[s]] = "genuine"
    /\ at[s] = "copy" => copies[s] = "backup"
    /\ at[s] \in {"test", "move", "pick", "copy", "switch"} =>
          scratch[box[s]] = IF aim[s] = "Shim" THEN "linkShim" ELSE "linkReal"

(* A toggle shows Blind; what is shown or posted is true where it was read.*)
Truthful ==
  /\ job = "toggle" => shown = "Blind"
  /\ shown # "Blind" => readOf \in Targets
  /\ shown = "Real" => Loads(readOf) = "genuine"
  /\ shown = "Shim" => Loads(readOf) # "genuine"
  /\ job # "none" => jobOn \in Targets
  /\ job # "none" /\ answer = "Real" => Loads(jobOn) = "genuine"
  /\ job # "none" /\ answer = "Shim" => Loads(jobOn) # "genuine"
  /\ \A s \in Slots : ~Idle(s) => box[s] = jobOn

(* A shim a command relies on is there unless an install has removed it.   *)
ShimThere(t) == shim[t] \/ t \in wiped
Grounded ==
  /\ \A s \in Slots : at[s] \notin {"idle", "check"} /\ aim[s] = "Shim" => ShimThere(box[s])
  /\ \A t \in Targets : "linkShim" \in {live[t], scratch[t]} => ShimThere(t)

(* An install that copies has a genuine source, unless it was overtaken.   *)
Sourced ==
  /\ stage # "none" => installOn \in Targets
  /\ stage = "copy" =>
       IF installCopies = "backup" THEN backup[installOn] = "genuine"
       ELSE live[installOn] = "genuine" \/ installOn \in overtaken
  /\ RealRefIsGenuine

IInv == TypeOK /\ OneGenuine /\ OneCommand /\ Established /\ Truthful /\ Grounded /\ Sourced

-----------------------------------------------------------------------------
(* An update keeps a function's type even where it misses its domain.      *)
LEMMA UpdateTyped ==
  ASSUME NEW S, NEW T, NEW f \in [S -> T], NEW x, NEW v \in T
  PROVE  [f EXCEPT ![x] = v] \in [S -> T]
OBVIOUS

LEMMA TypeStep == TypeOK /\ [Next]_vars => TypeOK'
<1> SUFFICES ASSUME TypeOK, [Next]_vars PROVE TypeOK'
    OBVIOUS
<1> USE DEF TypeOK, Shown, LibFiles, Steps, Stages, Chosen
<1>1. CASE Refresh
      BY <1>1 DEF Refresh, guiVars, jobVars, dirVars, varVars, scriptVars, installVars, histVars
<1>2. CASE RefreshUnreachable
      BY <1>2 DEF RefreshUnreachable, guiVars, jobVars, dirVars, varVars, scriptVars, installVars, histVars
<1>3. CASE Toggle
      BY <1>3 DEF Toggle, Idle, guiVars, jobVars, dirVars, varVars, scriptVars, installVars, histVars
<1>4. CASE \E t \in Targets : Configure(t)
      BY <1>4 DEF Configure, guiVars, jobVars, dirVars, varVars, scriptVars, installVars, histVars
<1>5. CASE Apply
      BY <1>5 DEF Apply, guiVars, jobVars, dirVars, varVars, scriptVars, installVars, histVars
<1>6. CASE QueryAnswered
      BY <1>6 DEF QueryAnswered, Reading, guiVars, jobVars, dirVars, varVars, scriptVars, installVars, histVars
<1>7. CASE SessionLost
      BY <1>7 DEF SessionLost, CommandEnds, guiVars, jobVars, dirVars, varVars, scriptVars, installVars, histVars
<1>8. ASSUME NEW s \in Slots, Script(s) PROVE TypeOK'
  <2> USE DEF Goes, Exits, CommandEnds, guiVars, jobVars, dirVars, varVars, scriptVars, installVars, histVars
  <2>1. CASE Fails(s)
        BY <2>1 DEF Fails
  <2>2. CASE Check(s)
        BY <2>2 DEF Check
  <2>3. CASE Chmod(s)
        BY <2>3 DEF Chmod
  <2>4. CASE Unlink(s)
        BY <2>4, UpdateTyped DEF Unlink
  <2>5. CASE Link(s)
        BY <2>5, UpdateTyped DEF Link
  <2>6. CASE Test(s)
        BY <2>6 DEF Test
  <2>7. CASE Move(s)
        BY <2>7, UpdateTyped DEF Move
  <2>8. CASE Pick(s)
        BY <2>8 DEF Pick, Source
  <2>9. CASE Copy(s)
        BY <2>9, UpdateTyped DEF Copy, Read, BehindBackup, Loads, ShimFile
  <2>10. CASE Switch(s)
    <3>1. live' \in [Targets -> LibFiles] /\ scratch' \in [Targets -> {"absent", "linkShim", "linkReal"}]
          BY <2>10, UpdateTyped DEF Switch
    <3>2. answer' \in Shown \cup {"waiting"} /\ (answer = "waiting" \/ answer' = answer)
          BY <2>10 DEF Switch
    <3> QED BY <2>10, <3>1, <3>2 DEF Switch
  <2> QED BY <1>8, <2>1, <2>2, <2>3, <2>4, <2>5, <2>6, <2>7, <2>8, <2>9, <2>10 DEF Script
<1>9. CASE Install
  <2> USE DEF InstallGoes, InstallEnds, guiVars, jobVars, dirVars, varVars, scriptVars, installVars, histVars
  <2>1. CASE InstallStarts
        BY <2>1 DEF InstallStarts
  <2>2. CASE InstallFails
        BY <2>2 DEF InstallFails
  <2>3. CASE InstallRemoves
        BY <2>3, UpdateTyped DEF InstallRemoves
  <2>4. CASE InstallRuns
        BY <2>4 DEF InstallRuns
  <2>5. CASE InstallPicks
        BY <2>5 DEF InstallPicks, Source
  <2>6. CASE InstallCopies
        BY <2>6, UpdateTyped DEF InstallCopies, Read, BehindBackup, Loads, ShimFile
  <2> QED BY <1>9, <2>1, <2>2, <2>3, <2>4, <2>5, <2>6 DEF Install
<1>10. CASE UNCHANGED vars
       BY <1>10 DEF vars, guiVars, jobVars, dirVars, varVars, scriptVars, installVars, histVars
<1> QED BY <1>1, <1>2, <1>3, <1>4, <1>5, <1>6, <1>7, <1>8, <1>9, <1>10 DEF Next, Gui

-----------------------------------------------------------------------------
(* Which actions touch what.                                               *)

LEMMA DirFootprint ==
  ASSUME [Next]_vars
  PROVE  /\ (live' = live /\ backup' = backup) \/ \E s \in Slots : Move(s) \/ Switch(s)
         /\ scratch' = scratch \/ \E s \in Slots : Unlink(s) \/ Link(s) \/ Switch(s)
         /\ (shim' = shim /\ wiped' = wiped) \/ InstallRemoves \/ InstallRuns
<1> USE DEF dirVars, varVars, histVars
<1>1. CASE Gui
      BY <1>1 DEF Gui, Refresh, RefreshUnreachable, Toggle, Configure, Apply, QueryAnswered, SessionLost
<1>2. ASSUME NEW s \in Slots, Script(s)
      PROVE  /\ (live' = live /\ backup' = backup) \/ Move(s) \/ Switch(s)
             /\ scratch' = scratch \/ Unlink(s) \/ Link(s) \/ Switch(s)
             /\ shim' = shim /\ wiped' = wiped
  <2>1. CASE Move(s)
        BY <2>1 DEF Move
  <2>2. CASE Switch(s)
        BY <2>2 DEF Switch
  <2> QED BY <1>2, <2>1, <2>2 DEF Script, Fails, Check, Chmod, Unlink, Link, Test, Pick, Copy
<1>3. CASE Install
      BY <1>3 DEF Install, InstallStarts, InstallFails, InstallPicks, InstallCopies, InstallRemoves, InstallRuns
<1>4. CASE UNCHANGED vars
      BY <1>4 DEF vars
<1> QED BY <1>1, <1>2, <1>3, <1>4 DEF Next

LEMMA CommandFootprint ==
  ASSUME [Next]_vars
  PROVE  \/ UNCHANGED <<jobVars, scriptVars>>
         \/ Refresh \/ Toggle \/ Apply \/ QueryAnswered \/ SessionLost
         \/ \E s \in Slots : Script(s)
<1>1. CASE Gui
      BY <1>1 DEF Gui, RefreshUnreachable, Configure
<1>2. CASE Install
      BY <1>2 DEF Install, InstallStarts, InstallFails, InstallPicks, InstallCopies, InstallRemoves, InstallRuns
<1> QED BY <1>1, <1>2 DEF Next, vars

(* A step of a command is taken by the only command there is.              *)
LEMMA Alone ==
  ASSUME OneCommand, NEW s \in Slots, ~Idle(s)
  PROVE  /\ job = "toggle" /\ jobSlot = s /\ answer = "waiting" /\ box[s] \in Targets
         /\ \A r \in Slots : r # s => Idle(r)
BY DEF OneCommand

LEMMA StepIsActive ==
  ASSUME NEW s \in Slots, Script(s)
  PROVE  ~Idle(s)
BY DEF Script, Fails, Check, Chmod, Unlink, Link, Test, Move, Pick, Copy, Switch, Goes, Idle

(* What a step does to the table of commands.                              *)
LEMMA StepFrame ==
  ASSUME TypeOK, NEW s \in Slots, Script(s)
  PROVE  /\ job' = job /\ jobOn' = jobOn /\ jobSlot' = jobSlot /\ guiVars' = guiVars
         /\ \A r \in Slots : r # s => at'[r] = at[r] /\ box'[r] = box[r] /\ aim'[r] = aim[r]
         /\ \/ at'[s] = "idle"
            \/ answer' = answer /\ box' = box /\ aim' = aim
<1> USE DEF TypeOK, jobVars, Goes, Exits, CommandEnds, guiVars
<1>1. CASE Fails(s)
      BY <1>1 DEF Fails
<1>2. CASE Switch(s)
      BY <1>2 DEF Switch
<1>3. CASE Check(s) \/ Chmod(s)
      BY <1>3 DEF Check, Chmod
<1>4. CASE Unlink(s) \/ Link(s) \/ Test(s)
      BY <1>4 DEF Unlink, Link, Test
<1>5. CASE Move(s) \/ Pick(s) \/ Copy(s)
      BY <1>5 DEF Move, Pick, Copy
<1> QED BY <1>1, <1>2, <1>3, <1>4, <1>5 DEF Script

LEMMA OneCommandStep ==
  ASSUME IInv, [Next]_vars, ~OutlivesSession
  PROVE  OneCommand'
<1> USE DEF IInv, TypeOK
<1>1. CASE UNCHANGED <<jobVars, scriptVars>>
      BY <1>1 DEF OneCommand, Idle, jobVars, scriptVars
<1>2. CASE Refresh
      BY <1>2 DEF Refresh, OneCommand, Idle, scriptVars
<1>3. CASE Toggle
      BY <1>3 DEF Toggle, OneCommand, Idle, scriptVars
<1>4. CASE Apply
      BY <1>4 DEF Apply, OneCommand, Idle, scriptVars
<1>5. CASE QueryAnswered
      BY <1>5 DEF QueryAnswered, OneCommand, Idle, scriptVars
<1>6. CASE SessionLost
      BY <1>6 DEF SessionLost, CommandEnds, OneCommand, Idle
<1>7. ASSUME NEW s \in Slots, Script(s) PROVE OneCommand'
  <2>1. ~Idle(s)
        BY <1>7, StepIsActive
  <2> QED BY <1>7, <2>1, Alone, StepFrame DEF OneCommand, Idle
<1> QED BY <1>1, <1>2, <1>3, <1>4, <1>5, <1>6, <1>7, CommandFootprint

LEMMA OneGenuineStep ==
  ASSUME IInv, [Next]_vars
  PROVE  OneGenuine'
<1> USE DEF IInv, TypeOK
<1>1. CASE live' = live /\ backup' = backup
      BY <1>1 DEF OneGenuine
<1>2. ASSUME NEW s \in Slots, Move(s) PROVE OneGenuine'
      BY <1>2, Alone DEF Move, Goes, Idle, OneGenuine, Established
<1>3. ASSUME NEW s \in Slots, Switch(s) PROVE OneGenuine'
  <2>1. box[s] \in Targets /\ backup[box[s]] = "genuine" /\ scratch[box[s]] # "genuine"
        BY <1>3, Alone DEF Switch, Idle, Established
  <2> QED BY <1>3, <2>1 DEF Switch, OneGenuine
<1> QED BY <1>1, <1>2, <1>3, DirFootprint

(* BehindBackup() and the tests of the two commands, under OneGenuine.     *)
LEMMA BackupTest ==
  ASSUME OneGenuine, NEW t \in Targets
  PROVE  /\ BackupExists(t) <=> backup[t] = "genuine"
         /\ Source(t) = "backup" <=> backup[t] = "genuine"
         /\ live[t] # "genuine" => backup[t] = "genuine"
BY DEF OneGenuine, BackupExists, BehindBackup, Source

LEMMA EstablishedStep ==
  ASSUME IInv, [Next]_vars, ~OutlivesSession, OneGenuine', OneCommand'
  PROVE  Established'
<1> USE DEF IInv, TypeOK
<1>1. CASE UNCHANGED <<live, backup, scratch, scriptVars>>
      BY <1>1 DEF Established, scriptVars
<1>2. CASE (\A r \in Slots : at'[r] \in {"idle", "check"})
      BY <1>2 DEF Established
<1>3. CASE Toggle
  <2>1. \A r \in Slots : Idle(r)
        BY <1>3 DEF Toggle, OneCommand
  <2> QED BY <1>2, <1>3, <2>1 DEF Toggle, Idle, scriptVars
<1>4. CASE SessionLost
  <2>1. \A r \in Slots : at'[r] = "idle"
        BY <1>4 DEF SessionLost, CommandEnds, OneCommand, Idle
  <2> QED BY <1>2, <2>1
<1>5. ASSUME NEW s \in Slots, Script(s) PROVE Established'
  <2>1. /\ ~Idle(s) /\ box[s] \in Targets
        /\ \A r \in Slots : r # s => at'[r] = "idle"
        BY <1>5, StepIsActive, Alone, StepFrame DEF Idle
  <2>2. /\ BackupExists(box[s]) <=> backup[box[s]] = "genuine"
        /\ Source(box[s]) = "backup" <=> backup[box[s]] = "genuine"
        /\ live[box[s]] # "genuine" => backup[box[s]] = "genuine"
        /\ live[box[s]] = "genuine" => backup[box[s]] # "genuine"
        BY <2>1, BackupTest DEF OneGenuine
  <2>3. SUFFICES ASSUME at'[s] # "idle"
                 PROVE  Established'
        BY <2>1, <1>2
  <2> USE DEF Goes, Established, dirVars, varVars, Idle
  <2>4. CASE Fails(s) \/ Switch(s)
        BY <2>3, <2>4 DEF Fails, Switch, Exits, CommandEnds
  <2>5. CASE Check(s)
        BY <2>1, <2>2, <2>5 DEF Check
  <2>6. CASE Chmod(s)
        BY <2>1, <2>6 DEF Chmod
  <2>7. CASE Unlink(s)
        BY <2>1, <2>7 DEF Unlink
  <2>8. CASE Link(s)
        BY <2>1, <2>8 DEF Link
  <2>9. CASE Test(s)
        BY <2>1, <2>2, <2>9 DEF Test, IsLink, OneGenuine
  <2>10. CASE Move(s)
        BY <2>1, <2>10 DEF Move, OneGenuine
  <2>11. CASE Pick(s)
        BY <2>1, <2>2, <2>11 DEF Pick
  <2>12. CASE Copy(s)
        BY <2>1, <2>12 DEF Copy
  <2> QED BY <1>5, <2>4, <2>5, <2>6, <2>7, <2>8, <2>9, <2>10, <2>11, <2>12 DEF Script
<1>6. CASE (Refresh \/ Apply \/ QueryAnswered) \/ UNCHANGED <<jobVars, scriptVars>>
  <2>1. CASE ~\E s \in Slots : Script(s)
    <3>1. UNCHANGED <<live, backup, scratch>>
          BY <2>1, DirFootprint DEF Script
    <3> QED BY <1>1, <1>6, <3>1 DEF Refresh, Apply, QueryAnswered
  <2> QED BY <1>5, <2>1
<1> QED BY <1>3, <1>4, <1>5, <1>6, CommandFootprint

LEMMA GroundedStep ==
  ASSUME IInv, [Next]_vars, ~OutlivesSession, OneCommand'
  PROVE  Grounded'
<1> USE DEF IInv, TypeOK
<1>1. \A t \in Targets : ShimThere(t) => ShimThere(t)'
  <2>1. CASE shim' = shim /\ wiped' = wiped
        BY <2>1 DEF ShimThere
  <2>2. CASE InstallRemoves \/ InstallRuns
        BY <2>2 DEF InstallRemoves, InstallRuns, ShimThere, histVars
  <2> QED BY <2>1, <2>2, DirFootprint
<1>2. ASSUME NEW s \in Slots, Script(s)
      PROVE  /\ \A r \in Slots : r # s => at'[r] = "idle"
             /\ box[s] \in Targets
             /\ at[s] # "check" /\ aim[s] = "Shim" => ShimThere(box[s])
      BY <1>2, StepIsActive, Alone, StepFrame DEF Idle, Grounded
<1>3. ASSUME NEW s \in Slots, at'[s] \notin {"idle", "check"}, aim'[s] = "Shim"
      PROVE  ShimThere(box[s]) /\ box'[s] = box[s] /\ box[s] \in Targets
  <2>1. CASE Script(s)
    <3>1. box'[s] = box[s] /\ aim[s] = "Shim"
          BY <1>3, <2>1, StepFrame
    <3>2. at[s] = "check" => ShimThere(box[s])
          BY <1>3, <2>1, <3>1 DEF Script, Fails, Check, Chmod, Unlink, Link, Test, Move, Pick, Copy,
             Switch, Goes, Exits, CommandEnds, ShimThere
    <3> QED BY <1>2, <2>1, <3>1, <3>2
  <2>2. CASE UNCHANGED <<jobVars, scriptVars>>
        BY <1>3, <2>2 DEF scriptVars, Grounded, OneCommand, Idle
  <2>3. CASE Refresh \/ Apply \/ QueryAnswered
        BY <1>3, <2>3 DEF Refresh, Apply, QueryAnswered, scriptVars, Grounded, OneCommand, Idle
  <2>4. CASE Toggle
    <3>1. \A r \in Slots : at[r] = "idle"
          BY <2>4 DEF Toggle, OneCommand, Idle
    <3> QED BY <1>3, <2>4, <3>1 DEF Toggle, scriptVars
  <2>5. CASE SessionLost
        BY <1>3, <2>5 DEF SessionLost, CommandEnds, OneCommand, Idle
  <2>6. CASE \E r \in Slots : r # s /\ Script(r)
        BY <1>2, <1>3, <2>6
  <2> QED BY <2>1, <2>2, <2>3, <2>4, <2>5, <2>6, CommandFootprint
<1>4. ASSUME NEW t \in Targets, "linkShim" \in {live'[t], scratch'[t]}
      PROVE  ShimThere(t)
  <2>1. CASE "linkShim" \in {live[t], scratch[t]}
        BY <2>1 DEF Grounded
  <2>2. ASSUME NEW s \in Slots, Link(s) PROVE ShimThere(t)
    <3>1. CASE "linkShim" \notin {live[t], scratch[t]}
          BY <1>2, <1>4, <2>2, <3>1 DEF Link, Goes, Script
    <3> QED BY <2>1, <3>1
  <2>3. ASSUME NEW s \in Slots, Unlink(s) \/ Move(s) \/ Switch(s) PROVE ShimThere(t)
    <3>1. CASE "linkShim" \notin {live[t], scratch[t]}
          BY <1>2, <1>4, <2>3, <3>1 DEF Unlink, Move, Switch, Script
    <3> QED BY <2>1, <3>1
  <2>4. live' = live /\ scratch' = scratch => ShimThere(t)
        BY <1>4, <2>1
  <2> QED BY <2>2, <2>3, <2>4, DirFootprint
<1> QED BY <1>1, <1>3, <1>4 DEF Grounded, ShimThere

LEMMA SourcedStep ==
  ASSUME IInv, [Next]_vars
  PROVE  Sourced'
<1> USE DEF IInv, TypeOK
<1>1. stage' # "none" => installOn' \in Targets
  <2>1. CASE Install
        BY <2>1 DEF Install, InstallStarts, InstallFails, InstallRemoves, InstallRuns, InstallPicks,
           InstallCopies, InstallGoes, InstallEnds, Sourced
  <2>2. CASE UNCHANGED installVars
        BY <2>2 DEF installVars, Sourced
  <2>3. CASE Gui
        BY <2>2, <2>3 DEF Gui, Refresh, RefreshUnreachable, Toggle, Configure, Apply, QueryAnswered,
           SessionLost
  <2>4. ASSUME NEW s \in Slots, Script(s) PROVE UNCHANGED installVars
        BY <2>4 DEF Script, Fails, Check, Chmod, Unlink, Link, Test, Move, Pick, Copy, Switch
  <2> QED BY <2>1, <2>2, <2>3, <2>4 DEF Next, vars
<1>2. ASSUME UNCHANGED <<live, backup, realRef, installVars, overtaken>>
      PROVE  Sourced'
      BY <1>2 DEF Sourced, RealRefIsGenuine, installVars
<1>3. CASE Gui
      BY <1>2, <1>3 DEF Gui, Refresh, RefreshUnreachable, Toggle, Configure, Apply, QueryAnswered,
         SessionLost, dirVars, varVars, histVars
<1>4. ASSUME NEW s \in Slots, Script(s) PROVE Sourced'
  <2>1. box[s] \in Targets /\ at[s] # "idle"
        BY <1>4, StepIsActive, Alone DEF Idle
  <2>2. CASE Check(s) \/ Chmod(s) \/ Unlink(s) \/ Link(s) \/ Test(s) \/ Pick(s)
        BY <1>2, <2>2 DEF Check, Chmod, Unlink, Link, Test, Pick, dirVars, varVars, histVars
  <2>3. CASE Fails(s)
    <3>1. /\ UNCHANGED <<live, backup, installVars, overtaken>>
          /\ realRef' \in {realRef, [realRef EXCEPT ![box[s]] = "partial"]}
          BY <2>3 DEF Fails, dirVars, histVars
    <3> QED BY <2>1, <3>1 DEF Sourced, RealRefIsGenuine, installVars
  <2>4. CASE Move(s)
    <3>1. /\ live[box[s]] = "genuine" /\ backup[box[s]] = "absent"
          /\ overtaken \subseteq overtaken' /\ UNCHANGED <<realRef, installVars>>
          /\ live' = [live EXCEPT ![box[s]] = "absent"]
          /\ backup' = [backup EXCEPT ![box[s]] = live[box[s]]]
          BY <2>1, <2>4 DEF Move, Goes, Established, OneGenuine, varVars
    <3>2. RealRefIsGenuine'
          BY <3>1 DEF Sourced, RealRefIsGenuine
    <3>3. CASE stage = "copy" /\ installCopies = "live" /\ installOn = box[s]
      <4>1. installOn \in overtaken'
            BY <2>1, <2>4, <3>3 DEF Move
      <4> QED BY <3>1, <3>2, <3>3, <4>1, <2>1 DEF Sourced, installVars
    <3>4. CASE ~(stage = "copy" /\ installCopies = "live" /\ installOn = box[s])
          BY <3>1, <3>2, <3>4, <2>1 DEF Sourced, installVars, Chosen
    <3> QED BY <3>3, <3>4
  <2>5. CASE Copy(s)
    <3>1. /\ backup[box[s]] = "genuine" /\ copies[s] = "backup"
          /\ UNCHANGED <<live, backup, installVars, overtaken>>
          /\ realRef' = [realRef EXCEPT ![box[s]] = Read(box[s], copies[s])]
          BY <2>5 DEF Copy, Goes, Established, dirVars, histVars
    <3>2. Read(box[s], copies[s]) = "genuine"
          BY <3>1 DEF Read, BehindBackup
    <3> QED BY <2>1, <3>1, <3>2 DEF Sourced, RealRefIsGenuine, installVars
  <2>6. CASE Switch(s)
    <3>1. backup[box[s]] = "genuine" /\ live[box[s]] # "genuine"
          BY <2>1, <2>6 DEF Switch, Established, OneGenuine
    <3> QED BY <2>1, <2>6, <3>1 DEF Switch, Sourced, RealRefIsGenuine, installVars, varVars, histVars
  <2> QED BY <1>4, <2>2, <2>3, <2>4, <2>5, <2>6 DEF Script
<1>5. CASE Install
  <2>1. UNCHANGED <<live, backup, overtaken>>
        BY <1>5 DEF Install, InstallStarts, InstallFails, InstallRemoves, InstallRuns, InstallPicks,
           InstallCopies, dirVars, histVars
  <2>2. RealRefIsGenuine'
    <3>1. CASE InstallCopies
      <4>1. stage = "copy" /\ installOn \in Targets
            BY <3>1 DEF InstallCopies, InstallEnds, Sourced
      <4>2. \/ Read(installOn, installCopies) = "genuine"
            \/ installOn \in overtaken
            BY <4>1 DEF Sourced, Read, BehindBackup, Loads
      <4> QED BY <2>1, <3>1, <4>1, <4>2 DEF InstallCopies, Sourced, RealRefIsGenuine
    <3>2. CASE ~InstallCopies
      <4>1. realRef' = realRef \/ (\E t \in Targets : \E v \in {"partial", "absent"} :
                                     realRef' = [realRef EXCEPT ![t] = v])
            BY <1>5, <3>2 DEF Install, InstallStarts, InstallFails, InstallRemoves, InstallRuns,
               InstallPicks, varVars, InstallEnds, InstallGoes, Sourced
      <4> QED BY <2>1, <4>1 DEF Sourced, RealRefIsGenuine
    <3> QED BY <3>1, <3>2
  <2>3. CASE InstallPicks
    <3>1. installOn \in Targets /\ installOn' = installOn /\ installCopies' = Source(installOn)
          BY <2>3 DEF InstallPicks, InstallGoes, Sourced
    <3>2. IF Source(installOn) = "backup" THEN backup[installOn] = "genuine"
          ELSE live[installOn] = "genuine"
          BY <3>1, BackupTest
    <3> QED BY <1>1, <2>1, <2>2, <3>1, <3>2 DEF Sourced
  <2>4. CASE ~InstallPicks
    <3>1. stage' # "copy"
          BY <1>5, <2>4 DEF Install, InstallStarts, InstallFails, InstallRemoves, InstallRuns,
             InstallCopies, InstallGoes, InstallEnds
    <3> QED BY <1>1, <2>2, <3>1 DEF Sourced
  <2> QED BY <2>3, <2>4
<1>6. CASE UNCHANGED vars
      BY <1>2, <1>6 DEF vars, dirVars, varVars, histVars
<1> QED BY <1>3, <1>4, <1>5, <1>6 DEF Next

(* Loads() only follows the two links as far as the genuine library.       *)
Genuine(t) ==
  \/ live[t] = "genuine"
  \/ live[t] = "linkReal" /\ backup[t] = "genuine"

LEMMA LoadsGenuine ==
  /\ \A t \in Targets : Loads(t) = "genuine" <=> Genuine(t)
  /\ \A t \in Targets : Loads(t)' = "genuine" <=> Genuine(t)'
<1>1. \A t \in Targets : Loads(t) = "genuine" <=> Genuine(t)
      BY DEF Loads, BehindBackup, ShimFile, Genuine
<1>2. \A t \in Targets : Loads(t)' = "genuine" <=> Genuine(t)'
      BY DEF Loads, BehindBackup, ShimFile, Genuine
<1> QED BY <1>1, <1>2

LEMMA ReadingTrue ==
  ASSUME TypeOK, OneGenuine, NEW t \in Targets
  PROVE  (Reading(t) = "Real" <=> Genuine(t)) /\ Reading(t) \in {"Real", "Shim"}
<1>1. BackupExists(t) <=> backup[t] = "genuine"
      BY BackupTest
<1>2. live[t] \in LibFiles
      BY DEF TypeOK
<1>3. CASE IsLink(live[t])
      BY <1>3 DEF IsLink, OneGenuine, Reading, Genuine
<1>4. CASE ~IsLink(live[t])
      BY <1>1, <1>2, <1>4 DEF IsLink, OneGenuine, Reading, Genuine
<1> QED BY <1>3, <1>4

LEMMA TruthfulStep ==
  ASSUME IInv, [Next]_vars, ~OutlivesSession, OneCommand'
  PROVE  Truthful'
<1> USE DEF IInv, TypeOK, Truthful
<1>1. \A s \in Slots : Script(s) => /\ job = "toggle" /\ jobSlot = s /\ answer = "waiting"
                                    /\ box[s] = jobOn /\ jobOn \in Targets /\ at[s] # "idle"
      BY StepIsActive, Alone DEF Idle
<1>2. ASSUME UNCHANGED <<live, backup, jobVars, at, box>>,
             shown' = "Blind" \/ UNCHANGED guiVars
      PROVE  Truthful'
      BY <1>2, LoadsGenuine DEF Genuine, jobVars, guiVars, Idle
<1>3. CASE RefreshUnreachable \/ (\E t \in Targets : Configure(t))
      BY <1>2, <1>3 DEF RefreshUnreachable, Configure, dirVars, scriptVars
<1>4. CASE Refresh
      BY <1>4, LoadsGenuine DEF Refresh, Genuine, dirVars, scriptVars, guiVars, Idle, OneCommand
<1>5. CASE Apply
      BY <1>5, LoadsGenuine DEF Apply, Genuine, dirVars, scriptVars, Idle, OneCommand, Shown
<1>6. CASE QueryAnswered
  <2>1. /\ UNCHANGED <<live, backup, job, jobOn, at, box, guiVars>> /\ jobOn \in Targets
        /\ answer' \in {Reading(jobOn), "Blind"} /\ job = "query"
        BY <1>6 DEF QueryAnswered, dirVars, scriptVars
  <2> QED BY <2>1, LoadsGenuine, ReadingTrue DEF Genuine, guiVars, Idle
<1>7. CASE Toggle
  <2>1. \A r \in Slots : at[r] = "idle"
        BY <1>7 DEF Toggle, OneCommand, Idle
  <2>2. /\ job' = "toggle" /\ jobOn' = target /\ shown' = "Blind" /\ answer' \in {"Blind", "waiting"}
        BY <1>7 DEF Toggle
  <2>3. \A r \in Slots : at'[r] # "idle" => box'[r] = target
        BY <1>7, <2>1 DEF Toggle, scriptVars
  <2> QED BY <2>2, <2>3 DEF Idle
<1>8. CASE SessionLost
  <2>1. /\ UNCHANGED <<live, backup, job, jobOn, guiVars>> /\ answer' = "Blind" /\ job = "toggle"
        BY <1>8 DEF SessionLost, dirVars
  <2>2. \A r \in Slots : at'[r] = "idle"
        BY <1>8 DEF SessionLost, CommandEnds, OneCommand, Idle
  <2> QED BY <2>1, <2>2, LoadsGenuine DEF Genuine, guiVars, Idle
<1>9. ASSUME NEW s \in Slots, Script(s) PROVE Truthful'
  <2>1. /\ job' = "toggle" /\ jobOn' = jobOn /\ jobOn \in Targets /\ shown' = "Blind"
        BY <1>1, <1>9, StepFrame DEF guiVars
  <2>2. \A r \in Slots : ~Idle(r)' => box'[r] = jobOn'
    <3> SUFFICES ASSUME NEW r \in Slots, at'[r] # "idle" PROVE box'[r] = jobOn
        BY <2>1 DEF Idle
    <3>1. r = s => box'[r] = jobOn
          BY <1>1, <1>9, StepFrame
    <3>2. r # s => box'[r] = jobOn
          BY <1>9, StepFrame DEF Idle
    <3> QED BY <3>1, <3>2
  <2>3. answer' \in {"Real", "Shim"} => Switch(s)
        BY <1>1, <1>9, StepFrame DEF Script, Fails, Check, Chmod, Unlink, Link, Test, Move, Pick, Copy,
           Exits, jobVars
  <2>4. CASE Switch(s)
    <3>1. /\ backup' = backup /\ backup[jobOn] = "genuine"
          /\ live'[jobOn] = IF aim[s] = "Shim" THEN "linkShim" ELSE "linkReal"
          /\ answer' \in {aim[s], "Blind"}
          BY <1>1, <1>9, <2>4 DEF Switch, Exits, Established, Idle
    <3> QED BY <2>1, <2>2, <3>1, LoadsGenuine DEF Genuine
  <2> QED BY <2>1, <2>2, <2>3, <2>4
<1>10. CASE Install
  <2>1. UNCHANGED <<live, backup, jobVars, at, box, guiVars>>
        BY <1>10 DEF Install, InstallStarts, InstallFails, InstallRemoves, InstallRuns, InstallPicks,
           InstallCopies, dirVars, scriptVars
  <2> QED BY <1>2, <2>1
<1>11. CASE UNCHANGED vars
       BY <1>2, <1>11 DEF vars, dirVars, scriptVars
<1> QED BY <1>3, <1>4, <1>5, <1>6, <1>7, <1>8, <1>9, <1>10, <1>11 DEF Next, Gui
-----------------------------------------------------------------------------

LEMMA InitInv == Init => IInv
<1> SUFFICES ASSUME Init PROVE IInv
    OBVIOUS
<1> USE TargetsAssumption, SlotsAssumption DEF Init
<1>1. TypeOK
      BY DEF TypeOK, Shown, LibFiles, Steps, Stages, Chosen
<1>2. OneGenuine /\ OneCommand /\ Established /\ Grounded
      BY DEF OneGenuine, OneCommand, Established, Grounded, Idle
<1>3. Truthful /\ Sourced
      BY DEF Truthful, Sourced, RealRefIsGenuine, Idle
<1> QED BY <1>1, <1>2, <1>3 DEF IInv

LEMMA StepInv == IInv /\ [Next]_vars /\ ~OutlivesSession => IInv'
<1> SUFFICES ASSUME IInv, [Next]_vars, ~OutlivesSession PROVE IInv'
    OBVIOUS
<1>1. TypeOK'
      BY TypeStep DEF IInv
<1>2. OneGenuine' /\ OneCommand' /\ Sourced'
      BY OneGenuineStep, OneCommandStep, SourcedStep
<1>3. Established' /\ Truthful' /\ Grounded'
      BY <1>2, EstablishedStep, TruthfulStep, GroundedStep
<1> QED BY <1>1, <1>2, <1>3 DEF IInv

(* Every variable keeps its type, whether or not commands outlive their    *)
(* sessions.                                                               *)
THEOREM ShimTypeCorrect == Spec => []TypeOK
<1>1. Init => TypeOK
      BY InitInv DEF IInv
<1> QED BY <1>1, TypeStep, PTL DEF Spec

(* The genuine library is never lost, whichever step of a toggle is cut    *)
(* short, if a command does not outlive its session.                       *)
THEOREM GenuineNeverLost == ASSUME ~OutlivesSession PROVE Spec => []GenuineKept
<1>1. IInv /\ [Next]_vars => IInv'
      BY StepInv
<1>2. IInv => GenuineKept
      BY DEF IInv, OneGenuine, GenuineKept
<1> QED BY InitInv, <1>1, <1>2, PTL DEF Spec

(* Once at libqcxclient.so.real, the genuine library stays there.          *)
THEOREM BackupNeverTouched == ASSUME ~OutlivesSession PROVE Spec => BackupKept
<1>1. IInv /\ [Next]_vars => IInv'
      BY StepInv
<1>2. ASSUME IInv, [Next]_vars, NEW t \in Targets, backup[t] = "genuine"
      PROVE  backup'[t] = "genuine"
  <2>1. CASE live' = live /\ backup' = backup
        BY <1>2, <2>1
  <2>2. ASSUME NEW s \in Slots, Move(s) \/ Switch(s) PROVE backup'[t] = "genuine"
        BY <1>2, <2>2 DEF Move, Switch, Goes, IInv, TypeOK, Established
  <2> QED BY <1>2, <2>1, <2>2, DirFootprint
<1>3. IInv /\ [Next]_vars =>
        [\A t \in Targets : backup[t] = "genuine" => backup'[t] = "genuine"]_vars
      BY <1>2
<1> QED BY InitInv, <1>1, <1>3, PTL DEF Spec, BackupKept

(* REAL and SHIM are never shown wrongly of the target they were read from.*)
THEOREM ShownTruthfully == ASSUME ~OutlivesSession PROVE Spec => []ShownIsTrue
<1>1. IInv /\ [Next]_vars => IInv'
      BY StepInv
<1>2. IInv => ShownIsTrue
      BY DEF IInv, Truthful, ShownIsTrue
<1> QED BY InitInv, <1>1, <1>2, PTL DEF Spec

(* A toggle never switches to a shim that is not there.                    *)
THEOREM TogglesDoNotDangle == ASSUME ~OutlivesSession PROVE Spec => []DanglesOnlyAfterWipe
<1>1. IInv /\ [Next]_vars => IInv'
      BY StepInv
<1>2. IInv => DanglesOnlyAfterWipe
      BY DEF IInv, Grounded, ShimThere, DanglesOnlyAfterWipe
<1> QED BY InitInv, <1>1, <1>2, PTL DEF Spec

(* real-ref is never filled from the shim, but for the one race.           *)
THEOREM RealRefCopiedFromBoard == ASSUME ~OutlivesSession PROVE Spec => []RealRefIsGenuine
<1>1. IInv /\ [Next]_vars => IInv'
      BY StepInv
<1>2. IInv => RealRefIsGenuine
      BY DEF IInv, Sourced
<1> QED BY InitInv, <1>1, <1>2, PTL DEF Spec
=============================================================================
