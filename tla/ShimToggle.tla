----------------------------- MODULE ShimToggle -----------------------------
(***************************************************************************)
(* Which libqcxclient.so the clients of a target load, and what MainWindow *)
(* shows of it: the SHIM/REAL/BLIND box with its one-second refresh and    *)
(* its double-click, the shell command a double-click runs on the target,  *)
(* step by step, and the injector bundle install, which replaces the       *)
(* directory the shim lives in without knowing about any of this.          *)
(*                                                                         *)
(* A command is one ssh session.  The session may end before the command   *)
(* does (time-out, link down): the command is then cut short, or, when     *)
(* OutlivesSession, may also run on, as a shell without a terminal can.    *)
(***************************************************************************)
EXTENDS Naturals, FiniteSets

CONSTANTS
  Targets,         \* boards that Configure may name
  Legacy,          \* those left by an older version: a copied shim is live
  Slots,           \* bound: toggle commands alive on all targets together
  OutlivesSession, \* whether a command may outlive its ssh session
  NoTarget

ASSUME TargetsAssumption == NoTarget \notin Targets /\ Legacy \subseteq Targets
ASSUME SlotsAssumption == Slots \subseteq Nat \ {0} /\ OutlivesSession \in BOOLEAN

NoSlot == 0

VARIABLES
  target,  \* currentTarget_
  shown,   \* shimState_
  readOf,  \* history: the target whose state is shown
  job,     \* the background thread of shimBusy_: "none", "query", "toggle"
  jobOn,   \* the target it captured
  jobSlot, \* the command it waits for
  answer,  \* what it has posted to the GUI thread
  live,    \* /mnt/lib64/camera/libqcxclient.so
  backup,  \* libqcxclient.so.real
  scratch, \* libqcxclient.so.new
  shim,    \* /var/opt/lib/libqcxclient_shim.so exists
  realRef, \* /var/opt/lib/real-ref/libqcxclient.so
  at,      \* the next step of the command in a slot
  aim,     \* what it switches to
  box,     \* the target it runs on
  copies,  \* the file its realRefSyncCommand() has chosen
  stage,   \* the next step of the bundle install
  installOn, installCopies,
  wiped,   \* history: targets whose /var/opt/lib an install has removed
  overtaken\* history: targets where a toggle moved the library away after an
           \* install had chosen it as the source of real-ref

guiVars == <<target, shown, readOf>>
jobVars == <<job, jobOn, jobSlot, answer>>
dirVars == <<live, backup, scratch>>
varVars == <<shim, realRef>>
scriptVars == <<at, aim, box, copies>>
installVars == <<stage, installOn, installCopies>>
histVars == <<wiped, overtaken>>
vars == <<guiVars, jobVars, dirVars, varVars, scriptVars, installVars, histVars>>

Shown == {"Blind", "Shim", "Real"}
LibFiles == {"absent", "genuine", "shimCopy", "linkShim", "linkReal"}
Steps == {"idle", "check", "chmod", "unlink", "link", "test", "move",
          "pick", "copy", "switch"}
Stages == {"none", "remove", "install", "pick", "copy"}
Chosen == {"live", "backup"}

TypeOK ==
  /\ target \in Targets /\ shown \in Shown /\ readOf \in Targets \cup {NoTarget}
  /\ job \in {"none", "query", "toggle"} /\ jobOn \in Targets \cup {NoTarget}
  /\ jobSlot \in Slots \cup {NoSlot}
  /\ answer \in Shown \cup {"waiting"}
  /\ job = "none" => answer = "waiting" /\ jobSlot = NoSlot
  /\ live \in [Targets -> LibFiles] /\ backup \in [Targets -> LibFiles]
  /\ scratch \in [Targets -> {"absent", "linkShim", "linkReal"}]
  /\ shim \in [Targets -> BOOLEAN]
  /\ realRef \in [Targets -> {"absent", "genuine", "shimCopy", "partial"}]
  /\ at \in [Slots -> Steps] /\ aim \in [Slots -> {"Shim", "Real"}]
  /\ box \in [Slots -> Targets \cup {NoTarget}] /\ copies \in [Slots -> Chosen]
  /\ stage \in Stages /\ installOn \in Targets \cup {NoTarget} /\ installCopies \in Chosen
  /\ wiped \subseteq Targets /\ overtaken \subseteq Targets

(* A board as it was flashed, or as an older version left it.              *)
Init ==
  /\ target \in Targets /\ shown = "Blind" /\ readOf = NoTarget
  /\ job = "none" /\ jobOn = NoTarget /\ jobSlot = NoSlot /\ answer = "waiting"
  /\ live = [t \in Targets |-> IF t \in Legacy THEN "shimCopy" ELSE "genuine"]
  /\ backup = [t \in Targets |-> IF t \in Legacy THEN "genuine" ELSE "absent"]
  /\ scratch = [t \in Targets |-> "absent"]
  /\ shim \in [Targets -> BOOLEAN]
  /\ realRef = [t \in Targets |-> "absent"]
  /\ at = [s \in Slots |-> "idle"] /\ aim = [s \in Slots |-> "Shim"]
  /\ box = [s \in Slots |-> NoTarget] /\ copies = [s \in Slots |-> "live"]
  /\ stage = "none" /\ installOn = NoTarget /\ installCopies = "live"
  /\ wiped = {} /\ overtaken = {}

-----------------------------------------------------------------------------
(* The files, links followed.                                              *)

IsLink(f) == f \in {"linkShim", "linkReal"}

ShimFile(t) == IF shim[t] THEN "shimCopy" ELSE "absent"

(* A libqcxclient.so.real that is the link to itself leads nowhere.        *)
BehindBackup(t) ==
  IF backup[t] = "linkShim" THEN ShimFile(t)
  ELSE IF backup[t] = "linkReal" THEN "absent" ELSE backup[t]

Loads(t) ==
  IF live[t] = "linkShim" THEN ShimFile(t)
  ELSE IF live[t] = "linkReal" THEN BehindBackup(t) ELSE live[t]

BackupExists(t) == BehindBackup(t) # "absent"

(* The command of refreshShimStatus().  A live name that is missing falls  *)
(* through to the test of the backup.                                      *)
Reading(t) ==
  IF IsLink(live[t])
  THEN IF live[t] = "linkShim" THEN "Shim" ELSE "Real"
  ELSE IF BackupExists(t) THEN "Shim" ELSE "Real"

(* realRefSyncCommand(): which file it copies, and the copy.  Variant: the *)
(* live name, whatever stands there.                                       *)
SourceLive(t) == "live"
Source(t) == IF BackupExists(t) THEN "backup" ELSE "live"
Read(t, f) == IF f = "backup" THEN BehindBackup(t) ELSE Loads(t)

-----------------------------------------------------------------------------
(* MainWindow.                                                             *)

RefreshUnguarded ==
  /\ job' = "query" /\ jobOn' = target /\ jobSlot' = NoSlot /\ answer' = "waiting"
  /\ UNCHANGED <<guiVars, dirVars, varVars, scriptVars, installVars, histVars>>

(* A tick, a change of the monitor or Configure; ignored while shimBusy_.  *)
Refresh ==
  /\ job = "none"
  /\ job' = "query" /\ jobOn' = target
  /\ UNCHANGED <<guiVars, jobSlot, answer, dirVars, varVars, scriptVars, installVars, histVars>>

RefreshUnreachable ==
  /\ job = "none"
  /\ shown' = "Blind"
  /\ UNCHANGED <<target, readOf, jobVars, dirVars, varVars, scriptVars, installVars, histVars>>

Idle(s) == at[s] = "idle"

(* A double-click.  The command starts once ensureAuth() has let it; an    *)
(* authentication that is refused posts Blind.                             *)
Toggle ==
  /\ shown # "Blind" /\ job = "none"
  /\ shown' = "Blind"
  /\ job' = "toggle" /\ jobOn' = target
  /\ \/ /\ answer' = "Blind"
        /\ UNCHANGED <<jobSlot, scriptVars>>
     \/ \E s \in Slots :
          /\ Idle(s)
          /\ jobSlot' = s
          /\ at' = [at EXCEPT ![s] = "check"]
          /\ aim' = [aim EXCEPT ![s] = IF shown = "Real" THEN "Shim" ELSE "Real"]
          /\ box' = [box EXCEPT ![s] = target]
          /\ copies' = [copies EXCEPT ![s] = "live"]
          /\ UNCHANGED answer
  /\ UNCHANGED <<target, readOf, dirVars, varVars, installVars, histVars>>

(* Configure accepted: the monitor starts again as Unknown, so the refresh *)
(* that follows shows Blind as well.                                       *)
Configure(t) ==
  /\ target' = t /\ shown' = "Blind"
  /\ UNCHANGED <<readOf, jobVars, dirVars, varVars, scriptVars, installVars, histVars>>

(* The posted result; shimBusy_ ends.                                      *)
Apply ==
  /\ job # "none" /\ answer # "waiting"
  /\ shown' = answer /\ readOf' = jobOn
  /\ job' = "none" /\ jobOn' = NoTarget /\ jobSlot' = NoSlot /\ answer' = "waiting"
  /\ UNCHANGED <<target, dirVars, varVars, scriptVars, installVars, histVars>>

QueryAnswered ==
  /\ job = "query" /\ answer = "waiting"
  /\ answer' \in {Reading(jobOn), "Blind"}
  /\ UNCHANGED <<guiVars, job, jobOn, jobSlot, dirVars, varVars, scriptVars, installVars, histVars>>

CommandEnds(s) ==
  /\ at' = [at EXCEPT ![s] = "idle"] /\ aim' = [aim EXCEPT ![s] = "Shim"]
  /\ box' = [box EXCEPT ![s] = NoTarget] /\ copies' = [copies EXCEPT ![s] = "live"]

(* The ssh session of a toggle ends without the command's exit code.       *)
SessionLost ==
  /\ job = "toggle" /\ answer = "waiting"
  /\ answer' = "Blind"
  /\ \/ CommandEnds(jobSlot)
     \/ OutlivesSession /\ UNCHANGED scriptVars
  /\ UNCHANGED <<guiVars, job, jobOn, jobSlot, dirVars, varVars, installVars, histVars>>

Gui ==
  \/ Refresh
  \/ RefreshUnreachable
  \/ Toggle
  \/ \E t \in Targets : Configure(t)
  \/ Apply
  \/ QueryAnswered
  \/ SessionLost

-----------------------------------------------------------------------------
(* The command on the target.                                              *)

Goes(s, from, to) == at[s] = from /\ at' = [at EXCEPT ![s] = to]

Exits(s, outcome) ==
  /\ CommandEnds(s)
  /\ answer' = IF job = "toggle" /\ jobSlot = s /\ answer = "waiting"
               THEN outcome ELSE answer

(* Any step may fail, and every failure ends the command.                  *)
Fails(s) ==
  /\ ~Idle(s)
  /\ Exits(s, "Blind")
  /\ realRef' \in IF at[s] = "copy"
                  THEN {realRef, [realRef EXCEPT ![box[s]] = "partial"]} ELSE {realRef}
  /\ UNCHANGED <<guiVars, job, jobOn, jobSlot, dirVars, shim, installVars, histVars>>

CheckShimOnly(s) ==
  /\ \/ Goes(s, "check", "chmod") /\ aim[s] = "Shim" /\ shim[box[s]]
     \/ Goes(s, "check", "unlink") /\ aim[s] = "Real"
  /\ UNCHANGED <<guiVars, jobVars, dirVars, varVars, aim, box, copies, installVars, histVars>>

(* [ -e shim ] of REAL->SHIM, [ -e .real ] of SHIM->REAL.                  *)
Check(s) ==
  /\ \/ Goes(s, "check", "chmod") /\ aim[s] = "Shim" /\ shim[box[s]]
     \/ Goes(s, "check", "unlink") /\ aim[s] = "Real" /\ BackupExists(box[s])
  /\ UNCHANGED <<guiVars, jobVars, dirVars, varVars, aim, box, copies, installVars, histVars>>

Chmod(s) ==
  /\ Goes(s, "chmod", "unlink") /\ shim[box[s]]
  /\ UNCHANGED <<guiVars, jobVars, dirVars, varVars, aim, box, copies, installVars, histVars>>

Unlink(s) ==
  /\ Goes(s, "unlink", "link")
  /\ scratch' = [scratch EXCEPT ![box[s]] = "absent"]
  /\ UNCHANGED <<guiVars, jobVars, live, backup, varVars, aim, box, copies, installVars, histVars>>

(* ln -s refuses a name that exists.                                       *)
Link(s) ==
  /\ Goes(s, "link", IF aim[s] = "Shim" THEN "test" ELSE "switch")
  /\ scratch[box[s]] = "absent"
  /\ scratch' = [scratch EXCEPT ![box[s]] = IF aim[s] = "Shim" THEN "linkShim" ELSE "linkReal"]
  /\ UNCHANGED <<guiVars, jobVars, live, backup, varVars, aim, box, copies, installVars, histVars>>

(* [ -L live ] || [ -e .real ] || mv live .real                            *)
Test(s) ==
  /\ Goes(s, "test", IF IsLink(live[box[s]]) \/ BackupExists(box[s]) THEN "pick" ELSE "move")
  /\ UNCHANGED <<guiVars, jobVars, dirVars, varVars, aim, box, copies, installVars, histVars>>

Move(s) ==
  /\ Goes(s, "move", "pick")
  /\ live[box[s]] # "absent"
  /\ backup' = [backup EXCEPT ![box[s]] = live[box[s]]]
  /\ live' = [live EXCEPT ![box[s]] = "absent"]
  /\ overtaken' = IF stage = "copy" /\ installCopies = "live"
                  THEN overtaken \cup ({installOn} \cap {box[s]}) ELSE overtaken
  /\ UNCHANGED <<guiVars, jobVars, scratch, varVars, aim, box, copies, installVars, wiped>>

Pick(s) ==
  /\ Goes(s, "pick", "copy")
  /\ copies' = [copies EXCEPT ![s] = Source(box[s])]
  /\ UNCHANGED <<guiVars, jobVars, dirVars, varVars, aim, box, installVars, histVars>>

Copy(s) ==
  /\ Goes(s, "copy", "switch")
  /\ Read(box[s], copies[s]) # "absent"
  /\ realRef' = [realRef EXCEPT ![box[s]] = Read(box[s], copies[s])]
  /\ UNCHANGED <<guiVars, jobVars, dirVars, shim, aim, box, copies, installVars, histVars>>

(* mv -f renames the scratch link over the live name; the command's exit   *)
(* code may still be lost on its way back.                                 *)
Switch(s) ==
  /\ at[s] = "switch" /\ scratch[box[s]] # "absent"
  /\ live' = [live EXCEPT ![box[s]] = scratch[box[s]]]
  /\ scratch' = [scratch EXCEPT ![box[s]] = "absent"]
  /\ \E outcome \in {aim[s], "Blind"} : Exits(s, outcome)
  /\ UNCHANGED <<guiVars, job, jobOn, jobSlot, backup, varVars, installVars, histVars>>

Script(s) ==
  \/ Fails(s)
  \/ Check(s)
  \/ Chmod(s)
  \/ Unlink(s)
  \/ Link(s)
  \/ Test(s)
  \/ Move(s)
  \/ Pick(s)
  \/ Copy(s)
  \/ Switch(s)

-----------------------------------------------------------------------------
(* InjectorBundleInstaller::installAsync(), one install at a time.  It is  *)
(* not held back by shimBusy_.                                             *)

InstallGoes(from, to) == stage = from /\ stage' = to

InstallEnds ==
  /\ stage # "none" /\ stage' = "none"
  /\ installOn' = NoTarget /\ installCopies' = "live"

InstallStarts ==
  /\ InstallGoes("none", "remove")
  /\ installOn' = target
  /\ UNCHANGED <<guiVars, jobVars, dirVars, varVars, scriptVars, installCopies, histVars>>

InstallFails ==
  /\ InstallEnds
  /\ realRef' \in IF stage = "copy"
                  THEN {realRef, [realRef EXCEPT ![installOn] = "partial"]} ELSE {realRef}
  /\ UNCHANGED <<guiVars, jobVars, dirVars, shim, scriptVars, histVars>>

(* rm -rf /var/opt/bin /var/opt/lib /var/opt/include                       *)
InstallRemoves ==
  /\ InstallGoes("remove", "install")
  /\ shim' = [shim EXCEPT ![installOn] = FALSE]
  /\ realRef' = [realRef EXCEPT ![installOn] = "absent"]
  /\ wiped' = wiped \cup {installOn}
  /\ UNCHANGED <<guiVars, jobVars, dirVars, scriptVars, installOn, installCopies, overtaken>>

(* The transfer and the bundle's own installer.                            *)
InstallRuns ==
  /\ InstallGoes("install", "pick")
  /\ shim' = [shim EXCEPT ![installOn] = TRUE]
  /\ UNCHANGED <<guiVars, jobVars, dirVars, realRef, scriptVars, installOn, installCopies, histVars>>

InstallPicks ==
  /\ InstallGoes("pick", "copy")
  /\ installCopies' = Source(installOn)
  /\ UNCHANGED <<guiVars, jobVars, dirVars, varVars, scriptVars, installOn, histVars>>

InstallCopies ==
  /\ stage = "copy" /\ InstallEnds
  /\ realRef' = [realRef EXCEPT ![installOn] =
                   IF Read(installOn, installCopies) = "absent" THEN realRef[installOn]
                   ELSE Read(installOn, installCopies)]
  /\ UNCHANGED <<guiVars, jobVars, dirVars, shim, scriptVars, histVars>>

Install ==
  \/ InstallStarts
  \/ InstallFails
  \/ InstallRemoves
  \/ InstallRuns
  \/ InstallPicks
  \/ InstallCopies

Next ==
  \/ Gui
  \/ \E s \in Slots : Script(s)
  \/ Install

Spec == Init /\ [][Next]_vars

-----------------------------------------------------------------------------
(* Properties.                                                             *)

(* The board's own library is never lost: whatever step of a toggle is cut *)
(* short, on whichever target, it is under one of its two names.           *)
GenuineKept == \A t \in Targets : "genuine" \in {live[t], backup[t]}

(* Once the genuine library is at libqcxclient.so.real it stays there, in  *)
(* REAL as well: it is what the live link points to.                       *)
BackupKept == [][\A t \in Targets : backup[t] = "genuine" => backup'[t] = "genuine"]_vars

(* What is shown for the target it was read from is true: REAL (which      *)
(* blocks Play) only while clients load the genuine library, SHIM only     *)
(* while they do not, although queries, toggles and Configure overlap.     *)
ShownIsTrue ==
  readOf = target =>
    /\ shown = "Real" => Loads(target) = "genuine"
    /\ shown = "Shim" => Loads(target) # "genuine"

(* The live link to the shim dangles only where a bundle install has       *)
(* removed /var/opt/lib: no toggle switches to a shim that is not there.   *)
DanglesOnlyAfterWipe ==
  \A t \in Targets : live[t] = "linkShim" /\ ~shim[t] => t \in wiped

(* real-ref is a copy of the board's own library, never of the shim, but   *)
(* for an install that a toggle overtook between its choice of the source  *)
(* and the copy (ADR 0002 makes the one command the only way to fill it).  *)
RealRefIsGenuine == \A t \in Targets : realRef[t] = "shimCopy" => t \in overtaken

=============================================================================
