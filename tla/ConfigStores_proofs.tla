-------------------------- MODULE ConfigStores_proofs --------------------------
(* Proofs about ConfigStores: what the copies of a file promise, for any   *)
(* number of directories, configurations and keys.                         *)
EXTENDS ConfigStores, WellFoundedInduction, TLAPS

(* No copy is dated in the future.                                         *)
Dated == \A d \in ReadDirs : Readable(d) => when[d] <= clock

(* The copies that still hold what was stored last hold it unchanged...    *)
Intact == \A d \in took : file[d] = kept

(* ...and every other is older, whichever it is.                           *)
Newer ==
  \A d \in took, e \in ReadDirs \ took : Readable(e) => when[e] < when[d]

(* They were written by one save, and have its date.                       *)
SameDate == \A d, e \in took : when[d] = when[e]

(* A save has come to the directories before next, and each of them either *)
(* took the copy or refused it.                                            *)
Progress ==
  pc = "saving" =>
    /\ written \cup errors = {d \in Candidates : d < next}
    /\ written \cap errors = {}

(* Until its first write everything is older than the save; from then on   *)
(* the save is what was stored last.                                       *)
Stamped ==
  pc = "saving" =>
    /\ written = {} => \A d \in ReadDirs : Readable(d) => when[d] < clock
    /\ written # {} => took = written /\ kept = out
    /\ written # {} => \A d \in took : when[d] = clock

(* What is about to be written: the session, and no less than was there.   *)
Writes == pc = "saving" => out.config = session
Grown ==
  pc = "saving" /\ written = {} =>
    \A d \in ReadDirs : IsNewest(d) =>
      file[d].keys \subseteq out.keys /\ file[d].version <= out.version

(* The logins in every copy were given by somebody.                        *)
NamedInFiles == \A d \in ReadDirs : Readable(d) => Logins(file[d].config) \subseteq given

IInv ==
  /\ TypeOK /\ Dated /\ Intact /\ Newer /\ SameDate
  /\ Progress /\ Stamped /\ Writes /\ Grown
  /\ NamedInFiles /\ UserOfTarget
  /\ pc = "saving" => Logins(session) \subseteq given
-----------------------------------------------------------------------------
LEMMA ReadableIsContent ==
  ASSUME TypeOK, NEW d \in ReadDirs
  PROVE  Readable(d) <=> file[d] \in Content
<1>1. file[d] \in Content \cup {Nothing, Unreadable}
  BY DEF TypeOK
<1> QED BY <1>1, ContentAssumption DEF Readable

LEMMA NothingIsBlank ==
  /\ Blank \notin Targets /\ Blank \notin Users
  /\ NoSession \in Given /\ NoContent \in Content /\ Config \subseteq Given
BY BlankAssumption DEF NoSession, NoContent, Given, Content, Config

(* A load finds what was stored last as long as a copy of it is left.      *)
LEMMA NewestIsKept ==
  ASSUME TypeOK, Intact, Newer, took # {}, NEW d \in ReadDirs, IsNewest(d)
  PROVE  d \in took /\ file[d] = kept
<1>1. PICK t \in took : t \in ReadDirs /\ file[t] = kept
  BY DEF TypeOK, Intact
<1>2. Readable(t)
  BY <1>1, ReadableIsContent DEF TypeOK
<1>3. when[t] \in Nat /\ when[d] \in Nat
  BY <1>1, DirsAssumption DEF TypeOK
<1>4. d \in took
  <2>1. SUFFICES ASSUME d \notin took PROVE FALSE
    OBVIOUS
  <2>2. when[d] < when[t]
    BY <1>1, <2>1 DEF Newer, IsNewest
  <2>3. Before(d, t)
    BY <1>1, <1>2 DEF IsNewest
  <2> QED BY <1>3, <2>2, <2>3 DEF Before
<1> QED BY <1>4 DEF Intact

LEMMA WhatIsLoaded ==
  ASSUME TypeOK, NEW saved \in Loads
  PROVE  /\ saved \in Content
         /\ \/ \E d \in ReadDirs : IsNewest(d) /\ saved = file[d]
            \/ saved = NoContent /\ \A d \in ReadDirs : ~Readable(d)
<1>1. CASE \E d \in ReadDirs : IsNewest(d) /\ saved = file[d]
  <2>1. PICK d \in ReadDirs : IsNewest(d) /\ saved = file[d]
    BY <1>1
  <2>2. saved \in Content
    BY <2>1, ReadableIsContent DEF IsNewest
  <2> QED BY <1>1, <2>2
<1>2. CASE saved = NoContent /\ \A d \in ReadDirs : ~Readable(d)
  BY <1>2, NothingIsBlank
<1> QED BY <1>1, <1>2 DEF Loads

(* The newest copy is unique, so a load that finds one finds that.         *)
LEMMA OneNewest ==
  ASSUME TypeOK, NEW d \in ReadDirs, NEW e \in ReadDirs, IsNewest(d), IsNewest(e)
  PROVE  d = e
<1>1. Before(d, e) /\ Before(e, d)
  BY DEF IsNewest
<1>2. when[d] \in Nat /\ when[e] \in Nat /\ d \in Nat /\ e \in Nat
  BY DirsAssumption DEF TypeOK, ReadDirs
<1> QED BY <1>1, <1>2 DEF Before

LEMMA MergeIsComplete ==
  ASSUME NEW cli \in Given, NEW saved \in Given
  PROVE  /\ Merge(cli, saved) \in Given
         /\ Merge(cli, saved).target \in Targets /\ Merge(cli, saved).user \in Users
<1>1. /\ cli.target \in Targets \cup {Blank} /\ saved.target \in Targets \cup {Blank}
      /\ cli.user \in Users \cup {Blank} /\ saved.user \in Users \cup {Blank}
      /\ cli.cams \in CamLists \cup {Blank} /\ saved.cams \in CamLists \cup {Blank}
  BY DEF Given
<1>2. OrElse(cli.target, OrElse(saved.target, DefaultTarget)) \in Targets
  BY <1>1, DefaultsAssumption DEF OrElse
<1>3. OrElse(cli.user, OrElse(IF SameTarget(cli, saved) THEN saved.user ELSE Blank, DefaultUser))
        \in Users
  BY <1>1, DefaultsAssumption DEF OrElse
<1>4. OrElse(cli.cams, saved.cams) \in CamLists \cup {Blank}
  BY <1>1 DEF OrElse
<1> QED BY <1>2, <1>3, <1>4 DEF Merge, Given

(* The saved user goes with the saved target, the one of the command line  *)
(* with its own.                                                           *)
LEMMA MergeKeepsLogins ==
  ASSUME NEW cli \in Given, NEW saved \in Given,
         cli.user # Blank => cli.target # Blank,
         Merge(cli, saved).user # DefaultUser
  PROVE  <<Merge(cli, saved).target, Merge(cli, saved).user>> \in Logins(cli) \cup Logins(saved)
<1>1. /\ Merge(cli, saved).target = OrElse(cli.target, OrElse(saved.target, DefaultTarget))
      /\ Merge(cli, saved).user =
           OrElse(cli.user, OrElse(IF SameTarget(cli, saved) THEN saved.user ELSE Blank, DefaultUser))
  BY DEF Merge
<1>2. CASE cli.user # Blank
  BY <1>1, <1>2 DEF OrElse, Logins
<1>3. CASE cli.user = Blank
  <2>1. SameTarget(cli, saved) /\ saved.user # Blank /\ Merge(cli, saved).user = saved.user
    BY <1>1, <1>3 DEF OrElse
  <2>2. Merge(cli, saved).target = OrElse(saved.target, DefaultTarget)
    BY <1>1, <2>1 DEF OrElse, SameTarget
  <2> QED BY <2>1, <2>2 DEF Logins
<1> QED BY <1>2, <1>3

LEMMA LoginsAreNamed ==
  ASSUME NEW config \in Given
  PROVE  Logins(config) \subseteq Targets \X Users
BY DefaultsAssumption DEF Logins, Given, OrElse

LEMMA UpdatedIsContent ==
  ASSUME NEW old \in Content, NEW config \in Config
  PROVE  /\ Updated(old, config) \in Content /\ Updated(old, config).config = config
         /\ old.keys \subseteq Updated(old, config).keys
         /\ old.version <= Updated(old, config).version
<1>1. old.version \in 0..2 /\ old.keys \in SUBSET Keys
  BY DEF Content
<1>2. config \in Given
  BY NothingIsBlank
<1> QED BY <1>1, <1>2 DEF Updated, Content

-----------------------------------------------------------------------------
LEMMA InitStep == Init => IInv
<1> SUFFICES ASSUME Init PROVE IInv
  OBVIOUS
<1>1. 0 \in 0..MaxTime /\ 1 \in 1..(NDirs + 1)
  BY DirsAssumption
<1>2. TypeOK
  BY <1>1, NothingIsBlank DEF Init, TypeOK
<1>3. \A d \in ReadDirs : ~Readable(d)
  BY DEF Init, Readable
<1> QED BY <1>2, <1>3 DEF Init, IInv, Dated, Intact, Newer, SameDate, Progress, Stamped, Writes, Grown,
             NamedInFiles, UserOfTarget

LEMMA StutterStep == IInv /\ UNCHANGED vars => IInv'
<1> SUFFICES ASSUME IInv, UNCHANGED vars PROVE IInv'
  OBVIOUS
<1> QED BY DEF vars, fileVars, saveVars, IInv, TypeOK, Dated, Intact, Newer, SameDate, Progress, Stamped,
             Writes, Grown, NamedInFiles, UserOfTarget, Readable, IsNewest, Before

LEMMA LaunchStep ==
  ASSUME IInv, NEW cli \in Given, Launch(cli)
  PROVE  IInv'
<1> USE DEF Launch, fileVars, saveVars
<1>1. PICK saved \in Loads : session' = Merge(cli, saved.config)
  OBVIOUS
<1>2. saved \in Content /\ saved.config \in Given
  BY <1>1, WhatIsLoaded DEF IInv, Content
<1>3. TypeOK'
  BY <1>1, <1>2, MergeIsComplete, LoginsAreNamed DEF IInv, TypeOK
<1>4. Dated' /\ Intact' /\ Newer' /\ SameDate'
  BY DEF IInv, Dated, Intact, Newer, SameDate, Readable
<1>5. Progress' /\ Stamped' /\ Writes' /\ Grown' /\ (pc = "saving" => Logins(session) \subseteq given)'
  BY DEF Progress, Stamped, Writes, Grown
<1>6. NamedInFiles'
  BY DEF IInv, NamedInFiles, Readable
<1>7. UserOfTarget'
  <2>1. Logins(saved.config) \subseteq given
    <3>1. CASE \E d \in ReadDirs : IsNewest(d) /\ saved = file[d]
      BY <3>1 DEF IInv, NamedInFiles, IsNewest
    <3>2. CASE saved = NoContent
      BY <3>2 DEF NoContent, NoSession, Logins
    <3> QED BY <1>1, <3>1, <3>2, WhatIsLoaded DEF IInv
  <2> QED BY <1>1, <1>2, <2>1, MergeKeepsLogins DEF UserOfTarget
<1> QED BY <1>3, <1>4, <1>5, <1>6, <1>7 DEF IInv

LEMMA AcceptStep ==
  ASSUME IInv, NEW config \in Config, Accept(config)
  PROVE  IInv'
<1> USE DEF Accept
<1>1. PICK old \in Loads : out' = Updated(old, config)
  OBVIOUS
<1>2. old \in Content /\ config \in Given
  BY <1>1, WhatIsLoaded, NothingIsBlank DEF IInv
<1>3. clock' \in 0..MaxTime /\ clock \in Nat /\ 1 \in 1..(NDirs + 1)
  BY DirsAssumption DEF IInv, TypeOK
<1>4. TypeOK'
  <2>1. config.target \in Targets /\ config.user \in Users
    BY DEF Config
  <2> QED BY <1>1, <1>2, <1>3, <2>1, UpdatedIsContent, LoginsAreNamed DEF IInv, TypeOK
<1>5. \A d \in ReadDirs : Readable(d) => when[d] < clock'
  BY <1>3, DirsAssumption DEF IInv, Dated, TypeOK
<1>6. Dated' /\ Intact' /\ Newer' /\ SameDate'
  <2>1. \A d \in ReadDirs : when[d] \in Nat
    BY DirsAssumption DEF IInv, TypeOK
  <2> QED BY <1>3, <1>5, <2>1 DEF IInv, Dated, Intact, Newer, SameDate, Readable
<1>7. Progress'
  BY DirsAssumption DEF Progress, Candidates
<1>8. Stamped' /\ Writes'
  BY <1>1, <1>2, <1>5, UpdatedIsContent DEF Stamped, Writes, Readable
<1>9. Grown'
  <2> SUFFICES ASSUME NEW d \in ReadDirs, IsNewest(d)
               PROVE  file[d].keys \subseteq out'.keys /\ file[d].version <= out'.version
    BY DEF Grown, IsNewest, Readable, Before
  <2>1. file[d] = old
    BY <1>1, WhatIsLoaded, OneNewest DEF IInv, IsNewest
  <2> QED BY <1>1, <1>2, <2>1, UpdatedIsContent
<1>10. NamedInFiles'
  BY DEF IInv, NamedInFiles, Readable
<1>11. UserOfTarget' /\ (pc = "saving" => Logins(session) \subseteq given)'
  BY BlankAssumption DEF UserOfTarget, Logins, Config, OrElse
<1> QED BY <1>4, <1>6, <1>7, <1>8, <1>9, <1>10, <1>11 DEF IInv

(* A directory that takes the copy: before the save's first, everything is *)
(* older; after it, the save is what was stored last.                      *)
LEMMA WriteStep ==
  ASSUME IInv, Write
  PROVE  IInv'
<1> USE DEF Write
<1>1. /\ next \in ReadDirs /\ next' \in 1..(NDirs + 1) /\ next \in Nat /\ NDirs \in Nat
  BY DirsAssumption DEF Candidates, ReadDirs
<1>2. TypeOK'
  BY <1>1, DirsAssumption DEF IInv, TypeOK
<1>3. /\ file'[next] = out /\ when'[next] = clock
      /\ \A d \in ReadDirs : d # next => file'[d] = file[d] /\ when'[d] = when[d]
  BY <1>1 DEF IInv, TypeOK
<1>4. out \in Content /\ clock \in Nat /\ \A d \in ReadDirs : when[d] \in Nat /\ when'[d] \in Nat
  BY <1>1, <1>3, DirsAssumption DEF IInv, TypeOK
<1>5. written \subseteq Candidates /\ took \subseteq ReadDirs
  BY DEF IInv, TypeOK
<1>6. Dated'
  BY <1>3, <1>4 DEF IInv, Dated, Readable
<1>7. Intact'
  BY <1>3, <1>5 DEF IInv, Intact, Stamped
<1>8. took' = written' /\ kept' = out' /\ written' # {}
  BY DEF IInv, Stamped
<1>9. \A d \in took' : when'[d] = clock
  BY <1>3, <1>5 DEF IInv, Stamped
<1>10. \A d \in ReadDirs \ took' : Readable(d)' => when'[d] < clock
  <2> SUFFICES ASSUME NEW d \in ReadDirs, d \notin took', Readable(d)'
               PROVE  when'[d] < clock
    OBVIOUS
  <2>1. d # next /\ Readable(d) /\ when'[d] = when[d]
    BY <1>3 DEF Readable
  <2>2. CASE written = {}
    BY <2>1, <2>2 DEF IInv, Stamped
  <2>3. CASE written # {}
    <3>1. PICK t \in took : when[t] = clock
      BY <2>3 DEF IInv, Stamped
    <3>2. d \notin took
      BY <2>3
    <3> QED BY <2>1, <3>1, <3>2 DEF IInv, Newer
  <2> QED BY <2>2, <2>3
<1>11. Newer' /\ SameDate'
  BY <1>9, <1>10 DEF Newer, SameDate
<1>12. Progress'
  BY <1>1, <1>5 DEF IInv, Progress, Candidates
<1>13. Stamped' /\ Writes' /\ Grown'
  BY <1>8, <1>9 DEF IInv, Stamped, Writes, Grown
<1>14. NamedInFiles'
  BY <1>3 DEF IInv, NamedInFiles, Readable, Writes
<1> QED BY <1>2, <1>6, <1>7, <1>11, <1>12, <1>13, <1>14 DEF IInv, UserOfTarget

LEMMA RefusedStep ==
  ASSUME IInv, Refused
  PROVE  IInv'
<1> USE DEF Refused, fileVars
<1>1. next' \in 1..(NDirs + 1) /\ next \in Nat /\ NDirs \in Nat
  BY DirsAssumption DEF Candidates
<1>2. TypeOK'
  BY <1>1 DEF IInv, TypeOK
<1>3. Progress'
  BY <1>1 DEF IInv, Progress, Candidates, TypeOK
<1>4. /\ Dated' /\ Intact' /\ Newer' /\ SameDate'
      /\ Stamped' /\ Writes' /\ NamedInFiles' /\ UserOfTarget'
  BY DEF IInv, Dated, Intact, Newer, SameDate, Stamped, Writes, NamedInFiles, UserOfTarget, Readable
<1>5. Grown'
  BY DEF IInv, Grown, IsNewest, Before, Readable
<1> QED BY <1>2, <1>3, <1>4, <1>5 DEF IInv

LEMMA SavedStep ==
  ASSUME IInv, Saved
  PROVE  IInv'
<1> USE DEF Saved, fileVars
<1>1. TypeOK'
  BY DEF IInv, TypeOK
<1>2. Dated' /\ Intact' /\ Newer' /\ SameDate' /\ NamedInFiles' /\ UserOfTarget'
  BY DEF IInv, Dated, Intact, Newer, SameDate, NamedInFiles, UserOfTarget, Readable
<1> QED BY <1>1, <1>2 DEF IInv, Progress, Stamped, Writes, Grown

LEMMA ExitStep ==
  ASSUME IInv, Exit
  PROVE  IInv'
<1> USE DEF Exit, fileVars
<1>1. TypeOK'
  <2>1. 1 \in 1..(NDirs + 1)
    BY DirsAssumption
  <2>2. NoSession \in Given /\ NoContent \in Content
    BY NothingIsBlank
  <2> QED BY <2>1, <2>2 DEF IInv, TypeOK
<1>2. Dated' /\ Intact' /\ Newer' /\ SameDate' /\ NamedInFiles'
  BY DEF IInv, Dated, Intact, Newer, SameDate, NamedInFiles, Readable
<1> QED BY <1>1, <1>2 DEF IInv, Progress, Stamped, Writes, Grown, UserOfTarget

LEMMA LostStep ==
  ASSUME IInv, NEW d \in ReadDirs, Lost(d)
  PROVE  IInv'
<1> USE DEF Lost, saveVars
<1>1. TypeOK'
  BY DEF IInv, TypeOK
<1>2. file'[d] = Nothing /\ \A e \in ReadDirs : e # d => file'[e] = file[e]
  BY DEF IInv, TypeOK
<1>3. \A e \in ReadDirs : Readable(e)' => e # d /\ Readable(e) /\ file'[e] = file[e]
  BY <1>2 DEF Readable
<1>4. Dated' /\ NamedInFiles'
  BY <1>3 DEF IInv, Dated, NamedInFiles
<1>5. Intact'
  BY <1>2 DEF IInv, TypeOK, Intact
<1>6. Newer' /\ SameDate'
  BY <1>3 DEF IInv, Newer, SameDate
<1> QED BY <1>1, <1>4, <1>5, <1>6 DEF IInv, Progress, Stamped, Writes, Grown, UserOfTarget

LEMMA BrokenStep ==
  ASSUME IInv, NEW d \in ReadDirs, Broken(d)
  PROVE  IInv'
<1> USE DEF Broken, saveVars
<1>1. clock + 1 \in 0..MaxTime /\ clock \in Nat
  BY DirsAssumption DEF IInv, TypeOK
<1>2. TypeOK'
  BY <1>1 DEF IInv, TypeOK
<1>3. /\ file'[d] = Unreadable
      /\ \A e \in ReadDirs : e # d => file'[e] = file[e] /\ when'[e] = when[e]
  BY DEF IInv, TypeOK
<1>4. \A e \in ReadDirs :
        Readable(e)' => e # d /\ Readable(e) /\ file'[e] = file[e] /\ when'[e] = when[e]
  BY <1>3 DEF Readable
<1>5. Dated' /\ NamedInFiles'
  BY <1>1, <1>4, DirsAssumption DEF IInv, TypeOK, Dated, NamedInFiles
<1>6. Intact'
  BY <1>3 DEF IInv, TypeOK, Intact
<1>7. Newer' /\ SameDate'
  BY <1>3, <1>4 DEF IInv, TypeOK, Newer, SameDate
<1> QED BY <1>2, <1>5, <1>6, <1>7 DEF IInv, Progress, Stamped, Writes, Grown, UserOfTarget

(* Every newer content from outside becomes what was stored last.          *)
LEMMA StoredStep ==
  ASSUME IInv, NEW content \in Content, NEW dirs \in SUBSET ReadDirs, Stored(content, dirs)
  PROVE  IInv'
<1> USE DEF Stored, saveVars
<1>1. clock + 1 \in 0..MaxTime /\ clock \in Nat
  BY DirsAssumption DEF IInv, TypeOK
<1>2. Logins(content.config) \subseteq Targets \X Users
  BY LoginsAreNamed DEF Content
<1>3. TypeOK'
  BY <1>1, <1>2 DEF IInv, TypeOK
<1>4. /\ \A d \in dirs : file'[d] = content /\ when'[d] = clock + 1
      /\ \A d \in ReadDirs \ dirs : file'[d] = file[d] /\ when'[d] = when[d]
  OBVIOUS
<1>5. \A d \in ReadDirs : when[d] \in Nat
  BY DirsAssumption DEF IInv, TypeOK
<1>6. Dated'
  BY <1>1, <1>4, <1>5 DEF IInv, Dated, Readable
<1>7. Intact'
  BY <1>4 DEF Intact
<1>8. Newer' /\ SameDate'
  BY <1>1, <1>4, <1>5 DEF IInv, Dated, Newer, SameDate, Readable
<1>9. NamedInFiles'
  BY <1>4 DEF IInv, NamedInFiles, Readable
<1> QED BY <1>3, <1>6, <1>7, <1>8, <1>9
        DEF IInv, Progress, Stamped, Writes, Grown, UserOfTarget

LEMMA OutsideStep ==
  ASSUME IInv, Outside
  PROVE  IInv'
<1>1. ASSUME NEW d \in ReadDirs, Lost(d) PROVE IInv'
  BY <1>1, LostStep
<1>2. ASSUME NEW d \in ReadDirs, Broken(d) PROVE IInv'
  BY <1>2, BrokenStep
<1>3. ASSUME NEW d \in ReadDirs, NEW config \in Given, HandEdit(d, config) PROVE IInv'
  <2>1. file[d] \in Content
    BY <1>3, ReadableIsContent DEF IInv, HandEdit
  <2>2. [file[d] EXCEPT !.config = config] \in Content
    BY <2>1 DEF Content
  <2> QED BY <1>3, <2>2, StoredStep DEF HandEdit
<1>4. ASSUME OtherRelease PROVE IInv'
  <2>1. PICK config \in Config :
          \/ \E dirs \in SUBSET Candidates :
               Stored([config |-> config, keys |-> Keys, version |-> 2], dirs)
          \/ Stored([config |-> config, keys |-> {}, version |-> 0], ReadDirs \ Candidates)
    BY <1>4 DEF OtherRelease
  <2>2. /\ [config |-> config, keys |-> Keys, version |-> 2] \in Content
        /\ [config |-> config, keys |-> {}, version |-> 0] \in Content
    BY NothingIsBlank DEF Content
  <2>3. Candidates \subseteq ReadDirs
    BY DirsAssumption DEF Candidates, ReadDirs
  <2> QED BY <2>1, <2>2, <2>3, StoredStep
<1> QED BY <1>1, <1>2, <1>3, <1>4 DEF Outside

LEMMA NextStep == IInv /\ [Next]_vars => IInv'
BY LaunchStep, AcceptStep, WriteStep, RefusedStep, SavedStep, ExitStep, OutsideStep, StutterStep
   DEF Next

THEOREM InductiveInvariant == Spec => []IInv
BY InitStep, NextStep, PTL DEF Spec

-----------------------------------------------------------------------------
(* Every variable keeps its type, and a running program has a target and a *)
(* user, whatever the file and the command line leave out.                 *)
THEOREM StoresTypeCorrect == Spec => []TypeOK
<1>1. IInv => TypeOK
  BY DEF IInv
<1> QED BY <1>1, InductiveInvariant, PTL

(* For any number of directories: what was stored last is what is loaded,  *)
(* as long as one copy of it is left.                                      *)
THEOREM NothingIsLost == Spec => []LosingOneLosesNothing
<1>1. IInv => LosingOneLosesNothing
  BY NewestIsKept DEF IInv, LosingOneLosesNothing
<1> QED BY <1>1, InductiveInvariant, PTL

(* For any targets and users: nobody is logged in with a remembered user   *)
(* of another target.                                                      *)
THEOREM LoginsStayTogether == Spec => []UserOfTarget
<1>1. IInv => UserOfTarget
  BY DEF IInv
<1> QED BY <1>1, InductiveInvariant, PTL

(* A finished save has left its copy wherever one could be left, and is    *)
(* reported when there was no such place.                                  *)
THEOREM SavesEverywhere == Spec => SaveIsRedundant
<1> DEFINE A == pc = "saving" /\ pc' = "up" =>
                  /\ \A d \in Candidates \ errors : d \in took' /\ file'[d].config = session'
                  /\ reported' <=> errors = Candidates
<1>1. IInv /\ [Next]_vars => [A]_vars
  <2> SUFFICES ASSUME IInv, Next, pc = "saving", pc' = "up"
               PROVE  /\ \A d \in Candidates \ errors : d \in took' /\ file'[d].config = session'
                      /\ reported' <=> errors = Candidates
    OBVIOUS
  <2>1. Saved
    BY DEF Next, Launch, Accept, Write, Refused, Exit, Outside, Lost, Broken, HandEdit, Stored,
           OtherRelease
  <2>2. NDirs \in Nat /\ next \in Nat /\ next > NDirs
    BY <2>1, DirsAssumption DEF IInv, TypeOK, Saved, AllTried
  <2>3. written \cup errors = Candidates /\ written \cap errors = {}
    BY <2>2 DEF IInv, Progress, Candidates
  <2>4. \A d \in written : d \in took /\ file[d].config = session
    BY DEF IInv, Stamped, Intact, Writes
  <2> QED BY <2>1, <2>3, <2>4 DEF Saved, fileVars
<1> QED BY <1>1, InductiveInvariant, PTL DEF Spec, SaveIsRedundant

(* No save takes away a key of a newer release, or lowers its version.     *)
THEOREM NewerReleaseRespected == Spec => NewerKeysKept
<1> DEFINE A == pc = "saving" =>
                  \A d, e \in ReadDirs : IsNewest(d) /\ file'[e] # file[e] =>
                    /\ file[d].keys \subseteq file'[e].keys
                    /\ file[d].version <= file'[e].version
<1>1. IInv /\ [Next]_vars => [A]_vars
  <2> SUFFICES ASSUME IInv, Next, pc = "saving", NEW d \in ReadDirs, NEW e \in ReadDirs,
                      IsNewest(d), file'[e] # file[e]
               PROVE  /\ file[d].keys \subseteq file'[e].keys
                      /\ file[d].version <= file'[e].version
    OBVIOUS
  <2>1. Write
    BY DEF Next, Launch, Accept, Refused, Saved, Exit, Outside, Lost, Broken, HandEdit, Stored,
           OtherRelease, fileVars
  <2>2. file'[e] = out
    BY <2>1 DEF Write, IInv, TypeOK
  <2>3. CASE written = {}
    BY <2>2, <2>3 DEF IInv, Grown
  <2>4. CASE written # {}
    <3>1. took # {} /\ kept = out
      BY <2>4 DEF IInv, Stamped
    <3>2. file[d] = out
      BY <3>1, NewestIsKept DEF IInv
    <3>3. out.version \in Nat
      BY DEF IInv, TypeOK, Content
    <3> QED BY <2>2, <3>2, <3>3
  <2> QED BY <2>3, <2>4
<1> QED BY <1>1, InductiveInvariant, PTL DEF Spec, NewerKeysKept

-----------------------------------------------------------------------------
(* The copies as one file.                                                 *)

LEMMA Least ==
  ASSUME NEW S \in SUBSET Nat, S # {}
  PROVE  \E n \in S : \A m \in S : n <= m
<1>1. PICK n \in S : \A m \in S : ~(<<m, n>> \in OpToRel(<, Nat))
  BY NatLessThanWellFounded, WFMin
<1>2. \A m \in S : ~(m < n)
  BY <1>1 DEF OpToRel
<1> QED BY <1>2

(* Among copies that parse there is a newest: of the latest date, the one  *)
(* in the first directory.                                                 *)
LEMMA NewestExists ==
  ASSUME TypeOK, NEW r \in ReadDirs, Readable(r)
  PROVE  \E d \in ReadDirs : IsNewest(d)
<1>1. \A d \in ReadDirs : when[d] \in 0..MaxTime /\ d \in Nat /\ when[d] \in Nat
  BY DirsAssumption DEF TypeOK, ReadDirs
<1>2. PICK last \in ReadDirs :
        Readable(last) /\ \A e \in ReadDirs : Readable(e) => when[e] <= when[last]
  <2> DEFINE Back(d) == MaxTime - when[d]
             S == {Back(d) : d \in {e \in ReadDirs : Readable(e)}}
  <2>1. S \subseteq Nat /\ S # {}
    BY <1>1, DirsAssumption
  <2>2. PICK n \in S : \A m \in S : n <= m
    BY <2>1, Least
  <2>3. PICK d \in ReadDirs : Readable(d) /\ n = Back(d)
    BY <2>2
  <2>4. \A e \in ReadDirs : Readable(e) => Back(d) <= Back(e)
    BY <2>2, <2>3
  <2> QED BY <1>1, <2>3, <2>4, DirsAssumption
<1> DEFINE T == {d \in ReadDirs : Readable(d) /\ when[d] = when[last]}
<1>3. T \subseteq Nat /\ T # {}
  BY <1>1, <1>2
<1>4. PICK d \in T : \A e \in T : d <= e
  BY <1>3, Least
<1>5. IsNewest(d)
  BY <1>1, <1>2, <1>4 DEF IsNewest, Before
<1> QED BY <1>4, <1>5

(* A load finds one content, and it is that of the newest copy.            *)
LEMMA FoundIs ==
  ASSUME TypeOK
  PROVE  /\ Found \in Content
         /\ \A d \in ReadDirs : IsNewest(d) => Found = file[d]
         /\ (\A d \in ReadDirs : ~Readable(d)) => Found = NoContent
         /\ \A content \in Loads : content = Found
<1>1. Loads # {}
  BY NewestExists DEF Loads
<1>2. Found \in Loads
  BY <1>1 DEF Found
<1>3. \A content \in Loads : content = Found
  BY <1>2, WhatIsLoaded, OneNewest DEF IsNewest
<1> QED BY <1>2, <1>3, WhatIsLoaded, OneNewest DEF Loads

LEMMA FoundIsContent == TypeOK => Found \in Content
BY FoundIs

(* While a copy of what was stored last is left, that is found.            *)
LEMMA FoundIsKept == IInv /\ took # {} => Found = kept
<1> SUFFICES ASSUME IInv, took # {} PROVE Found = kept
  OBVIOUS
<1>1. PICK d \in took : d \in ReadDirs /\ file[d] = kept
  BY DEF IInv, TypeOK, Intact
<1>2. Readable(d)
  BY <1>1, ReadableIsContent DEF IInv, TypeOK
<1>3. PICK e \in ReadDirs : IsNewest(e)
  BY <1>1, <1>2, NewestExists DEF IInv
<1> QED BY <1>3, FoundIs, NewestIsKept DEF IInv

LEMMA FoundStays ==
  ASSUME UNCHANGED <<file, when>>
  PROVE  Found' = Found
<1>1. \A d \in ReadDirs : Readable(d)' = Readable(d) /\ file'[d] = file[d]
  BY DEF Readable
<1>2. \A d \in ReadDirs : IsNewest(d)' = IsNewest(d)
  BY <1>1 DEF IsNewest, Readable, Before
<1>3. Loads' = Loads
  BY <1>1, <1>2 DEF Loads
<1> QED BY <1>3 DEF Found

LEMMA KeptInit == Init => Kept!Init
<1> SUFFICES ASSUME Init PROVE Kept!Init
  OBVIOUS
<1>1. TypeOK /\ \A d \in ReadDirs : ~Readable(d)
  BY InitStep DEF IInv, Init, Readable
<1>2. Found = NoContent
  BY <1>1, FoundIs
<1> QED BY <1>2 DEF Init, Kept!Init

LEMMA KeptStep == IInv /\ IInv' /\ [Next]_vars => [Kept!Next]_Kept!vars
<1> SUFFICES ASSUME IInv, IInv', [Next]_vars PROVE Kept!Next \/ UNCHANGED Kept!vars
  OBVIOUS
<1>1. Found \in Content /\ Found' \in Content
  <2>1. (TypeOK => Found \in Content)'
    BY FoundIsContent, PTL
  <2> QED BY <2>1, FoundIsContent DEF IInv
<1>2. (took # {} => Found = kept) /\ (took' # {} => Found' = kept')
  <2>1. (IInv /\ took # {} => Found = kept)'
    BY FoundIsKept, PTL
  <2> QED BY <2>1, FoundIsKept
<1>3. ASSUME NEW cli \in Given, Launch(cli) PROVE UNCHANGED Kept!vars
  BY <1>3, FoundStays DEF Launch, fileVars, saveVars, Kept!vars
<1>4. ASSUME NEW config \in Config, Accept(config) PROVE Kept!Begin
  <2>1. PICK old \in Loads : out' = Updated(old, config)
    BY <1>4 DEF Accept
  <2>2. old = Found
    BY <2>1, FoundIs DEF IInv
  <2>3. Found' = Found
    BY <1>4, FoundStays DEF Accept
  <2>4. /\ out' \in Content
        /\ Found.keys \subseteq out'.keys /\ Found.version <= out'.version
    BY <1>1, <2>1, <2>2, UpdatedIsContent
  <2> QED BY <1>4, <2>3, <2>4 DEF Accept, Kept!Begin
<1>5. CASE Write
  <2>1. took' # {} /\ kept' = out /\ pc = "saving" /\ UNCHANGED <<pc, out>>
    BY <1>5 DEF Write
  <2> QED BY <1>2, <2>1 DEF Kept!Commit, Kept!Next
<1>6. CASE Refused
  BY <1>6, FoundStays DEF Refused, fileVars, Kept!vars
<1>7. CASE Saved
  BY <1>7, FoundStays DEF Saved, fileVars, Kept!End, Kept!Next
<1>8. CASE Exit
  <2>1. CASE pc = "saving"
    BY <1>8, <2>1, FoundStays DEF Exit, fileVars, Kept!End, Kept!Next
  <2>2. CASE pc # "saving"
    BY <1>8, <2>2, FoundStays DEF Exit, fileVars, Kept!vars
  <2> QED BY <2>1, <2>2
<1>9. ASSUME pc # "saving", UNCHANGED <<pc, kept>>, took' \subseteq took PROVE Kept!Harm
  BY <1>1, <1>2, <1>9 DEF Kept!Harm
<1>10. ASSUME NEW d \in ReadDirs, Lost(d) \/ Broken(d) PROVE Kept!Harm
  BY <1>9, <1>10 DEF Lost, Broken
<1>11. ASSUME NEW content, NEW dirs, Stored(content, dirs) PROVE Kept!Store
  BY <1>1, <1>11 DEF Stored, Kept!Store
<1>12. CASE Outside
  BY <1>10, <1>11, <1>12 DEF Outside, HandEdit, OtherRelease, Kept!Next
<1>13. CASE UNCHANGED vars
  BY <1>13, FoundStays DEF vars, fileVars, saveVars, Kept!vars
<1> QED BY <1>3, <1>4, <1>5, <1>6, <1>7, <1>8, <1>12, <1>13 DEF Next, Kept!Next

(* Any number of copies are one file: a save replaces it at its first      *)
(* write, nothing else a save does and no loss of a copy but the last      *)
(* changes what is found, and keys of newer releases stay in it.           *)
THEOREM CopiesKeepOneFile == Spec => CopiesAreOneFile
BY KeptInit, KeptStep, InductiveInvariant, PTL DEF Spec, CopiesAreOneFile, Kept!Spec
=============================================================================
