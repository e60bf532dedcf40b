----------------------------- MODULE ConfigStores -----------------------------
(***************************************************************************)
(* camera_injection.json, the accepted configuration of a session, kept in *)
(* several directories at a time (ConfigFiles, SessionConfigStore), and    *)
(* the launch that combines it with the command line (mergeLaunchConfig(); *)
(* docs/adr/0013).  camera_configs.json is written and read the same way.  *)
(*                                                                         *)
(* Directories are numbered as the code orders them: 1..NDirs are written  *)
(* and read, those up to NRead (the binary's own) only read.  A write is   *)
(* atomic (QSaveFile).  A save takes milliseconds of the GUI thread: the   *)
(* program may die in the middle of one, but nobody else touches the files *)
(* meanwhile.  The clock of the machine never steps back.                  *)
(***************************************************************************)
EXTENDS Naturals, FiniteSets

CONSTANTS
  NDirs, NRead,
  Targets, Users, CamLists,  \* what a configuration may say
  DefaultTarget, DefaultUser,
  Blank,                     \* not given, or dropped as unusable
  Keys,                      \* top-level keys of newer releases
  Nothing, Unreadable,       \* no file; one that does not parse
  MaxTime                    \* bound: changes of the files

ASSUME DirsAssumption == NDirs \in Nat \ {0} /\ NRead \in Nat /\ NRead >= NDirs /\ MaxTime \in Nat
ASSUME DefaultsAssumption == DefaultTarget \in Targets /\ DefaultUser \in Users
ASSUME BlankAssumption == Blank \notin Targets \cup Users \cup CamLists

Candidates == 1..NDirs
ReadDirs == 1..NRead

Config == [target : Targets, user : Users, cams : CamLists]
Given == [target : Targets \cup {Blank}, user : Users \cup {Blank}, cams : CamLists \cup {Blank}]
Content == [config : Given, keys : SUBSET Keys, version : 0..2]

ASSUME ContentAssumption == {Nothing, Unreadable} \cap Content = {} /\ Nothing # Unreadable

VARIABLES
  file, when,       \* the copies and their modification times
  clock,
  pc,               \* "off", "up", or "saving" inside SessionConfigStore::save()
  session,          \* the configuration of MainWindow
  out,              \* what save() writes
  next,             \* the directory it comes to next
  written, errors,  \* of ConfigFiles::write()
  reported,         \* "Couldn't save this configuration" was shown for it
  kept, took,       \* history: the last configuration stored, and which copies still hold it
  given             \* history: the pairs of target and SSH user the user ever gave

fileVars == <<file, when, clock, kept, took>>
saveVars == <<out, next, written, errors, reported>>
vars == <<fileVars, saveVars, pc, session, given>>

NoSession == [target |-> Blank, user |-> Blank, cams |-> Blank]
NoContent == [config |-> NoSession, keys |-> {}, version |-> 0]

Init ==
  /\ file = [d \in ReadDirs |-> Nothing] /\ when = [d \in ReadDirs |-> 0] /\ clock = 0
  /\ pc = "off" /\ session = NoSession
  /\ out = NoContent /\ next = 1 /\ written = {} /\ errors = {} /\ reported = FALSE
  /\ kept = NoContent /\ took = {} /\ given = {}

-----------------------------------------------------------------------------
(* readAll() and its readers: the newest copy that parses.                 *)

Readable(d) == file[d] \notin {Nothing, Unreadable}

(* Variant: the order of the directories alone.                            *)
BeforeByOrder(d, e) == d <= e
Before(d, e) == when[d] > when[e] \/ (when[d] = when[e] /\ d <= e)

IsNewest(d) == Readable(d) /\ \A e \in ReadDirs : Readable(e) => Before(d, e)

(* What load() finds: one content, or none that is usable.                 *)
Loads ==
  {file[d] : d \in {e \in ReadDirs : IsNewest(e)}}
    \cup {c \in {NoContent} : \A d \in ReadDirs : ~Readable(d)}

(* save() starts from what is there.  Variant: from nothing.               *)
UpdatedAnew(old, config) == [config |-> config, keys |-> {}, version |-> 1]
Updated(old, config) ==
  [config |-> config, keys |-> old.keys,
   version |-> IF old.version > 1 THEN old.version ELSE 1]

-----------------------------------------------------------------------------
(* mergeLaunchConfig(): option by option, the command line, then what was  *)
(* saved, then the default.  The saved user belongs to the saved target.   *)
(* Variant: to any.                                                        *)
OrElse(a, b) == IF a # Blank THEN a ELSE b

SameTargetAny(cli, saved) == TRUE
SameTarget(cli, saved) == cli.target \in {Blank, saved.target}

Merge(cli, saved) ==
  [target |-> OrElse(cli.target, OrElse(saved.target, DefaultTarget)),
   user |-> OrElse(cli.user, OrElse(IF SameTarget(cli, saved) THEN saved.user ELSE Blank,
                                    DefaultUser)),
   cams |-> OrElse(cli.cams, saved.cams)]

(* What a configuration says of whom to log in as where.                   *)
Logins(config) ==
  IF config.user = Blank THEN {} ELSE {<<OrElse(config.target, DefaultTarget), config.user>>}

(* main().  "--target user@host" gives both.                               *)
Launch(cli) ==
  /\ pc = "off" /\ (cli.user # Blank => cli.target # Blank)
  /\ pc' = "up" /\ given' = given \cup Logins(cli)
  /\ \E saved \in Loads : session' = Merge(cli, saved.config)
  /\ UNCHANGED <<fileVars, saveVars>>

-----------------------------------------------------------------------------
(* SessionConfigStore::save() for an accepted dialog: what is there, then  *)
(* each directory in turn.                                                 *)
Accept(config) ==
  /\ pc = "up" /\ clock < MaxTime
  /\ pc' = "saving" /\ session' = config /\ given' = given \cup Logins(config)
  /\ \E old \in Loads : out' = Updated(old, config)
  /\ next' = 1 /\ written' = {} /\ errors' = {} /\ reported' = FALSE
  /\ clock' = clock + 1
  /\ UNCHANGED <<file, when, kept, took>>

Write ==
  /\ pc = "saving" /\ next \in Candidates
  /\ next' = next + 1
  /\ file' = [file EXCEPT ![next] = out] /\ when' = [when EXCEPT ![next] = clock]
  /\ written' = written \cup {next}
  /\ kept' = out /\ took' = IF written = {} THEN {next} ELSE took \cup {next}
  /\ UNCHANGED <<clock, pc, session, out, errors, reported, given>>

(* No directory, no permission, no space.                                  *)
Refused ==
  /\ pc = "saving" /\ next \in Candidates
  /\ next' = next + 1 /\ errors' = errors \cup {next}
  /\ UNCHANGED <<fileVars, pc, session, out, written, reported, given>>

AllTried == next > NDirs

Saved ==
  /\ pc = "saving" /\ AllTried
  /\ pc' = "up" /\ reported' = (written = {})
  /\ UNCHANGED <<fileVars, session, out, next, written, errors, given>>

(* The program ends or dies, in the middle of a save too.                  *)
Exit ==
  /\ pc # "off" /\ pc' = "off"
  /\ session' = NoSession /\ out' = NoContent /\ next' = 1
  /\ written' = {} /\ errors' = {} /\ reported' = FALSE
  /\ UNCHANGED <<fileVars, given>>

-----------------------------------------------------------------------------
(* What else happens to the files.                                         *)

(* A reinstall removes the binary's directory, a cleaner the cache, the    *)
(* user an installation.                                                   *)
Lost(d) ==
  /\ pc # "saving" /\ file[d] # Nothing
  /\ file' = [file EXCEPT ![d] = Nothing] /\ took' = took \ {d}
  /\ UNCHANGED <<when, clock, kept, saveVars, pc, session, given>>

(* Edited by hand so that it does not parse.                               *)
Broken(d) ==
  /\ pc # "saving" /\ Readable(d) /\ clock < MaxTime
  /\ clock' = clock + 1
  /\ file' = [file EXCEPT ![d] = Unreadable] /\ when' = [when EXCEPT ![d] = clock + 1]
  /\ took' = took \ {d}
  /\ UNCHANGED <<kept, saveVars, pc, session, given>>

(* The copies in dirs are replaced by a newer content.                     *)
Stored(content, dirs) ==
  /\ pc # "saving" /\ clock < MaxTime /\ dirs # {}
  /\ clock' = clock + 1
  /\ file' = [d \in ReadDirs |-> IF d \in dirs THEN content ELSE file[d]]
  /\ when' = [d \in ReadDirs |-> IF d \in dirs THEN clock + 1 ELSE when[d]]
  /\ kept' = content /\ took' = dirs
  /\ given' = given \cup Logins(content.config)
  /\ UNCHANGED <<saveVars, pc, session>>

(* A copy edited by hand; the bad value of a field is as if blank.         *)
HandEdit(d, config) ==
  /\ Readable(d) /\ config # file[d].config
  /\ Stored([file[d] EXCEPT !.config = config], {d})

(* A save by a newer release, with keys of its own and a higher version,   *)
(* or by an earlier one, which knows the binary's directory only.          *)
OtherRelease ==
  /\ pc = "off"
  /\ \E config \in Config :
       \/ \E dirs \in SUBSET Candidates :
            Stored([config |-> config, keys |-> Keys, version |-> 2], dirs)
       \/ Stored([config |-> config, keys |-> {}, version |-> 0], ReadDirs \ Candidates)

Outside ==
  \/ \E d \in ReadDirs : Lost(d) \/ Broken(d) \/ \E config \in Given : HandEdit(d, config)
  \/ OtherRelease

Next ==
  \/ \E cli \in Given : Launch(cli)
  \/ \E config \in Config : Accept(config)
  \/ Write \/ Refused \/ Saved \/ Exit
  \/ Outside

Spec == Init /\ [][Next]_vars

-----------------------------------------------------------------------------
TypeOK ==
  /\ file \in [ReadDirs -> Content \cup {Nothing, Unreadable}]
  /\ when \in [ReadDirs -> 0..MaxTime] /\ clock \in 0..MaxTime
  /\ pc \in {"off", "up", "saving"} /\ session \in Given
  /\ pc # "off" => session.target \in Targets /\ session.user \in Users
  /\ out \in Content /\ next \in 1..(NDirs + 1)
  /\ written \subseteq Candidates /\ errors \subseteq Candidates /\ reported \in BOOLEAN
  /\ kept \in Content /\ took \subseteq ReadDirs
  /\ given \subseteq Targets \X Users

(* "Losing one location loses nothing" (ConfigFiles.h): while any copy of  *)
(* what was stored last is left, a load finds that, whatever older, broken *)
(* or foreign copies lie about and wherever a save was cut short.          *)
LosingOneLosesNothing ==
  took # {} => \A d \in ReadDirs : IsNewest(d) => file[d] = kept

(* A save that ends has a copy of the accepted configuration in every      *)
(* directory that takes one, and says so when there is none.               *)
SaveIsRedundant ==
  [][pc = "saving" /\ pc' = "up" =>
       /\ \A d \in Candidates \ errors : d \in took' /\ file'[d].config = session'
       /\ reported' <=> errors = Candidates]_vars

(* What a newer release has added survives every save by this one, and the *)
(* version it wrote is not lowered, whichever copies were lost, stale or   *)
(* broken when the save began.                                             *)
NewerKeysKept ==
  [][pc = "saving" =>
       \A d, e \in ReadDirs : IsNewest(d) /\ file'[e] # file[e] =>
         /\ file[d].keys \subseteq file'[e].keys
         /\ file[d].version <= file'[e].version]_vars

(* An SSH user given for one target is never used for another: however     *)
(* sessions, hand edits and command lines alternate, who is logged in as   *)
(* where is the default user or a pair somebody has named.                 *)
UserOfTarget ==
  pc # "off" /\ session.user # DefaultUser => <<session.target, session.user>> \in given

-----------------------------------------------------------------------------
(* The copies together, as the one file that they stand for.               *)

Found == CHOOSE content \in Loads : TRUE

Kept == INSTANCE OneFile WITH
  Contents <- Content, Blank <- NoContent,
  found <- Found, safe <- took # {}, saving <- pc = "saving",
  out <- IF pc = "saving" THEN out ELSE NoContent

(* Copies in several directories behave as one file: wherever a save is    *)
(* cut short a load finds the old configuration or the new one, a save     *)
(* that no directory takes changes nothing, what a newer release added     *)
(* stays, and "losing one location loses nothing" (ConfigFiles.h) while    *)
(* another is left (readAll(), write()).                                   *)
CopiesAreOneFile == Kept!Spec
=============================================================================
