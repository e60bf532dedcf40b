------------------------------- MODULE OneFile -------------------------------
(***************************************************************************)
(* What keeping copies of a file is for: it is as if there were one, that  *)
(* a save replaces at one moment or, if nothing takes it, not at all, and  *)
(* that no accident to a copy changes as long as another is left.  Only    *)
(* when the last one has gone may a load find whatever else lies about.    *)
(***************************************************************************)
EXTENDS Naturals

CONSTANTS
  Contents,   \* what a file may say
  Blank       \* what a load makes of it when there is none

VARIABLES
  found,      \* what a load finds
  safe,       \* a copy of what was stored last is left
  saving,     \* a save is under way...
  out         \* ...that writes this

vars == <<found, safe, saving, out>>

Init == found = Blank /\ safe = FALSE /\ saving = FALSE /\ out = Blank

(* What is to be written has what is there of newer releases.              *)
Begin ==
  /\ ~saving /\ saving' = TRUE /\ out' \in Contents
  /\ found.keys \subseteq out'.keys /\ found.version <= out'.version
  /\ UNCHANGED <<found, safe>>

Commit ==
  /\ saving /\ found' = out /\ safe' = TRUE
  /\ UNCHANGED <<saving, out>>

(* A save is over, or the program: with the commit or without.             *)
End ==
  /\ saving /\ saving' = FALSE /\ out' = Blank
  /\ UNCHANGED <<found, safe>>

(* A copy is gone, and it may have been the last.                          *)
Harm ==
  /\ ~saving /\ safe' \in {safe, FALSE} /\ found' \in Contents
  /\ safe' => UNCHANGED found
  /\ UNCHANGED <<saving, out>>

(* Somebody else stores.                                                   *)
Store ==
  /\ ~saving /\ safe' = TRUE /\ found' \in Contents
  /\ UNCHANGED <<saving, out>>

Next == Begin \/ Commit \/ End \/ Harm \/ Store

Spec == Init /\ [][Next]_vars
=============================================================================
