----------------------------- MODULE SharedAnswer -----------------------------
(***************************************************************************)
(* What TargetConnectivityMonitor promises: one answer about the current   *)
(* target, shared by everyone who asks.  Who asks before there is an       *)
(* answer waits for the next one, and all who wait get the same.           *)
(***************************************************************************)
CONSTANTS
  Targets, NoTarget,  \* NoTarget: no target is watched
  Askers, NoAnswer    \* NoAnswer: nothing was told yet

VARIABLES
  target,   \* the target that is watched
  state,    \* what is known of it
  waiting,  \* who has asked and was not answered yet
  told      \* of which target each asker was told what

vars == <<target, state, waiting, told>>

Answers == {"Reachable", "Unreachable"}

Init ==
  /\ target \in Targets \cup {NoTarget} /\ state = "Unknown"
  /\ waiting = {} /\ told = [a \in Askers |-> NoAnswer]

(* Nothing is known of a target that was only just named.                  *)
Watch(t) == target' = t /\ state' = "Unknown" /\ UNCHANGED <<waiting, told>>

Ask(a) ==
  /\ target # NoTarget /\ a \notin waiting /\ told[a] = NoAnswer
  /\ IF state = "Unknown"
     THEN waiting' = waiting \cup {a} /\ UNCHANGED told
     ELSE told' = [told EXCEPT ![a] = <<target, state>>] /\ UNCHANGED waiting
  /\ UNCHANGED <<target, state>>

Answer(s) ==
  /\ target # NoTarget /\ state' = s
  /\ told' = [a \in Askers |-> IF a \in waiting THEN <<target, s>> ELSE told[a]]
  /\ waiting' = {}
  /\ UNCHANGED target

Next ==
  \/ \E t \in Targets \cup {NoTarget} : Watch(t)
  \/ \E a \in Askers : Ask(a)
  \/ \E s \in Answers : Answer(s)

Spec == Init /\ [][Next]_vars
=============================================================================
