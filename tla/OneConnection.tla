---------------------------- MODULE OneConnection ----------------------------
(***************************************************************************)
(* What DispatcherClient and the playback state promise between them.  The *)
(* target injects for as long as it has a connection, so disconnect() has  *)
(* to end the one that is open.  It reaches one: the latest made.  Hence   *)
(* there is one, and none after a disconnect(), until an attempt that was  *)
(* let go connects after all.  It then takes the place of the latest,      *)
(* which is out of reach from there on: each such attempt leaves one       *)
(* connection behind, and nothing else does.                               *)
(***************************************************************************)
EXTENDS Naturals

VARIABLES
  state,      \* the playback state
  attempts,   \* how many attempts were made: they are numbered by it
  current,    \* the attempt that may be called upon, or 0
  dialling,   \* the attempts that have no connection yet
  running,    \* the attempts that are not over
  held,       \* the attempts whose connection is open at this end
  latest      \* the one among them that disconnect() would end, if any

vars == <<state, attempts, current, dialling, running, held, latest>>
attemptVars == <<attempts, dialling, running>>
connections == <<held, latest>>

Init ==
  /\ state = "Idle" /\ attempts = 0 /\ current = 0
  /\ dialling = {} /\ running = {} /\ held = {} /\ latest = {}

LetsGo == held' = held \ latest /\ latest' = {}

-----------------------------------------------------------------------------
(* Play or its retry: what was held is let go of, and a new attempt made.  *)
Dial ==
  /\ state' = "Playing" /\ attempts' = attempts + 1 /\ current' = attempts'
  /\ dialling' = dialling \cup {attempts'} /\ running' = running \cup {attempts'}
  /\ LetsGo

(* Play before anything is known of the target.                            *)
Begin == state # "Playing" /\ state' = "Playing" /\ UNCHANGED <<attemptVars, current, connections>>

(* Whether the connection outlives a Pause is not promised.                *)
Pause ==
  /\ state = "Playing" /\ state' = "Paused"
  /\ current' \in {0, current}
  /\ LetsGo \/ UNCHANGED connections
  /\ UNCHANGED attemptVars

Stop == state' = "Idle" /\ current' = 0 /\ LetsGo /\ UNCHANGED attemptVars

(* The attempt has failed, or the window closes.                           *)
LetGo == current' \in {0, current} /\ LetsGo /\ UNCHANGED <<state, attemptVars>>

-----------------------------------------------------------------------------
(* An attempt connects once, and the last one only in a session.           *)
Connect(a) ==
  /\ a \in dialling /\ dialling' = dialling \ {a}
  /\ a = current => state # "Idle"
  /\ held' = held \cup {a} /\ latest' = {a}
  /\ UNCHANGED <<state, attempts, current, running>>

(* An attempt is over.  It ends the latest connection, its own or, when    *)
(* that is gone, one that was given its number since; or it ends none, not *)
(* even its own when another has taken its place.                          *)
Over(a) ==
  /\ a \in running
  /\ running' = running \ {a} /\ dialling' = dialling \ {a}
  /\ \/ (a \in latest \/ a \notin held) /\ LetsGo
     \/ a \notin latest /\ UNCHANGED connections
  /\ UNCHANGED <<state, attempts, current>>

Next ==
  \/ Dial \/ Begin \/ Pause \/ Stop \/ LetGo
  \/ \E a \in 1..attempts : Connect(a) \/ Over(a)

Spec == Init /\ [][Next]_vars
=============================================================================
