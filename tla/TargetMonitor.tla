---------------------------- MODULE TargetMonitor ----------------------------
(***************************************************************************)
(* TargetConnectivityMonitor, which pings the current target about once a  *)
(* second on threads of its own, and the check with which each Play asks   *)
(* it whether to go on (beginReachabilityCheck(), docs/adr/0003, 0005).    *)
(*                                                                         *)
(* A ping may say anything at any time.  The callback for changes only     *)
(* redraws the shim box and is left out.                                   *)
(***************************************************************************)
EXTENDS Naturals, FiniteSets

CONSTANTS
  Targets, NoTarget,
  Probes,      \* bound: ping threads at a time
  MaxStarts,   \* bound: calls of start()
  MaxChecks,   \* bound: reachability tokens handed out by Play
  NoAnswer

ASSUME TargetsAssumption == NoTarget \notin Targets
ASSUME BoundsAssumption == MaxStarts \in Nat \ {0} /\ MaxChecks \in Nat
ASSUME AnswersAssumption == NoAnswer \notin Targets \X {"Reachable", "Unreachable"}

VARIABLES
  target,         \* target_, and currentTarget_
  state,          \* state_
  token,          \* token_
  probeInFlight,  \* probeInFlight_
  probe,          \* the ping threads whose result was not delivered yet
  oneShots,       \* pendingOneShots_, by the reachability token of each
  session,        \* the Play session: is its check decided?
  check,          \* reachabilityCheckToken_
  about,          \* history: the target whose ping gave state
  told            \* history: what each one-shot was called with, and about whom

monitorVars == <<target, state, token, probeInFlight, probe, about>>
gateVars == <<session, check>>
vars == <<monitorVars, gateVars, oneShots, told>>

Answers == {"Reachable", "Unreachable"}
Checks == 1..(MaxChecks + 1)
Probe == [token : 0..MaxStarts, on : Targets \cup {NoTarget}]
NoProbe == [token |-> 0, on |-> NoTarget]

Free == {p \in Probes : probe[p] = NoProbe}
OwnProbes == {p \in Probes : probe[p].token = token}

(* The constructor of MainWindow, start() included if a target is known.   *)
Init ==
  /\ target \in Targets \cup {NoTarget}
  /\ state = "Unknown" /\ about = NoTarget /\ token = 1
  /\ probeInFlight = (target # NoTarget)
  /\ \E p \in Probes :
       probe = [q \in Probes |-> IF p = q /\ target # NoTarget
                                 THEN [token |-> 1, on |-> target] ELSE NoProbe]
  /\ oneShots = {} /\ session = "Idle" /\ check = 0
  /\ told = [a \in Checks |-> NoAnswer]

-----------------------------------------------------------------------------
(* tick() when the members have these values.  Bound: a thread is free.    *)
Tick(busy, on, tok) ==
  IF busy \/ on = NoTarget THEN probeInFlight' = busy /\ UNCHANGED probe
  ELSE /\ Free # {} /\ probeInFlight' = TRUE
       /\ probe' = [probe EXCEPT ![CHOOSE p \in Free : TRUE] = [token |-> tok, on |-> on]]

(* start().  Variants: the token stays; the probe of the target before     *)
(* holds the flag; what was known stays.                                   *)
StartSameToken(t) ==
  /\ target' = t /\ UNCHANGED token /\ state' = "Unknown" /\ about' = NoTarget
  /\ Tick(FALSE, t, token)
StartStillInFlight(t) ==
  /\ target' = t /\ token' = token + 1 /\ state' = "Unknown" /\ about' = NoTarget
  /\ Tick(probeInFlight, t, token + 1)
Start(t) ==
  /\ target' = t /\ token' = token + 1 /\ state' = "Unknown" /\ about' = NoTarget
  /\ Tick(FALSE, t, token + 1)

(* onConfigureTriggered(), accepted with a target, the same or another.    *)
Configure(t) ==
  /\ session = "Idle" /\ token < MaxStarts
  /\ Start(t)
  /\ UNCHANGED <<gateVars, oneShots, told>>

Timer ==
  /\ ~probeInFlight /\ target # NoTarget
  /\ Tick(probeInFlight, target, token)
  /\ UNCHANGED <<target, state, token, about, gateVars, oneShots, told>>

(* onReachabilityCheckResult(): go on, or stop everything.                 *)
Decision(answer) == IF answer = "Reachable" THEN "Declared" ELSE "Idle"

(* beginReachabilityCheck() and probeNow().                                *)
BeginCheck ==
  /\ check' = check + 1
  /\ IF state # "Unknown"
     THEN /\ session' = Decision(state)
          /\ told' = [told EXCEPT ![check + 1] = <<about, state>>]
          /\ UNCHANGED <<oneShots, probeInFlight, probe>>
     ELSE /\ session' = "Searching" /\ oneShots' = oneShots \cup {check + 1}
          /\ Tick(probeInFlight, target, token)
          /\ UNCHANGED told
  /\ UNCHANGED <<target, state, token, about>>

(* A session without a target only streams locally.                        *)
Play ==
  /\ session \in {"Idle", "Paused"} /\ check < MaxChecks
  /\ IF target # NoTarget THEN BeginCheck
     ELSE session' = "Declared" /\ UNCHANGED <<monitorVars, check, oneShots, told>>

Pause ==
  /\ session = "Declared" /\ session' = "Paused"
  /\ UNCHANGED <<monitorVars, check, oneShots, told>>

(* Stop by the user, the program, or the time-out of the check.            *)
(* cancelReachabilityCheck() makes the check's own callback a stale one.   *)
Stop ==
  /\ session # "Idle" /\ session' = "Idle"
  /\ check' = IF session = "Searching" THEN check + 1 ELSE check
  /\ UNCHANGED <<monitorVars, oneShots, told>>

(* The result of a thread in the event loop.  Variant: of any thread.      *)
OwnAnyToken(p) == TRUE
Own(p) == probe[p].token = token

Delivered(p, answer) ==
  /\ probe[p] # NoProbe
  /\ probe' = [probe EXCEPT ![p] = NoProbe]
  /\ IF Own(p)
     THEN /\ probeInFlight' = FALSE /\ state' = answer /\ about' = probe[p].on
          /\ told' = [a \in Checks |-> IF a \in oneShots THEN <<probe[p].on, answer>> ELSE told[a]]
          /\ oneShots' = {}
          /\ session' = IF session = "Searching" /\ check \in oneShots
                        THEN Decision(answer) ELSE session
     ELSE UNCHANGED <<probeInFlight, state, about, told, oneShots, session>>
  /\ UNCHANGED <<target, token, check>>

Next ==
  \/ \E t \in Targets : Configure(t)
  \/ Timer \/ Play \/ Pause \/ Stop
  \/ \E p \in Probes, answer \in Answers : Delivered(p, answer)

Spec == Init /\ [][Next]_vars

(* A ping ends within seconds and the event loop runs its result.  Neither *)
(* the timers nor the user are needed.                                     *)
Fairness == \A p \in Probes : WF_vars(\E answer \in Answers : Delivered(p, answer))

FairSpec == Spec /\ Fairness

-----------------------------------------------------------------------------
TypeOK ==
  /\ target \in Targets \cup {NoTarget} /\ about \in Targets \cup {NoTarget}
  /\ state \in Answers \cup {"Unknown"}
  /\ token \in 1..MaxStarts /\ probeInFlight \in BOOLEAN
  /\ probe \in [Probes -> Probe]
  /\ check \in 0..(MaxChecks + 1) /\ oneShots \subseteq 1..check
  /\ session \in {"Idle", "Searching", "Declared", "Paused"}
  /\ told \in [Checks -> (Targets \X Answers) \cup {NoAnswer}]

(* However often Configure restarts the monitor while earlier pings are    *)
(* out: it waits for one ping of the current target and never for another, *)
(* and while nothing is known of a target, it does wait.                   *)
OneProbeOfTarget ==
  /\ probeInFlight => \E p \in OwnProbes : OwnProbes = {p} /\ probe[p].on = target
  /\ ~probeInFlight => OwnProbes = {}
  /\ state = "Unknown" /\ target # NoTarget => probeInFlight

(* A session goes on to declare itself only if its own check was answered  *)
(* Reachable by a ping of its own target, never on what was known of the   *)
(* one before or on the callback of an earlier check alone.                *)
DeclaredOnlyIfReachable ==
  session \in {"Declared", "Paused"} /\ target # NoTarget =>
    told[check] = <<target, "Reachable">>

(* The monitor is one shared answer, whatever its threads do.              *)
Shared == INSTANCE SharedAnswer WITH Askers <- Checks, waiting <- oneShots
SharesOneAnswer == Shared!Spec

(* The part of SearchEnds that needs no fairness: while a session searches *)
(* its own callback waits and a ping of its target is out whose result,    *)
(* when it comes, is the one that counts; an answer that is known already  *)
(* finds nobody searching.                                                 *)
SearchAwaitsPing ==
  session = "Searching" =>
    /\ check \in oneShots /\ state = "Unknown"
    /\ \E p \in OwnProbes : probe[p] # NoProbe /\ probe[p].on = target

(* A check is decided by a ping: no session depends on the time-out, the   *)
(* timer of the monitor or another Play to get out of "Searching".         *)
SearchEnds == session = "Searching" ~> session # "Searching"
=============================================================================
