---------------------------- MODULE Target_proofs ----------------------------
(***************************************************************************)
(* What the program knows of a target.  The properties of TargetMonitor    *)
(* hold for any targets, ping threads and numbers of restarts and Play     *)
(* presses, and the monitor implements SharedAnswer; those of TargetStats, *)
(* in the second half, for any process and application numbers, limits of  *)
(* age, budgets of faults and length of what is on its way.                *)
(***************************************************************************)
EXTENDS TargetMonitor, TargetStats, WellFoundedInduction, TLAPS

-----------------------------------------------------------------------------
(* The monitor.                                                            *)

(* A thread's token was handed out by start() at its time: the next one is *)
(* new to all of them.                                                     *)
TokensPast == \A p \in Probes : probe[p].token <= token

(* What is known, is known of the current target; only it is pinged for.   *)
KnownOfTarget ==
  /\ state # "Unknown" => about = target /\ target # NoTarget
  /\ probeInFlight => target # NoTarget

(* A check under way has its own callback waiting, and there has been one  *)
(* if a session goes on with a target.                                     *)
SearchWaits ==
  /\ session = "Searching" =>
       check \in oneShots /\ check <= MaxChecks /\ target # NoTarget
  /\ session \in {"Declared", "Paused"} /\ target # NoTarget => check # 0

(* A callback is called at most once: none that waits, or was not handed   *)
(* in yet, has been called.                                                *)
ToldInOrder == \A a \in Checks : check < a \/ a \in oneShots => told[a] = NoAnswer

IInv ==
  /\ TypeOK
  /\ OneProbeOfTarget
  /\ TokensPast
  /\ KnownOfTarget
  /\ SearchWaits
  /\ DeclaredOnlyIfReachable
  /\ ToldInOrder

-----------------------------------------------------------------------------
(* A free thread becomes the one ping with the token.                      *)
LEMMA TickStarts ==
  ASSUME NEW on \in Targets, NEW tok \in 1..MaxStarts, TypeOK, Tick(FALSE, on, tok),
         \A p \in Probes : probe[p].token # tok
  PROVE  /\ probeInFlight' = TRUE
         /\ probe' \in [Probes -> Probe]
         /\ \A p \in Probes : probe'[p].token <= tok \/ probe'[p] = probe[p]
         /\ \E p \in Probes : /\ {q \in Probes : probe'[q].token = tok} = {p}
                              /\ probe'[p].on = on
<1> DEFINE p == CHOOSE q \in Free : TRUE
           new == [token |-> tok, on |-> on]
<1>1. on # NoTarget
  BY TargetsAssumption
<1>2. Free # {} /\ probeInFlight' = TRUE /\ probe' = [probe EXCEPT ![p] = new]
  BY <1>1, Zenon DEF Tick
<1>3. p \in Probes
  BY <1>2 DEF Free
<1>4. new \in Probe /\ new.token = tok /\ new.on = on
  BY BoundsAssumption DEF Probe
<1> HIDE DEF p, new
<1>5. probe \in [Probes -> Probe]
  BY DEF TypeOK
<1>6. probe' \in [Probes -> Probe]
  BY <1>2, <1>3, <1>4, <1>5, Zenon
<1>7. /\ probe'[p] = new
      /\ \A q \in Probes : q # p => probe'[q] = probe[q]
  BY <1>2, <1>3, <1>5, Zenon
<1>8. \A q \in Probes : probe'[q].token <= tok \/ probe'[q] = probe[q]
  BY <1>4, <1>7, BoundsAssumption
<1>9. {q \in Probes : probe'[q].token = tok} = {p}
  BY <1>3, <1>4, <1>7
<1> QED
  BY <1>2, <1>3, <1>4, <1>6, <1>7, <1>8, <1>9

LEMMA NoProbeHasNoToken == NoProbe.token = 0 /\ NoProbe \in Probe
  BY BoundsAssumption DEF NoProbe, Probe

-----------------------------------------------------------------------------
LEMMA InitIInv == Init => IInv
<1> SUFFICES ASSUME Init PROVE IInv
  OBVIOUS
<1>1. PICK p \in Probes :
        probe = [q \in Probes |-> IF p = q /\ target # NoTarget
                                  THEN [token |-> 1, on |-> target] ELSE NoProbe]
  BY DEF Init
<1>2. \A q \in Probes : probe[q].token \in {0, 1} /\ probe[q] \in Probe
  <2> DEFINE first == [token |-> 1, on |-> target]
  <2>1. first \in Probe /\ first.token = 1
    BY BoundsAssumption DEF Init, Probe
  <2> HIDE DEF first
  <2>2. \A q \in Probes : probe[q] = first \/ probe[q] = NoProbe
    BY <1>1 DEF first
  <2> QED
    BY <2>1, <2>2, NoProbeHasNoToken
<1>3. TypeOK
  BY <1>1, <1>2, BoundsAssumption DEF Init, TypeOK, Checks
<1>4. OneProbeOfTarget
  <2>1. target # NoTarget => OwnProbes = {p} /\ probe[p].on = target
    BY <1>1, NoProbeHasNoToken DEF Init, OwnProbes
  <2>2. target = NoTarget => OwnProbes = {}
    BY <1>1, NoProbeHasNoToken DEF Init, OwnProbes
  <2> QED
    BY <2>1, <2>2 DEF Init, OneProbeOfTarget
<1>5. TokensPast
  BY <1>2 DEF Init, TokensPast
<1>6. KnownOfTarget
  <2>1. probeInFlight = (target # NoTarget)
    BY DEF Init
  <2> QED
    BY <2>1, Zenon DEF Init, KnownOfTarget
<1>7. SearchWaits /\ DeclaredOnlyIfReachable
  BY DEF Init, SearchWaits, DeclaredOnlyIfReachable
<1>8. ToldInOrder
  BY DEF Init, ToldInOrder
<1> QED
  BY <1>3, <1>4, <1>5, <1>6, <1>7, <1>8 DEF IInv

-----------------------------------------------------------------------------
LEMMA ConfigureIInv == IInv /\ (\E t \in Targets : Configure(t)) => IInv'
<1> SUFFICES ASSUME IInv, NEW t \in Targets, Configure(t) PROVE IInv'
  OBVIOUS
<1> USE DEF IInv
<1>1. token + 1 \in 1..MaxStarts /\ token \in Nat
  BY BoundsAssumption DEF TypeOK, Configure
<1>2. \A p \in Probes : probe[p].token <= token /\ probe[p].token \in Nat
  BY BoundsAssumption DEF TypeOK, TokensPast, Probe
<1>3. \A p \in Probes : probe[p].token # token + 1
  BY <1>1, <1>2
<1>4. /\ target' = t /\ token' = token + 1 /\ state' = "Unknown" /\ about' = NoTarget
      /\ Tick(FALSE, t, token + 1)
      /\ session = "Idle" /\ UNCHANGED <<session, check, oneShots, told>>
  BY DEF Configure, Start, gateVars
<1>5. /\ probeInFlight' = TRUE
      /\ probe' \in [Probes -> Probe]
      /\ \A p \in Probes : probe'[p].token <= token + 1 \/ probe'[p] = probe[p]
      /\ \E p \in Probes : /\ {q \in Probes : probe'[q].token = token + 1} = {p}
                           /\ probe'[p].on = t
  BY <1>1, <1>3, <1>4, TickStarts
<1>6. TypeOK'
  BY <1>1, <1>4, <1>5 DEF TypeOK
<1>7. OneProbeOfTarget'
  BY <1>4, <1>5 DEF OneProbeOfTarget, OwnProbes
<1>8. TokensPast'
  BY <1>1, <1>2, <1>4, <1>5 DEF TokensPast
<1> QED
  BY <1>4, <1>6, <1>7, <1>8, TargetsAssumption
     DEF KnownOfTarget, SearchWaits, DeclaredOnlyIfReachable, ToldInOrder

LEMMA TimerIInv == IInv /\ Timer => IInv'
<1> SUFFICES ASSUME IInv, Timer PROVE IInv'
  OBVIOUS
<1> USE DEF IInv
<1>1. token \in 1..MaxStarts /\ target \in Targets
  BY DEF TypeOK, Timer
<1>2. \A p \in Probes : probe[p].token # token
  BY DEF Timer, OneProbeOfTarget, OwnProbes
<1>3. /\ Tick(FALSE, target, token)
      /\ UNCHANGED <<target, state, token, about, session, check, oneShots, told>>
  <2>1. probeInFlight = FALSE
    BY DEF Timer, TypeOK
  <2> QED
    BY <2>1 DEF Timer, gateVars
<1>4. /\ probeInFlight' = TRUE
      /\ probe' \in [Probes -> Probe]
      /\ \A p \in Probes : probe'[p].token <= token \/ probe'[p] = probe[p]
      /\ \E p \in Probes : /\ {q \in Probes : probe'[q].token = token} = {p}
                           /\ probe'[p].on = target
  BY <1>1, <1>2, <1>3, TickStarts
<1>5. TypeOK'
  BY <1>3, <1>4 DEF TypeOK
<1>6. OneProbeOfTarget'
  BY <1>3, <1>4 DEF OneProbeOfTarget, OwnProbes
<1>7. TokensPast'
  BY <1>3, <1>4 DEF TokensPast
<1> QED
  BY <1>1, <1>3, <1>5, <1>6, <1>7, TargetsAssumption
     DEF KnownOfTarget, SearchWaits, DeclaredOnlyIfReachable, ToldInOrder

(* A check begun while nothing is known finds a ping under way: probeNow() *)
(* never has to start one.                                                 *)
LEMMA BeginCheckSplits ==
  ASSUME IInv, Play, target # NoTarget
  PROVE  /\ check' = check + 1 /\ check < MaxChecks
         /\ UNCHANGED <<target, state, token, probeInFlight, probe, about>>
         /\ \/ /\ state # "Unknown" /\ session' = Decision(state)
               /\ told' = [told EXCEPT ![check + 1] = <<about, state>>]
               /\ UNCHANGED oneShots
            \/ /\ state = "Unknown" /\ session' = "Searching"
               /\ oneShots' = oneShots \cup {check + 1} /\ UNCHANGED told
<1>1. BeginCheck /\ check < MaxChecks
  BY DEF Play
<1>2. CASE state # "Unknown"
  BY <1>1, <1>2 DEF BeginCheck
<1>3. CASE state = "Unknown"
  <2>1. probeInFlight = TRUE
    BY <1>3 DEF IInv, TypeOK, OneProbeOfTarget
  <2> QED
    BY <1>1, <1>3, <2>1 DEF BeginCheck, Tick
<1> QED
  BY <1>2, <1>3

LEMMA PlayIInv == IInv /\ Play => IInv'
<1> SUFFICES ASSUME IInv, Play PROVE IInv'
  OBVIOUS
<1> USE DEF IInv
<1>0. check \in Nat /\ MaxChecks \in Nat
  BY BoundsAssumption DEF TypeOK
<1>1. CASE target = NoTarget
  BY <1>1 DEF Play, monitorVars, TypeOK, OneProbeOfTarget, OwnProbes, TokensPast, KnownOfTarget,
              SearchWaits, DeclaredOnlyIfReachable, ToldInOrder
<1>2. CASE target # NoTarget
  <2>1. /\ check' = check + 1 /\ check < MaxChecks
        /\ UNCHANGED <<target, state, token, probeInFlight, probe, about>>
    BY <1>2, BeginCheckSplits
  <2>2. check + 1 \in Checks
    BY <1>0, <2>1 DEF Checks
  <2>3. OneProbeOfTarget' /\ TokensPast' /\ KnownOfTarget'
    BY <2>1 DEF OneProbeOfTarget, OwnProbes, TokensPast, KnownOfTarget
  <2>4. CASE /\ state # "Unknown" /\ session' = Decision(state)
             /\ told' = [told EXCEPT ![check + 1] = <<about, state>>]
             /\ UNCHANGED oneShots
    <3>1. about = target /\ target \in Targets /\ state \in Answers
      BY <2>4 DEF KnownOfTarget, TypeOK
    <3>2. told' \in [Checks -> (Targets \X Answers) \cup {NoAnswer}]
      BY <2>2, <2>4, <3>1 DEF TypeOK
    <3>3. /\ told'[check + 1] = <<target, state>>
          /\ \A a \in Checks : a # check + 1 => told'[a] = told[a]
      BY <2>2, <2>4, <3>1 DEF TypeOK
    <3>4. TypeOK'
      BY <1>0, <2>1, <2>4, <3>2 DEF TypeOK, Decision
    <3>5. DeclaredOnlyIfReachable' /\ SearchWaits'
      BY <1>0, <2>1, <2>4, <3>3 DEF DeclaredOnlyIfReachable, SearchWaits, Decision
    <3>6. ToldInOrder'
      <4>1. check + 1 \notin oneShots
        BY <1>0 DEF TypeOK
      <4> QED
        BY <1>0, <2>1, <2>4, <3>3, <4>1 DEF ToldInOrder, Checks
    <3> QED
      BY <2>3, <3>4, <3>5, <3>6
  <2>5. CASE /\ state = "Unknown" /\ session' = "Searching"
             /\ oneShots' = oneShots \cup {check + 1} /\ UNCHANGED told
    <3>1. TypeOK'
      BY <1>0, <2>1, <2>5 DEF TypeOK
    <3>2. SearchWaits' /\ DeclaredOnlyIfReachable'
      BY <1>0, <1>2, <2>1, <2>5 DEF SearchWaits, DeclaredOnlyIfReachable
    <3>3. ToldInOrder'
      BY <1>0, <2>1, <2>5 DEF ToldInOrder, Checks
    <3> QED
      BY <2>3, <3>1, <3>2, <3>3
  <2> QED
    BY <1>2, <2>4, <2>5, BeginCheckSplits
<1> QED
  BY <1>1, <1>2

LEMMA PauseIInv == IInv /\ Pause => IInv'
  BY DEF IInv, Pause, monitorVars, TypeOK, OneProbeOfTarget, OwnProbes, TokensPast, KnownOfTarget,
         SearchWaits, DeclaredOnlyIfReachable, ToldInOrder

LEMMA StopIInv == IInv /\ Stop => IInv'
<1> SUFFICES ASSUME IInv, Stop PROVE IInv'
  OBVIOUS
<1> USE DEF IInv
<1>1. /\ session' = "Idle" /\ check' \in {check, check + 1}
      /\ session # "Searching" => check' = check
      /\ UNCHANGED <<target, state, token, probeInFlight, probe, about, oneShots, told>>
  BY DEF Stop, monitorVars
<1>2. check \in Nat /\ MaxChecks \in Nat /\ check' \in 0..(MaxChecks + 1) /\ check <= check'
  BY <1>1, BoundsAssumption DEF TypeOK, SearchWaits
<1>3. TypeOK'
  BY <1>1, <1>2 DEF TypeOK
<1>4. OneProbeOfTarget' /\ TokensPast' /\ KnownOfTarget'
  BY <1>1 DEF OneProbeOfTarget, OwnProbes, TokensPast, KnownOfTarget
<1>5. SearchWaits' /\ DeclaredOnlyIfReachable'
  BY <1>1 DEF SearchWaits, DeclaredOnlyIfReachable
<1>6. ToldInOrder'
  BY <1>1, <1>2 DEF ToldInOrder, Checks
<1> QED
  BY <1>3, <1>4, <1>5, <1>6

-----------------------------------------------------------------------------
(* What the answer of the thread that is waited for does, and that of any  *)
(* other.                                                                  *)
LEMMA DeliveredSplits ==
  ASSUME IInv, NEW p \in Probes, NEW answer \in Answers, Delivered(p, answer)
  PROVE  /\ UNCHANGED <<target, token, check>>
         /\ probe' = [probe EXCEPT ![p] = NoProbe]
         /\ \/ /\ probe[p].token = token /\ OwnProbes = {p} /\ target \in Targets
               /\ probeInFlight' = FALSE /\ state' = answer /\ about' = target
               /\ told' = [a \in Checks |-> IF a \in oneShots THEN <<target, answer>> ELSE told[a]]
               /\ oneShots' = {}
               /\ session' = IF session = "Searching" THEN Decision(answer) ELSE session
            \/ /\ probe[p].token # token
               /\ UNCHANGED <<probeInFlight, state, about, told, oneShots, session>>
<1> USE DEF IInv
<1>1. UNCHANGED <<target, token, check>> /\ probe' = [probe EXCEPT ![p] = NoProbe]
  BY DEF Delivered
<1>2. CASE probe[p].token # token
  BY <1>1, <1>2 DEF Delivered, Own
<1>3. CASE probe[p].token = token
  <2>1. p \in OwnProbes
    BY <1>3 DEF OwnProbes
  <2>2. OwnProbes = {p} /\ probe[p].on = target /\ target \in Targets
    BY <2>1 DEF OneProbeOfTarget, KnownOfTarget, TypeOK
  <2>3. session = "Searching" => check \in oneShots
    BY DEF SearchWaits
  <2> QED
    BY <1>1, <1>3, <2>2, <2>3 DEF Delivered, Own
<1> QED
  BY <1>1, <1>2, <1>3

LEMMA DeliveredIInv ==
  IInv /\ (\E p \in Probes, answer \in Answers : Delivered(p, answer)) => IInv'
<1> SUFFICES ASSUME IInv, NEW p \in Probes, NEW answer \in Answers, Delivered(p, answer)
             PROVE  IInv'
  OBVIOUS
<1> USE DEF IInv
<1>1. /\ target' = target /\ token' = token /\ check' = check
      /\ probe' = [probe EXCEPT ![p] = NoProbe]
  BY DeliveredSplits
<1>2. /\ probe \in [Probes -> Probe] /\ probe' \in [Probes -> Probe]
      /\ probe'[p] = NoProbe
      /\ \A q \in Probes : q # p => probe'[q] = probe[q]
  BY <1>1, NoProbeHasNoToken DEF TypeOK
<1>3. token \in 1..MaxStarts /\ NoProbe.token # token /\ NoProbe.token <= token
  BY NoProbeHasNoToken, BoundsAssumption DEF TypeOK
<1>4. TokensPast'
  BY <1>1, <1>2, <1>3 DEF TokensPast
<1>5. CASE /\ probe[p].token = token /\ OwnProbes = {p} /\ target \in Targets
           /\ probeInFlight' = FALSE /\ state' = answer /\ about' = target
           /\ told' = [a \in Checks |-> IF a \in oneShots THEN <<target, answer>> ELSE told[a]]
           /\ oneShots' = {}
           /\ session' = IF session = "Searching" THEN Decision(answer) ELSE session
  <2>1. TypeOK'
    <3>1. told' \in [Checks -> (Targets \X Answers) \cup {NoAnswer}]
      BY <1>5 DEF TypeOK
    <3> QED
      BY <1>1, <1>2, <1>5, <3>1 DEF TypeOK, Decision
  <2>2. OwnProbes' = {}
    BY <1>1, <1>2, <1>3, <1>5 DEF OwnProbes
  <2>3. OneProbeOfTarget' /\ KnownOfTarget'
    BY <1>1, <1>5, <2>2, TargetsAssumption DEF OneProbeOfTarget, KnownOfTarget, Answers
  <2>4. SearchWaits'
    BY <1>1, <1>5, BoundsAssumption DEF SearchWaits, TypeOK, Decision
  <2>5. DeclaredOnlyIfReachable'
    <3>1. SUFFICES ASSUME session' \in {"Declared", "Paused"}, target' # NoTarget
                   PROVE  told'[check] = <<target, "Reachable">>
      BY <1>1 DEF DeclaredOnlyIfReachable
    <3>2. CASE session = "Searching"
      <4>1. check \in oneShots /\ check \in Checks /\ answer = "Reachable"
        BY <1>5, <3>1, <3>2, BoundsAssumption DEF SearchWaits, TypeOK, Checks, Decision
      <4>2. told'[check] = IF check \in oneShots THEN <<target, answer>> ELSE told[check]
        BY <1>5, <4>1, Zenon
      <4> QED
        BY <4>1, <4>2, Zenon
    <3>3. CASE session # "Searching"
      <4>1. told[check] = <<target, "Reachable">>
        BY <1>1, <1>5, <3>1, <3>3 DEF DeclaredOnlyIfReachable
      <4>2. check \in Checks
        BY <1>1, <1>5, <3>1, <3>3, BoundsAssumption DEF SearchWaits, TypeOK, Checks
      <4>3. told'[check] = IF check \in oneShots THEN <<target, answer>> ELSE told[check]
        BY <1>5, <4>2, Zenon
      <4>4. check \notin oneShots
        <5>1. told[check] # NoAnswer
          BY <1>5, <4>1, AnswersAssumption
        <5> QED
          BY <4>2, <5>1 DEF ToldInOrder
      <4> QED
        BY <4>1, <4>3, <4>4, Zenon
    <3> QED
      BY <3>2, <3>3
  <2>6. ToldInOrder'
    <3>1. \A a \in Checks : check < a => a \notin oneShots
      BY BoundsAssumption DEF TypeOK, Checks
    <3> QED
      BY <1>1, <1>5, <3>1 DEF ToldInOrder
  <2> QED
    BY <1>4, <2>1, <2>3, <2>4, <2>5, <2>6
<1>6. CASE /\ probe[p].token # token
           /\ UNCHANGED <<probeInFlight, state, about, told, oneShots, session>>
  <2>1. TypeOK'
    BY <1>1, <1>2, <1>6 DEF TypeOK
  <2>2. OwnProbes' = OwnProbes /\ \A q \in OwnProbes : probe'[q] = probe[q]
    BY <1>1, <1>2, <1>3, <1>6 DEF OwnProbes
  <2>3. OneProbeOfTarget'
    BY <1>1, <1>6, <2>2 DEF OneProbeOfTarget
  <2>4. KnownOfTarget' /\ SearchWaits' /\ DeclaredOnlyIfReachable' /\ ToldInOrder'
    BY <1>1, <1>6 DEF KnownOfTarget, SearchWaits, DeclaredOnlyIfReachable, ToldInOrder
  <2> QED
    BY <1>4, <2>1, <2>3, <2>4
<1> QED
  BY <1>5, <1>6, DeliveredSplits

LEMMA NextIInv == IInv /\ [Next]_vars => IInv'
<1>1. IInv /\ UNCHANGED vars => IInv'
  BY DEF IInv, vars, monitorVars, gateVars, TypeOK, OneProbeOfTarget, OwnProbes, TokensPast,
         KnownOfTarget, SearchWaits, DeclaredOnlyIfReachable, ToldInOrder
<1> QED
  BY <1>1, ConfigureIInv, TimerIInv, PlayIInv, PauseIInv, StopIInv, DeliveredIInv DEF Next

LEMMA Invariance == Spec => []IInv
<1>1. Init => IInv
  BY InitIInv
<1>2. IInv /\ [Next]_vars => IInv'
  BY NextIInv
<1> QED
  BY <1>1, <1>2, PTL DEF Spec

(* Every variable of the monitor and of the gate keeps its type.           *)
THEOREM MonitorTypeCorrect == Spec => []TypeOK
<1>1. IInv => TypeOK
  BY DEF IInv
<1> QED
  BY <1>1, Invariance, PTL

(* tick() and start() keep exactly one ping of the current target in       *)
(* flight while probeInFlight_ is set, whatever pings of other targets or  *)
(* earlier starts are still out.                                           *)
THEOREM OneProbeAtATime == Spec => []OneProbeOfTarget
<1>1. IInv => OneProbeOfTarget
  BY DEF IInv
<1> QED
  BY <1>1, Invariance, PTL

(* onReachabilityCheckResult() lets a session go on only on a Reachable    *)
(* answer about its own target.                                            *)
THEOREM GateIsJust == Spec => []DeclaredOnlyIfReachable
<1>1. IInv => DeclaredOnlyIfReachable
  BY DEF IInv
<1> QED
  BY <1>1, Invariance, PTL

(* The part of SearchEnds that needs no fairness: whoever searches waits   *)
(* for a ping that is out and that will decide, whatever restarts, earlier *)
(* checks and their late pings there were.                                 *)
THEOREM SearchesAwaitPing == Spec => []SearchAwaitsPing
<1> DEFINE Undecided == session = "Searching" => state = "Unknown"
<1>1. Init => Undecided
  BY DEF Init
<1>2. IInv /\ Undecided /\ [Next]_vars => Undecided'
  <2> SUFFICES ASSUME IInv, Undecided, [Next]_vars, session' = "Searching"
               PROVE  state' = "Unknown"
    OBVIOUS
  <2>1. ASSUME NEW t \in Targets, Configure(t) PROVE state' = "Unknown"
    BY <2>1 DEF Configure, Start
  <2>2. CASE Play
    BY <2>2 DEF Play, BeginCheck, Decision
  <2>3. CASE Timer \/ Pause \/ Stop \/ UNCHANGED vars
    BY <2>3 DEF Timer, Pause, Stop, vars, gateVars, monitorVars
  <2>4. ASSUME NEW p \in Probes, NEW answer \in Answers, Delivered(p, answer)
        PROVE  state' = "Unknown"
    BY <2>4 DEF Delivered, Decision, IInv, SearchWaits
  <2> QED
    BY <2>1, <2>2, <2>3, <2>4 DEF Next
<1>3. IInv /\ Undecided => SearchAwaitsPing
  <2> SUFFICES ASSUME IInv, Undecided, session = "Searching"
               PROVE  /\ check \in oneShots /\ state = "Unknown"
                      /\ \E p \in OwnProbes : probe[p] # NoProbe /\ probe[p].on = target
    BY DEF SearchAwaitsPing
  <2>1. check \in oneShots /\ target # NoTarget
    BY DEF IInv, SearchWaits
  <2>2. PICK p \in OwnProbes : probe[p].on = target
    BY <2>1 DEF IInv, OneProbeOfTarget
  <2>3. probe[p] # NoProbe
    BY <2>2, NoProbeHasNoToken DEF OwnProbes, IInv, TypeOK
  <2> QED
    BY <2>1, <2>2, <2>3
<1> HIDE DEF Undecided
<1> QED
  BY <1>1, <1>2, <1>3, Invariance, PTL DEF Spec

-----------------------------------------------------------------------------
(* TargetConnectivityMonitor, with its threads, tokens and flags, gives    *)
(* the one shared answer that its header promises.                         *)
THEOREM MonitorSharesOneAnswer == Spec => SharesOneAnswer
<1>1. Init => Shared!Init
  BY DEF Init, Shared!Init
<1>2. IInv /\ [Next]_vars => [Shared!Next]_Shared!vars
  <2> SUFFICES ASSUME IInv, [Next]_vars PROVE [Shared!Next]_Shared!vars
    OBVIOUS
  <2> USE DEF IInv
  <2>1. ASSUME NEW t \in Targets, Configure(t) PROVE Shared!Watch(t)
    BY <2>1 DEF Configure, Start, gateVars, Shared!Watch
  <2>2. CASE Timer
    BY <2>2 DEF Timer, Shared!vars
  <2>3. CASE Play
    <3>1. CASE target = NoTarget
      BY <2>3, <3>1 DEF Play, monitorVars, Shared!vars
    <3>2. CASE target # NoTarget
      <4>1. check + 1 \in Checks /\ told[check + 1] = NoAnswer /\ check + 1 \notin oneShots
        BY <2>3, BoundsAssumption DEF Play, TypeOK, ToldInOrder, Checks
      <4>2. state # "Unknown" => about = target
        BY DEF KnownOfTarget
      <4>3. Shared!Ask(check + 1)
        BY <2>3, <3>2, <4>1, <4>2, BeginCheckSplits DEF Shared!Ask
      <4> QED
        BY <4>1, <4>3 DEF Shared!Next
    <3> QED
      BY <3>1, <3>2
  <2>4. CASE Pause
    BY <2>4 DEF Pause, monitorVars, Shared!vars
  <2>5. CASE Stop
    BY <2>5 DEF Stop, monitorVars, Shared!vars
  <2>6. ASSUME NEW p \in Probes, NEW answer \in Answers, Delivered(p, answer)
        PROVE  Shared!Answer(answer) \/ UNCHANGED Shared!vars
    BY <2>6, DeliveredSplits, TargetsAssumption DEF Shared!Answer, Shared!vars
  <2>7. CASE UNCHANGED vars
    BY <2>7 DEF vars, monitorVars, Shared!vars
  <2> QED
    BY <2>1, <2>2, <2>3, <2>4, <2>5, <2>6, <2>7
       DEF Next, Shared!Next, Answers, Shared!Answers
<1> QED
  BY <1>1, <1>2, Invariance, PTL DEF Spec, SharesOneAnswer, Shared!Spec

-----------------------------------------------------------------------------
(* The statistics.                                                         *)

LEMMA Limits ==
  /\ Stall \in Nat /\ Stale \in Nat /\ Stall < Stale
  /\ MaxCount \in Nat /\ MaxLines \in Nat
  /\ 0 \notin Pids /\ Budgets \subseteq Budget
BY LimitsAssumption, BudgetsAssumption, PidsAssumption, LinesAssumption

LEMMA SpendTyped ==
  ASSUME StatsTypeOK, NEW what \in {"streams", "apps", "others", "faults"}, Spend(what)
  PROVE  /\ budget' \in Budget /\ budget'.apps <= budget.apps
         /\ what = "apps" => budget.apps \in Nat \ {0} /\ budget'.apps < budget.apps
  BY DEF StatsTypeOK, Spend, Budget

LEMMA LineTyped ==
  ASSUME StatsTypeOK
  PROVE  /\ \A p \in Pids : [kind |-> "PID", pid |-> p] \in Line
         /\ [kind |-> "publish"] \in Line
         /\ \A c \in Clients : [kind |-> "detached", client |-> c] \in Line
         /\ \A c \in Clients : client[c] # None =>
              [kind |-> "client", client |-> c, app |-> client[c].app,
               count |-> client[c].count, idle |-> client[c].idle] \in Line
<1>1. \A c \in Clients : client[c] # None =>
        client[c].app \in Nat \ {0} /\ client[c].count \in 0..MaxCount
          /\ client[c].idle \in 0..(Stall + 1)
  BY DEF StatsTypeOK, App
<1> QED
  BY <1>1 DEF Line

LEMMA WriteTyped ==
  ASSUME StatsTypeOK, NEW l \in Line, Write(l)
  PROVE  /\ lines' \in Seq(Line) /\ lost' \subseteq Pids
         /\ procs' \in [Pids -> {"free", "tail", "left", "other"}]
<1>1. lines' \in Seq(Line)
  BY DEF StatsTypeOK, Write
<1>2. procs' \in [Pids -> {"free", "tail", "left", "other"}]
  BY DEF StatsTypeOK, Write
<1>3. lost' \subseteq Pids
  BY DEF StatsTypeOK, Write, Orphans
<1> QED
  BY <1>1, <1>2, <1>3

LEMMA HeadTyped ==
  ASSUME StatsTypeOK, lines # <<>>
  PROVE  /\ Head(lines) \in Line /\ Tail(lines) \in Seq(Line)
         /\ Len(lines) \in Nat \ {0} /\ Head(lines) = lines[1]
         /\ Len(Tail(lines)) = Len(lines) - 1
         /\ \A i \in 1..Len(Tail(lines)) : Tail(lines)[i] = lines[i + 1]
  BY DEF StatsTypeOK

\* The two kinds of line that carry something.
LEMMA KindTyped ==
  ASSUME NEW l \in Line
  PROVE  /\ l.kind = "PID" => l.pid \in Pids
         /\ l.kind = "client" =>
              /\ l.client \in Clients /\ l.app \in Nat \ {0}
              /\ l.count \in 0..MaxCount /\ l.idle \in 0..(Stall + 1)
         /\ l.kind = "detached" => l.client \in Clients
         /\ l.kind \in {"PID", "publish", "client", "detached"}
  BY DEF Line

LEMMA SampleTyped ==
  ASSUME StatsTypeOK, NEW l \in Line, l.kind = "client"
  PROVE  /\ Sample(l) \in Entry
         /\ Sample(l).app = l.app /\ Sample(l).count = l.count
         /\ Sample(l).idle = l.idle /\ Sample(l).age = 0
         /\ Sample(l).mixed => apps[l.client] # None /\ apps[l.client].app # l.app
<1> DEFINE old == apps[l.client]
<1>1. /\ l.client \in Clients /\ l.app \in Nat \ {0}
      /\ l.count \in 0..MaxCount /\ l.idle \in 0..(Stall + 1)
  BY KindTyped
<1>2. old # None => old.count \in 0..MaxCount
  BY <1>1 DEF StatsTypeOK, Entry
<1>3. Rated(old, l) => l.count - old.count \in 0..MaxCount
  BY <1>1, <1>2, Limits DEF Rated
<1>4. Rated(old, l) \in BOOLEAN
  BY DEF Rated
<1>5. 0 \in 0..Never /\ 0 \in 0..MaxCount
  BY Limits DEF Never
<1>6. Sample(l) \in Entry
  BY <1>1, <1>3, <1>4, <1>5 DEF Sample, Entry
<1>7. Sample(l).mixed => old # None /\ old.app # l.app
  BY DEF Sample, Rated
<1> QED
  BY <1>6, <1>7 DEF Sample

LEMMA StatsTypeInit == StatsInit => StatsTypeOK
<1> SUFFICES ASSUME StatsInit PROVE StatsTypeOK
  OBVIOUS
<1>1. budget \in Budget /\ Never \in 0..Never
  BY Limits DEF StatsInit, Never
<1>2. /\ apps \in [Clients -> Entry \cup {None}]
      /\ client \in [Clients -> App \cup {None}]
      /\ procs \in [Pids -> {"free", "tail", "left", "other"}]
  BY DEF StatsInit
<1>3. lines \in Seq(Line) /\ receiver \in 0..Never
  BY <1>1 DEF StatsInit
<1>4. /\ ssh = "none" /\ pid = 0 /\ killers = {} /\ up = TRUE /\ tail = 0
      /\ lost = {} /\ renumbered = FALSE
  BY DEF StatsInit
<1> QED
  BY <1>1, <1>2, <1>3, <1>4 DEF StatsTypeOK

\* What Start, Connect and the others leave alone keeps its type.
LEMMA StatsTypeStep == StatsTypeOK /\ [StatsNext]_statsVars => StatsTypeOK'
<1> SUFFICES ASSUME StatsTypeOK, [StatsNext]_statsVars PROVE StatsTypeOK'
  OBVIOUS
<1> USE DEF streamVars, parserVars, procVars, appVars
<1>1. ASSUME StartStream PROVE StatsTypeOK'
  BY <1>1, SpendTyped DEF StatsTypeOK, StartStream
<1>2. ASSUME Connect PROVE StatsTypeOK'
  <2>1. PICK p \in Pids :
          /\ procs' = [procs EXCEPT ![p] = "tail"] /\ tail' = p
          /\ lines' = <<[kind |-> "PID", pid |-> p]>>
    BY <1>2 DEF Connect
  <2>2. lines' \in Seq(Line)
    BY <2>1, LineTyped
  <2> QED
    BY <1>2, <2>1, <2>2 DEF StatsTypeOK, Connect
<1>3. ASSUME Finish PROVE StatsTypeOK'
  BY <1>3 DEF StatsTypeOK, Finish
<1>4. ASSUME StopStream PROVE StatsTypeOK'
  <2>1. procs' \in [Pids -> {"free", "tail", "left", "other"}]
    BY <1>4 DEF StatsTypeOK, StopStream, StopStreamWith
  <2>2. Never \in 0..Never /\ Killing \subseteq Pids
    BY Limits DEF Never, Killing, StatsTypeOK
  <2> QED
    BY <1>4, <2>1, <2>2 DEF StatsTypeOK, StopStream, StopStreamWith
<1>5. ASSUME Read PROVE StatsTypeOK'
  <2>1. lines # <<>> /\ HandleLine(Head(lines)) /\ lines' = Tail(lines)
    BY <1>5 DEF Read
  <2>2. Head(lines) \in Line /\ Tail(lines) \in Seq(Line)
    BY <2>1, HeadTyped
  <2>3. 0 \in 0..Never
    BY Limits DEF Never
  <2>4. /\ pid' \in Pids \cup {0} /\ receiver' \in 0..Never
        /\ apps' \in [Clients -> Entry \cup {None}]
    <3>1. CASE pid = 0 /\ Head(lines).kind = "PID"
      BY <2>1, <2>2, <3>1, KindTyped DEF HandleLine, StatsTypeOK
    <3>2. CASE ~(pid = 0 /\ Head(lines).kind = "PID")
      BY <2>1, <2>2, <2>3, <3>2, KindTyped, SampleTyped
         DEF HandleLine, Feed, StatsTypeOK
    <3> QED
      BY <3>1, <3>2
  <2> QED
    BY <1>5, <2>1, <2>2, <2>4 DEF StatsTypeOK, Read
<1>6. ASSUME Publish PROVE StatsTypeOK'
  BY <1>6, LineTyped, WriteTyped DEF StatsTypeOK, Publish, Write
<1>7. ASSUME Renumber PROVE StatsTypeOK'
  BY <1>7, SpendTyped DEF StatsTypeOK, Renumber
<1>8. ASSUME Away PROVE StatsTypeOK'
  BY <1>8, SpendTyped DEF StatsTypeOK, Away
<1>9. ASSUME Back PROVE StatsTypeOK'
  BY <1>9 DEF StatsTypeOK, Back
<1>10. ASSUME Reboot PROVE StatsTypeOK'
  BY <1>10, SpendTyped DEF StatsTypeOK, Reboot
<1>11. ASSUME StatsTick PROVE StatsTypeOK'
  <2>1. receiver' \in 0..Never
    BY <1>11, Limits DEF StatsTypeOK, StatsTick, Aged, Never
  <2>2. apps' \in [Clients -> Entry \cup {None}]
    <3>1. ASSUME NEW c \in Clients, apps[c] # None
          PROVE  [apps[c] EXCEPT !.age = Aged(@, Stale)] \in Entry
      <4>1. apps[c] \in Entry
        BY <3>1 DEF StatsTypeOK
      <4>2. Aged(apps[c].age, Stale) \in 0..Never
        BY <4>1, Limits DEF Aged, Never, Entry
      <4> QED
        BY <4>1, <4>2 DEF Entry
    <3> QED
      BY <1>11, <3>1 DEF StatsTick
  <2>3. client' \in [Clients -> App \cup {None}]
    <3>1. ASSUME NEW c \in Clients, client[c] # None
          PROVE  [client[c] EXCEPT !.idle = Aged(@, Stall)] \in App
      BY <3>1, Limits DEF StatsTypeOK, Aged, App
    <3> QED
      BY <1>11, <3>1 DEF StatsTick
  <2> QED
    BY <1>11, <2>1, <2>2, <2>3 DEF StatsTypeOK, StatsTick
<1>12. ASSUME NEW p \in Pids, Kill(p) PROVE StatsTypeOK'
  BY <1>12 DEF StatsTypeOK, Kill
<1>13. ASSUME NEW p \in Pids, GiveUp(p) PROVE StatsTypeOK'
  BY <1>13 DEF StatsTypeOK, GiveUp
<1>14. ASSUME NEW p \in Pids, Mention(p) PROVE StatsTypeOK'
  BY <1>14, SpendTyped, LineTyped, WriteTyped DEF StatsTypeOK, Mention, Write
<1>15. ASSUME NEW p \in Pids, Spawn(p) PROVE StatsTypeOK'
  BY <1>15, SpendTyped DEF StatsTypeOK, Spawn
<1>16. ASSUME NEW c \in Clients, Report(c) PROVE StatsTypeOK'
  BY <1>16, LineTyped, WriteTyped DEF StatsTypeOK, Report, Write
<1>17. ASSUME NEW c \in Clients, Attach(c) PROVE StatsTypeOK'
  <2>1. budget' \in Budget /\ budget.apps \in Nat \ {0}
    BY <1>17, SpendTyped DEF Attach
  <2>2. [app |-> budget.apps, count |-> 0, idle |-> 0] \in App
    BY <2>1, Limits DEF App
  <2> QED
    BY <1>17, <2>1, <2>2 DEF StatsTypeOK, Attach
<1>18. ASSUME NEW c \in Clients, Call(c) PROVE StatsTypeOK'
  <2>1. [client[c] EXCEPT !.count = @ + 1, !.idle = 0] \in App
    <3>1. client[c] \in App /\ client[c].count < MaxCount
      BY <1>18 DEF StatsTypeOK, Call
    <3>2. client[c].count + 1 \in 0..MaxCount /\ 0 \in 0..(Stall + 1)
      BY <3>1, Limits DEF App
    <3> QED
      BY <3>1, <3>2 DEF App
  <2>2. client' = [client EXCEPT ![c] = [client[c] EXCEPT !.count = @ + 1, !.idle = 0]]
    BY <1>18 DEF StatsTypeOK, Call
  <2> QED
    BY <1>18, <2>1, <2>2 DEF StatsTypeOK, Call
<1>19. ASSUME NEW c \in Clients, Detach(c) PROVE StatsTypeOK'
  BY <1>19, LineTyped, WriteTyped DEF StatsTypeOK, Detach, Write
<1>20. CASE UNCHANGED statsVars
  BY <1>20 DEF StatsTypeOK, statsVars
<1> QED
  BY <1>1, <1>2, <1>3, <1>4, <1>5, <1>6, <1>7, <1>8, <1>9, <1>10, <1>11, <1>12, <1>13,
     <1>14, <1>15, <1>16, <1>17, <1>18, <1>19, <1>20 DEF StatsNext

-----------------------------------------------------------------------------
(* Whom a kill is for.                                                     *)

LEMMA KillsInit == StatsInit => KillsInv
  BY DEF StatsInit, KillsInv, Announced, HeldTail, KillsOldTails

\* A line that is written ends the tails that nobody reads; those that are
\* remembered are then lost.
LEMMA WriteKills ==
  ASSUME StatsTypeOK, KillsInv, NEW l \in Line, Write(l)
  PROVE  KillsInv'
<1> USE DEF KillsInv
<1>1. UNCHANGED <<ssh, pid, killers, tail>>
  BY DEF Write, streamVars
<1>2. ASSUME NEW p \in killers \cup {pid}, p \in Pids, procs[p] = "tail", p # tail
      PROVE  p \in lost'
  BY <1>2 DEF Write, Orphans
<1>3. \A p \in Pids : p = tail => procs'[p] = procs[p]
  BY DEF Write, Orphans
<1>4. lost \subseteq lost'
  BY DEF Write
<1>5. KillsOldTails'
  BY <1>1, <1>2, <1>4 DEF KillsOldTails, StatsTypeOK
<1>6. HeldTail'
  BY <1>1, <1>2, <1>3, <1>4 DEF HeldTail, StatsTypeOK
<1>7. Announced'
  <2>1. lines' = lines \/ (tail # 0 /\ lines' = Append(lines, l))
    BY DEF Write
  <2>2. lines # <<>> => lines' # <<>> /\ Head(lines') = Head(lines)
    BY <2>1 DEF StatsTypeOK
  <2> QED
    BY <1>1, <1>3, <1>4, <2>1, <2>2 DEF Announced, StatsTypeOK
<1> QED
  BY <1>5, <1>6, <1>7

\* The announcement is taken before anything else, and nothing after it.
LEMMA ReadKills ==
  ASSUME StatsTypeOK, KillsInv, Read
  PROVE  KillsInv'
<1> USE DEF KillsInv
<1>1. /\ ssh = "open" /\ lines # <<>> /\ HandleLine(Head(lines))
      /\ UNCHANGED <<ssh, killers, procs, tail, lost>>
  BY DEF Read, procVars
<1>2. KillsOldTails'
  BY <1>1 DEF KillsOldTails
<1>3. CASE pid = 0
  <2>1. Head(lines).kind = "PID" /\ Head(lines).pid \in {tail} \cup lost
    BY <1>1, <1>3 DEF Announced
  <2>2. pid' = Head(lines).pid /\ pid' \in Pids
    BY <1>1, <1>3, <2>1, HeadTyped, KindTyped DEF HandleLine
  <2>3. pid' # 0
    BY <2>2, Limits
  <2>4. Announced'
    BY <1>1, <2>3 DEF Announced
  <2>5. HeldTail'
    BY <1>1, <2>1, <2>2, <2>3 DEF HeldTail, Announced, KillsOldTails
  <2> QED
    BY <1>2, <2>4, <2>5
<1>4. CASE pid # 0
  <2>1. pid' = pid
    BY <1>1, <1>4 DEF HandleLine
  <2> QED
    BY <1>1, <1>2, <1>4, <2>1 DEF Announced, HeldTail
<1> QED
  BY <1>3, <1>4

LEMMA KillsStep ==
  StatsTypeOK /\ KillsInv /\ [StatsNext]_statsVars => KillsInv'
<1> SUFFICES ASSUME StatsTypeOK, KillsInv, [StatsNext]_statsVars
             PROVE  KillsInv'
  OBVIOUS
<1> USE DEF streamVars, parserVars, procVars, appVars
<1> USE DEF KillsInv
<1>1. ASSUME StartStream PROVE KillsInv'
  BY <1>1 DEF StartStream, Announced, HeldTail, KillsOldTails
<1>2. ASSUME Connect PROVE KillsInv'
  <2>1. PICK p \in Pids :
          /\ procs[p] = "free" /\ procs' = [procs EXCEPT ![p] = "tail"] /\ tail' = p
          /\ lines' = <<[kind |-> "PID", pid |-> p]>>
    BY <1>2 DEF Connect
  <2>2. ssh = "connecting" /\ ssh' = "open" /\ UNCHANGED <<pid, killers, lost>>
    BY <1>2 DEF Connect
  <2>3. /\ procs'[p] = "tail"
        /\ \A q \in Pids : q # p => procs'[q] = procs[q]
    BY <2>1 DEF StatsTypeOK
  <2>4. lines' # <<>> /\ Head(lines').kind = "PID" /\ Head(lines').pid = p
    BY <2>1
  <2>5. Announced'
    BY <2>1, <2>2, <2>3, <2>4 DEF Announced
  <2>6. HeldTail'
    BY <2>1, <2>2, <2>3 DEF HeldTail, StatsTypeOK
  <2>7. KillsOldTails'
    BY <2>1, <2>2, <2>3 DEF KillsOldTails, StatsTypeOK
  <2> QED
    BY <2>5, <2>6, <2>7
<1>3. ASSUME Finish PROVE KillsInv'
  BY <1>3, Limits
     DEF Finish, Announced, HeldTail, KillsOldTails, StatsTypeOK
<1>4. ASSUME StopStream PROVE KillsInv'
  <2>1. /\ ssh' = "none" /\ pid' = 0 /\ killers' = killers \cup ({pid} \ {0})
        /\ lines' = <<>> /\ tail' = 0 /\ lost' = lost
    BY <1>4 DEF StopStream, StopStreamWith, Killing
  <2>2. \A p \in killers \cup {pid} :
          p \in Pids /\ procs[p] = "tail" => procs'[p] = "tail"
    BY <1>4 DEF StopStream, StopStreamWith, Unread, StatsTypeOK
  <2>3. KillsOldTails'
    BY <2>1, <2>2, Limits DEF KillsOldTails, HeldTail, StatsTypeOK
  <2> QED
    BY <2>1, <2>3 DEF Announced, HeldTail
<1>5. ASSUME Read PROVE KillsInv'
  BY <1>5, ReadKills
<1>6. ASSUME NEW l \in Line, Write(l) PROVE KillsInv'
  BY <1>6, WriteKills
<1>7. ASSUME Reboot PROVE KillsInv'
  <2>1. \A p \in killers \cup {pid} : p # 0 => p \in lost'
    BY <1>7 DEF Reboot
  <2>2. 0 \notin killers
    BY Limits DEF StatsTypeOK
  <2> QED
    BY <1>7, <2>1, <2>2
       DEF Reboot, Announced, HeldTail, KillsOldTails
<1>8. ASSUME NEW p \in Pids, Kill(p) PROVE KillsInv'
  <2>1. /\ p \in killers /\ killers' = killers \ {p} /\ UNCHANGED <<ssh, pid, lines, lost>>
        /\ tail' = IF tail = p THEN 0 ELSE tail
        /\ \A q \in Pids : q # p => procs'[q] = procs[q]
    BY <1>8 DEF Kill, StatsTypeOK
  <2>2. p = tail \/ p = pid => p \in lost
    BY <2>1, Limits DEF KillsOldTails, HeldTail
  <2>3. Announced'
    BY <2>1, <2>2, Limits DEF Announced, StatsTypeOK
  <2>4. HeldTail' /\ KillsOldTails'
    BY <2>1, <2>2, Limits DEF HeldTail, KillsOldTails, StatsTypeOK
  <2> QED
    BY <2>3, <2>4
<1>9. ASSUME NEW p \in Pids, GiveUp(p) PROVE KillsInv'
  <2>1. /\ p \in killers /\ killers' = killers \ {p} /\ UNCHANGED <<ssh, pid, lines, lost, tail>>
        /\ \A q \in Pids : q # p \/ q = tail \/ q = pid => procs'[q] = procs[q]
    BY <1>9 DEF GiveUp, StatsTypeOK
  <2>2. Announced'
    BY <2>1 DEF Announced, StatsTypeOK
  <2>3. HeldTail' /\ KillsOldTails'
    BY <2>1 DEF HeldTail, KillsOldTails, StatsTypeOK
  <2> QED
    BY <2>2, <2>3
<1>10. ASSUME NEW p \in Pids, Spawn(p) PROVE KillsInv'
  <2>1. /\ UNCHANGED <<ssh, pid, killers, lines, tail, lost>>
        /\ \A q \in Pids : procs[q] = "tail" => procs'[q] = "tail"
    BY <1>10 DEF Spawn, StatsTypeOK
  <2> QED
    BY <2>1 DEF Announced, HeldTail, KillsOldTails, StatsTypeOK
<1>11. ASSUME UNCHANGED <<ssh, pid, killers, lines, procs, tail, lost>> PROVE KillsInv'
  BY <1>11 DEF Announced, HeldTail, KillsOldTails
<1>12. ASSUME Publish \/ (\E p \in Pids : Mention(p))
              \/ (\E c \in Clients : Report(c) \/ Detach(c))
       PROVE  \E l \in Line : Write(l)
  BY <1>12, LineTyped DEF Publish, Mention, Report, Detach
<1>13. ASSUME Renumber \/ Away \/ Back \/ StatsTick
              \/ (\E c \in Clients : Attach(c) \/ Call(c)) \/ UNCHANGED statsVars
       PROVE  UNCHANGED <<ssh, pid, killers, lines, procs, tail, lost>>
  BY <1>13 DEF Renumber, Away, Back, StatsTick, Attach, Call,
               statsVars
<1> QED
  BY <1>1, <1>2, <1>3, <1>4, <1>5, <1>6, <1>7, <1>8, <1>9, <1>10, <1>11, <1>12, <1>13
     DEF StatsNext

-----------------------------------------------------------------------------
(* How far a row lags behind the applications.                             *)

LEMMA LagInit == StatsInit => LagInv
  BY DEF StatsInit, LagInv

\* The numbers of applications are used up, one at a time.
LEMMA BudgetFalls ==
  ASSUME StatsTypeOK, [StatsNext]_statsVars
  PROVE  budget.apps \in Nat /\ budget'.apps \in Nat /\ budget'.apps <= budget.apps
<1> USE DEF appVars
<1>1. budget.apps \in Nat
  BY DEF StatsTypeOK, Budget
<1>2. ASSUME NEW what \in {"streams", "apps", "others", "faults"}, Spend(what)
      PROVE  budget'.apps \in Nat /\ budget'.apps <= budget.apps
  BY <1>2, SpendTyped DEF Budget
<1>3. \/ \E what \in {"streams", "apps", "others", "faults"} : Spend(what)
      \/ UNCHANGED budget
  BY DEF StatsNext, statsVars, StartStream, Connect, Finish, StopStream,
         StopStreamWith, Read, Publish, Renumber, Away, Back,
         Reboot, StatsTick, Kill, GiveUp, Mention, Spawn,
         Report, Attach, Call, Detach
<1> QED
  BY <1>1, <1>2, <1>3

\* What any step but a tick does to the application of a number.
Follows(c) ==
  \/ client'[c] \in {client[c], None}
  \/ client'[c].app = client[c].app /\ client'[c].count = client[c].count + 1
  \/ client[c] = None /\ client'[c].app = budget.apps /\ budget'.apps < budget.apps

LEMMA ClientSteps ==
  ASSUME StatsTypeOK, [StatsNext]_statsVars, NEW c \in Clients
  PROVE  StatsTick \/ Follows(c)
<1> USE DEF appVars
<1>1. CASE UNCHANGED client
  BY <1>1 DEF Follows
<1>2. CASE Renumber \/ Reboot
  BY <1>2 DEF Renumber, Reboot, Follows
<1>3. ASSUME NEW d \in Clients, Attach(d) PROVE Follows(c)
  <2>1. budget'.apps < budget.apps
    BY <1>3, SpendTyped DEF Attach
  <2> QED
    BY <1>3, <2>1 DEF Attach, StatsTypeOK, Follows
<1>4. ASSUME NEW d \in Clients, Call(d) PROVE Follows(c)
  <2>1. CASE c = d
    <3>1. client[c] \in App
      BY <1>4, <2>1 DEF Call, StatsTypeOK
    <3>2. client'[c] = [[client[c] EXCEPT !.count = @ + 1] EXCEPT !.idle = 0]
      BY <1>4, <2>1 DEF Call, StatsTypeOK
    <3> QED
      BY <3>1, <3>2 DEF Follows, App
  <2>2. CASE c # d
    BY <1>4, <2>2 DEF Call, StatsTypeOK, Follows
  <2> QED
    BY <2>1, <2>2
<1>5. ASSUME NEW d \in Clients, Detach(d) PROVE Follows(c)
  BY <1>5 DEF Detach, StatsTypeOK, Follows
<1>6. \/ StatsTick \/ UNCHANGED client \/ Renumber \/ Reboot
      \/ \E d \in Clients : Attach(d) \/ Call(d) \/ Detach(d)
  BY DEF StatsNext, statsVars, StartStream, Connect, Finish, StopStream,
         StopStreamWith, Read, Publish, Away, Back,
         Kill, GiveUp, Mention, Spawn, Report
<1> QED
  BY <1>1, <1>2, <1>3, <1>4, <1>5, <1>6

\* What was said stays true of it, or is of another.
LEMMA LagsKept ==
  ASSUME StatsTypeOK, StatsTypeOK', [StatsNext]_statsVars, NEW c \in Clients, Follows(c),
         NEW said, said.app \in Nat, said.count \in Nat, NEW aged, Lags(said, aged, client[c])
  PROVE  Lags(said, aged, client[c])'
<1>1. budget.apps \in Nat /\ budget'.apps \in Nat /\ budget'.apps <= budget.apps
  BY BudgetFalls
<1>2. said.app > budget.apps
  BY DEF Lags
<1>3. said.app > budget'.apps /\ said.app # 0
  BY <1>1, <1>2
<1>4. CASE client'[c] = client[c]
  BY <1>3, <1>4 DEF Lags
<1>5. CASE client'[c] = None
  BY <1>3, <1>5 DEF Lags, None
<1>6. CASE client'[c].app = client[c].app /\ client'[c].count = client[c].count + 1
  <2>1. ASSUME client[c].app = said.app
        PROVE  client[c].count \in Nat
    <3>1. client[c] # None
      BY <1>3, <2>1 DEF None
    <3> QED
      BY <3>1 DEF StatsTypeOK, App
  <2> QED
    BY <1>3, <1>6, <2>1 DEF Lags
<1>7. CASE client'[c].app = budget.apps
  BY <1>1, <1>2, <1>3, <1>7 DEF Lags
<1> QED
  BY <1>4, <1>5, <1>6, <1>7 DEF Follows

\* A line of an application that is on its way was there, or is its own
\* word of this moment.
LEMMA LinesMove ==
  ASSUME StatsTypeOK, [StatsNext]_statsVars, NEW i \in 1..Len(lines'),
         lines'[i].kind = "client"
  PROVE  \/ \E j \in 1..Len(lines) : lines'[i] = lines[j]
         \/ \E c \in Clients :
              /\ client[c] # None /\ UNCHANGED <<client, budget>>
              /\ lines'[i].client = c /\ lines'[i].app = client[c].app
              /\ lines'[i].count = client[c].count /\ lines'[i].idle = client[c].idle
<1> USE DEF appVars
<1>1. CASE UNCHANGED lines
  BY <1>1
<1>2. ASSUME NEW l, lines' = Append(lines, l), l.kind # "client"
      PROVE  \E j \in 1..Len(lines) : lines'[i] = lines[j]
  BY <1>2 DEF StatsTypeOK
<1>3. CASE lines' = <<>>
  BY <1>3
<1>4. CASE Connect
  BY <1>4 DEF Connect
<1>5. CASE Read
  <2>1. lines # <<>> /\ lines' = Tail(lines)
    BY <1>5 DEF Read
  <2>2. i + 1 \in 1..Len(lines) /\ lines'[i] = lines[i + 1]
    BY <2>1, HeadTyped
  <2> QED
    BY <2>2
<1>6. CASE Publish \/ (\E p \in Pids : Mention(p)) \/ (\E c \in Clients : Detach(c))
  BY <1>1, <1>2, <1>6 DEF Publish, Mention, Detach, Write
<1>7. ASSUME NEW c \in Clients, Report(c)
      PROVE  \/ \E j \in 1..Len(lines) : lines'[i] = lines[j]
             \/ /\ client[c] # None /\ UNCHANGED <<client, budget>>
                /\ lines'[i].client = c /\ lines'[i].app = client[c].app
                /\ lines'[i].count = client[c].count /\ lines'[i].idle = client[c].idle
  <2> DEFINE l == [kind |-> "client", client |-> c, app |-> client[c].app,
                   count |-> client[c].count, idle |-> client[c].idle]
  <2>1. /\ client[c] # None /\ UNCHANGED <<client, budget>>
        /\ lines' \in {lines, Append(lines, l)}
    BY <1>7 DEF Report, Write
  <2>2. CASE lines' = Append(lines, l)
    <3>1. (i \in 1..Len(lines) /\ lines'[i] = lines[i]) \/ lines'[i] = l
      BY <2>2 DEF StatsTypeOK
    <3> QED
      BY <2>1, <3>1
  <2> QED
    BY <1>1, <2>1, <2>2
<1>8. \/ UNCHANGED lines \/ lines' = <<>> \/ Connect \/ Read \/ Publish
      \/ (\E p \in Pids : Mention(p))
      \/ (\E c \in Clients : Detach(c) \/ Report(c))
  BY DEF StatsNext, statsVars, StartStream, Finish, StopStream, StopStreamWith,
         Renumber, Away, Back, Reboot, StatsTick, Kill,
         GiveUp, Spawn, Attach, Call
<1> QED
  BY <1>1, <1>3, <1>4, <1>5, <1>6, <1>7, <1>8

\* The parser holds what it held, or the line it has just read.
LEMMA AppsMove ==
  ASSUME StatsTypeOK, [StatsNext]_statsVars, NEW c \in Clients
  PROVE  \/ StatsTick
         \/ apps'[c] \in {apps[c], None}
         \/ /\ lines # <<>> /\ lines[1].kind = "client" /\ lines[1].client = c
            /\ apps'[c].app = lines[1].app /\ apps'[c].count = lines[1].count
            /\ apps'[c].idle = lines[1].idle /\ apps'[c].age = 0
<1> USE DEF parserVars
<1>1. CASE Read
  <2>1. lines # <<>> /\ HandleLine(lines[1]) /\ lines[1] \in Line
    BY <1>1, HeadTyped DEF Read
  <2>2. CASE UNCHANGED apps
    BY <2>2
  <2>3. CASE Feed(lines[1]) /\ lines[1].kind = "client"
    <3>1. apps' = [apps EXCEPT ![lines[1].client] = Sample(lines[1])]
      BY <2>3 DEF Feed
    <3> QED
      BY <2>1, <2>3, <3>1, SampleTyped, KindTyped DEF StatsTypeOK
  <2>4. CASE Feed(lines[1]) /\ lines[1].kind # "client"
    BY <2>1, <2>4, KindTyped DEF Feed, StatsTypeOK
  <2> QED
    BY <2>1, <2>2, <2>3, <2>4 DEF HandleLine
<1>2. CASE StopStream
  BY <1>2 DEF StopStream, StopStreamWith
<1>3. StatsTick \/ UNCHANGED apps \/ Read \/ StopStream
  BY DEF StatsNext, statsVars, StartStream, Connect, Finish, Publish,
         Write, Renumber, Away, Back, Reboot, Kill,
         GiveUp, Mention, Spawn, Report, Attach, Call,
         Detach
<1> QED
  BY <1>1, <1>2, <1>3

\* A set of naturals has a least element.
LEMMA Least ==
  ASSUME NEW S, S \subseteq Nat, S # {}
  PROVE  \E x \in S : \A y \in S : x <= y
<1> DEFINE R == OpToRel(<, Nat)
<1>1. IsWellFoundedOn(R, Nat)
  BY NatLessThanWellFounded
<1>2. \A x, y \in Nat : <<y, x>> \in R <=> y < x
  BY DEF OpToRel
<1> HIDE DEF R
<1>3. PICK x \in S : \A y \in S : ~(<<y, x>> \in R)
  BY <1>1, WFMin
<1>4. \A y \in S : ~(y < x)
  BY <1>2, <1>3
<1> QED
  BY <1>4

LEMMA SaidTyped ==
  ASSUME StatsTypeOK
  PROVE  /\ \A c \in Clients : apps[c] # None =>
              /\ apps[c] \in Entry
              /\ apps[c].app \in Nat \ {0} /\ apps[c].count \in Nat
              /\ apps[c].idle \in Nat /\ apps[c].age \in Nat
         /\ \A i \in 1..Len(lines) : lines[i] \in Line
         /\ \A i \in 1..Len(lines) : lines[i].kind = "client" =>
              /\ lines[i].client \in Clients /\ lines[i].app \in Nat \ {0}
              /\ lines[i].count \in Nat /\ lines[i].idle \in Nat
<1>1. \A i \in 1..Len(lines) : lines[i] \in Line
  BY DEF StatsTypeOK
<1>2. \A i \in 1..Len(lines) : lines[i].kind = "client" =>
              /\ lines[i].client \in Clients /\ lines[i].app \in Nat \ {0}
              /\ lines[i].count \in Nat /\ lines[i].idle \in Nat
  BY <1>1, KindTyped
<1>3. \A c \in Clients : apps[c] # None => apps[c] \in Entry
  BY DEF StatsTypeOK
<1> QED
  BY <1>1, <1>2, <1>3 DEF Entry

LEMMA TickLags ==
  ASSUME StatsTypeOK, LagInv, StatsTick
  PROVE  LagInv'
<1> USE DEF LagInv
<1>1. UNCHANGED <<lines, budget>>
  BY DEF StatsTick
<1>2. ASSUME NEW c \in Clients
      PROVE  IF client[c] = None THEN client'[c] = None
             ELSE /\ client'[c].app = client[c].app /\ client'[c].count = client[c].count
                  /\ client'[c].idle = Aged(client[c].idle, Stall)
                  /\ client[c].idle \in Nat /\ client[c].app # 0
  BY DEF StatsTick, StatsTypeOK, App
<1>3. ASSUME NEW c \in Clients
      PROVE  IF apps[c] = None THEN apps'[c] = None
             ELSE /\ apps'[c].app = apps[c].app /\ apps'[c].count = apps[c].count
                  /\ apps'[c].idle = apps[c].idle /\ apps[c].age \in Nat
                  /\ apps'[c].age \in Nat /\ apps'[c].age <= apps[c].age + 1
  <2>1. CASE apps[c] = None
    BY <2>1 DEF StatsTick, StatsTypeOK
  <2>2. CASE apps[c] # None
    <3>1. apps[c] \in Entry /\ apps[c].age \in Nat
      BY <2>2, SaidTyped
    <3>2. apps'[c] = [apps[c] EXCEPT !.age = Aged(apps[c].age, Stale)]
      BY <2>2 DEF StatsTick
    <3>3. /\ apps'[c].app = apps[c].app /\ apps'[c].count = apps[c].count
          /\ apps'[c].idle = apps[c].idle /\ apps'[c].age = Aged(apps[c].age, Stale)
      BY <3>1, <3>2 DEF Entry
    <3> QED
      BY <2>2, <3>1, <3>3, Limits DEF Aged
  <2> QED
    BY <2>1, <2>2
<1>4. ASSUME NEW c \in Clients, client[c] # None
      PROVE  /\ client[c].idle > Stall => client'[c].idle > Stall
             /\ client[c].idle <= Stall => client'[c].idle = client[c].idle + 1
             /\ client'[c].idle >= client[c].idle /\ client'[c].idle \in Nat
  BY <1>2, <1>4, Limits DEF Aged
<1>5. \A c \in Clients : client'[c] # None => client'[c].app > budget'.apps
  BY <1>1, <1>2
<1>6. ASSUME NEW c \in Clients, apps'[c] # None
      PROVE  Lags(apps[c], apps[c].age, client[c])'
  <2>1. apps[c] # None /\ Lags(apps[c], apps[c].age, client[c])
    BY <1>3, <1>6
  <2>2. apps[c].idle \in Nat /\ apps[c].app # 0 /\ apps[c].age \in Nat
    BY <2>1, SaidTyped
  <2>3. CASE client[c] = None
    BY <1>1, <1>2, <1>3, <2>1, <2>2, <2>3 DEF Lags, None
  <2>4. CASE client[c] # None
    <3>1. /\ client'[c].app = client[c].app /\ client'[c].count = client[c].count
          /\ client[c].idle \in Nat /\ client'[c].idle \in Nat
          /\ client[c].idle > Stall => client'[c].idle > Stall
          /\ client[c].idle <= Stall => client'[c].idle = client[c].idle + 1
      BY <1>2, <1>4, <2>4
    <3>2. /\ apps'[c].app = apps[c].app /\ apps'[c].count = apps[c].count
          /\ apps'[c].idle = apps[c].idle
          /\ apps'[c].age \in Nat /\ apps'[c].age <= apps[c].age + 1
      BY <1>3, <2>1
    <3>3. client[c].app = apps[c].app /\ client[c].count = apps[c].count =>
            client'[c].idle > Stall \/ apps'[c].idle + apps'[c].age <= client'[c].idle
      <4>1. client[c].app = apps[c].app /\ client[c].count = apps[c].count =>
              client[c].idle > Stall \/ apps[c].idle + apps[c].age <= client[c].idle
        BY <2>1 DEF Lags
      <4>2. SUFFICES ASSUME client[c].app = apps[c].app, client[c].count = apps[c].count,
                            client[c].idle <= Stall
                     PROVE  apps'[c].idle + apps'[c].age <= client'[c].idle
        BY <3>1, Limits
      <4>3. apps[c].idle + apps[c].age <= client[c].idle
        BY <3>1, <4>1, <4>2, Limits
      <4>4. client'[c].idle = client[c].idle + 1
        BY <3>1, <4>2
      <4> QED
        BY <2>2, <3>1, <3>2, <4>3, <4>4
    <3> QED
      BY <1>1, <2>1, <3>1, <3>2, <3>3 DEF Lags
  <2> QED
    BY <2>3, <2>4
<1>7. ASSUME NEW i \in 1..Len(lines), lines[i].kind = "client"
      PROVE  Lags(lines[i], 0, client[lines[i].client])'
  <2>1. Lags(lines[i], 0, client[lines[i].client])
    BY <1>7
  <2>2. lines[i].client \in Clients /\ lines[i].app # 0 /\ lines[i].idle \in Nat
    BY <1>7, SaidTyped
  <2>3. CASE client[lines[i].client] = None
    BY <1>1, <1>2, <2>1, <2>2, <2>3 DEF Lags, None
  <2>4. CASE client[lines[i].client] # None
    BY <1>1, <1>2, <1>4, <2>1, <2>2, <2>4, Limits DEF Lags
  <2> QED
    BY <2>3, <2>4
<1> QED
  BY <1>1, <1>5, <1>6, <1>7

LEMMA LagStep ==
  StatsTypeOK /\ StatsTypeOK' /\ LagInv /\ [StatsNext]_statsVars
    => LagInv'
<1> SUFFICES ASSUME StatsTypeOK, StatsTypeOK', LagInv, [StatsNext]_statsVars,
                    ~StatsTick
             PROVE  LagInv'
  BY TickLags
<1>1. \A c \in Clients : Follows(c)
  BY ClientSteps
<1>2. budget.apps \in Nat /\ budget'.apps \in Nat /\ budget'.apps <= budget.apps
  BY BudgetFalls
<1>3. ASSUME NEW c \in Clients, client'[c] # None
      PROVE  client'[c].app > budget'.apps
  <2>1. client[c] # None => client[c].app \in Nat /\ client[c].app > budget.apps
    BY DEF LagInv, StatsTypeOK, App
  <2>2. client'[c].app # 0
    BY <1>3 DEF StatsTypeOK, App
  <2> QED
    BY <1>1, <1>2, <1>3, <2>1, <2>2 DEF Follows, None
<1>4. ASSUME NEW i \in 1..Len(lines'), lines'[i].kind = "client"
      PROVE  Lags(lines[i], 0, client[lines[i].client])'
  <2>1. ASSUME NEW j \in 1..Len(lines), lines'[i] = lines[j]
        PROVE  Lags(lines[i], 0, client[lines[i].client])'
    <3> DEFINE l == lines[j]
    <3>1. Lags(l, 0, client[l.client])
      BY <1>4, <2>1 DEF LagInv
    <3>2. l.client \in Clients /\ l.app \in Nat /\ l.count \in Nat
      BY <1>4, <2>1, SaidTyped
    <3> HIDE DEF l
    <3>3. \A said : said = l =>
            /\ said.app > budget'.apps
            /\ client'[said.client].app = said.app =>
                 /\ said.count <= client'[said.client].count
                 /\ said.count = client'[said.client].count =>
                      client'[said.client].idle > Stall
                        \/ said.idle + 0 <= client'[said.client].idle
      <4> SUFFICES ASSUME NEW said, said = l
                   PROVE  Lags(said, 0, client[said.client])'
        BY DEF Lags
      <4>1. Lags(said, 0, client[said.client])'
        BY <1>1, <3>1, <3>2, LagsKept
      <4> QED
        BY <4>1
    <3> QED
      BY <2>1, <3>3 DEF Lags, l
  <2>2. ASSUME NEW c \in Clients,
               client[c] # None, UNCHANGED <<client, budget>>,
               lines'[i].client = c, lines'[i].app = client[c].app,
               lines'[i].count = client[c].count, lines'[i].idle = client[c].idle
        PROVE  Lags(lines[i], 0, client[lines[i].client])'
    <3>1. client[c].app > budget.apps
      BY <2>2 DEF LagInv
    <3>2. client[c].count \in Nat /\ client[c].idle \in Nat
      BY <2>2 DEF StatsTypeOK, App
    <3> QED
      BY <2>2, <3>1, <3>2 DEF Lags
  <2> QED
    BY <1>4, <2>1, <2>2, LinesMove
<1>5. ASSUME NEW c \in Clients, apps'[c] # None
      PROVE  Lags(apps[c], apps[c].age, client[c])'
  <2>1. CASE apps'[c] = apps[c]
    <3>1. Lags(apps[c], apps[c].age, client[c])
      BY <1>5, <2>1 DEF LagInv
    <3>2. apps[c].app \in Nat /\ apps[c].count \in Nat
      BY <1>5, <2>1, SaidTyped
    <3>3. \A said, aged : said = apps[c] /\ aged = apps[c].age =>
            /\ said.app > budget'.apps
            /\ client'[c].app = said.app =>
                 /\ said.count <= client'[c].count
                 /\ said.count = client'[c].count =>
                      client'[c].idle > Stall \/ said.idle + aged <= client'[c].idle
      <4> SUFFICES ASSUME NEW said, NEW aged, said = apps[c], aged = apps[c].age
                   PROVE  Lags(said, aged, client[c])'
        BY DEF Lags
      <4>1. Lags(said, aged, client[c])'
        BY <1>1, <3>1, <3>2, LagsKept
      <4> QED
        BY <4>1
    <3> QED
      BY <2>1, <3>3 DEF Lags
  <2>2. CASE /\ lines # <<>> /\ lines[1].kind = "client" /\ lines[1].client = c
             /\ apps'[c].app = lines[1].app /\ apps'[c].count = lines[1].count
             /\ apps'[c].idle = lines[1].idle /\ apps'[c].age = 0
    <3>1. 1 \in 1..Len(lines)
      BY <2>2, HeadTyped
    <3>2. Lags(lines[1], 0, client[c])
      BY <2>2, <3>1 DEF LagInv
    <3>3. lines[1].app \in Nat /\ lines[1].count \in Nat
      BY <2>2, <3>1, SaidTyped
    <3>4. \A said : said = lines[1] =>
            /\ said.app > budget'.apps
            /\ client'[c].app = said.app =>
                 /\ said.count <= client'[c].count
                 /\ said.count = client'[c].count =>
                      client'[c].idle > Stall \/ said.idle + 0 <= client'[c].idle
      <4> SUFFICES ASSUME NEW said, said = lines[1] PROVE Lags(said, 0, client[c])'
        BY DEF Lags
      <4>1. Lags(said, 0, client[c])'
        BY <1>1, <3>2, <3>3, LagsKept
      <4> QED
        BY <4>1
    <3> QED
      BY <2>2, <3>4 DEF Lags
  <2> QED
    BY <1>5, <2>1, <2>2, AppsMove
<1> QED
  BY <1>3, <1>4, <1>5 DEF LagInv

LEMMA ShownTyped ==
  ASSUME StatsTypeOK, NEW d \in Shown
  PROVE  /\ d \in Clients /\ apps[d] # None /\ apps[d].app # 0
         /\ apps[d].idle \in Nat /\ apps[d].age \in Nat
         /\ apps[d].idle + apps[d].age \in Nat
<1>1. d \in Clients /\ apps[d] # None
  BY DEF Shown
<1>2. apps[d].app \in Nat \ {0} /\ apps[d].idle \in Nat /\ apps[d].age \in Nat
  BY <1>1, SaidTyped
<1> QED
  BY <1>1, <1>2

\* The last call of a row is not before that of any application on it.
LEMMA LastCallIs ==
  ASSUME StatsTypeOK, Shown # {}
  PROVE  /\ LastCall \in Nat
         /\ \A d \in Shown : LastCall <= apps[d].idle + apps[d].age
<1> DEFINE S == {apps[d].idle + apps[d].age : d \in Shown}
<1>1. S \subseteq Nat /\ S # {}
  BY ShownTyped
<1>2. PICK x \in S : \A y \in S : x <= y
  BY <1>1, Least
<1>3. LastCall \in S /\ \A y \in S : LastCall <= y
  BY <1>2 DEF LastCall, Min
<1> QED
  BY <1>1, <1>3

LEMMA StalledRow ==
  ASSUME StatsTypeOK, LagInv
  PROVE  StalledIsTrue
<1>1. SUFFICES ASSUME Row = "APP STALLED", NEW c \in Shown,
                      client[c].app = apps[c].app, client[c].count = apps[c].count
               PROVE  client[c].idle > Stall
  BY DEF StalledIsTrue
<1>2. LastCall > Stall /\ Shown # {}
  BY <1>1 DEF Row
<1>3. LastCall \in Nat /\ LastCall <= apps[c].idle + apps[c].age
  BY <1>2, LastCallIs
<1>4. /\ c \in Clients /\ apps[c] # None /\ apps[c].app # 0
      /\ apps[c].idle \in Nat /\ apps[c].age \in Nat
  BY ShownTyped
<1>5. Lags(apps[c], apps[c].age, client[c])
  BY <1>4 DEF LagInv
<1>6. client[c].idle \in Nat
  <2>1. client[c] # None
    <3>1. None.app = 0
      BY DEF None
    <3> QED
      BY <1>1, <1>4, <3>1
  <2> QED
    BY <1>4, <2>1 DEF StatsTypeOK, App
<1>7. client[c].idle > Stall \/ apps[c].idle + apps[c].age <= client[c].idle
  BY <1>1, <1>5, Zenon DEF Lags
<1> QED
  BY <1>2, <1>3, <1>4, <1>6, <1>7, Limits

-----------------------------------------------------------------------------
(* Whose reports a rate compares.                                          *)

LEMMA NoneSaysNothing ==
  /\ None.app = 0
  /\ \A c \in Clients : apps[c] = None => Word(c, 0) = 0
  /\ lines = <<>> /\ (\A c \in Clients : apps[c] = None) => OneAppPerNumber
<1>1. None.app = 0
  BY DEF None
<1>2. \A c \in Clients : apps[c] = None => Word(c, 0) = 0
  BY <1>1 DEF Word
<1>3. lines = <<>> => 0..Len(lines) = {0}
  OBVIOUS
<1> QED
  BY <1>1, <1>2, <1>3 DEF OneAppPerNumber

LEMMA RateInit == StatsInit => RateInv
<1> SUFFICES ASSUME StatsInit PROVE RateInv
  OBVIOUS
<1>1. lines = <<>> /\ \A c \in Clients : apps[c] = None
  BY DEF StatsInit
<1> QED
  BY <1>1, NoneSaysNothing DEF RateInv, RateOfOneApp

\* No line comes or goes, and no application gives way to another.
LEMMA SameLines ==
  ASSUME OneAppPerNumber, UNCHANGED lines, tail' \in {0, tail},
         \A c \in Clients : apps'[c].app = apps[c].app,
         \A c \in Clients : client'[c].app = client[c].app \/ client[c] = None
  PROVE  OneAppPerNumber'
<1>1. \A c \in Clients : \A i \in 0..Len(lines) : Word(c, i)' = Word(c, i)
  BY DEF Word
<1>2. \A c \in Clients : \A k : Leaves(c, k)' = Leaves(c, k)
  BY DEF Leaves
<1>3. \A c \in Clients : client[c] = None => client[c].app = None.app
  OBVIOUS
<1> SUFFICES ASSUME NEW c \in Clients, NEW i \in 0..Len(lines), Word(c, i) # None.app
    PROVE
      /\ \A j \in (i + 1)..Len(lines) :
           Word(c, j) \notin {None.app, Word(c, i)} =>
             \E k \in (i + 1)..(j - 1) : Leaves(c, k)
      /\ tail' # 0 /\ client'[c].app # Word(c, i) =>
           \E k \in (i + 1)..Len(lines) : Leaves(c, k)
  <2>1. \A c \in Clients : \A i \in 0..Len(lines) : \A j \in (i + 1)..Len(lines) :
          j \in 0..Len(lines)
    OBVIOUS
  <2> QED
    BY <1>1, <1>2, <2>1 DEF OneAppPerNumber
<1> QED
  BY <1>3 DEF OneAppPerNumber

\* A line is added: the word of the application there, or that of its end.
LEMMA LineAdded ==
  ASSUME StatsTypeOK, OneAppPerNumber, NEW l \in Line,
         lines' = Append(lines, l), tail # 0, UNCHANGED <<apps, tail>>,
         \A c \in Clients :
           \/ /\ client'[c].app = client[c].app
              /\ l.kind = "client" /\ l.client = c => l.app = client[c].app
           \/ l.kind = "detached" /\ l.client = c
  PROVE  OneAppPerNumber'
<1> PICK n \in Nat : n = Len(lines)
  BY DEF StatsTypeOK
<1>1. /\ Len(lines') = n + 1 /\ lines'[n + 1] = l
      /\ \A i \in 1..n : lines'[i] = lines[i]
  BY DEF StatsTypeOK
<1>2. \A c \in Clients : \A i \in 0..n : Word(c, i)' = Word(c, i)
  BY <1>1 DEF Word
<1>3. \A c \in Clients : \A k \in 1..n : Leaves(c, k)' = Leaves(c, k)
  BY <1>1 DEF Leaves
<1>4. ASSUME NEW c \in Clients
      PROVE  /\ Word(c, n + 1)' \in {0, client[c].app}
             /\ Word(c, n + 1)' # 0 => client'[c].app = client[c].app
             /\ client'[c].app = client[c].app \/ Leaves(c, n + 1)'
  <2>1. Word(c, n + 1)' = IF l.kind = "client" /\ l.client = c THEN l.app ELSE 0
    BY <1>1, NoneSaysNothing DEF Word, None
  <2>2. Leaves(c, n + 1)' <=> l.kind = "detached" /\ l.client = c
    BY <1>1 DEF Leaves
  <2>3. \/ /\ client'[c].app = client[c].app
           /\ l.kind = "client" /\ l.client = c => l.app = client[c].app
        \/ l.kind = "detached" /\ l.client = c
    OBVIOUS
  <2> QED
    BY <2>1, <2>2, <2>3
<1>5. ASSUME NEW c \in Clients, NEW i \in 0..n, Word(c, i)' # 0
      PROVE  /\ \A j \in (i + 1)..(n + 1) :
                  Word(c, j)' \notin {0, Word(c, i)'} =>
                    \E k \in (i + 1)..(j - 1) : Leaves(c, k)'
             /\ client'[c].app # Word(c, i)' =>
                  \E k \in (i + 1)..(n + 1) : Leaves(c, k)'
  <2>1. Word(c, i) # 0 /\ Word(c, i)' = Word(c, i)
    BY <1>2, <1>5
  <2>2. /\ \A j \in (i + 1)..n :
             Word(c, j) \notin {0, Word(c, i)} =>
               \E k \in (i + 1)..(j - 1) : Leaves(c, k)
        /\ client[c].app # Word(c, i) => \E k \in (i + 1)..n : Leaves(c, k)
    BY <2>1, NoneSaysNothing DEF OneAppPerNumber
  <2>3. ASSUME NEW j \in (i + 1)..n, Word(c, j)' \notin {0, Word(c, i)'}
        PROVE  \E k \in (i + 1)..(j - 1) : Leaves(c, k)'
    <3>1. PICK k \in (i + 1)..(j - 1) : Leaves(c, k)
      BY <1>1, <1>2, <2>1, <2>2, <2>3
    <3> QED
      BY <1>1, <1>3, <3>1
  <2>4. ASSUME client[c].app # Word(c, i)
        PROVE  \E k \in (i + 1)..n : Leaves(c, k)'
    <3>1. PICK k \in (i + 1)..n : Leaves(c, k)
      BY <2>2, <2>4
    <3> QED
      BY <1>1, <1>3, <3>1
  <2>5. ASSUME Word(c, n + 1)' \notin {0, Word(c, i)'}
        PROVE  \E k \in (i + 1)..n : Leaves(c, k)'
    BY <1>4, <2>1, <2>4, <2>5
  <2>6. ASSUME client'[c].app # Word(c, i)'
        PROVE  \E k \in (i + 1)..(n + 1) : Leaves(c, k)'
    <3>1. CASE client'[c].app = client[c].app
      BY <1>1, <2>1, <2>4, <2>6, <3>1
    <3>2. CASE Leaves(c, n + 1)'
      <4>1. n + 1 \in (i + 1)..(n + 1)
        OBVIOUS
      <4> QED
        BY <3>2, <4>1
    <3> QED
      BY <1>4, <3>1, <3>2
  <2>7. ASSUME NEW j \in (i + 1)..(n + 1), Word(c, j)' \notin {0, Word(c, i)'}
        PROVE  \E k \in (i + 1)..(j - 1) : Leaves(c, k)'
    <3>1. CASE j \in (i + 1)..n
      BY <2>3, <2>7, <3>1
    <3>2. CASE j = n + 1
      <4>1. j - 1 = n
        BY <3>2
      <4> QED
        BY <2>5, <2>7, <3>2, <4>1
    <3> QED
      BY <3>1, <3>2
  <2> QED
    BY <2>6, <2>7
<1>6. ASSUME NEW c \in Clients, Word(c, n + 1)' # 0
      PROVE  client'[c].app = Word(c, n + 1)'
  BY <1>4, <1>6
<1>7. \A c \in Clients : \A i \in 0..(n + 1) : Word(c, i)' # 0 =>
        /\ \A j \in (i + 1)..(n + 1) :
             Word(c, j)' \notin {0, Word(c, i)'} =>
               \E k \in (i + 1)..(j - 1) : Leaves(c, k)'
        /\ client'[c].app # Word(c, i)' => \E k \in (i + 1)..(n + 1) : Leaves(c, k)'
  <2> SUFFICES ASSUME NEW c \in Clients, NEW i \in 0..(n + 1), Word(c, i)' # 0
               PROVE
        /\ \A j \in (i + 1)..(n + 1) :
             Word(c, j)' \notin {0, Word(c, i)'} =>
               \E k \in (i + 1)..(j - 1) : Leaves(c, k)'
        /\ client'[c].app # Word(c, i)' => \E k \in (i + 1)..(n + 1) : Leaves(c, k)'
    OBVIOUS
  <2>1. CASE i \in 0..n
    BY <1>5, <2>1
  <2>2. CASE i = n + 1
    <3>1. (i + 1)..(n + 1) = {}
      BY <2>2
    <3>2. client'[c].app = Word(c, i)'
      BY <1>6, <2>2
    <3> QED
      BY <3>1, <3>2
  <2> QED
    BY <2>1, <2>2
<1> QED
  BY <1>1, <1>7, NoneSaysNothing DEF OneAppPerNumber

\* The first line goes to the parser, which then holds its word, holds
\* nothing more about that number, or goes on as before.
LEMMA LineRead ==
  ASSUME StatsTypeOK, OneAppPerNumber, Read
  PROVE  /\ OneAppPerNumber'
         /\ \A c \in Clients : apps'[c] # apps[c] => apps'[c] = None \/ ~apps'[c].mixed
<1> PICK n \in Nat : n = Len(lines)
  BY DEF StatsTypeOK
<1>1. /\ lines # <<>> /\ HandleLine(lines[1]) /\ lines[1] \in Line
      /\ n \in Nat \ {0} /\ Len(lines') = n - 1
      /\ \A i \in 1..(n - 1) : lines'[i] = lines[i + 1]
      /\ UNCHANGED <<client, tail>>
  BY HeadTyped DEF Read, procVars, appVars
<1>2. /\ \A c \in Clients : \A i \in 1..(n - 1) : Word(c, i)' = Word(c, i + 1)
      /\ \A c \in Clients : \A k \in 1..(n - 1) : Leaves(c, k)' = Leaves(c, k + 1)
  BY <1>1 DEF Word, Leaves
<1>3. ASSUME NEW c \in Clients
      PROVE  \/ apps'[c] = None
             \/ /\ lines[1].kind = "client" /\ lines[1].client = c
                /\ apps'[c] = Sample(lines[1]) /\ apps'[c].app = lines[1].app
             \/ /\ apps'[c] = apps[c] /\ ~Leaves(c, 1) /\ Word(c, 1) = 0
  <2>1. CASE UNCHANGED apps /\ lines[1].kind \notin {"client", "detached"}
    BY <2>1, NoneSaysNothing DEF Leaves, Word
  <2>2. CASE Feed(lines[1]) /\ lines[1].kind = "client"
    <3>1. apps' = [apps EXCEPT ![lines[1].client] = Sample(lines[1])]
      BY <2>2 DEF Feed
    <3>2. CASE c = lines[1].client
      BY <1>1, <2>2, <3>1, <3>2, SampleTyped DEF StatsTypeOK
    <3>3. CASE c # lines[1].client
      BY <1>1, <2>2, <3>1, <3>3, NoneSaysNothing DEF StatsTypeOK, Leaves, Word
    <3> QED
      BY <3>2, <3>3
  <2>3. CASE Feed(lines[1]) /\ lines[1].kind = "detached"
    <3>1. apps' = [apps EXCEPT ![lines[1].client] = None]
      BY <2>3 DEF Feed
    <3> QED
      BY <1>1, <2>3, <3>1, NoneSaysNothing DEF StatsTypeOK, Leaves, Word
  <2>4. CASE Feed(lines[1]) /\ lines[1].kind \notin {"client", "detached"}
    BY <2>1, <2>4 DEF Feed
  <2>5. CASE lines[1].kind = "PID" /\ UNCHANGED apps
    BY <2>1, <2>5
  <2> QED
    BY <1>1, <2>2, <2>3, <2>4, <2>5 DEF HandleLine, parserVars
<1>4. ASSUME NEW c \in Clients, lines[1].kind = "client", lines[1].client = c
      PROVE  Word(c, 1) = lines[1].app
  BY <1>4 DEF Word
<1>5. ASSUME NEW c \in Clients, Word(c, 0)' # 0
      PROVE  \E h \in {0, 1} :
               /\ Word(c, 0)' = Word(c, h)
               /\ h = 0 => ~Leaves(c, 1)
  <2>1. CASE apps'[c] = None
    BY <1>5, <2>1, NoneSaysNothing DEF Word
  <2>2. CASE lines[1].kind = "client" /\ lines[1].client = c /\ apps'[c].app = lines[1].app
    BY <1>4, <2>2 DEF Word
  <2>3. CASE apps'[c] = apps[c] /\ ~Leaves(c, 1)
    BY <2>3 DEF Word
  <2> QED
    BY <1>3, <2>1, <2>2, <2>3
<1>6. ASSUME NEW c \in Clients, NEW i \in 0..(n - 1), Word(c, i)' # 0
      PROVE  \E h \in {i, i + 1} :
               /\ Word(c, i)' = Word(c, h) /\ h \in 0..n
               /\ h = i => i = 0 /\ ~Leaves(c, 1)
  BY <1>1, <1>2, <1>5, <1>6
<1>7. ASSUME NEW c \in Clients, NEW i \in 0..(n - 1), Word(c, i)' # 0
      PROVE  /\ \A j \in (i + 1)..(n - 1) :
                  Word(c, j)' \notin {0, Word(c, i)'} =>
                    \E k \in (i + 1)..(j - 1) : Leaves(c, k)'
             /\ tail # 0 /\ client[c].app # Word(c, i)' =>
                  \E k \in (i + 1)..(n - 1) : Leaves(c, k)'
  <2>1. PICK h \in {i, i + 1} :
          /\ Word(c, i)' = Word(c, h) /\ h \in 0..n
          /\ h = i => i = 0 /\ ~Leaves(c, 1)
    BY <1>6, <1>7
  <2>2. /\ \A j \in (h + 1)..n :
             Word(c, j) \notin {0, Word(c, h)} =>
               \E k \in (h + 1)..(j - 1) : Leaves(c, k)
        /\ tail # 0 /\ client[c].app # Word(c, h) =>
             \E k \in (h + 1)..n : Leaves(c, k)
    BY <1>7, <2>1, NoneSaysNothing DEF OneAppPerNumber
  <2>3. ASSUME NEW m \in 1..n, NEW k \in (h + 1)..m, Leaves(c, k)
        PROVE  \E k2 \in (i + 1)..(m - 1) : Leaves(c, k2)'
    <3>1. k # 1
      BY <1>1, <2>1, <2>3
    <3>2. k - 1 \in (i + 1)..(m - 1) /\ k - 1 \in 1..(n - 1) /\ (k - 1) + 1 = k
      BY <1>1, <2>1, <3>1
    <3> QED
      BY <1>2, <2>3, <3>2
  <2>4. ASSUME NEW j \in (i + 1)..(n - 1), Word(c, j)' \notin {0, Word(c, i)'}
        PROVE  \E k \in (i + 1)..(j - 1) : Leaves(c, k)'
    <3>1. j + 1 \in (h + 1)..n /\ Word(c, j)' = Word(c, j + 1) /\ (j + 1) - 1 = j
      BY <1>1, <1>2, <2>1
    <3>2. PICK k \in (h + 1)..j : Leaves(c, k)
      BY <2>1, <2>2, <2>4, <3>1
    <3> QED
      BY <1>1, <2>3, <3>2
  <2>5. ASSUME tail # 0, client[c].app # Word(c, i)'
        PROVE  \E k \in (i + 1)..(n - 1) : Leaves(c, k)'
    <3>1. PICK k \in (h + 1)..n : Leaves(c, k)
      BY <2>1, <2>2, <2>5
    <3> QED
      BY <1>1, <2>3, <3>1
  <2> QED
    BY <2>4, <2>5
<1>8. OneAppPerNumber'
  BY <1>1, <1>7, NoneSaysNothing DEF OneAppPerNumber
<1>9. ASSUME NEW c \in Clients, lines[1].kind = "client", lines[1].client = c,
             apps'[c] = Sample(lines[1])
      PROVE  ~apps'[c].mixed
  <2>1. SUFFICES ASSUME apps[c] # None, apps[c].app # lines[1].app PROVE FALSE
    BY <1>1, <1>9, SampleTyped
  <2>2. Word(c, 0) = apps[c].app /\ apps[c].app # 0 /\ lines[1].app # 0
    BY <1>1, <1>9, <2>1, SaidTyped, KindTyped DEF Word
  <2>3. 1 \in 1..n /\ 0 \in 0..n
    BY <1>1
  <2>4. \E k \in (0 + 1)..(1 - 1) : Leaves(c, k)
    BY <1>4, <1>9, <2>1, <2>2, <2>3, NoneSaysNothing DEF OneAppPerNumber
  <2> QED
    BY <2>4
<1> QED
  BY <1>3, <1>8, <1>9

\* Lines that nobody reads: there is no tail to stand for the application.
LEMMA NoTailNoWord ==
  ASSUME OneAppPerNumber, UNCHANGED <<lines, apps, tail>>, tail = 0
  PROVE  OneAppPerNumber'
<1>1. \A c \in Clients : \A i : Word(c, i)' = Word(c, i)
  BY DEF Word
<1>2. \A c \in Clients : \A k : Leaves(c, k)' = Leaves(c, k)
  BY DEF Leaves
<1> QED
  BY <1>1, <1>2 DEF OneAppPerNumber

\* What each step does to the lines, to the words and to the tail.
LEMMA RateStep ==
  StatsTypeOK /\ KillsInv /\ RateInv /\ [StatsNext]_statsVars
    => RateInv'
<1> SUFFICES ASSUME StatsTypeOK, KillsInv, RateInv,
                    [StatsNext]_statsVars
             PROVE  RateInv'
  OBVIOUS
<1> USE DEF streamVars, parserVars, procVars, appVars
<1>0. /\ ssh \in {"none", "connecting"} => \A c \in Clients : apps[c] = None
      /\ ~renumbered => OneAppPerNumber
      /\ RateOfOneApp /\ Announced
  BY DEF RateInv, KillsInv
<1>1. ASSUME lines' = <<>>, \A c \in Clients : apps'[c] = None,
             renumbered' \in {FALSE, renumbered}
      PROVE  RateInv'
  <2>1. OneAppPerNumber'
    <3>1. \A c \in Clients : Word(c, 0)' = 0
      BY <1>1, NoneSaysNothing DEF Word
    <3>2. 0..Len(lines') = {0}
      BY <1>1
    <3> QED
      BY <3>1, <3>2, NoneSaysNothing DEF OneAppPerNumber
  <2> QED
    BY <1>1, <2>1 DEF RateInv, RateOfOneApp
<1>2. ASSUME StartStream PROVE RateInv'
  <2>1. lines' = <<>> /\ UNCHANGED apps /\ renumbered' = FALSE /\ ssh = "none"
    BY <1>0, <1>2 DEF StartStream, Announced
  <2> QED
    BY <1>0, <1>1, <2>1
<1>3. ASSUME Connect PROVE RateInv'
  <2>1. PICK p \in Pids : lines' = <<[kind |-> "PID", pid |-> p]>>
    BY <1>3 DEF Connect
  <2>2. /\ UNCHANGED <<apps, renumbered>> /\ \A c \in Clients : apps[c] = None
    BY <1>0, <1>3 DEF Connect
  <2>3. Len(lines') = 1 /\ lines'[1].kind = "PID"
    BY <2>1
  <2>4. \A c \in Clients : \A i \in 0..1 : Word(c, i)' = 0
    BY <2>2, <2>3, NoneSaysNothing DEF Word
  <2>5. OneAppPerNumber'
    BY <2>3, <2>4, NoneSaysNothing DEF OneAppPerNumber
  <2> QED
    BY <2>2, <2>5 DEF RateInv, RateOfOneApp
<1>4. ASSUME Finish PROVE RateInv'
  <2>1. /\ ssh' = "over" /\ lines' = <<>> /\ tail' = 0 /\ UNCHANGED <<apps, renumbered>>
    BY <1>4 DEF Finish
  <2>2. 0..Len(lines') = {0} /\ \A i \in 0..0 : (i + 1)..Len(lines') = {}
    BY <2>1
  <2>3. OneAppPerNumber'
    BY <2>1, <2>2 DEF OneAppPerNumber
  <2> QED
    BY <1>0, <2>1, <2>3 DEF RateInv, RateOfOneApp
<1>5. ASSUME StopStream PROVE RateInv'
  <2>1. lines' = <<>> /\ (\A c \in Clients : apps'[c] = None) /\ UNCHANGED renumbered
    BY <1>5 DEF StopStream, StopStreamWith
  <2> QED
    BY <1>1, <2>1
<1>6. ASSUME Read PROVE RateInv'
  <2>1. ssh = "open" /\ UNCHANGED <<ssh, renumbered>>
    BY <1>6 DEF Read
  <2>2. ~renumbered =>
          /\ OneAppPerNumber'
          /\ \A c \in Clients : apps'[c] # apps[c] => apps'[c] = None \/ ~apps'[c].mixed
    BY <1>0, <1>6, LineRead
  <2>3. RateOfOneApp'
    BY <1>0, <2>1, <2>2 DEF RateOfOneApp
  <2> QED
    BY <2>1, <2>2, <2>3 DEF RateInv
<1>7. ASSUME OneAppPerNumber => OneAppPerNumber',
             UNCHANGED <<ssh, apps, renumbered>>
      PROVE  RateInv'
  BY <1>0, <1>7 DEF RateInv, RateOfOneApp
<1>8. ASSUME NEW l \in Line, Write(l), UNCHANGED renumbered,
             \A c \in Clients :
               \/ /\ client'[c].app = client[c].app
                  /\ l.kind = "client" /\ l.client = c => l.app = client[c].app
               \/ l.kind = "detached" /\ l.client = c
      PROVE  RateInv'
  <2>1. UNCHANGED <<ssh, apps, tail>>
    BY <1>8 DEF Write
  <2>2. CASE tail # 0
    <3>1. lines' = Append(lines, l)
      BY <1>8, <2>2 DEF Write
    <3>2. OneAppPerNumber => OneAppPerNumber'
      BY <1>8, <2>1, <2>2, <3>1, LineAdded
    <3> QED
      BY <1>7, <1>8, <2>1, <3>2
  <2>3. CASE tail = 0
    <3>1. lines' = lines
      BY <1>8, <2>3 DEF Write
    <3>2. OneAppPerNumber => OneAppPerNumber'
      BY <2>1, <2>3, <3>1, NoTailNoWord
    <3> QED
      BY <1>7, <1>8, <2>1, <3>2
  <2> QED
    BY <2>2, <2>3
<1>9. ASSUME Publish PROVE RateInv'
  BY <1>8, <1>9, LineTyped DEF Publish
<1>10. ASSUME NEW p \in Pids, Mention(p) PROVE RateInv'
  BY <1>8, <1>10, LineTyped DEF Mention
<1>11. ASSUME NEW c \in Clients, Report(c) PROVE RateInv'
  <2> DEFINE l == [kind |-> "client", client |-> c, app |-> client[c].app,
                   count |-> client[c].count, idle |-> client[c].idle]
  <2>1. l \in Line
    BY <1>11, LineTyped DEF Report
  <2>2. Write(l) /\ UNCHANGED <<client, renumbered>>
    BY <1>11 DEF Report
  <2>3. l.kind = "client" /\ l.client = c /\ l.app = client[c].app
    OBVIOUS
  <2> HIDE DEF l
  <2> QED
    BY <1>8, <2>1, <2>2, <2>3
<1>12. ASSUME NEW c \in Clients, Detach(c) PROVE RateInv'
  <2> DEFINE l == [kind |-> "detached", client |-> c]
  <2>1. l \in Line /\ l.kind = "detached" /\ l.client = c
    BY LineTyped
  <2>2. Write(l) /\ UNCHANGED renumbered
        /\ \A d \in Clients : d # c => client'[d] = client[d]
    BY <1>12 DEF Detach, StatsTypeOK
  <2> HIDE DEF l
  <2> QED
    BY <1>8, <2>1, <2>2
<1>13. ASSUME UNCHANGED <<ssh, renumbered, lines>>, tail' \in {0, tail},
              \A c \in Clients : apps'[c] = None <=> apps[c] = None,
              \A c \in Clients : apps[c] # None =>
                apps'[c].app = apps[c].app /\ apps'[c].haveRate = apps[c].haveRate
                  /\ apps'[c].mixed = apps[c].mixed,
              \A c \in Clients : client'[c].app = client[c].app \/ client[c] = None
       PROVE  RateInv'
  <2>1. \A c \in Clients : apps'[c].app = apps[c].app
    BY <1>13
  <2>2. OneAppPerNumber => OneAppPerNumber'
    BY <1>13, <2>1, SameLines
  <2> QED
    BY <1>0, <1>13, <2>2 DEF RateInv, RateOfOneApp
<1>14. ASSUME NEW p \in Pids, Kill(p) \/ GiveUp(p) \/ Spawn(p)
       PROVE  RateInv'
  BY <1>13, <1>14 DEF Kill, GiveUp, Spawn
<1>15. ASSUME NEW c \in Clients, Attach(c) PROVE RateInv'
  <2>1. UNCHANGED <<ssh, renumbered, lines, tail, apps>> /\ client[c] = None
        /\ \A d \in Clients : d # c => client'[d] = client[d]
    BY <1>15 DEF Attach, StatsTypeOK
  <2> QED
    BY <1>13, <2>1
<1>16. ASSUME NEW c \in Clients, Call(c) PROVE RateInv'
  <2>1. UNCHANGED <<ssh, renumbered, lines, tail, apps>>
        /\ \A d \in Clients : d # c => client'[d] = client[d]
    BY <1>16 DEF Call, StatsTypeOK
  <2>2. client'[c].app = client[c].app
    <3>1. client[c] \in App
      BY <1>16 DEF Call, StatsTypeOK
    <3>2. client'[c] = [client[c] EXCEPT !.count = @ + 1, !.idle = 0]
      BY <1>16 DEF Call, StatsTypeOK
    <3> QED
      BY <3>1, <3>2 DEF App
  <2> QED
    BY <1>13, <2>1, <2>2
<1>17. ASSUME StatsTick PROVE RateInv'
  <2>1. UNCHANGED <<ssh, renumbered, lines, tail>>
    BY <1>17 DEF StatsTick
  <2>2. ASSUME NEW c \in Clients PROVE client'[c].app = client[c].app
    BY <1>17 DEF StatsTick, StatsTypeOK, App
  <2>3. ASSUME NEW c \in Clients, apps[c] # None
        PROVE  /\ apps'[c].app = apps[c].app /\ apps'[c].haveRate = apps[c].haveRate
               /\ apps'[c].mixed = apps[c].mixed /\ apps'[c] # None
    <3>1. apps[c] \in Entry
      BY <2>3 DEF StatsTypeOK
    <3>2. apps'[c] = [apps[c] EXCEPT !.age = Aged(@, Stale)]
      BY <1>17, <2>3 DEF StatsTick
    <3>3. /\ apps'[c].app = apps[c].app /\ apps'[c].haveRate = apps[c].haveRate
          /\ apps'[c].mixed = apps[c].mixed /\ apps[c].app # 0
      BY <3>1, <3>2 DEF Entry
    <3> QED
      BY <3>3, NoneSaysNothing
  <2>4. ASSUME NEW c \in Clients, apps[c] = None PROVE apps'[c] = None
    BY <1>17, <2>4 DEF StatsTick
  <2> QED
    BY <1>13, <2>1, <2>2, <2>3, <2>4
<1>18. ASSUME Away \/ Back \/ UNCHANGED statsVars PROVE RateInv'
  BY <1>13, <1>18 DEF Away, Back, statsVars
<1>19. ASSUME Renumber \/ Reboot PROVE RateInv'
  BY <1>0, <1>19 DEF Renumber, Reboot, RateInv, RateOfOneApp
<1> QED
  BY <1>2, <1>3, <1>4, <1>5, <1>6, <1>9, <1>10, <1>11, <1>12, <1>14, <1>15, <1>16, <1>17,
     <1>18, <1>19 DEF StatsNext

-----------------------------------------------------------------------------
(* The variables of the statistics keep to their types: the budgets to     *)
(* theirs, and what the parser holds to what a line can say.               *)
THEOREM StatsTypeCorrect == StatsSpec => []StatsTypeOK
  BY StatsTypeInit, StatsTypeStep, PTL DEF StatsSpec

(* A pid that stop() kills was announced by the tail of a stream that is   *)
(* over and still runs, or that tail has ended by itself: no line of the   *)
(* logs and no later session changes whom a kill is for.                   *)
THEOREM StopKillsOldTails == StatsSpec => []KillsOldTails
<1>1. KillsInv => KillsOldTails
  BY DEF KillsInv
<1> QED
  BY <1>1, KillsInit, KillsStep, StatsTypeCorrect, PTL DEF StatsSpec

(* A rate compares two reports of one application, unless the server has   *)
(* started anew: between two applications of a number the parser has read  *)
(* the line of the one that left.                                          *)
THEOREM RatesCompareOneApp == StatsSpec => []RateOfOneApp
<1>1. RateInv => RateOfOneApp
  BY DEF RateInv
<1>2. StatsSpec => []KillsInv
  BY KillsInit, KillsStep, StatsTypeCorrect, PTL DEF StatsSpec
<1> QED
  BY <1>1, <1>2, RateInit, RateStep, StatsTypeCorrect, PTL DEF StatsSpec

(* APP STALLED is true of every application on the row, or the word of its *)
(* last call is still on its way: what was read is never more idle, with   *)
(* the time since, than the application itself.                            *)
THEOREM StalledRowsTrue == StatsSpec => []StalledIsTrue
<1>1. StatsTypeOK /\ LagInv => StalledIsTrue
  BY StalledRow
<1> QED
  BY <1>1, LagInit, LagStep, StatsTypeCorrect, PTL DEF StatsSpec

(* The part of TailsEnd that needs no fairness: whatever pids are used     *)
(* again, kills delayed and connections broken, a tail that was not given  *)
(* up is the one of the stream, or has its kill on its way.                *)
THEOREM TailsStayFollowed == StatsSpec => []TailsAreFollowed
<1>1. StatsInit => TailsAreFollowed
  BY DEF StatsInit, TailsAreFollowed
<1>2. StatsTypeOK /\ KillsInv /\ TailsAreFollowed /\ [StatsNext]_statsVars => TailsAreFollowed'
  <2> SUFFICES ASSUME StatsTypeOK, KillsInv, TailsAreFollowed, [StatsNext]_statsVars
               PROVE  TailsAreFollowed'
    OBVIOUS
  <2>k. ASSUME UNCHANGED <<ssh, pid, killers, tail>>,
               \A p \in Pids : procs'[p] = "tail" => procs[p] = "tail"
        PROVE  TailsAreFollowed'
    BY <2>k DEF TailsAreFollowed
  <2>w. ASSUME NEW l, Write(l) PROVE TailsAreFollowed'
    BY <2>w, <2>k DEF Write, streamVars
  <2>1. CASE StartStream
    BY <2>1 DEF StartStream, procVars, TailsAreFollowed, KillsInv, Announced
  <2>2. CASE Connect
    BY <2>2 DEF Connect, TailsAreFollowed, KillsInv, Announced, StatsTypeOK
  <2>3. CASE Finish
    BY <2>3 DEF Finish, TailsAreFollowed
  <2>4. CASE StopStream
    <3>1. ssh' = "none" /\ pid' = 0 /\ killers' = killers \cup ({pid} \ {0})
      BY <2>4 DEF StopStream, StopStreamWith, Killing
    <3>2. ASSUME NEW p \in Pids, procs'[p] = "tail" PROVE p \in killers'
      <4>1. CASE procs' = [q \in Pids |-> IF q \in Unread THEN "left" ELSE procs[q]]
        BY <4>1, <3>1, <3>2, Limits DEF Unread
      <4>2. ASSUME ssh = "connecting", NEW q \in Pids, procs' = [procs EXCEPT ![q] = "left"]
            PROVE  p \in killers'
        <5>1. procs[p] = "tail" /\ pid = 0 /\ tail = 0
          BY <4>2, <3>2 DEF StatsTypeOK, TailsAreFollowed, KillsInv, Announced
        <5> QED
          BY <4>2, <5>1, <3>1, Limits DEF TailsAreFollowed
      <4> QED
        BY <4>1, <4>2, <2>4 DEF StopStream, StopStreamWith
    <3> QED
      BY <3>1, <3>2 DEF TailsAreFollowed
  <2>5. CASE Read
    <3>1. ssh = "open" /\ UNCHANGED <<ssh, killers, tail, procs>> /\ (pid' = pid \/ pid = 0)
      BY <2>5 DEF Read, HandleLine, procVars
    <3> QED
      BY <3>1, Limits DEF TailsAreFollowed
  <2>6. ASSUME NEW p \in Pids, Kill(p) PROVE TailsAreFollowed'
    BY <2>6 DEF Kill, TailsAreFollowed, StatsTypeOK
  <2>7. ASSUME NEW p \in Pids, GiveUp(p) PROVE TailsAreFollowed'
    BY <2>7 DEF GiveUp, TailsAreFollowed, StatsTypeOK
  <2>8. CASE Publish \/ (\E p \in Pids : Mention(p)) \/ (\E c \in Clients : Report(c) \/ Detach(c))
    BY <2>8, <2>w DEF Publish, Mention, Report, Detach
  <2>9. CASE Renumber \/ Away \/ Back \/ StatsTick \/ (\E c \in Clients : Attach(c) \/ Call(c))
    BY <2>9, <2>k DEF Renumber, Away, Back, StatsTick, Attach, Call, streamVars, procVars
  <2>10. CASE Reboot
    BY <2>10 DEF Reboot, streamVars, TailsAreFollowed
  <2>11. ASSUME NEW p \in Pids, Spawn(p) PROVE TailsAreFollowed'
    BY <2>11, <2>k DEF Spawn, streamVars, StatsTypeOK
  <2>12. CASE UNCHANGED statsVars
    BY <2>12, <2>k DEF statsVars, streamVars, procVars
  <2> QED
    BY <2>1, <2>2, <2>3, <2>4, <2>5, <2>6, <2>7, <2>8, <2>9, <2>10, <2>11, <2>12 DEF StatsNext
<1> QED
  BY <1>1, <1>2, KillsInit, KillsStep, StatsTypeCorrect, PTL DEF StatsSpec
=============================================================================
