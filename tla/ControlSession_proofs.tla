------------------------ MODULE ControlSession_proofs ------------------------
(***************************************************************************)
(* Theorems about ControlSession, for any number of Play presses, of       *)
(* declarations and of descriptors, whatever the target answers.           *)
(***************************************************************************)
EXTENDS ControlSession, TLAPS

USE DEF Verdicts, Phases, ConnStates, NoFd, NoThread

-----------------------------------------------------------------------------
(* What DispatcherClient's two calls leave in its state.                   *)

(* disconnect() keeps the types of the client's state.                     *)
LEMMA DisconnectType == ASSUME ClientType, Disconnect PROVE ClientType'
BY DEF ClientType, Disconnect, ShutDown

(* declareAsync() keeps the types of the client's state.                   *)
LEMMA DeclareType == ASSUME ClientType, Declare PROVE ClientType'
<1> DEFINE t == declares + 1
           inUse == {fdOf[u] : u \in {v \in Threads : ShutDown[v] \in {"connecting", "open", "peerClosed"}}}
<1>1. PICK n \in Fds \ inUse :
         /\ t \in Threads /\ declares' = t /\ thread' = t /\ socketFd' = NoFd
         /\ phase' = [phase EXCEPT ![t] = "connecting"]
         /\ fdOf' = [fdOf EXCEPT ![t] = n]
         /\ conn' = [ShutDown EXCEPT ![t] = "connecting"]
  BY DEF Declare
<1>2. ShutDown \in [Threads -> ConnStates]
  BY DEF ClientType, ShutDown
<1> QED
  BY <1>1, <1>2 DEF ClientType

-----------------------------------------------------------------------------
(* Every variable keeps its type.                                          *)

LEMMA TypeInit == Init => TypeOK
<1> SUFFICES ASSUME Init PROVE TypeOK
  OBVIOUS
<1>1. GuiType /\ FlagType
  <2>1. GuiType
    BY BoundsAssumption DEF Init, GuiType
  <2>2. FlagType
    BY DEF Init, FlagType
  <2> QED
    BY <2>1, <2>2
<1>2. ClientType
  BY DEF Init, ClientType
<1>3. TargetType
  BY DEF Init, TargetType
<1> QED
  BY <1>1, <1>2, <1>3 DEF TypeOK

(* The actions of the GUI thread, and what they leave of the target.       *)
LEMMA GuiTypeStep == TypeOK /\ [Next]_vars => GuiType'
<1> SUFFICES ASSUME GuiType, [Next]_vars PROVE GuiType'
  BY DEF TypeOK
<1> USE DEF GuiType
<1>s. StopSession => state' = "Idle" /\ tile' = "idle" /\ stats' = 0 /\ kills' \in Nat
  BY DEF StopSession
<1>t. TargetFound => tile' = "confirming" /\ probes' \in Nat
  BY DEF TargetFound
<1>1. CASE User
  <2>1. CASE Play
    BY <1>s, <1>t, <2>1, BoundsAssumption DEF Play
  <2> QED
    BY <1>1, <1>s, <2>1 DEF User, Pause, Stop, Configure, CloseWindow, gateVars, asyncVars
<1>2. CASE Gui
  <2>1. ASSUME NEW r \in PingAnswers, MonitorAnswers(r) PROVE GuiType'
    BY <1>s, <1>t, <2>1, AnswersAssumption DEF MonitorAnswers, guiVars
  <2>2. ASSUME NEW answer \in ProbeAnswers, VersionAnswer(answer) PROVE GuiType'
    BY <1>s, <2>2 DEF VersionAnswer, guiVars
  <2>3. ASSUME NEW t \in Threads, DeclareCompletes(t) PROVE GuiType'
    BY <2>3 DEF DeclareCompletes, DeclareFailed, DeclareRejected, DeclareReady, guiVars, gateVars
  <2>4. CASE CheckTimesOut
    BY <1>s, <2>4 DEF CheckTimesOut
  <2>5. CASE StarterDone \/ Retry \/ DestroyClient \/ JoinThread
    BY <2>5 DEF StarterDone, Retry, DestroyClient, JoinThread, guiVars, gateVars, asyncVars
  <2> QED
    BY <1>2, <2>1, <2>2, <2>3, <2>4, <2>5 DEF Gui
<1>3. ASSUME NEW t \in Threads, ThreadStep(t) PROVE GuiType'
  BY <1>3 DEF ThreadStep, Connected, ConnectFails, Sends, SendFails, ReadsVerdict, ReadFails,
              Releases, guiVars, gateVars, asyncVars
<1>4. CASE Target
  BY <1>4 DEF Target, DispatcherStarts, KillLands, DispatcherCrashes, Accepts, Replies,
              TearsDown, guiVars, gateVars, asyncVars
<1>5. CASE UNCHANGED vars
  BY <1>5 DEF vars, guiVars, gateVars, asyncVars
<1> QED
  BY <1>1, <1>2, <1>3, <1>4, <1>5 DEF Next

LEMMA FlagTypeStep == TypeOK /\ [Next]_vars => FlagType'
<1> SUFFICES ASSUME FlagType, [Next]_vars PROVE FlagType'
  BY DEF TypeOK
<1> USE DEF FlagType
<1>s. StopSession => streaming' = FALSE /\ checking' = FALSE
  BY DEF StopSession
<1>1. CASE User
  BY <1>1, <1>s DEF User, Play, Pause, Stop, Configure, CloseWindow, gateVars
<1>2. CASE Gui
  <2>1. ASSUME NEW answer \in ProbeAnswers, VersionAnswer(answer) PROVE FlagType'
    BY <1>s, <2>1 DEF VersionAnswer, guiVars
  <2>2. ASSUME NEW t \in Threads, DeclareCompletes(t) PROVE FlagType'
    BY <2>2 DEF DeclareCompletes, DeclareFailed, DeclareRejected, DeclareReady, guiVars, gateVars
  <2> QED
    BY <1>2, <1>s, <2>1, <2>2
    DEF Gui, MonitorAnswers, CheckTimesOut, StarterDone, Retry, DestroyClient, JoinThread,
        guiVars, gateVars
<1>3. ASSUME NEW t \in Threads, ThreadStep(t) PROVE FlagType'
  BY <1>3 DEF ThreadStep, Connected, ConnectFails, Sends, SendFails, ReadsVerdict, ReadFails,
              Releases, guiVars, gateVars
<1>4. CASE Target
  BY <1>4 DEF Target, DispatcherStarts, KillLands, DispatcherCrashes, Accepts, Replies,
              TearsDown, guiVars, gateVars
<1>5. CASE UNCHANGED vars
  BY <1>5 DEF vars, guiVars, gateVars
<1> QED
  BY <1>1, <1>2, <1>3, <1>4, <1>5 DEF Next

LEMMA ClientTypeStep == TypeOK /\ [Next]_vars => ClientType'
<1> SUFFICES ASSUME ClientType, [Next]_vars PROVE ClientType'
  BY DEF TypeOK
<1>d. Disconnect => ClientType'
  BY DisconnectType
<1>e. Declare => ClientType'
  BY DeclareType
<1>u. UNCHANGED clientVars => ClientType'
  BY DEF ClientType, clientVars
<1>1. CASE User
  BY <1>1, <1>d, <1>e, <1>u
  DEF User, Play, Pause, Stop, Configure, CloseWindow, StopSession, TargetFound
<1>2. CASE Gui
  <2>1. CASE DestroyClient
    BY <2>1 DEF DestroyClient, ShutDown, ClientType
  <2> QED
    BY <1>2, <1>d, <1>e, <1>u, <2>1
    DEF Gui, MonitorAnswers, CheckTimesOut, VersionAnswer, DeclareCompletes, DeclareFailed, DeclareRejected,
        DeclareReady, StarterDone, Retry,
        JoinThread, StopSession, TargetFound
<1>3. ASSUME NEW t \in Threads, ThreadStep(t) PROVE ClientType'
  <2> USE DEF ClientType
  <2>1. CASE Connected(t) \/ ConnectFails(t)
    BY <2>1 DEF Connected, ConnectFails
  <2>2. CASE Sends(t) \/ SendFails(t) \/ ReadsVerdict(t)
    BY <2>2 DEF Sends, SendFails, ReadsVerdict
  <2>3. CASE ReadFails(t)
    BY <2>3 DEF ReadFails
  <2>4. CASE Releases(t)
    <3>1. conn' \in [Threads -> ConnStates]
      BY <2>4 DEF Releases
    <3> QED
      BY <2>4, <3>1 DEF Releases
  <2> QED
    BY <1>3, <2>1, <2>2, <2>3, <2>4 DEF ThreadStep
<1>4. CASE Target
  <2>1. CASE KillLands \/ DispatcherCrashes
    BY <2>1, <1>u DEF KillLands, DispatcherCrashes, Dies, ClientType, clientVars
  <2> QED
    BY <1>4, <1>u, <2>1 DEF Target, DispatcherStarts, Accepts, Replies, TearsDown
<1>5. CASE UNCHANGED vars
  BY <1>5, <1>u DEF vars
<1> QED
  BY <1>1, <1>2, <1>3, <1>4, <1>5 DEF Next

LEMMA TargetTypeStep == TypeOK /\ [Next]_vars => TargetType'
<1> SUFFICES ASSUME TargetType, [Next]_vars PROVE TargetType'
  BY DEF TypeOK
<1>u. UNCHANGED <<callback, mixups, dispatcherVars>> => TargetType'
  BY DEF TargetType, dispatcherVars
<1>1. CASE User
  BY <1>1, <1>u DEF User, Play, Pause, Stop, Configure, CloseWindow
<1>2. CASE Gui
  <2>1. ASSUME NEW t \in Threads, DeclareCompletes(t) PROVE TargetType'
    BY <2>1 DEF DeclareCompletes, DeclareFailed, DeclareRejected, DeclareReady, TargetType, dispatcherVars
  <2> QED
    BY <1>2, <1>u, <2>1
    DEF Gui, MonitorAnswers, CheckTimesOut, VersionAnswer, StarterDone, Retry, DestroyClient,
        JoinThread
<1>3. ASSUME NEW t \in Threads, ThreadStep(t) PROVE TargetType'
  <2> USE DEF TargetType, dispatcherVars
  <2>1. CASE Connected(t)
    BY <2>1 DEF Connected
  <2>2. CASE ConnectFails(t)
    BY <2>2 DEF ConnectFails
  <2>3. CASE Sends(t)
    BY <2>3 DEF Sends
  <2>4. CASE SendFails(t) \/ ReadFails(t)
    BY <2>4 DEF SendFails, ReadFails
  <2>5. CASE ReadsVerdict(t)
    BY <2>5 DEF ReadsVerdict
  <2>6. CASE Releases(t)
    <3>1. callback' \in [Threads -> {"none", "failed"} \cup Verdicts]
      BY <2>6 DEF Releases
    <3>2. mixups' \subseteq {"lateStore", "reusedNumber"}
      BY <2>6 DEF Releases
    <3> QED
      BY <2>6, <3>1, <3>2 DEF Releases
  <2> QED
    BY <1>3, <2>1, <2>2, <2>3, <2>4, <2>5, <2>6 DEF ThreadStep
<1>4. CASE Target
  <2>1. Dies => up' = FALSE /\ backlog' = <<>> /\ serving' = NoThread
    BY DEF Dies
  <2>2. <<>> \in Seq(Threads)
    OBVIOUS
  <2> USE DEF TargetType
  <2>3. CASE DispatcherStarts
    BY <2>3 DEF DispatcherStarts
  <2>4. CASE KillLands
    BY <2>1, <2>2, <2>4 DEF KillLands
  <2>5. CASE DispatcherCrashes
    BY <2>1, <2>2, <2>5 DEF DispatcherCrashes
  <2>6. CASE Accepts
    BY <2>6 DEF Accepts
  <2>7. ASSUME NEW v \in Verdicts, Replies(v) PROVE TargetType'
    BY <2>7 DEF Replies
  <2>8. CASE TearsDown
    BY <2>8 DEF TearsDown
  <2> QED
    BY <1>4, <2>3, <2>4, <2>5, <2>6, <2>7, <2>8 DEF Target
<1>5. CASE UNCHANGED vars
  BY <1>5, <1>u DEF vars
<1> QED
  BY <1>1, <1>2, <1>3, <1>4, <1>5 DEF Next

(* Every variable of the control session keeps its type.                   *)
THEOREM TypeCorrect == Spec => []TypeOK
<1>1. TypeOK /\ [Next]_vars => TypeOK'
  BY FlagTypeStep, GuiTypeStep, ClientTypeStep, TargetTypeStep DEF TypeOK
<1> QED
  BY TypeInit, <1>1, PTL DEF Spec

-----------------------------------------------------------------------------
(* The descriptors.                                                        *)

(* A thread that has not stored its descriptor yet is still connecting:    *)
(* nobody else could close it.  No two open connections share a number,    *)
(* and every open one has a real number.                                   *)
Descriptors ==
  /\ \A t \in Threads : phase[t] = "connecting" => conn[t] = "connecting"
  /\ \A t, u \in Threads : Named(t) /\ Named(u) /\ fdOf[t] = fdOf[u] => t = u
  /\ \A t \in Threads : Named(t) => fdOf[t] \in Fds

ClientInv == Descriptors /\ StoredFdIsLive /\ LeakOnlyByMixup

LEMMA ClientInit == Init => ClientInv
BY DEF Init, ClientInv, Descriptors, StoredFdIsLive, LeakOnlyByMixup, Named, Live

(* The stored number is that of one established connection, so             *)
(* shutdownSocket() leaves every connecting thread alone, and without a    *)
(* mix-up it leaves nothing open.                                          *)
LEMMA ShutDownEffect ==
  ASSUME ClientType, ClientInv
  PROVE  /\ ShutDown \in [Threads -> ConnStates]
         /\ \A t \in Threads : ShutDown[t] \in {conn[t], "closed"}
         /\ \A t \in Threads : conn[t] = "connecting" => ShutDown[t] = "connecting"
         /\ mixups = {} => \A t \in Threads : ShutDown[t] \notin {"open", "peerClosed"}
<1>1. ASSUME NEW t \in Threads, conn[t] = "connecting" PROVE ~Holds(t, socketFd)
  <2>1. CASE socketFd = NoFd
    BY <1>1, <2>1, FdsAssumption DEF ClientInv, Descriptors, Holds, Named
  <2>2. CASE socketFd # NoFd
    BY <1>1, <2>2 DEF ClientInv, Descriptors, StoredFdIsLive, Holds, Named, Live
  <2> QED
    BY <2>1, <2>2
<1>2. ASSUME NEW t \in Threads, mixups = {}, conn[t] \in {"open", "peerClosed"}
      PROVE  Holds(t, socketFd)
  BY <1>2 DEF ClientInv, LeakOnlyByMixup, Holds, Named, Live
<1> QED
  BY <1>1, <1>2 DEF ClientType, ShutDown

LEMMA DisconnectInv ==
  ASSUME ClientType, ClientInv, Disconnect, mixups' = mixups
  PROVE  ClientInv'
<1>1. Descriptors'
  BY ShutDownEffect DEF Disconnect, ClientInv, Descriptors, Named
<1>2. StoredFdIsLive' /\ LeakOnlyByMixup'
  BY ShutDownEffect DEF Disconnect, StoredFdIsLive, LeakOnlyByMixup, Live
<1> QED
  BY <1>1, <1>2 DEF ClientInv

LEMMA DeclareInv ==
  ASSUME ClientType, ClientInv, Declare, mixups' = mixups
  PROVE  ClientInv'
<1> DEFINE t == declares + 1
           inUse == {fdOf[u] : u \in {v \in Threads : ShutDown[v] \in {"connecting", "open", "peerClosed"}}}
<1>1. PICK n \in Fds \ inUse :
         /\ t \in Threads /\ declares' = t /\ thread' = t /\ socketFd' = NoFd
         /\ phase' = [phase EXCEPT ![t] = "connecting"]
         /\ fdOf' = [fdOf EXCEPT ![t] = n]
         /\ conn' = [ShutDown EXCEPT ![t] = "connecting"]
  BY DEF Declare
<1> HIDE DEF t
<1>2. /\ conn'[t] = "connecting" /\ fdOf'[t] = n
      /\ \A u \in Threads \ {t} : conn'[u] = ShutDown[u] /\ fdOf'[u] = fdOf[u] /\ phase'[u] = phase[u]
  BY <1>1, ShutDownEffect DEF ClientType
<1>3. \A u \in Threads \ {t} : Named(u)' => Named(u) /\ fdOf[u] \in inUse
  BY <1>2, ShutDownEffect DEF Named
<1>4. Descriptors'
  <2>1. \A u \in Threads : phase'[u] = "connecting" => conn'[u] = "connecting"
    BY <1>2, ShutDownEffect DEF ClientInv, Descriptors
  <2>2. \A u \in Threads : Named(u)' => fdOf'[u] \in Fds
    BY <1>1, <1>2, <1>3 DEF ClientInv, Descriptors
  <2>3. ASSUME NEW u \in Threads, NEW w \in Threads, Named(u)', Named(w)', fdOf'[u] = fdOf'[w]
        PROVE  u = w
    BY <1>1, <1>2, <1>3, <2>3 DEF ClientInv, Descriptors
  <2> QED
    BY <2>1, <2>2, <2>3 DEF Descriptors
<1>5. StoredFdIsLive' /\ LeakOnlyByMixup'
  BY <1>1, <1>2, ShutDownEffect DEF StoredFdIsLive, LeakOnlyByMixup, Live
<1> QED
  BY <1>4, <1>5 DEF ClientInv

LEMMA ClientInvStep == TypeOK /\ ClientInv /\ [Next]_vars => ClientInv'
<1> SUFFICES ASSUME ClientType, ClientInv, [Next]_vars PROVE ClientInv'
  BY DEF TypeOK
<1>d. Disconnect /\ mixups' = mixups => ClientInv'
  BY DisconnectInv
<1>e. Declare /\ mixups' = mixups => ClientInv'
  BY DeclareInv
<1>u. UNCHANGED <<clientVars, mixups>> => ClientInv'
  BY DEF clientVars, ClientInv, Descriptors, StoredFdIsLive, LeakOnlyByMixup, Named, Live
<1>1. CASE User
  BY <1>1, <1>d, <1>e, <1>u
  DEF User, Play, Pause, Stop, Configure, CloseWindow, StopSession, TargetFound
<1>2. CASE Gui
  <2>1. CASE DestroyClient
    <3>1. Descriptors'
      BY <2>1, ShutDownEffect DEF DestroyClient, ClientInv, Descriptors, Named
    <3>2. StoredFdIsLive' /\ LeakOnlyByMixup'
      BY <2>1, ShutDownEffect DEF DestroyClient, StoredFdIsLive, LeakOnlyByMixup, Live
    <3> QED
      BY <3>1, <3>2 DEF ClientInv
  <2> QED
    BY <1>2, <1>d, <1>e, <1>u, <2>1
    DEF Gui, MonitorAnswers, CheckTimesOut, VersionAnswer, DeclareCompletes, DeclareFailed, DeclareRejected,
        DeclareReady, StarterDone, Retry,
        JoinThread, StopSession, TargetFound
<1>3. ASSUME NEW t \in Threads, ThreadStep(t) PROVE ClientInv'
  <2> USE DEF ClientType, ClientInv, Descriptors, StoredFdIsLive, LeakOnlyByMixup, Named, Live
  <2>1. CASE Connected(t)
    BY <2>1 DEF Connected, At
  <2>2. CASE ConnectFails(t)
    BY <2>2, FdsAssumption DEF ConnectFails, At
  <2>3. CASE Sends(t) \/ SendFails(t) \/ ReadsVerdict(t)
    BY <2>3 DEF Sends, SendFails, ReadsVerdict
  <2>4. CASE ReadFails(t)
    BY <2>4 DEF ReadFails
  <2>5. CASE Releases(t)
    <3>1. phase' = [phase EXCEPT ![t] = "done"]
      BY <2>5 DEF Releases
    <3>2. CASE socketFd # fdOf[t]
      BY <2>5, <3>1, <3>2 DEF Releases
    <3>3. CASE socketFd = fdOf[t]
      <4>1. \A u \in Threads : Holds(u, socketFd) => conn[u] # "connecting"
        BY FdsAssumption DEF Holds
      <4>2. \A u \in Threads : conn'[u] = conn[u] \/ (Holds(u, socketFd) /\ conn'[u] \in {"severed", "closed"})
        BY <2>5, <3>3 DEF Releases
      <4>3. \A u \in Threads : Named(u)' => Named(u) /\ fdOf'[u] = fdOf[u] /\ ~Holds(u, socketFd)
        BY <2>5, <3>3, <4>2 DEF Releases
      <4>4. socketFd' = NoFd /\ thread' = thread
        BY <2>5, <3>3 DEF Releases
      <4>5. mixups' = {} => mixups = {}
        BY <2>5, <3>3 DEF Releases
      <4>6. LeakOnlyByMixup'
        BY <4>2, <4>3, <4>5 DEF Holds
      <4> QED
        BY <3>1, <4>1, <4>2, <4>3, <4>4, <4>6
    <3> QED
      BY <3>2, <3>3
  <2> QED
    BY <1>3, <2>1, <2>2, <2>3, <2>4, <2>5 DEF ThreadStep
<1>4. CASE Target
  <2>1. CASE KillLands \/ DispatcherCrashes
    <3>1. CASE Dies
      BY <2>1, <3>1 DEF KillLands, DispatcherCrashes, Dies, ClientType, ClientInv, Descriptors,
                        StoredFdIsLive, LeakOnlyByMixup, Named, Live
    <3> QED
      BY <2>1, <1>u, <3>1 DEF KillLands, DispatcherCrashes, clientVars
  <2> QED
    BY <1>4, <1>u, <2>1 DEF Target, DispatcherStarts, Accepts, Replies, TearsDown
<1>5. CASE UNCHANGED vars
  BY <1>5, <1>u DEF vars
<1> QED
  BY <1>1, <1>2, <1>3, <1>4, <1>5 DEF Next

LEMMA ClientAlways == Spec => []ClientInv
BY TypeCorrect, ClientInit, ClientInvStep, PTL DEF Spec

(* shutdownSocket() only ever closes a number that still is one of the     *)
(* client's own connections.                                               *)
THEOREM StoredFdLive == Spec => []StoredFdIsLive
<1>1. ClientInv => StoredFdIsLive
  BY DEF ClientInv
<1> QED
  BY ClientAlways, <1>1, PTL

(* A connection gets out of the client's reach only by a mix-up.           *)
THEOREM LeaksAreMixups == Spec => []LeakOnlyByMixup
<1>1. ClientInv => LeakOnlyByMixup
  BY DEF ClientInv
<1> QED
  BY ClientAlways, <1>1, PTL

-----------------------------------------------------------------------------
(* The session, as the GUI thread sees it.                                 *)

SessionInv == IdleIsQuiet /\ CheckIsASession /\ NoSessionOnMismatch

LEMMA SessionInit == Init => SessionInv
BY DEF Init, SessionInv, IdleIsQuiet, CheckIsASession, NoSessionOnMismatch

LEMMA SessionStep == TypeOK /\ SessionInv /\ [Next]_vars => SessionInv'
<1> SUFFICES ASSUME FlagType, GuiType, SessionInv, [Next]_vars PROVE SessionInv'
  BY DEF TypeOK
<1> USE DEF SessionInv, IdleIsQuiet, CheckIsASession, NoSessionOnMismatch
<1>s. StopSession => state' = "Idle" /\ tile' = "idle" /\ ~streaming' /\ stats' = 0 /\ ~checking'
  BY DEF StopSession
<1>t. TargetFound => tile' = "confirming"
  BY DEF TargetFound
<1>u. UNCHANGED <<guiVars, gateVars>> => SessionInv'
  BY DEF guiVars, gateVars
<1>1. CASE User
  <2>1. CASE Play
    BY <1>s, <1>t, <2>1 DEF Play, FlagType
  <2>2. CASE Pause
    BY <2>2 DEF Pause, gateVars
  <2>3. CASE Stop
    BY <1>s, <2>3 DEF Stop
  <2>4. CASE Configure
    BY <2>4 DEF Configure
  <2>5. CASE CloseWindow
    BY <2>5 DEF CloseWindow
  <2> QED
    BY <1>1, <2>1, <2>2, <2>3, <2>4, <2>5 DEF User
<1>2. CASE Gui
  <2>1. ASSUME NEW r \in PingAnswers, MonitorAnswers(r) PROVE SessionInv'
    BY <1>s, <1>t, <2>1 DEF MonitorAnswers, guiVars
  <2>2. CASE CheckTimesOut
    BY <1>s, <2>2 DEF CheckTimesOut
  <2>3. ASSUME NEW answer \in ProbeAnswers, VersionAnswer(answer) PROVE SessionInv'
    <3>1. CASE answer = "other" /\ state \in {"Playing", "Paused"}
      BY <1>s, <2>3, <3>1 DEF VersionAnswer
    <3>2. CASE ~(answer = "other" /\ state \in {"Playing", "Paused"})
      BY <2>3, <3>2 DEF VersionAnswer, guiVars, GuiType
    <3> QED
      BY <3>1, <3>2
  <2>4. ASSUME NEW t \in Threads, DeclareCompletes(t) PROVE SessionInv'
    BY <2>4 DEF DeclareCompletes, DeclareFailed, DeclareRejected, DeclareReady, guiVars, gateVars
  <2>5. CASE StarterDone \/ Retry
    BY <1>u, <2>5 DEF StarterDone, Retry
  <2>6. CASE DestroyClient \/ JoinThread
    BY <2>6 DEF DestroyClient, JoinThread, gateVars
  <2> QED
    BY <1>2, <2>1, <2>2, <2>3, <2>4, <2>5, <2>6 DEF Gui
<1>3. ASSUME NEW t \in Threads, ThreadStep(t) PROVE SessionInv'
  BY <1>3, <1>u DEF ThreadStep, Connected, ConnectFails, Sends, SendFails, ReadsVerdict,
                    ReadFails, Releases
<1>4. CASE Target
  BY <1>4, <1>u DEF Target, DispatcherStarts, KillLands, DispatcherCrashes, Accepts, Replies,
                    TearsDown
<1>5. CASE UNCHANGED vars
  BY <1>5, <1>u DEF vars
<1> QED
  BY <1>1, <1>2, <1>3, <1>4, <1>5 DEF Next

LEMMA SessionAlways == Spec => []SessionInv
BY TypeCorrect, SessionInit, SessionStep, PTL DEF Spec

(* Nothing of an ended session comes back at Idle, however late.           *)
THEOREM IdleQuiet == Spec => []IdleIsQuiet
<1>1. SessionInv => IdleIsQuiet
  BY DEF SessionInv
<1> QED
  BY SessionAlways, <1>1, PTL

(* A dispatcher known to speak another protocol never has a session.       *)
THEOREM MismatchBlocks == Spec => []NoSessionOnMismatch
<1>1. SessionInv => NoSessionOnMismatch
  BY DEF SessionInv
<1> QED
  BY SessionAlways, <1>1, PTL

-----------------------------------------------------------------------------
(* The retry budget.                                                       *)

(* What a press may still lead to: the declaration of an open check, and   *)
(* the automatic retry while it has not been spent.                        *)
Owed == IF checking THEN 1 ELSE 0
Spare == IF startAttempted \/ plays = 0 THEN 0 ELSE 1

BudgetInv ==
  /\ declares + starters + retries + Owed + Spare <= 2 * plays
  /\ state # "Idle" => plays > 0

LEMMA PlaySpends ==
  ASSUME NEW d \in Nat, NEW d2 \in Nat, NEW a \in Nat, NEW b \in Nat, NEW p \in Nat,
         NEW o \in {0, 1}, NEW o2 \in {0, 1}, NEW x \in {0, 1}, NEW x2 \in {0, 1},
         d2 + o2 <= d + o + 1, d + a + b + o + x <= 2 * p
  PROVE  d2 + a + b + o2 + x2 <= 2 * (p + 1)
OBVIOUS

LEMMA BudgetInit == Init => BudgetInv
BY DEF Init, BudgetInv, Owed, Spare

LEMMA BudgetStep == TypeOK /\ BudgetInv /\ [Next]_vars => BudgetInv'
<1> SUFFICES ASSUME GuiType, FlagType, declares \in Nat, BudgetInv, [Next]_vars PROVE BudgetInv'
  BY DEF TypeOK, ClientType
<1> USE DEF GuiType
<1>o. Owed \in {0, 1} /\ Spare \in {0, 1} /\ Owed' \in {0, 1} /\ Spare' \in {0, 1}
  BY DEF Owed, Spare
<1>p. plays \in Nat
  BY BoundsAssumption
<1>s. StopSession => state' = "Idle" /\ Owed' = 0 /\ declares' = declares
  BY DEF StopSession, Disconnect, Owed
<1>d. Declare => declares' = declares + 1
  BY DEF Declare
<1>w. UNCHANGED <<startAttempted, plays>> => Spare' = Spare
  BY DEF Spare
<1>c. checking' = checking => Owed' = Owed
  BY DEF Owed
<1>u. UNCHANGED <<state, startAttempted, plays, checking, declares, starters, retries>> => BudgetInv'
  BY <1>w, <1>c DEF BudgetInv
<1>1. CASE User
  <2>1. CASE Play
    <3>1. plays' = plays + 1 /\ starters' = starters /\ retries' = retries
      BY <2>1 DEF Play
    <3>2. declares' + Owed' <= declares + Owed + 1
      BY <2>1, <1>s, <1>d, <1>c, <1>o DEF Play, TargetFound, clientVars, Owed
    <3>3. declares' \in Nat
      BY <2>1, <1>s, <1>d DEF Play, TargetFound, clientVars
    <3>4. declares + starters + retries + Owed + Spare <= 2 * plays
      BY DEF BudgetInv
    <3>5. declares' + starters + retries + Owed' + Spare' <= 2 * (plays + 1)
      BY <3>2, <3>3, <3>4, <1>o, <1>p, PlaySpends
    <3> QED
      BY <3>1, <3>5, <1>p DEF BudgetInv
  <2>2. CASE Stop
    BY <2>2, <1>s, <1>o, <1>w, <1>p DEF Stop, BudgetInv
  <2>3. CASE CloseWindow
    <3>1. Owed' = 0
      BY <2>3 DEF CloseWindow, Owed
    <3> QED
      BY <2>3, <3>1, <1>o, <1>w, <1>p DEF CloseWindow, Disconnect, asyncVars, BudgetInv
  <2>4. CASE Pause
    <3>1. state = "Playing"
      BY <2>4 DEF Pause
    <3> QED
      BY <2>4, <3>1, <1>w, <1>c DEF Pause, gateVars, asyncVars, clientVars, BudgetInv
  <2> QED
    BY <1>1, <1>u, <2>1, <2>2, <2>3, <2>4 DEF User, Configure, asyncVars, clientVars
<1>2. CASE Gui
  <2>1. ASSUME NEW r \in PingAnswers, MonitorAnswers(r) PROVE BudgetInv'
    <3>1. CASE ~checking
      BY <2>1, <3>1, <1>u DEF MonitorAnswers, guiVars, clientVars
    <3>2. CASE checking /\ r = "Reachable"
      <4>1. Owed = 1 /\ Owed' = 0
        BY <2>1, <3>2 DEF MonitorAnswers, Owed
      <4>2. declares' = declares + 1
        BY <2>1, <3>2, <1>d DEF MonitorAnswers, TargetFound
      <4> QED
        BY <2>1, <3>2, <4>1, <4>2, <1>o, <1>p, <1>w DEF MonitorAnswers, BudgetInv
    <3>3. CASE checking /\ r = "Unreachable"
      BY <2>1, <3>3, <1>s, <1>o, <1>p, <1>w DEF MonitorAnswers, BudgetInv
    <3> QED
      BY <3>1, <3>2, <3>3, AnswersAssumption
  <2>2. CASE CheckTimesOut
    BY <2>2, <1>s, <1>o, <1>w, <1>p DEF CheckTimesOut, BudgetInv
  <2>3. ASSUME NEW answer \in ProbeAnswers, VersionAnswer(answer) PROVE BudgetInv'
    <3>1. CASE answer = "other" /\ state \in {"Playing", "Paused"}
      BY <2>3, <3>1, <1>s, <1>o, <1>w, <1>p DEF VersionAnswer, BudgetInv
    <3>2. CASE ~(answer = "other" /\ state \in {"Playing", "Paused"})
      BY <2>3, <3>2, <1>u DEF VersionAnswer, guiVars, clientVars
    <3> QED
      BY <3>1, <3>2
  <2>4. ASSUME NEW t \in Threads, DeclareCompletes(t) PROVE BudgetInv'
    <3>1. declares' = declares /\ retries' = retries /\ state' = state /\ plays' = plays /\ Owed' = Owed
      BY <2>4, <1>c DEF DeclareCompletes, DeclareFailed, DeclareRejected, DeclareReady, Disconnect, clientVars, guiVars, gateVars
    <3>2. CASE startAttempted' = startAttempted /\ starters' = starters
      BY <3>1, <3>2, <1>w DEF BudgetInv
    <3>3. CASE state = "Playing" /\ ~startAttempted /\ startAttempted' = TRUE /\ starters' = starters + 1
      <4>1. plays > 0
        BY <3>3 DEF BudgetInv
      <4>2. Spare = 1 /\ Spare' = 0
        BY <3>1, <3>3, <4>1, <1>p DEF Spare
      <4> QED
        BY <3>1, <3>3, <4>1, <4>2, <1>o, <1>p DEF BudgetInv
    <3> QED
      BY <2>4, <3>2, <3>3 DEF DeclareCompletes, DeclareFailed, DeclareRejected, DeclareReady, guiVars
  <2>5. CASE StarterDone
    BY <2>5, <1>w, <1>c, <1>o, <1>p DEF StarterDone, guiVars, gateVars, clientVars, BudgetInv
  <2>6. CASE Retry
    BY <2>6, <1>d, <1>w, <1>c, <1>o, <1>p DEF Retry, guiVars, gateVars, clientVars, BudgetInv
  <2>7. CASE DestroyClient \/ JoinThread
    BY <2>7, <1>u DEF DestroyClient, JoinThread, gateVars, asyncVars, clientVars
  <2> QED
    BY <1>2, <2>1, <2>2, <2>3, <2>4, <2>5, <2>6, <2>7 DEF Gui
<1>3. ASSUME NEW t \in Threads, ThreadStep(t) PROVE BudgetInv'
  BY <1>3, <1>u DEF ThreadStep, Connected, ConnectFails, Sends, SendFails, ReadsVerdict,
                    ReadFails, Releases, guiVars, gateVars, asyncVars
<1>4. CASE Target
  BY <1>4, <1>u DEF Target, DispatcherStarts, KillLands, DispatcherCrashes, Accepts, Replies,
                    TearsDown, guiVars, gateVars, asyncVars, clientVars
<1>5. CASE UNCHANGED vars
  BY <1>5, <1>u DEF vars, guiVars, gateVars, asyncVars, clientVars
<1> QED
  BY <1>1, <1>2, <1>3, <1>4, <1>5 DEF Next

(* A Play press never leads to more than one declaration and one retry.    *)
THEOREM BudgetKept == Spec => []RetryBudget
<1>1. TypeOK /\ BudgetInv => RetryBudget
  <2>1. Owed \in {0, 1} /\ Spare \in {0, 1}
    BY DEF Owed, Spare
  <2> QED
    BY <2>1, BoundsAssumption DEF TypeOK, GuiType, ClientType, BudgetInv, RetryBudget
<1> QED
  BY TypeCorrect, BudgetInit, BudgetStep, <1>1, PTL DEF Spec

-----------------------------------------------------------------------------
(* The client and the playback state as OneConnection has them.            *)

(* Only a session has a thread to call upon; threads are numbered in the   *)
(* order of their declarations, and one that runs has a descriptor number. *)
AttemptInv ==
  /\ state = "Idle" => thread = NoThread
  /\ \A t \in Threads : t > declares => phase[t] = "unborn" /\ conn[t] = "none"
  /\ \A t \in Threads : phase[t] \notin {"unborn", "done"} => fdOf[t] \in Fds

Dialling == {t \in Threads : phase[t] = "connecting"}
Running == {t \in Threads : phase[t] \notin {"unborn", "done"}}
Held == {t \in Threads : Live(t)}
Latest == {t \in Threads : Live(t) /\ fdOf[t] = socketFd}

LEMMA AttemptInit == Init => AttemptInv
  BY DEF Init, AttemptInv

\* What runs is one of the attempts made.
LEMMA RunningAreAttempts ==
  ASSUME ClientType, AttemptInv
  PROVE  Running \subseteq 1..declares
BY DEF AttemptInv, ClientType, Running, Threads

\* shutdownSocket() ends the latest connection and no other one.
LEMMA ShutDownEndsLatest ==
  ASSUME ClientType, ClientInv
  PROVE  /\ \A t \in Threads : ShutDown[t] \in {"open", "peerClosed"} <=> t \in Held \ Latest
         /\ \A t \in Threads : conn[t] = "none" => ShutDown[t] = "none"
BY DEF ShutDown, Holds, Named, Held, Latest, Live

\* disconnect() lets go of the latest connection and of the thread.
LEMMA DisconnectLetsGo ==
  ASSUME ClientType, ClientInv, ClientInv', AttemptInv, Disconnect
  PROVE  /\ thread' = 0 /\ UNCHANGED <<declares, fdOf, phase, Dialling, Running>>
         /\ Held' = Held \ Latest /\ Latest' = {}
         /\ \A t \in Threads : t > declares => phase'[t] = "unborn" /\ conn'[t] = "none"
<1>1. /\ thread' = 0 /\ UNCHANGED <<declares, fdOf, phase>> /\ conn' = ShutDown
      /\ socketFd' = NoFd
  BY DEF Disconnect
<1>2. Held' = Held \ Latest
  BY <1>1, ShutDownEndsLatest DEF Held, Live
<1>3. Latest' = {}
  BY <1>1, FdsAssumption DEF ClientInv, Descriptors, Latest, Live, Named
<1> QED
  BY <1>1, <1>2, <1>3, ShutDownEndsLatest DEF Dialling, Running, AttemptInv

\* declareAsync() lets go likewise, and makes the next attempt.
LEMMA DeclareDials ==
  ASSUME ClientType, ClientInv, ClientInv', AttemptInv, Declare
  PROVE  /\ declares' = declares + 1 /\ thread' = declares'
         /\ Dialling' = Dialling \cup {thread'} /\ Running' = Running \cup {thread'}
         /\ Held' = Held \ Latest /\ Latest' = {}
         /\ \A t \in Threads : t > declares' => phase'[t] = "unborn" /\ conn'[t] = "none"
         /\ \A t \in Threads : phase'[t] \notin {"unborn", "done"} => fdOf'[t] \in Fds
<1> PICK t \in Threads : t = declares + 1
  BY DEF Declare
<1>1. /\ declares' = t /\ thread' = t /\ socketFd' = NoFd
      /\ phase' = [phase EXCEPT ![t] = "connecting"]
      /\ conn' = [ShutDown EXCEPT ![t] = "connecting"]
  BY DEF Declare
<1>2. /\ phase'[t] = "connecting" /\ conn'[t] = "connecting"
      /\ \A u \in Threads : u # t => phase'[u] = phase[u] /\ conn'[u] = ShutDown[u]
  BY <1>1, ShutDownEffect DEF ClientType
<1>3. Dialling' = Dialling \cup {t} /\ Running' = Running \cup {t}
  BY <1>2 DEF Dialling, Running
<1>4. conn[t] = "none"
  BY DEF AttemptInv, ClientType
<1>5. Held' = Held \ Latest
  <2>1. t \notin Held /\ t \notin Held'
    BY <1>2, <1>4 DEF Held, Live
  <2>2. \A u \in Threads : u # t => (u \in Held' <=> ShutDown[u] \in {"open", "peerClosed"})
    BY <1>2 DEF Held, Live
  <2>3. Held \subseteq Threads /\ Held' \subseteq Threads
    BY DEF Held
  <2> QED
    BY <2>1, <2>2, <2>3, ShutDownEndsLatest
<1>6. Latest' = {}
  BY <1>1, FdsAssumption DEF ClientInv, Descriptors, Latest, Live, Named
<1>7. \A u \in Threads : u > t => phase'[u] = "unborn" /\ conn'[u] = "none"
  <2>1. \A u \in Threads : u > t => u # t /\ u > declares
    BY DEF Threads, ClientType
  <2> QED
    BY <1>2, <2>1, ShutDownEndsLatest DEF AttemptInv
<1>8. \A u \in Threads : phase'[u] \notin {"unborn", "done"} => fdOf'[u] \in Fds
  <2>1. PICK n \in Fds : fdOf' = [fdOf EXCEPT ![t] = n]
    BY DEF Declare
  <2> QED
    BY <1>2, <2>1 DEF ClientType, AttemptInv
<1> QED
  BY <1>1, <1>3, <1>5, <1>6, <1>7, <1>8

LEMMA AttemptStep ==
  TypeOK /\ ClientInv /\ SessionInv /\ AttemptInv /\ [Next]_vars => AttemptInv'
<1> SUFFICES ASSUME TypeOK, ClientInv, SessionInv, AttemptInv, [Next]_vars PROVE AttemptInv'
  OBVIOUS
<1> ClientType /\ GuiType /\ ClientInv'
  BY ClientInvStep DEF TypeOK
<1>d. Disconnect => AttemptInv'
  BY DisconnectLetsGo DEF AttemptInv
<1>e. Declare /\ state' = "Playing" => AttemptInv'
  BY DeclareDials DEF AttemptInv
<1>u. UNCHANGED clientVars /\ (state' = "Idle" => state = "Idle") => AttemptInv'
  BY DEF AttemptInv, clientVars
<1>s. StopSession => Disconnect
  BY DEF StopSession
<1>t. TargetFound => Declare
  BY DEF TargetFound
<1>1. CASE User
  BY <1>1, <1>d, <1>e, <1>u, <1>s, <1>t
     DEF User, Play, Pause, Stop, Configure, CloseWindow
<1>2. CASE Gui
  <2>1. ASSUME NEW r \in PingAnswers, MonitorAnswers(r) PROVE AttemptInv'
    BY <2>1, <1>d, <1>e, <1>u, <1>s, <1>t
       DEF MonitorAnswers, guiVars, SessionInv, CheckIsASession
  <2>2. ASSUME NEW t \in Threads, DeclareCompletes(t) PROVE AttemptInv'
    BY <2>2, <1>d, <1>u
       DEF DeclareCompletes, DeclareFailed, DeclareRejected, DeclareReady
  <2>3. CASE DestroyClient
    <3>1. \A t \in Threads : conn[t] = "none" => conn'[t] = "none"
      BY <2>3 DEF DestroyClient, ShutDown, Holds, Named
    <3> QED
      BY <2>3, <3>1 DEF DestroyClient, AttemptInv
  <2>4. CASE Retry
    BY <2>4, <1>e, <1>u DEF Retry, guiVars
  <2>5. CASE StarterDone \/ JoinThread
    BY <2>5, <1>u DEF StarterDone, JoinThread, guiVars
  <2>6. ASSUME NEW answer \in ProbeAnswers, VersionAnswer(answer) PROVE AttemptInv'
    BY <2>6, <1>d, <1>u, <1>s DEF VersionAnswer, guiVars
  <2>7. CASE CheckTimesOut
    BY <2>7, <1>d, <1>s DEF CheckTimesOut
  <2> QED
    BY <1>2, <2>1, <2>2, <2>3, <2>4, <2>5, <2>6, <2>7 DEF Gui
<1>3. ASSUME NEW t \in Threads, ThreadStep(t) PROVE AttemptInv'
  <2>1. UNCHANGED <<state, declares, thread>>
    BY <1>3 DEF ThreadStep, Connected, ConnectFails, Sends, SendFails, ReadsVerdict,
                ReadFails, Releases, guiVars
  <2>2. phase[t] # "unborn"
    BY <1>3 DEF ThreadStep, Connected, ConnectFails, Sends, SendFails, ReadsVerdict,
                ReadFails, Releases, At
  <2>3. \A u \in Threads : u # t => phase'[u] = phase[u]
    BY <1>3 DEF ThreadStep, Connected, ConnectFails, Sends, SendFails, ReadsVerdict,
                ReadFails, Releases, ClientType
  <2>4. \A u \in Threads : u # t /\ conn[u] = "none" => conn'[u] = "none"
    <3>1. CASE Releases(t)
      BY <3>1 DEF Releases, Holds, Named
    <3> QED
      BY <1>3, <3>1 DEF ThreadStep, Connected, ConnectFails, Sends, SendFails, ReadsVerdict,
                        ReadFails, ClientType
  <2>5. \A u \in Threads : phase'[u] \notin {"unborn", "done"} => fdOf'[u] \in Fds
    BY <1>3 DEF ThreadStep, Connected, ConnectFails, Sends, SendFails, ReadsVerdict,
                ReadFails, Releases, At, ClientType, AttemptInv
  <2> QED
    BY <2>1, <2>2, <2>3, <2>4, <2>5 DEF AttemptInv
<1>4. CASE Target
  <2>1. CASE KillLands \/ DispatcherCrashes
    <3>1. /\ UNCHANGED <<state, declares, thread, phase, fdOf>>
          /\ \A u \in Threads : conn[u] = "none" => conn'[u] = "none"
      BY <2>1 DEF KillLands, DispatcherCrashes, Dies, guiVars
    <3> QED
      BY <3>1 DEF AttemptInv
  <2> QED
    BY <1>4, <1>u, <2>1 DEF Target, DispatcherStarts, Accepts, Replies, TearsDown, guiVars
<1>5. CASE UNCHANGED vars
  BY <1>5, <1>u DEF vars, guiVars
<1> QED
  BY <1>1, <1>2, <1>3, <1>4, <1>5 DEF Next

\* A thread of the client moves: what it has to do with its connection.
LEMMA ThreadConnects ==
  ASSUME TypeOK, ClientInv, ClientInv', AttemptInv, NEW t \in Threads, Connected(t)
  PROVE  Connection!Connect(t)
<1> ClientType
  BY DEF TypeOK
<1>1. /\ phase[t] = "connecting" /\ phase' = [phase EXCEPT ![t] = "sending"]
      /\ conn' = [conn EXCEPT ![t] = "open"]
      /\ socketFd' = fdOf[t]
      /\ UNCHANGED <<state, declares, thread, fdOf>>
  BY DEF Connected, At, guiVars
<1>2. t \in Dialling /\ Dialling' = Dialling \ {t} /\ Running' = Running
  BY <1>1 DEF ClientType, Dialling, Running
<1>3. Held' = Held \cup {t}
  BY <1>1 DEF ClientType, Held, Live
<1>4. Latest' = {t}
  <2>1. Live(t)'
    BY <1>1 DEF ClientType, Live
  <2> QED
    BY <1>1, <2>1 DEF ClientInv, Descriptors, Latest, Live, Named
<1>5. t = thread => state # "Idle"
  BY DEF AttemptInv, Threads
<1> QED
  BY <1>1, <1>2, <1>3, <1>4, <1>5 DEF Connection!Connect, Dialling, Running, Held, Latest

LEMMA ThreadOver ==
  ASSUME TypeOK, ClientInv, ClientInv', AttemptInv, NEW t \in Threads,
         ConnectFails(t) \/ Releases(t)
  PROVE  Connection!Over(t)
<1> ClientType
  BY DEF TypeOK
<1>1. /\ t \in Running /\ phase' = [phase EXCEPT ![t] = "done"]
      /\ UNCHANGED <<state, declares, thread>>
  BY DEF ConnectFails, Releases, At, guiVars, Running
<1>2. Running' = Running \ {t} /\ Dialling' = Dialling \ {t}
  BY <1>1 DEF ClientType, Dialling, Running
<1>3. \/ t \in Latest \cup (Threads \ Held) /\ Held' = Held \ Latest /\ Latest' = {}
      \/ t \notin Latest /\ UNCHANGED <<Held, Latest>>
  <2>1. CASE ConnectFails(t)
    <3>1. /\ conn' = [conn EXCEPT ![t] = "closed"] /\ conn[t] = "connecting"
          /\ fdOf' = [fdOf EXCEPT ![t] = NoFd] /\ UNCHANGED socketFd
      BY <2>1 DEF ConnectFails, At, ClientInv, Descriptors
    <3> QED
      BY <3>1 DEF ClientType, Held, Latest, Live
  <2>2. CASE Releases(t) /\ socketFd # fdOf[t]
    <3>1. /\ UNCHANGED <<conn, socketFd>> /\ t \notin Latest
          /\ fdOf' = [fdOf EXCEPT ![t] = IF conn[t] = "closed" THEN NoFd ELSE @]
      BY <2>2 DEF Releases, Latest
    <3> QED
      BY <3>1 DEF ClientType, Held, Latest, Live
  <2>3. CASE Releases(t) /\ socketFd = fdOf[t]
    <3>1. /\ socketFd' = NoFd
          /\ \A u \in Threads : IF Holds(u, fdOf[t]) THEN conn'[u] \in {"severed", "closed"}
                                ELSE conn'[u] = conn[u]
      BY <2>3 DEF Releases
    <3>2. Held' = Held \ Latest
      BY <2>3, <3>1 DEF Held, Latest, Live, Holds, Named
    <3>3. Latest' = {}
      BY <3>1, FdsAssumption DEF ClientInv, Descriptors, Latest, Live, Named
    <3>4. t \in Latest \cup (Threads \ Held)
      BY <2>3 DEF Held, Latest
    <3> QED
      BY <3>2, <3>3, <3>4
  <2> QED
    BY <2>1, <2>2, <2>3
<1> QED
  BY <1>1, <1>2, <1>3
     DEF Connection!Over, Connection!LetsGo, Connection!connections, Dialling, Running, Held, Latest

\* Every step of the client is a step of OneConnection or a stutter.
LEMMA ConnectionInit == Init => Connection!Init
  BY DEF Init, Connection!Init, Live

LEMMA ConnectionStep ==
  TypeOK /\ ClientInv /\ SessionInv /\ AttemptInv /\ [Next]_vars
    => [Connection!Next]_Connection!vars
<1> SUFFICES ASSUME TypeOK, ClientInv, SessionInv, AttemptInv, [Next]_vars
             PROVE  Connection!Next \/ UNCHANGED Connection!vars
  OBVIOUS
<1> ClientType /\ GuiType /\ ClientInv'
  BY ClientInvStep DEF TypeOK
<1>d. ASSUME Disconnect
      PROVE  /\ state' = "Idle" => Connection!Stop
             /\ state' = state => Connection!LetGo
  BY <1>d, DisconnectLetsGo
     DEF Connection!Stop, Connection!LetGo, Connection!LetsGo, Connection!attemptVars,
         Dialling, Running, Held, Latest
<1>e. ASSUME Declare, state' = "Playing" PROVE Connection!Dial
  BY <1>e, DeclareDials
     DEF Connection!Dial, Connection!LetsGo, Dialling, Running, Held, Latest
<1>u. ASSUME UNCHANGED <<declares, thread, Dialling, Running, Held, Latest>>
      PROVE  UNCHANGED <<declares, thread, {t \in Threads : phase[t] = "connecting"},
                         {t \in Threads : phase[t] \notin {"unborn", "done"}},
                         {t \in Threads : Live(t)},
                         {t \in Threads : Live(t) /\ fdOf[t] = socketFd}>>
  BY <1>u DEF Dialling, Running, Held, Latest
<1>v. ASSUME UNCHANGED <<declares, thread, Dialling, Running, Held, Latest, state>>
      PROVE  UNCHANGED Connection!vars
  BY <1>u, <1>v DEF Connection!vars
<1>w. UNCHANGED clientVars => UNCHANGED <<declares, thread, Dialling, Running, Held, Latest>>
  BY DEF clientVars, Dialling, Running, Held, Latest, Live
<1>s. StopSession => Disconnect /\ state' = "Idle"
  BY DEF StopSession
<1>t. TargetFound => Declare
  BY DEF TargetFound
<1>n. Connection!Dial \/ Connection!Begin \/ Connection!Pause \/ Connection!Stop
        \/ Connection!LetGo => Connection!Next
  BY DEF Connection!Next
<1>1. CASE Play
  <2>1. CASE reach = "Unknown"
    <3>1. state # "Playing" /\ state' = "Playing" /\ UNCHANGED clientVars
      BY <1>1, <2>1 DEF Play
    <3>2. Connection!Begin
      BY <1>u, <1>w, <3>1 DEF Connection!Begin, Connection!attemptVars, Connection!connections
    <3> QED
      BY <1>n, <3>2
  <2>2. CASE reach # "Unknown"
    BY <1>1, <1>d, <1>e, <1>s, <1>t, <1>n, <2>2 DEF Play
  <2> QED
    BY <2>1, <2>2
<1>2. CASE Pause
  <2>1. state = "Playing" /\ state' = "Paused" /\ UNCHANGED clientVars
    BY <1>2 DEF Pause
  <2>2. Connection!Pause
    BY <1>u, <1>w, <2>1 DEF Connection!Pause, Connection!attemptVars, Connection!connections
  <2> QED
    BY <1>n, <2>2
<1>3. CASE Stop \/ CheckTimesOut
  BY <1>3, <1>d, <1>s, <1>n DEF Stop, CheckTimesOut
<1>4. CASE CloseWindow
  BY <1>4, <1>d, <1>n DEF CloseWindow
<1>5. CASE DestroyClient
  <2>1. /\ UNCHANGED <<state, declares, thread, phase, fdOf>> /\ conn' = ShutDown
        /\ socketFd' = NoFd
    BY <1>5 DEF DestroyClient
  <2>2. Held' = Held \ Latest
    BY <2>1, ShutDownEndsLatest DEF Held, Live
  <2>3. Latest' = {}
    BY <2>1, FdsAssumption DEF ClientInv, Descriptors, Latest, Live, Named
  <2>4. Connection!LetGo
    BY <2>1, <2>2, <2>3
       DEF Connection!LetGo, Connection!LetsGo, Connection!attemptVars, Dialling, Running, Held, Latest
  <2> QED
    BY <1>n, <2>4
<1>6. ASSUME NEW r \in PingAnswers, MonitorAnswers(r) PROVE Connection!Next \/ UNCHANGED Connection!vars
  <2>1. CASE checking
    <3>1. state = "Playing"
      BY <1>6, <2>1 DEF SessionInv, CheckIsASession, MonitorAnswers
    <3>2. \/ StopSession
          \/ TargetFound /\ state' = "Playing"
      BY <1>6, <2>1, <3>1 DEF MonitorAnswers
    <3> QED
      BY <1>d, <1>e, <1>s, <1>t, <1>n, <3>1, <3>2
  <2>2. CASE ~checking
    BY <1>6, <1>v, <1>w, <2>2 DEF MonitorAnswers, guiVars
  <2> QED
    BY <2>1, <2>2
<1>7. ASSUME NEW answer \in ProbeAnswers, VersionAnswer(answer)
      PROVE  Connection!Next \/ UNCHANGED Connection!vars
  BY <1>7, <1>d, <1>s, <1>n, <1>v, <1>w DEF VersionAnswer, guiVars
<1>8. ASSUME NEW t \in Threads, DeclareCompletes(t)
      PROVE  Connection!Next \/ UNCHANGED Connection!vars
  <2>1. UNCHANGED state /\ (Disconnect \/ UNCHANGED clientVars)
    BY <1>8 DEF DeclareCompletes, DeclareFailed, DeclareRejected, DeclareReady
  <2> QED
    BY <1>d, <1>n, <1>v, <1>w, <2>1
<1>9. CASE Retry
  <2>1. UNCHANGED state /\ ((Declare /\ state = "Playing") \/ UNCHANGED clientVars)
    BY <1>9 DEF Retry, guiVars
  <2> QED
    BY <1>e, <1>n, <1>v, <1>w, <2>1
<1>10. ASSUME NEW t \in Threads, ThreadStep(t)
       PROVE  Connection!Next \/ UNCHANGED Connection!vars
  <2>1. CASE Connected(t) \/ ConnectFails(t) \/ Releases(t)
    <3>1. t \in 1..declares
      BY <2>1, RunningAreAttempts DEF Connected, ConnectFails, Releases, At, Running
    <3> QED
      BY <2>1, <3>1, ThreadConnects, ThreadOver DEF Connection!Next
  <2>2. CASE Sends(t) \/ SendFails(t) \/ ReadsVerdict(t)
    <3>1. UNCHANGED <<state, declares, thread, conn, fdOf, socketFd>>
      BY <2>2 DEF Sends, SendFails, ReadsVerdict, guiVars
    <3>2. \A u \in Threads : phase'[u] = phase[u]
            \/ {phase[u], phase'[u]} \subseteq {"sending", "reading", "holding", "failing"}
      BY <2>2 DEF Sends, SendFails, ReadsVerdict, At, ClientType
    <3>3. UNCHANGED <<Dialling, Running, Held, Latest>>
      BY <3>1, <3>2 DEF Dialling, Running, Held, Latest, Live
    <3> QED
      BY <1>v, <3>1, <3>3
  <2>3. CASE ReadFails(t)
    <3>1. UNCHANGED <<state, declares, thread, fdOf, socketFd>>
      BY <2>3 DEF ReadFails, guiVars
    <3>2. \A u \in Threads : phase'[u] = phase[u]
            \/ {phase[u], phase'[u]} \subseteq {"reading", "holding", "failing", "releasing"}
      BY <2>3 DEF ReadFails, At, ClientType
    <3>3. \A u \in Threads : Live(u)' <=> Live(u)
      BY <2>3 DEF ReadFails, ClientType, Live
    <3>4. UNCHANGED <<Dialling, Running, Held, Latest>>
      <4>1. UNCHANGED <<Dialling, Running>>
        BY <3>2 DEF Dialling, Running
      <4>2. UNCHANGED <<Held, Latest>>
        BY <3>1, <3>3 DEF Held, Latest
      <4> QED
        BY <4>1, <4>2
    <3> QED
      BY <1>v, <3>1, <3>4
  <2> QED
    BY <1>10, <2>1, <2>2, <2>3 DEF ThreadStep
<1>11. CASE KillLands \/ DispatcherCrashes
  <2>1. UNCHANGED <<state, declares, thread, phase, fdOf, socketFd>>
    BY <1>11 DEF KillLands, DispatcherCrashes, guiVars
  <2>2. \A u \in Threads : Live(u)' <=> Live(u)
    BY <1>11 DEF KillLands, DispatcherCrashes, Dies, Live
  <2>3. UNCHANGED <<Dialling, Running, Held, Latest>>
    BY <2>1, <2>2 DEF Dialling, Running, Held, Latest
  <2> QED
    BY <1>v, <2>1, <2>3
<1>12. CASE Configure \/ StarterDone \/ JoinThread \/ DispatcherStarts \/ Accepts
             \/ (\E v \in Verdicts : Replies(v)) \/ TearsDown \/ UNCHANGED vars
  <2>1. UNCHANGED <<state, clientVars>>
    BY <1>12 DEF Configure, StarterDone, JoinThread, DispatcherStarts, Accepts, Replies,
                 TearsDown, guiVars, vars
  <2> QED
    BY <1>v, <1>w, <2>1
<1> QED
  BY <1>1, <1>2, <1>3, <1>4, <1>5, <1>6, <1>7, <1>8, <1>9, <1>10, <1>11, <1>12
     DEF Next, User, Gui, Target

(* The client and the playback state are what DispatcherClient promises: a *)
(* Play or its retry dials, the last attempt connects only in a session,   *)
(* and Stop, a failure and the next attempt end the latest connection.     *)
(* Another one is left only when an attempt that was let go connects late, *)
(* one for each such attempt.                                              *)
THEOREM ClientKeepsOneConnection == Spec => OneConnectionHeld
<1>1. Spec => []AttemptInv
  BY TypeCorrect, ClientAlways, SessionAlways, AttemptInit, AttemptStep, PTL DEF Spec
<1> QED
  BY <1>1, TypeCorrect, ClientAlways, SessionAlways, ConnectionInit, ConnectionStep, PTL
     DEF Spec, OneConnectionHeld, Connection!Spec

(* Without such an attempt the PC holds no connection at Idle.             *)
THEOREM IdleHoldsNothing == Spec => [](state = "Idle" /\ mixups = {} => \A t \in Threads : ~Live(t))
<1>1. Spec => []AttemptInv
  BY TypeCorrect, ClientAlways, SessionAlways, AttemptInit, AttemptStep, PTL DEF Spec
<1>2. ClientInv /\ AttemptInv => (state = "Idle" /\ mixups = {} => \A t \in Threads : ~Live(t))
  BY DEF ClientInv, AttemptInv, LeakOnlyByMixup, Threads
<1> QED
  BY <1>1, <1>2, ClientAlways, PTL

-----------------------------------------------------------------------------
(* What the liveness properties rest on.                                   *)

LEMMA ForgottenStep == TypeOK /\ NoPlayForgotten /\ [Next]_vars => NoPlayForgotten'
<1> SUFFICES ASSUME GuiType, ClientType, TargetType, NoPlayForgotten, [Next]_vars,
                    window' = "open", state' = "Playing",
                    tile' \notin {"clear", "rejected", "unreachable"}
             PROVE  AnswerUnderWay'
  BY DEF TypeOK, NoPlayForgotten
<1>s. ~StopSession
  BY DEF StopSession
<1>d. Declare => AnswerUnderWay'
  <2>1. ASSUME Declare PROVE thread' \in Threads /\ phase'[thread'] = "connecting"
    BY <2>1 DEF Declare, ClientType
  <2> QED
    BY <2>1 DEF AnswerUnderWay, Threads
<1>u. UNCHANGED <<window, state, tile, checking, starters, retries, thread, phase, callback>>
        => AnswerUnderWay'
  BY DEF NoPlayForgotten, AnswerUnderWay
<1>1. CASE User
  <2>1. CASE Play
    BY <1>s, <1>d, <2>1 DEF Play, TargetFound, AnswerUnderWay
  <2> QED
    BY <1>1, <1>s, <2>1 DEF User, Pause, Stop, Configure, CloseWindow
<1>2. CASE Gui
  <2>1. ASSUME NEW r \in PingAnswers, MonitorAnswers(r) PROVE AnswerUnderWay'
    BY <2>1, <1>s, <1>d, <1>u DEF MonitorAnswers, TargetFound, guiVars, clientVars
  <2>2. CASE CheckTimesOut
    BY <2>2, <1>s DEF CheckTimesOut
  <2>3. ASSUME NEW answer \in ProbeAnswers, VersionAnswer(answer) PROVE AnswerUnderWay'
    BY <2>3, <1>s, <1>u DEF VersionAnswer, guiVars, clientVars
  <2>4. ASSUME NEW t \in Threads, DeclareCompletes(t) PROVE AnswerUnderWay'
    BY <2>4 DEF DeclareCompletes, DeclareFailed, DeclareRejected, DeclareReady, AnswerUnderWay,
                GuiType
  <2>5. CASE StarterDone
    BY <2>5 DEF StarterDone, AnswerUnderWay, GuiType
  <2>6. CASE Retry
    BY <2>6, <1>d DEF Retry, guiVars
  <2>7. CASE DestroyClient \/ JoinThread
    BY <2>7 DEF DestroyClient, JoinThread
  <2> QED
    BY <1>2, <2>1, <2>2, <2>3, <2>4, <2>5, <2>6, <2>7 DEF Gui
<1>3. ASSUME NEW t \in Threads, ThreadStep(t) PROVE AnswerUnderWay'
  <2>1. UNCHANGED <<window, state, tile, checking, starters, retries, thread>>
    BY <1>3 DEF ThreadStep, Connected, ConnectFails, Sends, SendFails, ReadsVerdict,
                ReadFails, Releases, guiVars, gateVars, asyncVars
  <2>2. \A u \in Threads : u # t => phase'[u] = phase[u] /\ callback'[u] = callback[u]
    BY <1>3 DEF ThreadStep, Connected, ConnectFails, Sends, SendFails, ReadsVerdict,
                ReadFails, Releases, ClientType, TargetType
  <2>3. \/ phase'[t] \in {"connecting", "sending", "reading", "failing"}
        \/ callback'[t] # "none"
        \/ phase[t] \in {"holding", "releasing"} /\ callback'[t] = callback[t]
    BY <1>3 DEF ThreadStep, Connected, ConnectFails, Sends, SendFails, ReadsVerdict,
                ReadFails, Releases, At, ClientType, TargetType
  <2> QED
    BY <2>1, <2>2, <2>3 DEF NoPlayForgotten, AnswerUnderWay, ClientType
<1>4. CASE Target
  BY <1>4, <1>u DEF Target, DispatcherStarts, KillLands, DispatcherCrashes, Accepts, Replies,
                    TearsDown, guiVars, gateVars, asyncVars, clientVars
<1>5. CASE UNCHANGED vars
  BY <1>5, <1>u DEF vars, guiVars, gateVars, asyncVars, clientVars
<1> QED
  BY <1>1, <1>2, <1>3, <1>4, <1>5 DEF Next

(* The part of PlayIsAnswered that needs no fairness: a Play without an    *)
(* answer on its tiles has one under way, whatever came of its check, its  *)
(* declaration and its retry, and whatever the sessions before left.       *)
THEOREM PlaysStayAnswerable == Spec => []NoPlayForgotten
<1>1. Init => NoPlayForgotten
  BY DEF Init, NoPlayForgotten
<1> QED
  BY TypeCorrect, <1>1, ForgottenStep, PTL DEF Spec

\* The two ways the dispatcher's line changes by itself.
LEMMA LineMoves ==
  ASSUME TargetType, NEW t \in Threads
  PROVE  /\ serving' = serving /\ (\E u \in Threads : backlog' = Append(backlog, u) /\ u # t)
              => (InLine(t)' <=> InLine(t))
         /\ serving' = serving /\ backlog' = Append(backlog, t) => InLine(t)'
         /\ serving = NoThread /\ backlog # <<>> /\ serving' = Head(backlog) /\ backlog' = Tail(backlog)
              => (InLine(t)' <=> InLine(t))
<1> USE DEF TargetType, InLine, Threads
<1>1. ASSUME NEW u \in Threads, backlog' = Append(backlog, u)
      PROVE  /\ Len(backlog') = Len(backlog) + 1 /\ backlog'[Len(backlog) + 1] = u
             /\ \A i \in 1..Len(backlog) : backlog'[i] = backlog[i]
  BY <1>1
<1>2. ASSUME serving' = serving, NEW u \in Threads, backlog' = Append(backlog, u), u # t
      PROVE  InLine(t)' <=> InLine(t)
  <2>1. \A i \in 1..Len(backlog') : i \in 1..Len(backlog) \/ i = Len(backlog) + 1
    BY <1>1, <1>2
  <2>2. 1..Len(backlog) \subseteq 1..Len(backlog')
    BY <1>1, <1>2
  <2> QED
    BY <1>1, <1>2, <2>1, <2>2
<1>3. serving' = serving /\ backlog' = Append(backlog, t) => InLine(t)'
  <2> SUFFICES ASSUME backlog' = Append(backlog, t) PROVE InLine(t)'
    OBVIOUS
  <2>1. Len(backlog) + 1 \in 1..Len(backlog')
    BY <1>1
  <2> QED
    BY <1>1, <2>1
<1>4. ASSUME serving = NoThread, backlog # <<>>, serving' = Head(backlog), backlog' = Tail(backlog)
      PROVE  InLine(t)' <=> InLine(t)
  <2>1. /\ Len(backlog') = Len(backlog) - 1 /\ serving' = backlog[1] /\ 1 \in 1..Len(backlog)
        /\ \A i \in 1..Len(backlog') : backlog'[i] = backlog[i + 1]
    BY <1>4
  <2>2. \A i \in 1..Len(backlog) : i = 1 \/ i - 1 \in 1..Len(backlog')
    BY <2>1
  <2>3. \A i \in 1..Len(backlog) : i = 1 \/ backlog[i] = backlog'[i - 1]
    BY <2>1, <2>2
  <2>4. \A i \in 1..Len(backlog') : i + 1 \in 1..Len(backlog)
    BY <2>1
  <2>5. t # serving
    BY <1>4
  <2>6. InLine(t) => InLine(t)'
    BY <2>1, <2>2, <2>3, <2>5
  <2>7. InLine(t)' => InLine(t)
    BY <2>1, <2>4
  <2> QED
    BY <2>6, <2>7
<1> QED
  BY <1>2, <1>3, <1>4

LEMMA LinedStep == TypeOK /\ ClientInv /\ AttemptInv /\ Lined /\ [Next]_vars => Lined'
<1> SUFFICES ASSUME ClientType, TargetType, ClientInv, AttemptInv, Lined, [Next]_vars PROVE Lined'
  BY DEF TypeOK
<1>k. ASSUME UNCHANGED <<backlog, serving, mixups>>,
             \A t \in Threads : conn'[t] \in {conn[t], "closed"}
                                  \/ (conn[t] = "none" /\ conn'[t] = "connecting")
      PROVE  Lined'
  BY <1>k DEF Lined, InLine
<1>u. UNCHANGED <<backlog, serving, mixups, conn>> => Lined'
  BY <1>k
<1>d. Disconnect /\ UNCHANGED <<backlog, serving, mixups>> => Lined'
  BY <1>k, ShutDownEffect DEF Disconnect
<1>e. Declare /\ UNCHANGED <<backlog, serving, mixups>> => Lined'
  <2> SUFFICES ASSUME Declare, UNCHANGED <<backlog, serving, mixups>> PROVE Lined'
    OBVIOUS
  <2>1. PICK t \in Threads : t = declares + 1 /\ conn' = [ShutDown EXCEPT ![t] = "connecting"]
    BY DEF Declare
  <2>2. conn[t] = "none"
    BY <2>1 DEF AttemptInv, ClientType
  <2> QED
    BY <1>k, <2>1, <2>2, ShutDownEffect
<1>1. CASE User
  BY <1>1, <1>d, <1>e, <1>u
  DEF User, Play, Pause, Stop, Configure, CloseWindow, StopSession, TargetFound, clientVars,
      dispatcherVars
<1>2. CASE Gui
  <2>1. CASE DestroyClient
    BY <2>1, <1>k, ShutDownEffect DEF DestroyClient, dispatcherVars
  <2> QED
    BY <1>2, <1>d, <1>e, <1>u, <2>1
    DEF Gui, MonitorAnswers, CheckTimesOut, VersionAnswer, DeclareCompletes, DeclareFailed,
        DeclareRejected, DeclareReady, StarterDone, Retry, JoinThread, StopSession, TargetFound,
        clientVars, dispatcherVars
<1>3. ASSUME NEW t \in Threads, ThreadStep(t) PROVE Lined'
  <2>1. CASE Connected(t)
    <3>1. /\ backlog' = Append(backlog, t) /\ serving' = serving /\ conn[t] = "connecting"
          /\ conn' = [conn EXCEPT ![t] = "open"] /\ mixups \subseteq mixups'
      BY <2>1 DEF Connected, At, ClientInv, Descriptors
    <3>2. \A u \in Threads : u # t => (InLine(u)' <=> InLine(u))
      BY <3>1, LineMoves
    <3>3. InLine(t)'
      BY <3>1, LineMoves
    <3> QED
      BY <3>1, <3>2, <3>3 DEF Lined, ClientType
  <2>2. CASE ConnectFails(t)
    BY <2>2, <1>k DEF ConnectFails, ClientType, dispatcherVars
  <2>3. CASE Sends(t) \/ SendFails(t) \/ ReadsVerdict(t)
    BY <2>3, <1>u DEF Sends, SendFails, ReadsVerdict, dispatcherVars
  <2>4. CASE ReadFails(t)
    BY <2>4, <1>k DEF ReadFails, ClientType, dispatcherVars
  <2>5. CASE Releases(t)
    <3>1. CASE socketFd # fdOf[t]
      BY <2>5, <3>1, <1>u DEF Releases, dispatcherVars
    <3>2. CASE socketFd = fdOf[t]
      <4>1. /\ UNCHANGED <<backlog, serving>> /\ mixups \subseteq mixups'
            /\ phase[t] \in {"failing", "releasing"}
        BY <2>5, <3>2 DEF Releases, dispatcherVars, At
      <4>2. PICK fate \in {"severed", "closed"} :
              conn' = [u \in Threads |->
                         IF ~Holds(u, fdOf[t]) THEN conn[u]
                         ELSE IF phase[u] \in {"reading", "holding"} THEN fate ELSE "closed"]
        BY <2>5, <3>2 DEF Releases
      <4>3. \A u \in Threads : conn'[u] = conn[u] \/ (Named(u) /\ conn'[u] \in {"severed", "closed"})
        BY <4>2 DEF Holds
      <4>4. ASSUME mixups' = {}, NEW u \in Threads, Holds(u, fdOf[t]) PROVE conn'[u] = "closed"
        <5>1. Holds(t, fdOf[t])
          BY <2>5, <3>2, <4>4 DEF Releases
        <5>2. u = t
          BY <4>4, <5>1 DEF ClientInv, Descriptors, Holds
        <5> QED
          BY <4>1, <4>2, <4>4, <5>2
      <4>5. mixups' = {} => \A u \in Threads : conn'[u] \in {conn[u], "closed"}
        BY <4>2, <4>4
      <4> QED
        BY <4>1, <4>3, <4>5 DEF Lined, InLine, Named
    <3> QED
      BY <3>1, <3>2
  <2> QED
    BY <1>3, <2>1, <2>2, <2>3, <2>4, <2>5 DEF ThreadStep
<1>4. CASE Target
  <2>1. CASE (KillLands \/ DispatcherCrashes) /\ Dies
    <3>1. /\ backlog' = <<>> /\ serving' = NoThread /\ mixups' = mixups
          /\ \A t \in Threads : conn'[t] \notin {"open", "severed"}
      BY <2>1 DEF Dies, KillLands, DispatcherCrashes
    <3>2. \A t \in Threads : ~InLine(t)'
      BY <3>1 DEF InLine, Threads
    <3> QED
      BY <3>1, <3>2 DEF Lined
  <2>2. CASE Accepts
    <3>1. \A t \in Threads : InLine(t)' <=> InLine(t)
      BY <2>2, LineMoves DEF Accepts
    <3> QED
      BY <2>2, <3>1 DEF Accepts, Lined, clientVars
  <2>3. CASE TearsDown
    <3>1. /\ backlog' = backlog /\ serving' = NoThread /\ UNCHANGED <<conn, mixups>>
          /\ conn[serving] = "closed"
      BY <2>3 DEF TearsDown, clientVars
    <3> QED
      BY <3>1 DEF Lined, InLine, Threads
  <2> QED
    BY <1>4, <1>u, <2>1, <2>2, <2>3 DEF Target, DispatcherStarts, KillLands, DispatcherCrashes,
       Replies, clientVars, dispatcherVars
<1>5. CASE UNCHANGED vars
  BY <1>5, <1>u DEF vars, clientVars, dispatcherVars
<1> QED
  BY <1>1, <1>2, <1>3, <1>4, <1>5 DEF Next

(* The part of StopReleasesTarget that needs no fairness: all that waits   *)
(* in the dispatcher's line was closed by this client, but for the         *)
(* connection of the session under way, which is in the line if open.      *)
THEOREM DispatcherLineMoves == Spec => []OneInLine
<1>1. Spec => []AttemptInv
  BY TypeCorrect, ClientAlways, SessionAlways, AttemptInit, AttemptStep, PTL DEF Spec
<1>2. Init => Lined
  BY DEF Init, Lined, InLine, Threads
<1>3. ClientInv /\ AttemptInv /\ Lined => OneInLine
  BY DEF ClientInv, AttemptInv, Lined, OneInLine, LeakOnlyByMixup, Live, Threads
<1> QED
  BY TypeCorrect, ClientAlways, <1>1, <1>2, LinedStep, <1>3, PTL DEF Spec
=============================================================================
