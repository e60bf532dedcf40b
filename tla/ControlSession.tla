--------------------------- MODULE ControlSession ---------------------------
(***************************************************************************)
(* The control channel of one CamSyringe session: MainWindow's playback    *)
(* state machine (Play, Pause, Stop, window close, the reachability check, *)
(* the dispatcher-start retry and the kill on Stop), DispatcherClient's    *)
(* background threads with the one atomic descriptor they share, and the   *)
(* target's qcarcam_dispatcher, which serves one connection at a time.     *)
(*                                                                         *)
(* A declaration thread is named by its creation number.  A thread that    *)
(* disconnect() hands to its detached cleanup thread keeps running: it is  *)
(* a thread of the model like any other, only no longer `thread'.          *)
(*                                                                         *)
(* Descriptors are numbers the kernel gives out again once they are        *)
(* closed.  A thread's own send() and recv() are taken to meet the         *)
(* connection they were called on (the window between two such calls is    *)
(* left out); the compare-exchange and close() that end a thread act on    *)
(* whatever the number names by then.                                      *)
(***************************************************************************)
EXTENDS Naturals, Sequences, FiniteSets

CONSTANTS
  MaxPlays,   \* bound: Play presses in a behaviour
  MaxDeclares,\* bound: declaration threads in a behaviour
  Fds,        \* descriptor numbers the kernel may give out
  PingAnswers,\* what the connectivity monitor may answer
  ProbeAnswers,\* what a protocol probe may be answered
  MayCrash    \* whether the dispatcher may die by itself

ASSUME BoundsAssumption == MaxPlays \in Nat /\ MaxDeclares \in Nat
ASSUME AnswersAssumption ==
  /\ PingAnswers \subseteq {"Reachable", "Unreachable"}
  /\ ProbeAnswers \subseteq {"none", "same", "other"}
  /\ MayCrash \in BOOLEAN

NoFd == 0          \* socketFd_ == -1
NoThread == 0

ASSUME FdsAssumption == NoFd \notin Fds

Threads == 1..MaxDeclares

VARIABLES
  window,         \* the MainWindow: "open", "closing" (closeEvent() has run),
                  \* "joining" (inside ~DispatcherClient()), "gone"
  state,          \* MainWindow::state_, which closeEvent() does not touch
  tile,           \* what the camera tiles say about the target
  streaming,      \* StreamPool's streams are running
  enabled,        \* StreamPool's enabled flag of the camera
  stats,          \* number of TargetStatsStreams running
  reach,          \* connectivityMonitor_.state()
  checking,       \* reachabilityCheckActive_
  startAttempted, \* dispatcherStartAttempted_
  mismatch,       \* dispatcherProtocolMismatch_
  plays,          \* Play presses so far
  declares,       \* declaration threads created so far
  starters,       \* tryStartDispatcherThenRetry() threads running
  retries,        \* their queued retries
  kills,          \* killTargetProcesses() threads running
  probes,         \* checkInjectorVersion() queries not yet answered
  thread,         \* the thread that thread_ is joinable with
  socketFd,       \* DispatcherClient::socketFd_
  phase,          \* where each declaration thread is in threadFunc()
  fdOf,           \* the thread's local `fd'
  conn,           \* its connection, seen from this PC's kernel
  callback,       \* its queued onDeclareComplete(), if any
  mixups,         \* history: the ways threads got in each other's way
  up,             \* qcarcam_dispatcher is running
  backlog,        \* connections the target's kernel accepted, in order
  serving,        \* the one the dispatcher has accepted
  sent,           \* connections that carried a whole declaration
  reply           \* the dispatcher's verdict on each connection

guiVars == <<window, state, tile, streaming, enabled, stats, startAttempted, plays>>
gateVars == <<reach, checking, mismatch>>
asyncVars == <<starters, retries, kills, probes>>
clientVars == <<declares, thread, socketFd, phase, fdOf, conn>>
dispatcherVars == <<up, backlog, serving, sent, reply>>
vars == <<guiVars, gateVars, asyncVars, clientVars, callback, mixups, dispatcherVars>>

Phases == {"unborn", "connecting", "sending", "reading", "holding",
           "failing", "releasing", "done"}
Verdicts == {"ready", "rejected"}
ConnStates == {"none", "connecting", "open", "peerClosed", "severed", "closed"}

FlagType ==
  /\ streaming \in BOOLEAN /\ enabled \in BOOLEAN /\ startAttempted \in BOOLEAN
  /\ checking \in BOOLEAN /\ mismatch \in BOOLEAN

GuiType ==
  /\ window \in {"open", "closing", "joining", "gone"}
  /\ state \in {"Idle", "Playing", "Paused"}
  /\ tile \in {"idle", "searching", "confirming", "starting", "unreachable",
               "rejected", "clear"}
  /\ reach \in {"Unknown", "Reachable", "Unreachable"}
  /\ stats \in Nat /\ plays \in 0..MaxPlays
  /\ starters \in Nat /\ retries \in Nat /\ kills \in Nat /\ probes \in Nat

ClientType ==
  /\ declares \in Nat
  /\ thread \in Threads \cup {NoThread}
  /\ socketFd \in Fds \cup {NoFd}
  /\ phase \in [Threads -> Phases]
  /\ fdOf \in [Threads -> Fds \cup {NoFd}]
  /\ conn \in [Threads -> ConnStates]

TargetType ==
  /\ callback \in [Threads -> {"none", "failed"} \cup Verdicts]
  /\ mixups \subseteq {"lateStore", "reusedNumber"}
  /\ up \in BOOLEAN
  /\ backlog \in Seq(Threads)
  /\ serving \in Threads \cup {NoThread}
  /\ sent \subseteq Threads
  /\ reply \in [Threads -> {"none"} \cup Verdicts]

TypeOK == FlagType /\ GuiType /\ ClientType /\ TargetType

Init ==
  /\ window = "open"
  /\ state = "Idle" /\ tile = "idle" /\ streaming = FALSE /\ enabled = TRUE /\ stats = 0
  /\ reach = "Unknown" /\ checking = FALSE /\ startAttempted = FALSE /\ mismatch = FALSE
  /\ plays = 0 /\ declares = 0 /\ starters = 0 /\ retries = 0 /\ kills = 0 /\ probes = 0
  /\ thread = NoThread /\ socketFd = NoFd
  /\ phase = [t \in Threads |-> "unborn"]
  /\ fdOf = [t \in Threads |-> NoFd]
  /\ conn = [t \in Threads |-> "none"]
  /\ callback = [t \in Threads |-> "none"]
  /\ mixups = {}
  /\ up \in BOOLEAN /\ backlog = <<>> /\ serving = NoThread
  /\ sent = {} /\ reply = [t \in Threads |-> "none"]

-----------------------------------------------------------------------------
(* DispatcherClient, called on the GUI thread.                             *)

(* The connections that still hold a descriptor number.                    *)
Named(t) == conn[t] \in {"connecting", "open", "peerClosed"}
Holds(t, n) == Named(t) /\ fdOf[t] = n

(* shutdownSocket(): the stored number is shut down and closed, whoever    *)
(* it belongs to.                                                          *)
ShutDown == [t \in Threads |-> IF Holds(t, socketFd) THEN "closed" ELSE conn[t]]

(* Variants the runs tell apart: a load() for the exchange(-1), and an     *)
(* exchange with no shutdown() and close() after it.                       *)
DisconnectLoads ==
  /\ conn' = ShutDown
  /\ thread' = NoThread
  /\ UNCHANGED <<declares, socketFd, phase, fdOf>>

DisconnectForgets ==
  /\ socketFd' = NoFd
  /\ thread' = NoThread
  /\ UNCHANGED <<declares, phase, fdOf, conn>>

(* disconnect().                                                           *)
Disconnect ==
  /\ socketFd' = NoFd
  /\ conn' = ShutDown
  /\ thread' = NoThread       \* moved into a detached thread that joins it
  /\ UNCHANGED <<declares, phase, fdOf>>

(* declareAsync(): disconnect(), then a fresh thread, whose socket() takes *)
(* a number that is free by then, the one just closed included.            *)
Declare ==
  LET t == declares + 1
      after == ShutDown
      inUse == {fdOf[u] : u \in {v \in Threads : after[v] \in {"connecting", "open", "peerClosed"}}}
  IN \E n \in Fds \ inUse :
       /\ t \in Threads
       /\ declares' = t
       /\ thread' = t
       /\ socketFd' = NoFd
       /\ phase' = [phase EXCEPT ![t] = "connecting"]
       /\ fdOf' = [fdOf EXCEPT ![t] = n]
       /\ conn' = [after EXCEPT ![t] = "connecting"]

-----------------------------------------------------------------------------
(* MainWindow, on the GUI thread.                                          *)

(* The event loop still runs what is queued for the window; the process    *)
(* exits once the window is gone.                                          *)
GuiRuns == window \in {"open", "closing"}
ProcessRuns == window # "gone"
At(t, where) == ProcessRuns /\ phase[t] \in where

(* onStopTriggered(): stopEverything(true), tiles back to idle, then the   *)
(* SSH kill in a thread of its own.                                        *)
StopSession ==
  /\ state' = "Idle" /\ tile' = "idle" /\ streaming' = FALSE /\ stats' = 0
  /\ checking' = FALSE
  /\ kills' = kills + 1
  /\ Disconnect

(* What a Reachable answer does to a check that is still undecided:        *)
(* declareToTarget() and checkInjectorVersion().                           *)
TargetFound ==
  /\ tile' = "confirming"
  /\ probes' = probes + 1
  /\ Declare

(* startStreaming().  probeNow() answers on this call stack when the       *)
(* monitor has an answer; otherwise the check stays open with every        *)
(* control disabled.  An Unreachable answer is a full Stop, on the spot.   *)
Play ==
  /\ window = "open" /\ state \in {"Idle", "Paused"} /\ plays < MaxPlays
  /\ ~mismatch
  /\ plays' = plays + 1
  /\ UNCHANGED window
  /\ enabled' = TRUE
  /\ startAttempted' = FALSE
  /\ \/ /\ reach = "Unknown"
        /\ state' = "Playing" /\ streaming' = TRUE /\ tile' = "searching"
        /\ checking' = TRUE
        /\ UNCHANGED <<stats, clientVars, kills, probes>>
     \/ /\ reach = "Reachable"
        /\ state' = "Playing" /\ streaming' = TRUE
        /\ TargetFound
        /\ UNCHANGED <<stats, checking, kills>>
     \/ /\ reach = "Unreachable"
        /\ StopSession
        /\ UNCHANGED probes
  /\ UNCHANGED <<reach, mismatch, starters, retries, callback, mixups, dispatcherVars>>

(* onPlayPauseTriggered() while Playing: stopEverything(false).            *)
Pause ==
  /\ window = "open" /\ state = "Playing" /\ ~checking
  /\ state' = "Paused" /\ streaming' = FALSE /\ stats' = 0
  /\ UNCHANGED <<window, tile, enabled, startAttempted, plays, gateVars, asyncVars, clientVars,
                 callback, mixups, dispatcherVars>>

(* The Stop menu action.                                                   *)
Stop ==
  /\ window = "open" /\ state \in {"Playing", "Paused"} /\ ~checking
  /\ StopSession
  /\ UNCHANGED <<window, enabled, startAttempted, plays, reach, mismatch, starters, retries, probes,
                 callback, mixups, dispatcherVars>>

(* onConfigureTriggered(), accepted: the monitor starts over, the mismatch *)
(* is forgotten, the cameras and their tiles are built anew.               *)
Configure ==
  /\ window = "open" /\ state = "Idle"
  /\ reach' = "Unknown" /\ mismatch' = FALSE /\ enabled' = TRUE
  /\ UNCHANGED <<window, state, tile, streaming, stats, startAttempted, plays, checking, asyncVars,
                 clientVars, callback, mixups, dispatcherVars>>

(* closeEvent(): everything stops and disconnects, and state_ keeps its     *)
(* value.  What is queued ahead of the Quit event still runs.              *)
CloseWindow ==
  /\ window = "open"
  /\ window' = "closing" /\ streaming' = FALSE /\ stats' = 0 /\ checking' = FALSE
  /\ Disconnect
  /\ UNCHANGED <<state, tile, enabled, startAttempted, plays, reach, mismatch, asyncVars,
                 callback, mixups, dispatcherVars>>

(* ~DispatcherClient(): shuts the stored socket down, then joins thread_.  *)
DestroyClient ==
  /\ window = "closing"
  /\ window' = "joining"
  /\ socketFd' = NoFd
  /\ conn' = ShutDown
  /\ UNCHANGED <<state, tile, streaming, enabled, stats, startAttempted, plays, gateVars,
                 asyncVars, declares, thread, phase, fdOf, callback, mixups, dispatcherVars>>

JoinThread ==
  /\ window = "joining"
  /\ thread # NoThread => phase[thread] = "done"
  /\ window' = "gone"
  /\ UNCHANGED <<state, tile, streaming, enabled, stats, startAttempted, plays, gateVars,
                 asyncVars, clientVars, callback, mixups, dispatcherVars>>

(* A ping of the monitor resolves; a check that waited for it is decided.  *)
MonitorAnswers(r) ==
  /\ GuiRuns
  /\ reach' = r
  /\ IF ~checking
     THEN UNCHANGED <<guiVars, checking, kills, probes, clientVars>>
     ELSE \/ /\ r = "Reachable"
             /\ checking' = FALSE
             /\ TargetFound
             /\ UNCHANGED <<window, state, streaming, enabled, stats, startAttempted, plays, kills>>
          \/ /\ r = "Unreachable"
             /\ StopSession
             /\ UNCHANGED <<window, enabled, startAttempted, plays, probes>>
  /\ UNCHANGED <<mismatch, starters, retries, callback, mixups, dispatcherVars>>

(* The two-second timer of the check: autoStopOnUnreachable().             *)
CheckTimesOut ==
  /\ checking
  /\ StopSession
  /\ UNCHANGED <<window, enabled, startAttempted, plays, reach, mismatch, starters, retries, probes,
                 callback, mixups, dispatcherVars>>

(* checkInjectorVersion()'s queued result: another protocol stops a        *)
(* session that is Playing or Paused; no answer leaves everything alone.   *)
VersionAnswer(answer) ==
  /\ GuiRuns /\ probes > 0
  /\ probes' = probes - 1
  /\ mismatch' = IF answer = "none" THEN mismatch ELSE answer = "other"
  /\ IF answer = "other" /\ state \in {"Playing", "Paused"}
     THEN StopSession /\ UNCHANGED <<window, enabled, startAttempted, plays>>
     ELSE UNCHANGED <<guiVars, checking, kills, clientVars>>
  /\ UNCHANGED <<reach, starters, retries, callback, mixups, dispatcherVars>>

(* Variants: the retry is not marked as spent; it is marked, not started.  *)
DeclareFailedUnmarked(t) ==
  /\ callback[t] = "failed"
  /\ Disconnect
  /\ \/ startAttempted /\ tile' = "unreachable" /\ UNCHANGED starters
     \/ ~startAttempted /\ tile' = "starting" /\ starters' = starters + 1
  /\ UNCHANGED <<enabled, stats, startAttempted>>

DeclareFailedUnretried(t) ==
  /\ callback[t] = "failed"
  /\ Disconnect
  /\ startAttempted' = TRUE
  /\ tile' = IF startAttempted THEN "unreachable" ELSE "starting"
  /\ UNCHANGED <<enabled, stats, starters>>

(* What onDeclareComplete() does for the declaration of t: a failed one is *)
(* retried once per Play press through SSH, a rejected camera is disabled, *)
(* a ready one gets its statistics reader.                                 *)
DeclareFailed(t) ==
  /\ callback[t] = "failed"
  /\ Disconnect
  /\ \/ /\ startAttempted
        /\ tile' = "unreachable"
        /\ UNCHANGED <<startAttempted, starters>>
     \/ /\ ~startAttempted
        /\ startAttempted' = TRUE
        /\ tile' = "starting"
        /\ starters' = starters + 1
  /\ UNCHANGED <<enabled, stats>>

DeclareRejected(t) ==
  /\ callback[t] = "rejected"
  /\ tile' = "rejected" /\ enabled' = FALSE
  /\ UNCHANGED <<stats, startAttempted, starters, clientVars>>

DeclareReady(t) ==
  /\ callback[t] = "ready"
  /\ tile' = "clear" /\ stats' = stats + 1
  /\ UNCHANGED <<enabled, startAttempted, starters, clientVars>>

(* Variant: no look at state_ first.                                       *)
DeclareCompletesAnyway(t) ==
  /\ GuiRuns /\ callback[t] # "none"
  /\ callback' = [callback EXCEPT ![t] = "none"]
  /\ DeclareFailed(t) \/ DeclareRejected(t) \/ DeclareReady(t)
  /\ UNCHANGED <<window, state, streaming, plays, gateVars, retries, kills, probes, mixups,
                 dispatcherVars>>

(* onDeclareComplete(), run from the queue for the declaration of t, which *)
(* may have been handed off long ago.                                      *)
DeclareCompletes(t) ==
  /\ GuiRuns /\ callback[t] # "none"
  /\ callback' = [callback EXCEPT ![t] = "none"]
  /\ IF state = "Playing"
     THEN DeclareFailed(t) \/ DeclareRejected(t) \/ DeclareReady(t)
     ELSE UNCHANGED <<tile, enabled, stats, startAttempted, starters, clientVars>>
  /\ UNCHANGED <<window, state, streaming, plays, gateVars, retries, kills, probes, mixups,
                 dispatcherVars>>

(* The background half of tryStartDispatcherThenRetry() is over, whatever  *)
(* it managed to do; its retry is queued.  Behind a Quit event it would    *)
(* never run.                                                              *)
StarterDone ==
  /\ window = "open" /\ starters > 0
  /\ starters' = starters - 1
  /\ retries' = retries + 1
  /\ UNCHANGED <<guiVars, gateVars, kills, probes, clientVars, callback, mixups,
                 dispatcherVars>>

(* Variant: it does not.                                                   *)
RetryAnyway ==
  /\ GuiRuns /\ retries > 0
  /\ retries' = retries - 1
  /\ Declare
  /\ UNCHANGED <<guiVars, gateVars, starters, kills, probes, callback, mixups,
                 dispatcherVars>>

(* The queued retry looks at state_ alone.                                 *)
Retry ==
  /\ GuiRuns /\ retries > 0
  /\ retries' = retries - 1
  /\ IF state = "Playing" THEN Declare ELSE UNCHANGED clientVars
  /\ UNCHANGED <<guiVars, gateVars, starters, kills, probes, callback, mixups,
                 dispatcherVars>>

-----------------------------------------------------------------------------
(* DispatcherClient::threadFunc(), on the thread of declaration t.         *)

(* connectWithTimeout() succeeds and the descriptor is stored, over        *)
(* whatever is there.                                                      *)
Connected(t) ==
  /\ At(t, {"connecting"}) /\ up
  /\ phase' = [phase EXCEPT ![t] = "sending"]
  /\ conn' = [conn EXCEPT ![t] = "open"]
  /\ socketFd' = fdOf[t]
  /\ backlog' = Append(backlog, t)
  /\ mixups' = IF t = thread THEN mixups ELSE mixups \cup {"lateStore"}
  /\ UNCHANGED <<guiVars, gateVars, asyncVars, declares, thread, fdOf, callback,
                 up, serving, sent, reply>>

(* Refused, unroutable or timed out; the socket never reached socketFd_.   *)
ConnectFails(t) ==
  /\ At(t, {"connecting"})
  /\ phase' = [phase EXCEPT ![t] = "done"]
  /\ conn' = [conn EXCEPT ![t] = "closed"]
  /\ callback' = [callback EXCEPT ![t] = "failed"]
  /\ fdOf' = [fdOf EXCEPT ![t] = NoFd]
  /\ UNCHANGED <<guiVars, gateVars, asyncVars, declares, thread, socketFd, mixups,
                 dispatcherVars>>

(* sendAll() of the whole declaration.                                     *)
Sends(t) ==
  /\ At(t, {"sending"}) /\ conn[t] \in {"open", "peerClosed"}
  /\ phase' = [phase EXCEPT ![t] = "reading"]
  /\ sent' = sent \cup {t}
  /\ UNCHANGED <<guiVars, gateVars, asyncVars, declares, thread, socketFd, fdOf, conn,
                 callback, mixups, up, backlog, serving, reply>>

SendFails(t) ==
  /\ At(t, {"sending"}) /\ conn[t] # "open"
  /\ phase' = [phase EXCEPT ![t] = "failing"]
  /\ UNCHANGED <<guiVars, gateVars, asyncVars, declares, thread, socketFd, fdOf, conn,
                 callback, mixups, dispatcherVars>>

(* DONE has been read: the callback is posted and the connection held.     *)
ReadsVerdict(t) ==
  /\ At(t, {"reading"}) /\ conn[t] \in {"open", "peerClosed"} /\ reply[t] # "none"
  /\ phase' = [phase EXCEPT ![t] = "holding"]
  /\ callback' = [callback EXCEPT ![t] = reply[t]]
  /\ UNCHANGED <<guiVars, gateVars, asyncVars, declares, thread, socketFd, fdOf, conn,
                 mixups, dispatcherVars>>

(* recv() returns: the other end is gone, or the descriptor is.  A thread  *)
(* blocked on a number that someone else closed only notices when bytes    *)
(* arrive.                                                                 *)
ReadFails(t) ==
  /\ At(t, {"reading", "holding"})
  /\ \/ conn[t] \in {"closed", "peerClosed"}
     \/ conn[t] = "severed" /\ phase[t] = "reading" /\ reply[t] # "none"
  /\ phase' = [phase EXCEPT ![t] = IF @ = "reading" THEN "failing" ELSE "releasing"]
  /\ conn' = [conn EXCEPT ![t] = IF @ = "severed" THEN "closed" ELSE @]
  /\ UNCHANGED <<guiVars, gateVars, asyncVars, declares, thread, socketFd, fdOf,
                 callback, mixups, dispatcherVars>>

(* The compare-exchange that ends a thread, and its close(): if socketFd_  *)
(* still reads as this thread's number, the number is closed.  When the    *)
(* number has been given out again it is another thread's connection that  *)
(* loses it, which a thread blocked in recv() does not even notice.        *)
Releases(t) ==
  /\ At(t, {"failing", "releasing"})
  /\ phase' = [phase EXCEPT ![t] = "done"]
  /\ callback' = IF phase[t] = "failing" THEN [callback EXCEPT ![t] = "failed"] ELSE callback
  /\ IF socketFd # fdOf[t]
     THEN UNCHANGED <<socketFd, conn, mixups>>
     ELSE /\ socketFd' = NoFd
          /\ \E fate \in {"severed", "closed"} :
               conn' = [u \in Threads |->
                          IF ~Holds(u, fdOf[t]) THEN conn[u]
                          ELSE IF phase[u] \in {"reading", "holding"} THEN fate ELSE "closed"]
          /\ mixups' = IF Holds(t, fdOf[t]) THEN mixups ELSE mixups \cup {"reusedNumber"}
  /\ fdOf' = [fdOf EXCEPT ![t] = IF conn'[t] = "closed" THEN NoFd ELSE @]
  /\ UNCHANGED <<guiVars, gateVars, asyncVars, declares, thread, dispatcherVars>>

-----------------------------------------------------------------------------
(* The target (external: seen from how the code uses it).                  *)

(* ensureRunning() starts a dispatcher that is not running.                *)
DispatcherStarts ==
  /\ ProcessRuns /\ starters > 0 /\ ~up
  /\ up' = TRUE
  /\ UNCHANGED <<guiVars, gateVars, asyncVars, clientVars, callback, mixups,
                 backlog, serving, sent, reply>>

(* Every connection of the dying process is closed by its kernel.          *)
Dies ==
  /\ up' = FALSE /\ backlog' = <<>> /\ serving' = NoThread
  /\ conn' = [t \in Threads |-> IF conn[t] = "open" THEN "peerClosed"
                                ELSE IF conn[t] = "severed" THEN "closed" ELSE conn[t]]

(* stopAll()'s kill -9 lands, or SSH does not get through and nothing      *)
(* happens.                                                                *)
KillLands ==
  /\ ProcessRuns /\ kills > 0
  /\ kills' = kills - 1
  /\ Dies \/ (UNCHANGED <<conn, up, backlog, serving>>)
  /\ UNCHANGED <<guiVars, gateVars, starters, retries, probes, declares, thread, socketFd,
                 phase, fdOf, callback, mixups, sent, reply>>

DispatcherCrashes ==
  /\ ProcessRuns /\ MayCrash /\ up
  /\ Dies
  /\ UNCHANGED <<guiVars, gateVars, asyncVars, declares, thread, socketFd, phase, fdOf,
                 callback, mixups, sent, reply>>

(* One connection at a time, in the order of their handshakes.             *)
Accepts ==
  /\ ProcessRuns /\ up /\ serving = NoThread /\ backlog # <<>>
  /\ serving' = Head(backlog)
  /\ backlog' = Tail(backlog)
  /\ UNCHANGED <<guiVars, gateVars, asyncVars, clientVars, callback, mixups, up, sent, reply>>

(* A receiver is ready only once RTP reaches it; anything else is reported *)
(* as an error.                                                            *)
Replies(v) ==
  /\ ProcessRuns /\ serving \in sent /\ reply[serving] = "none"
  /\ v = "ready" => streaming
  /\ reply' = [reply EXCEPT ![serving] = v]
  /\ UNCHANGED <<guiVars, gateVars, asyncVars, clientVars, callback, mixups,
                 up, backlog, serving, sent>>

(* A closed connection is the teardown signal.                             *)
TearsDown ==
  /\ ProcessRuns /\ serving # NoThread /\ conn[serving] = "closed"
  /\ serving' = NoThread
  /\ sent' = sent \ {serving}
  /\ reply' = [reply EXCEPT ![serving] = "none"]
  /\ UNCHANGED <<guiVars, gateVars, asyncVars, clientVars, callback, mixups, up, backlog>>

-----------------------------------------------------------------------------
User == Play \/ Pause \/ Stop \/ Configure \/ CloseWindow

Gui ==
  \/ \E r \in PingAnswers : MonitorAnswers(r)
  \/ CheckTimesOut
  \/ \E answer \in ProbeAnswers : VersionAnswer(answer)
  \/ \E t \in Threads : DeclareCompletes(t)
  \/ StarterDone \/ Retry
  \/ DestroyClient \/ JoinThread

ThreadStep(t) ==
  \/ Connected(t) \/ ConnectFails(t)
  \/ Sends(t) \/ SendFails(t)
  \/ ReadsVerdict(t) \/ ReadFails(t)
  \/ Releases(t)

Target ==
  \/ DispatcherStarts \/ KillLands \/ DispatcherCrashes
  \/ Accepts \/ (\E v \in Verdicts : Replies(v)) \/ TearsDown

Next == User \/ Gui \/ (\E t \in Threads : ThreadStep(t)) \/ Target

Spec == Init /\ [][Next]_vars

(* Threads are scheduled, connects time out after eight seconds, the event *)
(* loop runs what is queued and quits once its window has closed, the      *)
(* timer of a check fires, SSH commands are bounded, and a live dispatcher *)
(* serves and answers.  The user does nothing by obligation and the        *)
(* dispatcher never has to crash.                                          *)
Fairness ==
  /\ \A t \in Threads : WF_vars(ThreadStep(t)) /\ WF_vars(DeclareCompletes(t))
  /\ WF_vars(DestroyClient) /\ WF_vars(JoinThread)
  /\ WF_vars(CheckTimesOut) /\ WF_vars(StarterDone) /\ WF_vars(Retry) /\ WF_vars(KillLands)
  /\ WF_vars(Accepts) /\ WF_vars(\E v \in Verdicts : Replies(v)) /\ WF_vars(TearsDown)

FairSpec == Spec /\ Fairness

-----------------------------------------------------------------------------
(* Properties.                                                             *)

Live(t) == conn[t] \in {"open", "peerClosed"}

(* The number in socketFd_ always names a connection that a declaration    *)
(* thread made and nobody closed yet: whatever the exchange, the           *)
(* compare-exchange and the late store interleave to, shutdownSocket()     *)
(* never closes a number that is no longer the client's.                   *)
StoredFdIsLive == socketFd # NoFd => \E t \in Threads : Live(t) /\ fdOf[t] = socketFd

(* A connection the client can no longer close (its number is not in       *)
(* socketFd_, or it is a handed-off thread's) exists only when a thread    *)
(* stored its descriptor after it had been handed off, or closed a number  *)
(* that had been given out again.                                          *)
LeakOnlyByMixup ==
  mixups = {} => \A t \in Threads : Live(t) => t = thread /\ socketFd = fdOf[t]

(* dispatcherStartAttempted_ is a fresh budget for each Play press: a      *)
(* press never leads to more than one declaration and one automatic retry, *)
(* late failures of earlier declarations and late retries included.        *)
RetryBudget == declares <= 2 * plays

(* At Idle nothing of a session is left on the PC: no tile speaks of a     *)
(* target, nothing streams, no statistics reader runs, no check is open,   *)
(* however late the answers to the ended session come in.                  *)
IdleIsQuiet ==
  state = "Idle" => tile = "idle" /\ ~streaming /\ stats = 0 /\ ~checking

(* An open check means a session that streams, so that its time-out finds  *)
(* something to stop, and none of its answers has been acted on yet.       *)
CheckIsASession ==
  checking => window = "open" /\ state = "Playing" /\ streaming /\ tile # "idle"

(* A dispatcher known to speak another protocol has no session, whether    *)
(* the answer came before Play, during it or while Paused.                 *)
NoSessionOnMismatch == mismatch => state = "Idle"

(* After a Stop that no thread got in the way of, the target is left with  *)
(* no connection of this client, unless the user plays again.              *)
StopReleasesTarget ==
  (state = "Idle" /\ mixups = {})
    ~> (state # "Idle" \/ window # "open" \/ mixups # {}
          \/ (backlog = <<>> /\ serving = NoThread))

(* A Play the user leaves alone comes to an end on the tiles: injection    *)
(* confirmed, rejected, or the control channel given up on, or a full Stop *)
(* by the check or the protocol probe.                                     *)
PlayIsAnswered ==
  (state = "Playing" /\ mixups = {})
    ~> (state # "Playing" \/ window # "open" \/ mixups # {}
          \/ tile \in {"clear", "rejected", "unreachable"})

-----------------------------------------------------------------------------
(* What the liveness properties rest on, without fairness.                 *)

(* The answer to a Play is under way: its check is open, a start of the    *)
(* dispatcher or the retry after it is pending, or the declaration that    *)
(* disconnect() would end runs and has not been acted on.                  *)
AnswerUnderWay ==
  \/ checking \/ starters > 0 \/ retries > 0
  \/ /\ thread # NoThread
     /\ \/ phase[thread] \in {"connecting", "sending", "reading", "failing"}
        \/ callback[thread] # "none"

(* A Play without an answer on its tiles has one under way: whatever gave  *)
(* up its declaration, its retry or its check has put something else in    *)
(* their place or on the tiles, stale callbacks and late answers included. *)
NoPlayForgotten ==
  window = "open" /\ state = "Playing" =>
    tile \in {"clear", "rejected", "unreachable"} \/ AnswerUnderWay

(* The connections the dispatcher has before it.                           *)
InLine(t) == t = serving \/ \E i \in 1..Len(backlog) : backlog[i] = t
Lined ==
  \A t \in Threads :
    /\ InLine(t) => conn[t] \in {"open", "severed", "closed"}
    /\ conn[t] = "open" => InLine(t)
    /\ mixups = {} => conn[t] # "severed"

(* The dispatcher, which serves one connection at a time, is never held up *)
(* by one this client has done with: in its line only that of the last     *)
(* attempt of a session is not closed yet, and that one is in the line.    *)
OneInLine ==
  mixups = {} =>
    \A t \in Threads :
      /\ InLine(t) /\ conn[t] # "closed" => t = thread /\ state # "Idle"
      /\ conn[t] = "open" => InLine(t)

(* DispatcherClient and the playback state keep what they promise:         *)
(* disconnect() always has the latest connection in reach, and another one *)
(* is out of reach only because an attempt that was let go, by a Stop or a *)
(* newer declaration, connected after all (DispatcherClient.cpp:97).  How  *)
(* long a Pause holds the connection is left open: the documents disagree. *)
Connection == INSTANCE OneConnection WITH
  attempts <- declares, current <- thread,
  dialling <- {t \in Threads : phase[t] = "connecting"},
  running <- {t \in Threads : phase[t] \notin {"unborn", "done"}},
  held <- {t \in Threads : Live(t)},
  latest <- {t \in Threads : Live(t) /\ fdOf[t] = socketFd}
OneConnectionHeld == Connection!Spec
=============================================================================
