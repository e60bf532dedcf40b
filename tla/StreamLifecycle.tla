-------------------------- MODULE StreamLifecycle --------------------------
(***************************************************************************)
(* The sender side of a session: the camera threads of StreamPool, the     *)
(* CameraStream loop each of them runs, the BlfReplayer thread, and the    *)
(* tiles MainWindow shows them on, through Play, Pause, Stop, Configure    *)
(* and the closing of the window.                                          *)
(*                                                                         *)
(* A CameraStream is <<camera, play>>: startAll() makes a new one for each *)
(* camera at each Play.  stopAll() never waits: a thread and its stream    *)
(* move to a detached cleanup thread, so the streams of earlier plays may  *)
(* still run, even when the window and the pool are gone.                  *)
(*                                                                         *)
(* The GUI's event queue is one queue per camera: an event changes one     *)
(* tile only, so the order between cameras shows nowhere.                  *)
(***************************************************************************)
EXTENDS Naturals, Sequences

CONSTANTS
  Cameras,    \* indices Configure may give to cameras
  MaxPlays,   \* bound: Play presses
  MaxEvents,  \* bound: calls waiting for the GUI thread that no preview joins
  BlfFrames   \* frames of the capture

ASSUME BoundsAssumption ==
  MaxPlays \in Nat \ {0} /\ MaxEvents \in Nat \ {0} /\ BlfFrames \in Nat \ {0}

VARIABLES
  window,    \* MainWindow: "open", "closed", or "gone" together with the pool
  playback,  \* state_
  gui,       \* "free", or the handler that is inside blfThread_.join()
  cams,      \* cameras_ of the pool, and the tiles
  plays,     \* startAll() calls; names the origin Timeline captured last
  enabled,   \* Entry::enabled
  stream,    \* Entry::stream: the play it was made in, 0 for null
  thread,    \* Entry::thread: the play it was started in, 0 if not joinable
  opened,    \* Entry::opened
  handed,    \* streams owned by a cleanup thread that joins theirs
  phase,     \* where the thread of a stream is in run()
  asked,     \* CameraStream::stopRequested_
  origin,    \* CameraStream::streamStartNs_
  late,      \* history: calls posted after stopRequested_ was set, by kind
  events,    \* calls queued for the GUI thread
  tile,      \* what a CameraWidget shows
  awaiting,  \* a declaration may still call back
  blfPath,   \* blfPath_ is set
  blf,       \* the replay: its thread, the frames left, its origin
  blfStop    \* BlfReplayer::stopRequested_

pool == <<stream, thread, opened, handed>>
threads == <<phase, asked, origin, late>>
replay == <<blfPath, blf, blfStop>>
session == <<window, playback, gui, cams, plays, enabled, awaiting>>
vars == <<session, pool, threads, replay, events, tile>>

Plays == 0..MaxPlays
Streams == Cameras \X (1..MaxPlays)
Handlers == {"Pause", "Stop", "Close"}
Kinds == {"preview", "error"}
Banners == {"none", "status", "failed", "target"}
Phases == {"none", "head", "read", "preview", "write", "trailer",
           "failing", "report", "over"}

Idle == [picture |-> FALSE, banner |-> "none", by |-> 0]
NoReplay == [phase |-> "none", left |-> 0, origin |-> 0]
NoCalls == [kind \in Kinds |-> 0]

Init ==
  /\ window = "open" /\ playback = "Idle" /\ gui = "free"
  /\ cams \in SUBSET Cameras \ {{}} /\ plays = 0
  /\ enabled = [c \in Cameras |-> TRUE]
  /\ stream = [c \in Cameras |-> 0] /\ thread = stream
  /\ opened = [c \in Cameras |-> FALSE] /\ handed = {}
  /\ phase = [s \in Streams |-> "none"] /\ asked = [s \in Streams |-> FALSE]
  /\ origin = [s \in Streams |-> 0] /\ late = [s \in Streams |-> NoCalls]
  /\ events = [c \in Cameras |-> <<>>] /\ tile = [c \in Cameras |-> Idle]
  /\ awaiting = FALSE
  /\ blfPath \in BOOLEAN /\ blf = NoReplay /\ blfStop = FALSE

Running(s) == phase[s] \notin {"none", "over"}

\* The CameraStream object exists.
Held(s) == stream[s[1]] = s[2] \/ s \in handed

\* showError(), showStatus() and clearError() of a tile.
Labelled(t, banner, by) == [picture |-> t.picture, banner |-> banner, by |-> by]

Room(c) == Len(events[c]) < MaxEvents
Queued(q, kind, p) == Append(q, [kind |-> kind, play |-> p])
-----------------------------------------------------------------------------
\* The origin a stream or the replay is given.
TimelineOrigin == plays + 1

\* StreamPool::startAll().  The streams of failing do not open.
StartAll(failing) ==
  LET p == plays + 1
      starting == {c \in cams : enabled'[c]}
      ready == {s \in Streams : s[1] \in starting \ failing /\ s[2] = p}
  IN /\ failing \subseteq starting
     /\ plays' = p
     /\ stream' = [c \in Cameras |-> IF c \in starting THEN p ELSE stream[c]]
     /\ opened' = [c \in Cameras |->
                     IF c \in starting THEN c \notin failing ELSE opened[c]]
     /\ thread' = [c \in Cameras |->
                     IF c \in starting \ failing THEN p ELSE thread[c]]
     /\ phase' = [s \in Streams |-> IF s \in ready THEN "head" ELSE phase[s]]
     /\ origin' = [s \in Streams |-> IF s \in ready THEN TimelineOrigin ELSE origin[s]]
     /\ events' = [c \in Cameras |->
                     IF c \in failing THEN Queued(events[c], "error", p)
                     ELSE events[c]]
     /\ UNCHANGED <<handed, asked, late>>

\* The replay part of startStreaming(): open() may fail, which ends the
\* replay until the next Configure.
StartReplay ==
  /\ \/ ~blfPath /\ UNCHANGED <<blf, blfPath>>
     \/ /\ blfPath /\ UNCHANGED blfPath
        /\ blf' = [phase |-> "check", left |-> BlfFrames, origin |-> TimelineOrigin]
     \/ blfPath /\ blfPath' = FALSE /\ UNCHANGED blf
  /\ UNCHANGED blfStop

\* startStreaming(), past the checks that refuse a Play.
Play ==
  /\ window = "open" /\ gui = "free" /\ playback # "Playing"
  /\ plays < MaxPlays
  /\ playback' = "Playing" /\ awaiting' = TRUE
  /\ enabled' = [c \in Cameras |-> TRUE]
  /\ \E failing \in SUBSET cams : StartAll(failing)
  /\ StartReplay
  /\ tile' = [c \in Cameras |->
       [picture |-> playback # "Idle" /\ tile[c].picture,
        banner |-> "status", by |-> 0]]
  /\ UNCHANGED <<window, gui, cams>>

\* requestStop() reaches stream s: its entry is opened (the variant: and
\* was not rejected by the target).
AsksEnabled(s) == enabled[s[1]] /\ opened[s[1]] /\ stream[s[1]] = s[2]
Asks(s) == opened[s[1]] /\ stream[s[1]] = s[2]

\* The thread of s is joinable (the variant: and has not ended by itself).
HandsOffRunning(s) == thread[s[1]] = s[2] /\ phase[s] # "over"
HandsOff(s) == thread[s[1]] = s[2]

\* StreamPool::stopAll(): ask the opened streams, hand the threads off
\* together with the streams they run on.
StopAll ==
  LET off == {s \in Streams : HandsOff(s)}
      moved(c) == <<c, thread[c]>> \in off
  IN /\ asked' = [s \in Streams |-> asked[s] \/ Asks(s)]
     /\ handed' = handed \cup off
     /\ stream' = [c \in Cameras |-> IF moved(c) THEN 0 ELSE stream[c]]
     /\ thread' = [c \in Cameras |-> IF moved(c) THEN 0 ELSE thread[c]]
     /\ opened' = [c \in Cameras |-> FALSE]

\* stopEverything() up to the join of the replay thread.
StopEverything(handler) ==
  /\ window = "open" /\ gui = "free"
  /\ handler = "Pause" => playback = "Playing"
  /\ handler = "Stop" => playback # "Idle"
  /\ StopAll
  /\ blfStop' = TRUE
  /\ gui' = handler
  /\ UNCHANGED <<window, playback, cams, plays, enabled, awaiting, phase,
                 origin, late, blfPath, blf, events, tile>>

\* blfThread_.join() returns (the variant joins the camera threads too).
JoinsEveryThread ==
  blf.phase \in {"none", "over"} /\ \A s \in handed : phase[s] = "over"
Joins == blf.phase \in {"none", "over"}

\* The rest of the handler.
HandlerEnds(handler) ==
  /\ gui = handler /\ Joins
  /\ blf' = NoReplay
  /\ gui' = "free"
  /\ playback' = IF handler = "Pause" THEN "Paused"
                 ELSE IF handler = "Stop" THEN "Idle" ELSE playback
  /\ tile' = [c \in Cameras |-> IF handler = "Stop" THEN Idle ELSE tile[c]]
  /\ window' = IF handler = "Close" THEN "closed" ELSE window
  /\ UNCHANGED <<cams, plays, enabled, awaiting, pool, threads, blfPath,
                 blfStop, events>>

\* Configure, accepted: clearCameras(), addCamera() and rebuildGrid().
Configure ==
  /\ window = "open" /\ gui = "free" /\ playback = "Idle"
  /\ cams' \in SUBSET Cameras \ {{}}
  /\ blfPath' \in BOOLEAN
  /\ stream' = [c \in Cameras |-> 0] /\ thread' = stream'
  /\ opened' = [c \in Cameras |-> FALSE]
  /\ enabled' = [c \in Cameras |-> TRUE]
  /\ tile' = [c \in Cameras |-> Idle]
  /\ UNCHANGED <<window, playback, gui, plays, awaiting, handed, threads, blf,
                 blfStop, events>>

\* exec() returns: main() destroys the window with all it holds, then the
\* pool; what is destroyed is reset here.
Leave ==
  /\ window = "closed" /\ window' = "gone"
  /\ stream' = [c \in Cameras |-> 0] /\ thread' = stream'
  /\ events' = [c \in Cameras |-> <<>>]
  /\ tile' = [c \in Cameras |-> Idle]
  /\ enabled' = [c \in Cameras |-> TRUE] /\ awaiting' = FALSE
  /\ blfPath' = FALSE /\ blfStop' = FALSE
  /\ UNCHANGED <<playback, gui, cams, plays, opened, handed, threads, blf>>
-----------------------------------------------------------------------------
(* onDeclareComplete(), as far as it concerns the pool and the tiles.      *)

\* The target answers for each camera; the others are READY.
Verdict(rejected) ==
  /\ window # "gone" /\ gui = "free" /\ awaiting /\ playback = "Playing"
  /\ rejected \subseteq cams
  /\ awaiting' = FALSE
  /\ enabled' = [c \in Cameras |-> enabled[c] /\ c \notin rejected]
  /\ tile' = [c \in Cameras |-> IF c \notin cams THEN tile[c] ELSE
       Labelled(tile[c], IF c \in rejected THEN "target" ELSE "none", 0)]
  /\ UNCHANGED <<window, playback, gui, cams, plays, pool, threads, replay,
                 events>>

\* No connection: once more with a started dispatcher, or give up.
ConnectFailed(again) ==
  /\ window # "gone" /\ gui = "free" /\ awaiting /\ playback = "Playing"
  /\ awaiting' = again
  /\ tile' = [c \in Cameras |-> IF c \notin cams THEN tile[c] ELSE
       Labelled(tile[c], IF again THEN "status" ELSE "target", 0)]
  /\ UNCHANGED <<window, playback, gui, cams, plays, enabled, pool, threads,
                 replay, events>>

\* The callback finds that playback is over or paused.
VerdictIgnored ==
  /\ window # "gone" /\ gui = "free" /\ awaiting /\ playback # "Playing"
  /\ awaiting' = FALSE
  /\ UNCHANGED <<window, playback, gui, cams, plays, enabled, pool, threads,
                 replay, events, tile>>
-----------------------------------------------------------------------------
(* Queued calls, on the GUI thread.                                        *)

Dequeues(c, kind) ==
  /\ window # "gone" /\ gui = "free" /\ events[c] # <<>>
  /\ Head(events[c]).kind = kind
  /\ events' = [events EXCEPT ![c] = Tail(@)]
  /\ UNCHANGED <<session, pool, threads, replay>>

\* onPreviewFrame(): clearError(), then updateFrame().
OnPreviewFrame(c) ==
  /\ Dequeues(c, "preview")
  /\ tile' = [tile EXCEPT ![c] = IF c \notin cams THEN @ ELSE
       [picture |-> TRUE, banner |-> "none", by |-> 0]]

OnCameraError(c) ==
  /\ Dequeues(c, "error")
  /\ tile' = [tile EXCEPT ![c] = IF c \notin cams THEN @ ELSE
       Labelled(@, "failed", Head(events[c]).play)]
-----------------------------------------------------------------------------
(* CameraStream::run() on the thread of stream s.                          *)

Goes(s, from, to) == phase[s] = from /\ phase' = [phase EXCEPT ![s] = to]
Alone == UNCHANGED <<session, pool, replay, tile>>
Quiet == Alone /\ UNCHANGED <<asked, origin, late, events>>

\* A callback of stream s posts a call for the GUI thread, which is dropped
\* when the window is gone.
Posts(s, kind) ==
  /\ events' = IF window = "gone" THEN events
               ELSE [events EXCEPT ![s[1]] = Queued(@, kind, s[2])]
  /\ late' = [late EXCEPT ![s][kind] = IF asked[s] /\ @ < 2 THEN @ + 1 ELSE @]
  /\ Alone /\ UNCHANGED <<asked, origin>>

\* The head of the outer loop only: one look at the flag in a pass.
LoopHeadPerPass(s) ==
  /\ \/ Goes(s, "head", IF asked[s] THEN "trailer" ELSE "read")
     \/ Goes(s, "head", "read")
  /\ Quiet

\* The head of both loops: the stop flag is looked at here only.
LoopHead(s) ==
  /\ Goes(s, "head", IF asked[s] THEN "trailer" ELSE "read")
  /\ Quiet

\* One turn of the read loop up to the encoder: read a packet, sleep until
\* its deadline, decode, encode.  Nothing to send (a packet of another
\* stream, no frame yet, the end of the file and back to its start), a frame,
\* or a fatal error; at the end of the file a stop is seen before the seek.
\* One frame in kPreviewFrameInterval has a preview; here any may, unless
\* MaxEvents calls are waiting already.  A packet gives no more frames than
\* that interval, so one preview at most.
ReadFrame(s) ==
  /\ \E to \in {"head", "preview", "write", "failing"} :
       /\ Goes(s, "read", to)
       /\ to = "preview" => Room(s[1])
  /\ Quiet

\* The preview callback posts a copy of the frame to the window.
EmitPreview(s) ==
  /\ Goes(s, "preview", "write")
  /\ Posts(s, "preview")

\* av_interleaved_write_frame(), which may never return.
WriteFrame(s) ==
  /\ \E to \in {"head", "failing"} : Goes(s, "write", to)
  /\ Quiet

\* av_write_trailer(), which sends as well.
WriteTrailer(s) ==
  /\ Goes(s, "trailer", "over") \/ Goes(s, "failing", "report")
  /\ Quiet

\* The error callback as a direct call into the window.
ReportErrorDirect(s) ==
  /\ Goes(s, "report", "over")
  /\ tile' = [tile EXCEPT ![s[1]] = IF s[1] \notin cams THEN @ ELSE
       Labelled(@, "failed", s[2])]
  /\ UNCHANGED <<session, pool, replay, asked, origin, late, events>>

\* The error callback, after a fatal error, asked to stop or not.
ReportError(s) ==
  /\ Goes(s, "report", "over")
  /\ Posts(s, "error")

\* A cleanup thread that detaches its thread and destroys the stream.
CleanupUnjoined(s) ==
  /\ s \in handed
  /\ handed' = handed \ {s}
  /\ UNCHANGED <<session, stream, thread, opened, threads, replay, events, tile>>

\* The cleanup thread's join() returns; it destroys the stream.
Cleanup(s) ==
  /\ s \in handed /\ phase[s] = "over"
  /\ handed' = handed \ {s}
  /\ phase' = [phase EXCEPT ![s] = "none"]
  /\ asked' = [asked EXCEPT ![s] = FALSE]
  /\ origin' = [origin EXCEPT ![s] = 0]
  /\ late' = [late EXCEPT ![s] = NoCalls]
  /\ UNCHANGED <<session, stream, thread, opened, replay, events, tile>>

Works(s) == LoopHead(s) \/ ReadFrame(s) \/ EmitPreview(s)
            \/ ReportError(s) \/ Cleanup(s)
Sends(s) == WriteFrame(s) \/ WriteTrailer(s)
-----------------------------------------------------------------------------
(* BlfReplayer::run().                                                     *)

ReplayGoes(from, to) == blf.phase = from /\ blf' = [blf EXCEPT !.phase = to]
ReplayAlone ==
  UNCHANGED <<session, pool, threads, blfPath, blfStop, events, tile>>

\* The flag is looked at before the sleep ...
ReplayCheck ==
  /\ ReplayGoes("check",
                IF blfStop \/ blf.left = 0 THEN "over" ELSE "sleep")
  /\ ReplayAlone

\* ... and after it, before the frame is sent.
ReplaySend ==
  /\ \/ blfStop /\ ReplayGoes("sleep", "over")
     \/ /\ ~blfStop /\ blf.phase = "sleep"
        /\ blf' = [blf EXCEPT !.phase = "check", !.left = @ - 1]
  /\ ReplayAlone

Replay == ReplayCheck \/ ReplaySend
-----------------------------------------------------------------------------
User == Play \/ (\E h \in Handlers : StopEverything(h)) \/ Configure \/ Leave
Target == (\E rejected \in SUBSET Cameras : Verdict(rejected))
          \/ (\E again \in BOOLEAN : ConnectFailed(again)) \/ VerdictIgnored
Gui == (\E h \in Handlers : HandlerEnds(h))
       \/ (\E c \in Cameras : OnPreviewFrame(c) \/ OnCameraError(c))

Next == User \/ Target \/ Gui \/ Replay \/ \E s \in Streams : Works(s) \/ Sends(s)

\* Threads are scheduled and sleeps end; a write need not return, the user
\* and the target need not act.
Fairness ==
  /\ \A s \in Streams : WF_vars(Works(s))
  /\ \A c \in Cameras : WF_vars(OnPreviewFrame(c) \/ OnCameraError(c))
  /\ WF_vars(\E h \in Handlers : HandlerEnds(h))
  /\ WF_vars(Replay)

Spec == Init /\ [][Next]_vars
FairSpec == Spec /\ Fairness
-----------------------------------------------------------------------------
TileType == [picture : BOOLEAN, banner : Banners, by : Plays]
ReplayType == [phase : {"none", "check", "sleep", "over"}, left : 0..BlfFrames,
               origin : Plays]

\* Types.
TypeOK ==
  /\ window \in {"open", "closed", "gone"}
  /\ playback \in {"Idle", "Playing", "Paused"}
  /\ gui \in {"free"} \cup Handlers
  /\ cams \subseteq Cameras /\ plays \in Plays
  /\ enabled \in [Cameras -> BOOLEAN] /\ opened \in [Cameras -> BOOLEAN]
  /\ stream \in [Cameras -> Plays] /\ thread \in [Cameras -> Plays]
  /\ handed \subseteq Streams
  /\ phase \in [Streams -> Phases] /\ asked \in [Streams -> BOOLEAN]
  /\ origin \in [Streams -> Plays] /\ late \in [Streams -> [Kinds -> 0..2]]
  /\ events \in [Cameras -> Seq([kind : Kinds, play : Plays])]
  /\ tile \in [Cameras -> TileType]
  /\ awaiting \in BOOLEAN /\ blfPath \in BOOLEAN /\ blfStop \in BOOLEAN
  /\ blf \in ReplayType

\* Between a Play and the Pause, Stop or close that ends it.
Streaming == window = "open" /\ gui = "free" /\ playback = "Playing"

\* The object a thread runs on is not destroyed under it: while run() is in
\* progress the pool's entry or a cleanup thread owns the CameraStream
\* (stopAll(), startAll() and clearCameras() replace or move entries).
StreamOutlivesThread == \A s \in Streams : Running(s) => Held(s)

\* Every sender that was not told to stop is the one of the session under
\* way: after Pause, Stop or close none is left behind, whatever the target
\* said of its camera, and a camera has at most one (CameraStream.h warns of
\* a second sender to the same receiver).
NoOrphanSender ==
  \A s \in Streams : Running(s) /\ ~asked[s] =>
    Streaming /\ thread[s[1]] = s[2] /\ s[2] = plays

\* A stream that was told to stop hands the GUI's queue at most one more
\* preview and one more error: requestStop() takes effect within one
\* iteration of the read loop (CameraStream.h).  Nothing is said of the tiles:
\* what was queued before the stop is drawn after it too (MainWindow.cpp:399).
FewCallsAfterStop == \A s \in Streams, kind \in Kinds : late[s][kind] <= 1

\* The senders of a session and the replay share one Timeline origin.
SharedOrigin ==
  /\ \A s \in Streams : Running(s) /\ ~asked[s] => origin[s] = plays
  /\ blf.phase \in {"check", "sleep"} => blf.origin = plays

\* No std::thread is assigned to, or destroyed, while joinable: a Play, a
\* Configure and the end of the program find the threads of the pool and of
\* the replay joined or handed off.
NoThreadOverwritten ==
  [][/\ plays' # plays => blf.phase = "none"
     /\ \A c \in Cameras :
          thread[c] # 0 /\ thread'[c] # thread[c] =>
            thread'[c] = 0 /\ <<c, thread[c]>> \in handed']_vars

\* The error of a stream is not wiped off its tile by a frame of the same
\* stream: the callbacks reach the GUI thread in the order they were made.
OwnErrorStays ==
  [][\A c \in Cameras :
       /\ window' # "gone" /\ tile[c].banner = "failed"
       /\ tile'[c].banner # "failed" /\ Len(events'[c]) < Len(events[c])
       => Head(events[c]).play # tile[c].by]_vars

\* A stream that was told to stop ends and is destroyed, unless it is inside
\* a write to the target.
StoppedStreamsEnd ==
  \A s \in Streams :
    asked[s] ~> ~Held(s) \/ phase[s] \in {"write", "trailer", "failing"}

\* A stream is told to stop if and only if a cleanup thread has it: none
\* waits for a stream that nobody told, and none that was told is left to
\* the pool, where the next Play would destroy it.
ToldIsHandedOff == \A s \in Streams : asked[s] <=> s \in handed

\* stopEverything() returns to the event loop even if a write never does
\* (docs/adr/0004).
GuiReturns == gui # "free" ~> gui = "free"

\* A replay nobody stopped has sent every frame (BlfReplayer.h: "Call open()
\* again for a fresh replay").  Not so: stopRequested_ is never reset.
ReplayIsComplete ==
  Streaming /\ blf.phase = "over" => blf.left = 0
=============================================================================
