---------------------- MODULE StreamLifecycle_proofs -----------------------
(***************************************************************************)
(* Theorems about StreamLifecycle, for any set of cameras and any bounds.  *)
(* The inductive invariant says who owns a running stream, that a stream   *)
(* is told to stop exactly when it is handed off, and that nothing of an   *)
(* earlier session is left in the pool when the next one starts.  A second *)
(* invariant orders the calls queued for a tile.                           *)
(***************************************************************************)
EXTENDS StreamLifecycle, TLAPS

(* A joinable thread is that of the stream in its entry, of this session.  *)
Entries ==
  \A c \in Cameras :
    /\ thread[c] # 0 =>
         thread[c] = stream[c] /\ thread[c] = plays /\ opened[c] /\ Streaming
    /\ opened[c] => thread[c] # 0

(* A running thread is joinable in the pool, or a cleanup thread joins it. *)
Hosted ==
  \A s \in Streams : Running(s) => s \in handed \/ thread[s[1]] = s[2]

(* A stream told to stop has posted nothing while it may yet post a frame, *)
(* and no error while it may yet report one.                               *)
Counted ==
  \A s \in Streams :
    /\ \A kind \in Kinds : late[s][kind] <= 1
    /\ ~asked[s] \/ phase[s] \in {"read", "preview"} => late[s] = NoCalls
    /\ phase[s] \in {"write", "failing", "report"} => late[s]["error"] = 0

Stamped == \A s \in Streams : Running(s) /\ ~asked[s] => origin[s] = plays

(* The replay belongs to the session, or to the handler that ends it.      *)
Replayed ==
  /\ blf.phase \in {"check", "sleep"} => blf.origin = plays
  /\ blf.phase # "none" => Streaming \/ gui # "free"
  /\ blf.phase = "sleep" => blf.left > 0

IInv ==
  TypeOK /\ Entries /\ Hosted /\ ToldIsHandedOff /\ Counted /\ Stamped /\ Replayed

-----------------------------------------------------------------------------
LEMMA UpdateTyped ==
  ASSUME NEW S, NEW T, NEW f \in [S -> T], NEW x, NEW v \in T
  PROVE  [f EXCEPT ![x] = v] \in [S -> T]
OBVIOUS

(* The calls queued for a tile stay typed when one is added or taken.      *)
LEMMA QueueTyped ==
  ASSUME NEW q \in Seq([kind : Kinds, play : Plays]), NEW kind \in Kinds,
         NEW p \in Plays
  PROVE  /\ Queued(q, kind, p) \in Seq([kind : Kinds, play : Plays])
         /\ q # <<>> => /\ Tail(q) \in Seq([kind : Kinds, play : Plays])
                        /\ Head(q).play \in Plays
<1> DEFINE Call == [kind : Kinds, play : Plays]
<1>1. \A e \in Call : e.play \in Plays
      OBVIOUS
<1>2. [kind |-> kind, play |-> p] \in Call
      OBVIOUS
<1> SUFFICES ASSUME q \in Seq(Call)
             PROVE /\ Append(q, [kind |-> kind, play |-> p]) \in Seq(Call)
                   /\ q # <<>> => Tail(q) \in Seq(Call) /\ Head(q).play \in Plays
    BY DEF Queued
<1> HIDE DEF Call
<1>3. q # <<>> => Head(q) \in Call
      OBVIOUS
<1> QED BY <1>1, <1>2, <1>3

LEMMA TakeTyped ==
  ASSUME TypeOK, NEW c \in Cameras, NEW kind \in Kinds, Dequeues(c, kind)
  PROVE  /\ events' \in [Cameras -> Seq([kind : Kinds, play : Plays])]
         /\ Head(events[c]).play \in Plays
<1> DEFINE Q == Seq([kind : Kinds, play : Plays])
<1>1. events \in [Cameras -> Q] /\ events[c] \in Q /\ events[c] # <<>>
      BY DEF TypeOK, Dequeues
<1>2. Tail(events[c]) \in Q /\ Head(events[c]).play \in Plays
      BY <1>1, QueueTyped, plays \in Plays DEF TypeOK
<1>3. events' = [events EXCEPT ![c] = Tail(events[c])]
      BY DEF Dequeues
<1> HIDE DEF Q
<1>4. events' \in [Cameras -> Q]
      BY <1>1, <1>2, <1>3
<1> QED BY <1>2, <1>4 DEF Q

LEMMA PostTyped ==
  ASSUME TypeOK, NEW s \in Streams, NEW kind \in Kinds
  PROVE  [events EXCEPT ![s[1]] = Queued(@, kind, s[2])]
           \in [Cameras -> Seq([kind : Kinds, play : Plays])]
<1> DEFINE Q == Seq([kind : Kinds, play : Plays])
<1>1. s[1] \in Cameras /\ s[2] \in Plays
      BY BoundsAssumption DEF Streams, Plays
<1>2. events \in [Cameras -> Q] /\ events[s[1]] \in Q
      BY <1>1 DEF TypeOK
<1>3. Queued(events[s[1]], kind, s[2]) \in Q
      BY <1>1, <1>2, QueueTyped
<1> HIDE DEF Q
<1>4. [events EXCEPT ![s[1]] = Queued(@, kind, s[2])] \in [Cameras -> Q]
      BY <1>1, <1>2, <1>3
<1> QED BY <1>4 DEF Q

LEMMA LateTyped ==
  ASSUME TypeOK, NEW s \in Streams, NEW kind \in Kinds
  PROVE  [late EXCEPT ![s][kind] = IF asked[s] /\ @ < 2 THEN @ + 1 ELSE @]
           \in [Streams -> [Kinds -> 0..2]]
<1>1. late \in [Streams -> [Kinds -> 0..2]]
      BY DEF TypeOK
<1>2. late[s] \in [Kinds -> 0..2] /\ late[s][kind] \in 0..2
      BY <1>1
<1>3. (IF asked[s] /\ late[s][kind] < 2 THEN late[s][kind] + 1 ELSE late[s][kind]) \in 0..2
      BY <1>2
<1>4. [late[s] EXCEPT ![kind] = IF asked[s] /\ @ < 2 THEN @ + 1 ELSE @] \in [Kinds -> 0..2]
      BY <1>2, <1>3
<1> QED BY <1>1, <1>4

LEMMA TypeInit == Init => TypeOK
<1> SUFFICES ASSUME Init PROVE TypeOK
    OBVIOUS
<1> USE BoundsAssumption DEF Init, Plays
<1>1. /\ window \in {"open", "closed", "gone"}
      /\ playback \in {"Idle", "Playing", "Paused"}
      /\ gui \in {"free"} \cup Handlers /\ cams \subseteq Cameras /\ plays \in Plays
      OBVIOUS
<1>6. awaiting \in BOOLEAN /\ blfPath \in BOOLEAN /\ blfStop \in BOOLEAN
      OBVIOUS
<1>2. /\ enabled \in [Cameras -> BOOLEAN] /\ opened \in [Cameras -> BOOLEAN]
      /\ asked \in [Streams -> BOOLEAN]
      OBVIOUS
<1>3. /\ stream \in [Cameras -> Plays] /\ thread \in [Cameras -> Plays]
      /\ handed \subseteq Streams /\ phase \in [Streams -> Phases]
      /\ origin \in [Streams -> Plays]
      BY DEF Phases
<1>7. late \in [Streams -> [Kinds -> 0..2]]
      BY DEF NoCalls
<1>4. events \in [Cameras -> Seq([kind : Kinds, play : Plays])]
  <2>1. <<>> \in Seq([kind : Kinds, play : Plays])
        OBVIOUS
  <2> QED BY <2>1
<1>5. tile \in [Cameras -> TileType] /\ blf \in ReplayType
      BY DEF TileType, ReplayType, Banners, Idle, NoReplay
<1> QED BY <1>1, <1>2, <1>3, <1>4, <1>5, <1>6, <1>7 DEF TypeOK

LEMMA TypeStep == TypeOK /\ Replayed /\ [Next]_vars => TypeOK'
<1> SUFFICES ASSUME TypeOK, Replayed, [Next]_vars PROVE TypeOK'
    OBVIOUS
<1> USE BoundsAssumption DEF TypeOK, Plays, vars, session, pool, threads, replay
<1>1. CASE Play
  <2>1. PICK failing \in SUBSET cams : StartAll(failing)
        BY <1>1 DEF Play
  <2>2. plays + 1 \in Plays
        BY <1>1 DEF Play
  <2>3. events' \in [Cameras -> Seq([kind : Kinds, play : Plays])]
        BY <2>1, <2>2, QueueTyped DEF StartAll, Kinds
  <2>4. /\ stream' \in [Cameras -> Plays] /\ thread' \in [Cameras -> Plays]
        /\ opened' \in [Cameras -> BOOLEAN]
        BY <2>1, <2>2 DEF StartAll
  <2>5. /\ phase' \in [Streams -> Phases] /\ origin' \in [Streams -> Plays]
        /\ plays' \in Plays /\ UNCHANGED <<handed, asked, late>>
        BY <2>1, <2>2 DEF StartAll, Phases, TimelineOrigin
  <2>6. tile' \in [Cameras -> TileType]
        BY <1>1 DEF Play, TileType, Banners
  <2>7. blf' \in ReplayType /\ blfPath' \in BOOLEAN /\ blfStop' = blfStop
    <3>1. [phase |-> "check", left |-> BlfFrames, origin |-> plays + 1] \in ReplayType
          BY <2>2 DEF ReplayType
    <3> QED BY <1>1, <3>1 DEF Play, StartReplay, TimelineOrigin
  <2> QED BY <1>1, <2>3, <2>4, <2>5, <2>6, <2>7 DEF Play
<1>2. ASSUME NEW h \in Handlers, StopEverything(h) PROVE TypeOK'
  <2>1. asked' \in [Streams -> BOOLEAN] /\ opened' \in [Cameras -> BOOLEAN]
        BY <1>2 DEF StopEverything, StopAll
  <2>2. handed' \subseteq Streams
        BY <1>2 DEF StopEverything, StopAll
  <2>3. stream' \in [Cameras -> Plays] /\ thread' \in [Cameras -> Plays]
        BY <1>2 DEF StopEverything, StopAll
  <2> QED BY <1>2, <2>1, <2>2, <2>3 DEF StopEverything
<1>3. CASE Configure
  <2>1. tile' \in [Cameras -> TileType]
        BY <1>3 DEF Configure, TileType, Banners, Idle
  <2>2. stream' \in [Cameras -> Plays] /\ thread' \in [Cameras -> Plays]
        BY <1>3 DEF Configure
  <2>3. opened' \in [Cameras -> BOOLEAN] /\ enabled' \in [Cameras -> BOOLEAN]
        BY <1>3 DEF Configure
  <2>4. cams' \subseteq Cameras
        BY <1>3 DEF Configure
  <2> QED BY <1>3, <2>1, <2>2, <2>3, <2>4 DEF Configure
<1>4. CASE Leave
  <2>1. tile' \in [Cameras -> TileType]
        BY <1>4 DEF Leave, TileType, Banners, Idle
  <2>2. stream' \in [Cameras -> Plays] /\ thread' \in [Cameras -> Plays]
        BY <1>4 DEF Leave
  <2>3. enabled' \in [Cameras -> BOOLEAN]
        BY <1>4 DEF Leave
  <2>4. events' \in [Cameras -> Seq([kind : Kinds, play : Plays])]
    <3>1. <<>> \in Seq([kind : Kinds, play : Plays])
          OBVIOUS
    <3> QED BY <1>4, <3>1 DEF Leave
  <2> QED BY <1>4, <2>1, <2>2, <2>3, <2>4 DEF Leave
<1>5. ASSUME NEW rejected \in SUBSET Cameras, Verdict(rejected) PROVE TypeOK'
  <2>1. tile' \in [Cameras -> TileType]
        BY <1>5 DEF Verdict, Labelled, TileType, Banners
  <2> QED BY <1>5, <2>1 DEF Verdict
<1>6. ASSUME NEW again \in BOOLEAN, ConnectFailed(again) PROVE TypeOK'
  <2>1. tile' \in [Cameras -> TileType]
        BY <1>6 DEF ConnectFailed, Labelled, TileType, Banners
  <2> QED BY <1>6, <2>1 DEF ConnectFailed
<1>7. CASE VerdictIgnored
      BY <1>7 DEF VerdictIgnored
<1>8. ASSUME NEW h \in Handlers, HandlerEnds(h) PROVE TypeOK'
  <2>1. tile' \in [Cameras -> TileType] /\ blf' \in ReplayType
        BY <1>8 DEF HandlerEnds, TileType, ReplayType, Banners, Idle, NoReplay
  <2> QED BY <1>8, <2>1 DEF HandlerEnds
<1>9. ASSUME NEW c \in Cameras, OnPreviewFrame(c) PROVE TypeOK'
  <2>1. events' \in [Cameras -> Seq([kind : Kinds, play : Plays])]
        BY <1>9, TakeTyped DEF OnPreviewFrame, Kinds
  <2>2. tile' \in [Cameras -> TileType]
        BY <1>9 DEF OnPreviewFrame, TileType, Banners
  <2> QED BY <1>9, <2>1, <2>2 DEF OnPreviewFrame, Dequeues
<1>10. ASSUME NEW c \in Cameras, OnCameraError(c) PROVE TypeOK'
  <2>1. events' \in [Cameras -> Seq([kind : Kinds, play : Plays])]
        /\ Head(events[c]).play \in Plays
        BY <1>10, TakeTyped DEF OnCameraError, Kinds
  <2>2. tile' \in [Cameras -> TileType]
        BY <1>10, <2>1 DEF OnCameraError, Labelled, TileType, Banners
  <2> QED BY <1>10, <2>1, <2>2 DEF OnCameraError, Dequeues
<1>11. CASE Replay
  <2>1. CASE ReplayCheck
        BY <2>1 DEF ReplayCheck, ReplayGoes, ReplayAlone, ReplayType
  <2>2. CASE ReplaySend
    <3>1. blf' \in ReplayType
      <4>1. CASE blfStop /\ ReplayGoes("sleep", "over")
            BY <4>1 DEF ReplayGoes, ReplayType
      <4>2. CASE blf.phase = "sleep" /\ blf' = [blf EXCEPT !.phase = "check", !.left = @ - 1]
        <5>1. blf.left \in Nat /\ blf.left > 0 /\ blf.left <= BlfFrames
              BY <4>2 DEF Replayed, ReplayType
        <5>2. blf' = [phase |-> "check", left |-> blf.left - 1, origin |-> blf.origin]
              BY <4>2, Zenon DEF ReplayType
        <5> QED BY <5>1, <5>2 DEF ReplayType
      <4> QED BY <2>2, <4>1, <4>2 DEF ReplaySend
    <3> QED BY <2>2, <3>1 DEF ReplaySend, ReplayAlone
  <2> QED BY <1>11, <2>1, <2>2 DEF Replay
<1>12. ASSUME NEW s \in Streams, Works(s) \/ Sends(s) PROVE TypeOK'
  <2> USE DEF Goes, Alone, Quiet
  <2>1. CASE LoopHead(s)
        BY <2>1 DEF LoopHead, Phases
  <2>2. CASE ReadFrame(s)
    <3>1. phase' \in [Streams -> Phases]
          BY <2>2 DEF ReadFrame, Phases
    <3> QED BY <2>2, <3>1 DEF ReadFrame
  <2>3. CASE EmitPreview(s)
    <3>1. events' \in [Cameras -> Seq([kind : Kinds, play : Plays])]
          BY <2>3, PostTyped, "preview" \in Kinds DEF EmitPreview, Posts, Kinds
    <3>2. late' \in [Streams -> [Kinds -> 0..2]]
          BY <2>3, LateTyped, "preview" \in Kinds DEF EmitPreview, Posts, Kinds
    <3> QED BY <2>3, <3>1, <3>2 DEF EmitPreview, Posts, Phases
  <2>4. CASE ReportError(s)
    <3>1. events' \in [Cameras -> Seq([kind : Kinds, play : Plays])]
          BY <2>4, PostTyped, "error" \in Kinds DEF ReportError, Posts, Kinds
    <3>2. late' \in [Streams -> [Kinds -> 0..2]]
          BY <2>4, LateTyped, "error" \in Kinds DEF ReportError, Posts, Kinds
    <3> QED BY <2>4, <3>1, <3>2 DEF ReportError, Posts, Phases
  <2>5. CASE Cleanup(s)
    <3>1. phase' \in [Streams -> Phases] /\ handed' \subseteq Streams
          BY <2>5 DEF Cleanup, Phases
    <3>2. asked' \in [Streams -> BOOLEAN]
          BY <2>5 DEF Cleanup
    <3>3. origin' \in [Streams -> Plays] /\ late' \in [Streams -> [Kinds -> 0..2]]
          BY <2>5 DEF Cleanup, NoCalls
    <3> QED BY <2>5, <3>1, <3>2, <3>3 DEF Cleanup
  <2>6. CASE WriteFrame(s)
        BY <2>6 DEF WriteFrame, Phases
  <2>7. CASE WriteTrailer(s)
        BY <2>7 DEF WriteTrailer, Phases
  <2> QED BY <1>12, <2>1, <2>2, <2>3, <2>4, <2>5, <2>6, <2>7 DEF Works, Sends
<1>13. CASE UNCHANGED vars
       BY <1>13
<1> QED BY <1>1, <1>2, <1>3, <1>4, <1>5, <1>6, <1>7, <1>8, <1>9, <1>10, <1>11,
           <1>12, <1>13 DEF Next, User, Target, Gui

-----------------------------------------------------------------------------
(* Initially nothing runs.                                                 *)
LEMMA Start == Init => IInv
<1> SUFFICES ASSUME Init PROVE IInv
    OBVIOUS
<1>1. TypeOK
      BY TypeInit
<1>2. Entries /\ Hosted /\ ToldIsHandedOff
      BY DEF Init, Entries, Hosted, ToldIsHandedOff, Running
<1>3. Counted /\ Stamped
      BY DEF Init, Counted, Stamped, Running, NoCalls, Kinds
<1>4. Replayed
      BY DEF Init, Replayed, NoReplay
<1> QED BY <1>1, <1>2, <1>3, <1>4 DEF IInv

(* Every step but these four leaves the pool's threads alone, and the      *)
(* session and the origin as they are; only they start a stream.           *)
OfPool == Play \/ (\E h \in Handlers : StopEverything(h)) \/ Configure \/ Leave

(* The steps of a thread and of its cleanup thread.                        *)
OfThread == \E s \in Streams : Works(s) \/ Sends(s)

LEMMA OtherSteps ==
  ASSUME [Next]_vars, ~OfPool, ~OfThread
  PROVE  /\ UNCHANGED <<pool, threads, plays>>
         /\ \/ UNCHANGED <<window, playback, gui>>
            \/ \E h \in Handlers : HandlerEnds(h)
<1> USE DEF vars, session, pool, threads
<1>1. CASE Target
      BY <1>1 DEF Target, Verdict, ConnectFailed, VerdictIgnored
<1>2. CASE Gui
      BY <1>2 DEF Gui, HandlerEnds, OnPreviewFrame, OnCameraError, Dequeues
<1>3. CASE Replay
      BY <1>3 DEF Replay, ReplayCheck, ReplaySend, ReplayAlone
<1>4. CASE UNCHANGED vars
      BY <1>4
<1> QED BY <1>1, <1>2, <1>3, <1>4 DEF Next, User, OfPool, OfThread

LEMMA ThreadSteps ==
  ASSUME OfThread
  PROVE  UNCHANGED <<session, stream, thread, opened, replay>>
BY DEF OfThread, Works, Sends, LoopHead, ReadFrame, EmitPreview, ReportError,
   Cleanup, WriteFrame, WriteTrailer, Quiet, Posts, Alone, pool

(* A handler ends only outside a session, so a session outlives all other  *)
(* steps.                                                                  *)
LEMMA StreamingKept ==
  ASSUME [Next]_vars, ~OfPool
  PROVE  Streaming => Streaming'
<1>1. CASE OfThread
      BY <1>1, ThreadSteps DEF session, Streaming
<1>2. CASE ~OfThread
      BY <1>2, OtherSteps DEF Streaming, HandlerEnds, Handlers
<1> QED BY <1>1, <1>2

LEMMA EntriesStep == IInv /\ [Next]_vars => Entries'
<1> SUFFICES ASSUME IInv, [Next]_vars PROVE Entries'
    OBVIOUS
<1> USE DEF IInv, Entries, TypeOK
<1>1. CASE Play
  <2>1. PICK failing \in SUBSET cams : StartAll(failing)
        BY <1>1 DEF Play
  <2>2. Streaming'
        BY <1>1 DEF Play, Streaming
  <2>3. \A c \in Cameras : thread[c] = 0 /\ ~opened[c]
        BY <1>1 DEF Play, Streaming
  <2> DEFINE starting == {c \in cams : enabled'[c]}
  <2>4. /\ plays' = plays + 1
        /\ stream' = [c \in Cameras |-> IF c \in starting THEN plays + 1 ELSE stream[c]]
        /\ opened' = [c \in Cameras |->
                        IF c \in starting THEN c \notin failing ELSE opened[c]]
        /\ thread' = [c \in Cameras |->
                        IF c \in starting \ failing THEN plays + 1 ELSE thread[c]]
        BY <2>1 DEF StartAll
  <2>5. plays + 1 # 0
        BY DEF Plays
  <2> HIDE DEF starting
  <2> SUFFICES ASSUME NEW c \in Cameras
               PROVE /\ thread'[c] # 0 => thread'[c] = stream'[c] /\ thread'[c] = plays'
                                           /\ opened'[c] /\ Streaming'
                     /\ opened'[c] => thread'[c] # 0
      OBVIOUS
  <2>6. CASE c \in starting \ failing
        BY <2>2, <2>4, <2>5, <2>6
  <2>7. CASE c \notin starting \ failing
        BY <2>3, <2>4, <2>7
  <2> QED BY <2>6, <2>7
<1>2. ASSUME NEW h \in Handlers, StopEverything(h) PROVE Entries'
  <2>1. \A c \in Cameras : thread[c] # 0 => <<c, thread[c]>> \in Streams
        BY BoundsAssumption DEF Streams, Plays
  <2> QED BY <1>2, <2>1 DEF StopEverything, StopAll, HandsOff
<1>3. CASE Configure
      BY <1>3 DEF Configure
<1>4. CASE Leave
  <2>1. ~Streaming
        BY <1>4 DEF Leave, Streaming
  <2> QED BY <1>4, <2>1 DEF Leave
<1>5. CASE ~OfPool
  <2>1. UNCHANGED <<stream, thread, opened, plays>>
        BY <1>5, OtherSteps, ThreadSteps DEF pool, session
  <2> QED BY <1>5, <2>1, StreamingKept
<1> QED BY <1>1, <1>2, <1>3, <1>4, <1>5 DEF OfPool

LEMMA HostedStep == IInv /\ [Next]_vars => Hosted'
<1> SUFFICES ASSUME IInv, [Next]_vars PROVE Hosted'
    OBVIOUS
<1> USE DEF IInv, Hosted, TypeOK, Running
<1>1. CASE Play
  <2>1. PICK failing \in SUBSET cams : StartAll(failing)
        BY <1>1 DEF Play
  <2>2. \A c \in Cameras : thread[c] = 0
        BY <1>1 DEF Play, Entries, Streaming
  <2>3. \A s \in Streams : s[1] \in Cameras /\ s[2] # 0
        BY BoundsAssumption DEF Streams
  <2> QED BY <2>1, <2>2, <2>3 DEF StartAll
<1>2. ASSUME NEW h \in Handlers, StopEverything(h) PROVE Hosted'
      BY <1>2 DEF StopEverything, StopAll, HandsOff
<1>3. CASE Configure \/ Leave
  <2>1. \A c \in Cameras : thread[c] = 0
        BY <1>3 DEF Configure, Leave, Entries, Streaming
  <2>2. \A s \in Streams : s[1] \in Cameras /\ s[2] # 0
        BY BoundsAssumption DEF Streams
  <2> QED BY <1>3, <2>1, <2>2 DEF Configure, Leave, threads
<1>4. ASSUME NEW s \in Streams, Works(s) \/ Sends(s) PROVE Hosted'
  <2>1. UNCHANGED thread
        BY <1>4, ThreadSteps DEF OfThread
  <2>2. CASE Cleanup(s)
        BY <2>1, <2>2 DEF Cleanup
  <2>3. CASE ~Cleanup(s)
    <3>1. handed' = handed /\ phase[s] \notin {"none", "over"}
          BY <1>4, <2>3 DEF Works, Sends, LoopHead, ReadFrame, EmitPreview,
             ReportError, WriteFrame, WriteTrailer, Goes, Quiet, Posts, Alone, pool
    <3>2. \A r \in Streams \ {s} : phase'[r] = phase[r]
          BY <1>4, <2>3 DEF Works, Sends, LoopHead, ReadFrame, EmitPreview,
             ReportError, WriteFrame, WriteTrailer, Goes
    <3> QED BY <2>1, <3>1, <3>2
  <2> QED BY <2>2, <2>3
<1>5. CASE ~OfPool /\ ~OfThread
      BY <1>5, OtherSteps DEF pool, threads
<1> QED BY <1>1, <1>2, <1>3, <1>4, <1>5 DEF OfPool, OfThread

LEMMA ToldStep == IInv /\ [Next]_vars => ToldIsHandedOff'
<1> SUFFICES ASSUME IInv, [Next]_vars PROVE ToldIsHandedOff'
    OBVIOUS
<1> USE DEF IInv, ToldIsHandedOff, TypeOK
<1>1. CASE Play
  <2>1. UNCHANGED <<handed, asked>>
        BY <1>1 DEF Play, StartAll
  <2> QED BY <2>1
<1>2. ASSUME NEW h \in Handlers, StopEverything(h) PROVE ToldIsHandedOff'
  <2>1. \A s \in Streams : HandsOff(s) <=> Asks(s)
        BY BoundsAssumption DEF HandsOff, Asks, Entries, Streams
  <2>2. \A s \in Streams : asked'[s] <=> asked[s] \/ Asks(s)
        BY <1>2 DEF StopEverything, StopAll
  <2>3. \A s \in Streams : s \in handed' <=> s \in handed \/ HandsOff(s)
        BY <1>2 DEF StopEverything, StopAll
  <2> QED BY <2>1, <2>2, <2>3
<1>3. CASE Configure \/ Leave
      BY <1>3 DEF Configure, Leave, threads
<1>4. ASSUME NEW s \in Streams, Works(s) \/ Sends(s) PROVE ToldIsHandedOff'
      BY <1>4 DEF Works, Sends, LoopHead, ReadFrame, EmitPreview, ReportError,
         Cleanup, WriteFrame, WriteTrailer, Quiet, Posts, Alone, pool
<1>5. CASE ~OfPool /\ ~OfThread
      BY <1>5, OtherSteps DEF pool, threads
<1> QED BY <1>1, <1>2, <1>3, <1>4, <1>5 DEF OfPool, OfThread

LEMMA CountedStep == IInv /\ [Next]_vars => Counted'
<1> SUFFICES ASSUME IInv, [Next]_vars PROVE Counted'
    OBVIOUS
<1> USE DEF IInv, Counted, TypeOK
<1>n. "error" \in Kinds /\ \A kind \in Kinds : NoCalls[kind] = 0 /\ NoCalls[kind] <= 1
      BY DEF NoCalls, Kinds
<1>1. CASE Play
  <2>1. PICK failing \in SUBSET cams : StartAll(failing)
        BY <1>1 DEF Play
  <2> QED BY <2>1 DEF StartAll
<1>2. ASSUME NEW h \in Handlers, StopEverything(h) PROVE Counted'
      BY <1>2 DEF StopEverything, StopAll
<1>3. CASE Configure \/ Leave
      BY <1>3 DEF Configure, Leave, threads
<1>4. ASSUME NEW s \in Streams, Works(s) \/ Sends(s) PROVE Counted'
  <2>1. CASE LoopHead(s)
        BY <2>1 DEF LoopHead, Goes, Quiet
  <2>2. CASE ReadFrame(s)
        BY <1>n, <2>2 DEF ReadFrame, Goes, Quiet
  <2>3. CASE Cleanup(s)
    <3>1. /\ late' = [late EXCEPT ![s] = NoCalls]
          /\ phase' = [phase EXCEPT ![s] = "none"]
          /\ asked' = [asked EXCEPT ![s] = FALSE]
          BY <2>3 DEF Cleanup
    <3>2. late'[s] = NoCalls /\ phase'[s] = "none"
          /\ \A r \in Streams \ {s} : late'[r] = late[r] /\ phase'[r] = phase[r]
                                        /\ asked'[r] = asked[r]
          BY <3>1
    <3> QED BY <1>n, <3>2
  <2>4. CASE EmitPreview(s) \/ ReportError(s)
    <3> PICK kind \in Kinds : /\ Posts(s, kind)
                             /\ \/ kind = "preview" /\ Goes(s, "preview", "write")
                                \/ kind = "error" /\ Goes(s, "report", "over")
        BY <2>4 DEF EmitPreview, ReportError, Kinds
    <3>1. asked' = asked /\ \A r \in Streams \ {s} : phase'[r] = phase[r]
          BY DEF Posts, Goes
    <3>2. \/ kind = "preview" /\ phase'[s] = "write"
          \/ kind = "error" /\ phase'[s] = "over"
          BY DEF Goes
    <3>3. /\ late[s][kind] = 0 /\ (~asked[s] => late[s] = NoCalls)
          /\ kind = "preview" => late[s]["error"] = 0
          BY <1>n DEF Goes
    <3>4. late' = [late EXCEPT ![s] =
                     [late[s] EXCEPT ![kind] = IF asked[s] THEN 1 ELSE 0]]
      <4>1. (IF asked[s] /\ late[s][kind] < 2 THEN late[s][kind] + 1 ELSE late[s][kind])
              = IF asked[s] THEN 1 ELSE 0
            BY <3>3
      <4>2. late' = [late EXCEPT ![s] = [late[s] EXCEPT ![kind] =
                       IF asked[s] /\ late[s][kind] < 2 THEN late[s][kind] + 1
                       ELSE late[s][kind]]]
            BY DEF Posts
      <4> QED BY <4>1, <4>2
    <3>5. late[s] \in [Kinds -> 0..2] /\ \A k \in Kinds : late[s][k] <= 1
          OBVIOUS
    <3>6. late'[s] = [late[s] EXCEPT ![kind] = IF asked[s] THEN 1 ELSE 0]
          /\ \A r \in Streams \ {s} : late'[r] = late[r]
          BY <3>4
    <3>7. \A k \in Kinds : late'[s][k] <= 1
          BY <3>5, <3>6
    <3>8. ~asked[s] => late'[s] = NoCalls
          BY <3>3, <3>5, <3>6 DEF NoCalls
    <3>9. phase'[s] \in {"write", "failing", "report"} => late'[s]["error"] = 0
          BY <1>n, <3>2, <3>3, <3>5, <3>6
    <3> QED BY <3>1, <3>2, <3>6, <3>7, <3>8, <3>9
  <2>5. CASE Sends(s)
        BY <2>5 DEF Sends, WriteFrame, WriteTrailer, Goes, Quiet
  <2> QED BY <1>4, <2>1, <2>2, <2>3, <2>4, <2>5 DEF Works
<1>5. CASE ~OfPool /\ ~OfThread
      BY <1>5, OtherSteps DEF threads
<1> QED BY <1>1, <1>2, <1>3, <1>4, <1>5 DEF OfPool, OfThread

LEMMA StampedStep == IInv /\ [Next]_vars => Stamped'
<1> SUFFICES ASSUME IInv, [Next]_vars PROVE Stamped'
    OBVIOUS
<1> USE DEF IInv, Stamped, TypeOK, Running
<1>1. CASE Play
  <2>1. PICK failing \in SUBSET cams : StartAll(failing)
        BY <1>1 DEF Play
  <2>2. \A c \in Cameras : thread[c] = 0
        BY <1>1 DEF Play, Entries, Streaming
  <2>3. \A s \in Streams : phase[s] \notin {"none", "over"} => asked[s]
        BY <2>2, BoundsAssumption DEF Hosted, ToldIsHandedOff, Streams
  <2> QED BY <2>1, <2>3 DEF StartAll, TimelineOrigin
<1>2. ASSUME NEW h \in Handlers, StopEverything(h) PROVE Stamped'
      BY <1>2 DEF StopEverything, StopAll
<1>3. CASE Configure \/ Leave
      BY <1>3 DEF Configure, Leave, threads
<1>4. ASSUME NEW s \in Streams, Works(s) \/ Sends(s) PROVE Stamped'
  <2>1. UNCHANGED plays
        BY <1>4, ThreadSteps DEF OfThread, session
  <2>2. CASE Cleanup(s)
        BY <2>1, <2>2 DEF Cleanup
  <2>3. CASE ~Cleanup(s)
    <3>1. UNCHANGED <<asked, origin>> /\ phase[s] \notin {"none", "over"}
          BY <1>4, <2>3 DEF Works, Sends, LoopHead, ReadFrame, EmitPreview,
             ReportError, WriteFrame, WriteTrailer, Goes, Quiet, Posts
    <3>2. \A r \in Streams \ {s} : phase'[r] = phase[r]
          BY <1>4, <2>3 DEF Works, Sends, LoopHead, ReadFrame, EmitPreview,
             ReportError, WriteFrame, WriteTrailer, Goes
    <3> QED BY <2>1, <3>1, <3>2
  <2> QED BY <2>2, <2>3
<1>5. CASE ~OfPool /\ ~OfThread
      BY <1>5, OtherSteps DEF threads
<1> QED BY <1>1, <1>2, <1>3, <1>4, <1>5 DEF OfPool, OfThread

LEMMA ReplayedStep == IInv /\ [Next]_vars => Replayed'
<1> SUFFICES ASSUME IInv, [Next]_vars PROVE Replayed'
    OBVIOUS
<1> USE DEF IInv, Replayed, TypeOK
<1>1. CASE Play
  <2>1. Streaming' /\ blf.phase = "none" /\ plays' = plays + 1
        BY <1>1 DEF Play, StartAll, Streaming
  <2> QED BY <1>1, <2>1 DEF Play, StartReplay, TimelineOrigin
<1>2. ASSUME NEW h \in Handlers, StopEverything(h) PROVE Replayed'
      BY <1>2 DEF StopEverything, Handlers
<1>3. CASE Configure \/ Leave
      BY <1>3 DEF Configure, Leave, Streaming
<1>4. CASE OfThread
      BY <1>4, ThreadSteps DEF session, replay, Streaming
<1>5. CASE Target
      BY <1>5 DEF Target, Verdict, ConnectFailed, VerdictIgnored, replay, Streaming
<1>6. CASE Gui
      BY <1>6 DEF Gui, HandlerEnds, NoReplay, OnPreviewFrame, OnCameraError,
         Dequeues, session, replay, Streaming
<1>7. CASE Replay
  <2>1. CASE ReplayCheck
        BY <2>1 DEF ReplayCheck, ReplayGoes, ReplayAlone, session, Streaming, ReplayType
  <2>2. CASE ReplaySend
        BY <2>2 DEF ReplaySend, ReplayGoes, ReplayAlone, session, Streaming, ReplayType
  <2> QED BY <1>7, <2>1, <2>2 DEF Replay
<1>8. CASE UNCHANGED vars
      BY <1>8 DEF vars, session, replay, Streaming
<1> QED BY <1>1, <1>2, <1>3, <1>4, <1>5, <1>6, <1>7, <1>8 DEF Next, User, OfThread

LEMMA Inductive == IInv /\ [Next]_vars => IInv'
BY TypeStep, EntriesStep, HostedStep, ToldStep, CountedStep, StampedStep,
   ReplayedStep DEF IInv

LEMMA Always == Spec => []IInv
BY Start, Inductive, PTL DEF Spec

-----------------------------------------------------------------------------
(* The variables keep their types.                                         *)
THEOREM StreamTypeCorrect == Spec => []TypeOK
<1>1. IInv => TypeOK
      BY DEF IInv
<1> QED BY <1>1, Always, PTL

(* stopAll(), startAll() and clearCameras() never destroy a CameraStream   *)
(* whose thread is in run().                                               *)
THEOREM StreamsOutliveThreads == Spec => []StreamOutlivesThread
<1>1. IInv => StreamOutlivesThread
  <2> SUFFICES ASSUME IInv, NEW s \in Streams, Running(s) PROVE Held(s)
      BY DEF StreamOutlivesThread
  <2>1. s[1] \in Cameras /\ s[2] # 0
        BY BoundsAssumption DEF Streams
  <2>2. s \in handed \/ thread[s[1]] = s[2]
        BY DEF IInv, Hosted
  <2> QED BY <2>1, <2>2 DEF IInv, Entries, Held
<1> QED BY <1>1, Always, PTL

(* A sender that was not told to stop belongs to the session under way.    *)
THEOREM NoSenderLeftBehind == Spec => []NoOrphanSender
<1>1. IInv => NoOrphanSender
  <2> SUFFICES ASSUME IInv, NEW s \in Streams, Running(s), ~asked[s]
               PROVE Streaming /\ thread[s[1]] = s[2] /\ s[2] = plays
      BY DEF NoOrphanSender
  <2>1. s[1] \in Cameras /\ s[2] # 0
        BY BoundsAssumption DEF Streams
  <2>2. thread[s[1]] = s[2]
        BY DEF IInv, Hosted, ToldIsHandedOff
  <2> QED BY <2>1, <2>2 DEF IInv, Entries
<1> QED BY <1>1, Always, PTL

(* A stream is told to stop if and only if a cleanup thread waits for it,  *)
(* so stopAll() tells no stream that nobody will join, and leaves none     *)
(* that it told for the next Play to destroy.                              *)
THEOREM ToldStreamsCleanedUp == Spec => []ToldIsHandedOff
<1>1. IInv => ToldIsHandedOff
      BY DEF IInv
<1> QED BY <1>1, Always, PTL

(* After requestStop() a stream posts at most one more preview and one more *)
(* error to the GUI's queue.                                                *)
THEOREM StopIsPrompt == Spec => []FewCallsAfterStop
<1>1. IInv => FewCallsAfterStop
      BY DEF IInv, Counted, FewCallsAfterStop
<1> QED BY <1>1, Always, PTL

(* All senders of a session and the replay keep the session's origin.      *)
THEOREM OriginShared == Spec => []SharedOrigin
<1>1. IInv => SharedOrigin
      BY DEF IInv, Stamped, Replayed, SharedOrigin
<1> QED BY <1>1, Always, PTL

(* No joinable std::thread is overwritten or destroyed.                    *)
THEOREM ThreadsHandedOff == Spec => NoThreadOverwritten
<1> DEFINE Handover ==
      /\ plays' # plays => blf.phase = "none"
      /\ \A c \in Cameras :
           thread[c] # 0 /\ thread'[c] # thread[c] =>
             thread'[c] = 0 /\ <<c, thread[c]>> \in handed'
<1>1. IInv /\ [Next]_vars => Handover
  <2> SUFFICES ASSUME IInv, [Next]_vars PROVE Handover
      OBVIOUS
  <2> USE DEF IInv
  <2>1. CASE Play
    <3>1. ~Streaming /\ gui = "free"
          BY <2>1 DEF Play, Streaming
    <3> QED BY <3>1 DEF Entries, Replayed
  <2>2. ASSUME NEW h \in Handlers, StopEverything(h) PROVE Handover
    <3>1. \A c \in Cameras : thread[c] # 0 => <<c, thread[c]>> \in Streams
          BY BoundsAssumption DEF TypeOK, Streams, Plays
    <3> QED BY <2>2, <3>1 DEF StopEverything, StopAll, HandsOff
  <2>3. CASE Configure \/ Leave
        BY <2>3 DEF Configure, Leave, Entries, Streaming
  <2>4. CASE ~OfPool
        BY <2>4, OtherSteps, ThreadSteps DEF pool, session
  <2> QED BY <2>1, <2>2, <2>3, <2>4 DEF OfPool
<1> QED BY <1>1, Always, PTL DEF Spec, NoThreadOverwritten

-----------------------------------------------------------------------------
(* The order of the calls: the stream whose error is queued or shown has   *)
(* ended, and no frame of it is queued behind the error.                   *)
Spent(c) == {p \in 1..plays : ~Running(<<c, p>>)}
NoFrame(q, from, p) ==
  \A j \in from..Len(q) : q[j].kind = "preview" => q[j].play # p

QueueOrdered(over, q) ==
  \A i \in 1..Len(q) :
    q[i].kind = "error" => q[i].play \in over /\ NoFrame(q, i + 1, q[i].play)
Shown(over, q, by) == by \in over /\ NoFrame(q, 1, by)

Ordered ==
  /\ \A c \in Cameras :
       /\ QueueOrdered(Spent(c), events[c])
       /\ tile[c].banner = "failed" => Shown(Spent(c), events[c], tile[c].by)
  /\ \A s \in Streams : phase[s] # "none" => s[2] <= plays

Calls == [kind : Kinds, play : Plays]

(* What Append and Tail do to a queue, index by index.                     *)
LEMMA AppendIndex ==
  ASSUME NEW q \in Seq(Calls), NEW e \in Calls
  PROVE  /\ Len(Append(q, e)) = Len(q) + 1
         /\ \A i \in 1..Len(q) : Append(q, e)[i] = q[i]
         /\ Append(q, e)[Len(q) + 1] = e
<1> HIDE DEF Calls
<1> QED OBVIOUS

LEMMA TailIndex ==
  ASSUME NEW q \in Seq(Calls), q # <<>>
  PROVE  /\ Len(q) \in Nat \ {0} /\ Len(Tail(q)) = Len(q) - 1
         /\ \A i \in 1..Len(q) - 1 : Tail(q)[i] = q[i + 1]
         /\ Head(q) = q[1]
<1> HIDE DEF Calls
<1> QED OBVIOUS

(* A call of stream p joins the queue: a frame while it runs, or an error  *)
(* when it has ended.                                                      *)
LEMMA QueueGrows ==
  ASSUME NEW over, NEW q \in Seq(Calls), NEW p \in Plays, NEW kind \in Kinds,
         QueueOrdered(over, q), kind = "error" <=> p \in over
  PROVE  /\ QueueOrdered(over, Queued(q, kind, p))
         /\ \A by : Shown(over, q, by) => Shown(over, Queued(q, kind, p), by)
<1> DEFINE e == [kind |-> kind, play |-> p]
           r == Append(q, e)
<1>1. e \in Calls /\ Queued(q, kind, p) = r
      BY DEF Calls, Queued
<1>2. /\ Len(r) = Len(q) + 1 /\ Len(q) \in Nat
      /\ \A i \in 1..Len(q) : r[i] = q[i]
      /\ r[Len(q) + 1] = e
      BY <1>1, AppendIndex
<1>3. /\ e.play = p
      /\ e.kind = "error" => p \in over
      /\ e.kind = "preview" => p \notin over
      OBVIOUS
<1> HIDE DEF e, r
<1>4. ASSUME NEW x \in over, NEW from \in Nat \ {0}, NoFrame(q, from, x)
      PROVE  NoFrame(r, from, x)
  <2> SUFFICES ASSUME NEW j \in from..Len(r), r[j].kind = "preview" PROVE r[j].play # x
      BY DEF NoFrame
  <2>1. CASE j = Len(q) + 1
        BY <1>2, <1>3, <2>1
  <2>2. CASE j \in 1..Len(q)
        BY <1>2, <1>4, <2>2 DEF NoFrame
  <2> QED BY <1>2, <2>1, <2>2
<1>5. QueueOrdered(over, r)
  <2> SUFFICES ASSUME NEW i \in 1..Len(r), r[i].kind = "error"
               PROVE  r[i].play \in over /\ NoFrame(r, i + 1, r[i].play)
      BY DEF QueueOrdered
  <2>1. CASE i = Len(q) + 1
        BY <1>2, <1>3, <2>1 DEF NoFrame
  <2>2. CASE i \in 1..Len(q)
    <3>1. q[i].play \in over /\ NoFrame(q, i + 1, q[i].play)
          BY <1>2, <2>2 DEF QueueOrdered
    <3> QED BY <1>2, <1>4, <2>2, <3>1
  <2> QED BY <1>2, <2>1, <2>2
<1>6. \A by : Shown(over, q, by) => Shown(over, r, by)
      BY <1>4 DEF Shown
<1> QED BY <1>1, <1>5, <1>6

(* The first call leaves the queue.                                        *)
LEMMA QueueShrinks ==
  ASSUME NEW over, NEW q \in Seq(Calls), q # <<>>, QueueOrdered(over, q)
  PROVE  /\ QueueOrdered(over, Tail(q))
         /\ \A by : Shown(over, q, by) => Shown(over, Tail(q), by)
         /\ Head(q).kind = "error" => Shown(over, Tail(q), Head(q).play)
<1> DEFINE r == Tail(q)
<1>1. /\ Len(q) \in Nat \ {0} /\ Len(r) = Len(q) - 1
      /\ \A i \in 1..Len(q) - 1 : r[i] = q[i + 1]
      /\ Head(q) = q[1]
      BY TailIndex
<1> HIDE DEF r
<1>2. ASSUME NEW from \in Nat \ {0}, NEW x, NoFrame(q, from + 1, x)
      PROVE  NoFrame(r, from, x)
      BY <1>1, <1>2 DEF NoFrame
<1>3. ASSUME NEW i \in 1..Len(r), r[i].kind = "error"
      PROVE  r[i].play \in over /\ NoFrame(r, i + 1, r[i].play)
  <2>1. i + 1 \in 1..Len(q) /\ r[i] = q[i + 1]
        BY <1>1
  <2>2. r[i].play \in over /\ NoFrame(q, i + 2, r[i].play)
        BY <1>3, <2>1 DEF QueueOrdered
  <2> QED BY <1>1, <1>2, <2>2
<1>4. \A by : NoFrame(q, 1, by) => NoFrame(r, 1, by)
      BY <1>1 DEF NoFrame
<1>5. Head(q).kind = "error" => Shown(over, r, Head(q).play)
  <2> SUFFICES ASSUME q[1].kind = "error"
               PROVE  q[1].play \in over /\ NoFrame(r, 1, q[1].play)
      BY <1>1 DEF Shown
  <2>1. q[1].play \in over /\ NoFrame(q, 2, q[1].play)
        BY <1>1 DEF QueueOrdered
  <2> QED BY <1>2, <2>1
<1> QED BY <1>3, <1>4, <1>5 DEF r, QueueOrdered, Shown

(* Streams that end later change nothing.                                  *)
LEMMA MoreOver ==
  ASSUME NEW over, NEW more, over \subseteq more, NEW q
  PROVE  /\ QueueOrdered(over, q) => QueueOrdered(more, q)
         /\ \A by : Shown(over, q, by) => Shown(more, q, by)
BY DEF QueueOrdered, Shown

-----------------------------------------------------------------------------
(* Who adds a call, and who takes one.                                     *)
SpentLater(c) == Spent(c) \subseteq Spent(c)'

(* A step that neither starts a stream nor queues a call, and shows no new *)
(* error, keeps the order.                                                 *)
LEMMA QuietTile ==
  ASSUME TypeOK, Ordered, NEW c \in Cameras, SpentLater(c),
         events'[c] = events[c] \/ events'[c] = <<>>,
         \/ tile'[c].banner # "failed"
         \/ tile'[c] = tile[c] /\ events'[c] = events[c]
  PROVE  /\ QueueOrdered(Spent(c)', events'[c])
         /\ tile'[c].banner = "failed" => Shown(Spent(c)', events'[c], tile'[c].by)
<1>1. QueueOrdered(Spent(c), events[c])
      BY DEF Ordered
<1>2. QueueOrdered(Spent(c)', events[c])
      BY <1>1, MoreOver DEF SpentLater
<1>3. QueueOrdered(Spent(c)', <<>>)
      BY DEF QueueOrdered
<1>4. tile[c].banner = "failed" => Shown(Spent(c)', events[c], tile[c].by)
      BY MoreOver DEF Ordered, SpentLater
<1> QED BY <1>2, <1>3, <1>4

(* The thread steps of a stream: what they do to Spent.                    *)
LEMMA SpentSteps ==
  ASSUME TypeOK, [Next]_vars, ~Play
  PROVE  \A c \in Cameras : SpentLater(c)
<1> USE DEF Spent, SpentLater, Running, TypeOK, vars, session, pool, threads
<1>1. \A c \in Cameras : \A p \in 1..plays : <<c, p>> \in Streams
      BY BoundsAssumption DEF Streams, Plays
<1>2. CASE \E h \in Handlers : StopEverything(h)
      BY <1>2 DEF StopEverything
<1>3. CASE Configure \/ Leave
      BY <1>3 DEF Configure, Leave
<1>4. ASSUME NEW s \in Streams, Works(s) \/ Sends(s) PROVE \A c \in Cameras : SpentLater(c)
  <2>1. UNCHANGED plays
        BY <1>4, ThreadSteps DEF OfThread
  <2>2. \A r \in Streams : phase[r] \in {"none", "over"} => phase'[r] \in {"none", "over"}
        BY <1>4 DEF Works, Sends, LoopHead, ReadFrame, EmitPreview,
           ReportError, Cleanup, WriteFrame, WriteTrailer, Goes
  <2> QED BY <1>1, <2>1, <2>2
<1>5. CASE ~OfPool /\ ~OfThread
      BY <1>5, OtherSteps
<1> QED BY <1>2, <1>3, <1>4, <1>5 DEF OfPool, OfThread

(* No step but Play starts a stream.                                       *)
LEMMA StartedSteps ==
  ASSUME TypeOK, [Next]_vars, ~Play,
         \A s \in Streams : phase[s] # "none" => s[2] <= plays
  PROVE  \A s \in Streams : phase'[s] # "none" => s[2] <= plays'
<1> USE DEF TypeOK, vars, session, pool, threads
<1>1. CASE \E h \in Handlers : StopEverything(h)
      BY <1>1 DEF StopEverything
<1>2. CASE Configure \/ Leave
      BY <1>2 DEF Configure, Leave
<1>3. ASSUME NEW s \in Streams, Works(s) \/ Sends(s)
      PROVE  \A r \in Streams : phase'[r] # "none" => r[2] <= plays'
  <2>1. UNCHANGED plays
        BY <1>3, ThreadSteps DEF OfThread
  <2>2. \A r \in Streams : phase'[r] # "none" => phase[r] # "none"
        BY <1>3 DEF Works, Sends, LoopHead, ReadFrame, EmitPreview,
           ReportError, Cleanup, WriteFrame, WriteTrailer, Goes
  <2> QED BY <2>1, <2>2
<1>4. CASE ~OfPool /\ ~OfThread
      BY <1>4, OtherSteps
<1> QED BY <1>1, <1>2, <1>3, <1>4 DEF OfPool, OfThread

(* A call for one tile joins or leaves its queue.                          *)
LEMMA Typed ==
  ASSUME TypeOK, NEW c \in Cameras
  PROVE  events[c] \in Seq(Calls)
BY DEF TypeOK, Calls

LEMMA OrderedPlay ==
  ASSUME IInv, Ordered, Play
  PROVE  Ordered'
<1> USE DEF IInv, TypeOK, Running
<1>1. PICK failing \in SUBSET cams : StartAll(failing)
      BY DEF Play
<1> DEFINE starting == {c \in cams : enabled'[c]}
           ready == {s \in Streams : s[1] \in starting \ failing /\ s[2] = plays + 1}
<1>2. /\ plays' = plays + 1 /\ plays \in Nat /\ plays + 1 \in Plays
      /\ failing \subseteq starting
      /\ phase' = [s \in Streams |-> IF s \in ready THEN "head" ELSE phase[s]]
      /\ events' = [c \in Cameras |->
                      IF c \in failing THEN Queued(events[c], "error", plays + 1)
                      ELSE events[c]]
  <2>1. plays \in Nat /\ plays + 1 \in Plays
        BY BoundsAssumption DEF Play, Plays
  <2>2. /\ plays' = plays + 1 /\ failing \subseteq starting
        /\ phase' = [s \in Streams |-> IF s \in ready THEN "head" ELSE phase[s]]
        BY <1>1 DEF StartAll
  <2>3. events' = [c \in Cameras |->
                     IF c \in failing THEN Queued(events[c], "error", plays + 1)
                     ELSE events[c]]
        BY <1>1 DEF StartAll
  <2> QED BY <2>1, <2>2, <2>3
<1>3. \A s \in Streams : s[2] = plays + 1 => phase[s] = "none"
      BY <1>2 DEF Ordered
<1>4. \A c \in Cameras : \A p \in 1..plays + 1 : <<c, p>> \in Streams
      BY <1>2, BoundsAssumption DEF Streams, Plays
<1>5. ASSUME NEW c \in Cameras
      PROVE  SpentLater(c) /\ (c \in failing => plays + 1 \in Spent(c)')
  <2>1. \A p \in 1..plays : phase'[<<c, p>>] = phase[<<c, p>>]
        BY <1>2, <1>4
  <2>2. SpentLater(c)
        BY <1>2, <2>1 DEF SpentLater, Spent
  <2>3. c \in failing => phase'[<<c, plays + 1>>] = "none"
        BY <1>2, <1>3, <1>4
  <2> QED BY <1>2, <2>2, <2>3 DEF Spent
<1>6. \A s \in Streams : phase'[s] # "none" => s[2] <= plays'
  <2> SUFFICES ASSUME NEW s \in Streams, phase'[s] # "none" PROVE s[2] <= plays'
      OBVIOUS
  <2>1. s \in ready \/ s[2] <= plays
        BY <1>2 DEF Ordered
  <2> QED BY <1>2, <2>1, BoundsAssumption DEF Streams
<1> HIDE DEF starting, ready
<1>7. ASSUME NEW c \in Cameras
      PROVE  QueueOrdered(Spent(c)', events'[c]) /\ tile'[c].banner # "failed"
  <2>1. QueueOrdered(Spent(c)', events[c])
        BY <1>5, MoreOver DEF SpentLater, Ordered
  <2>2. CASE c \in failing
    <3>1. plays + 1 \in Spent(c)' /\ events'[c] = Queued(events[c], "error", plays + 1)
          BY <1>2, <1>5, <2>2
    <3>2. events[c] \in Seq(Calls) /\ "error" \in Kinds
          BY Typed DEF Kinds
    <3> QED BY <1>2, <2>1, <3>1, <3>2, QueueGrows DEF Play
  <2> QED BY <1>2, <2>1, <2>2 DEF Play
<1> QED BY <1>6, <1>7 DEF Ordered

LEMMA OrderedStep == IInv /\ Ordered /\ [Next]_vars => Ordered'
<1> SUFFICES ASSUME IInv, Ordered, [Next]_vars, ~Play PROVE Ordered'
    BY OrderedPlay
<1>t. TypeOK
      BY DEF IInv
<1>p. \A c \in Cameras : SpentLater(c)
      BY <1>t, SpentSteps
<1>s. \A s \in Streams : phase'[s] # "none" => s[2] <= plays'
      BY <1>t, StartedSteps DEF Ordered
<1> DEFINE Fine(c) ==
      /\ QueueOrdered(Spent(c)', events'[c])
      /\ tile'[c].banner = "failed" => Shown(Spent(c)', events'[c], tile'[c].by)
<1> SUFFICES ASSUME NEW c \in Cameras PROVE Fine(c)
    BY <1>s DEF Ordered
<1>q. /\ events[c] \in Seq(Calls)
      /\ QueueOrdered(Spent(c)', events[c])
      /\ tile[c].banner = "failed" => Shown(Spent(c)', events[c], tile[c].by)
      BY <1>t, <1>p, Typed, MoreOver DEF Ordered, SpentLater
<1>r. tile[c] \in TileType
      BY <1>t DEF TypeOK
<1>1. ASSUME NEW h \in Handlers, StopEverything(h) PROVE Fine(c)
      BY <1>t, <1>p, <1>1, QuietTile DEF StopEverything
<1>2. ASSUME NEW h \in Handlers, HandlerEnds(h) PROVE Fine(c)
  <2>1. tile'[c] = tile[c] \/ tile'[c].banner # "failed"
        BY <1>t, <1>2 DEF HandlerEnds, Idle, TypeOK
  <2>2. events' = events
        BY <1>2 DEF HandlerEnds
  <2> QED BY <1>t, <1>p, <2>1, <2>2, QuietTile
<1>3. CASE Configure \/ Leave
  <2>1. tile'[c].banner # "failed"
        BY <1>3 DEF Configure, Leave, Idle
  <2>2. events'[c] = events[c] \/ events'[c] = <<>>
        BY <1>3 DEF Configure, Leave
  <2> QED BY <1>t, <1>p, <2>1, <2>2, QuietTile
<1>4. CASE Target
  <2>1. tile'[c] = tile[c] \/ tile'[c].banner # "failed"
        BY <1>t, <1>4 DEF Target, Verdict, ConnectFailed, VerdictIgnored, Labelled, TypeOK
  <2>2. events' = events
        BY <1>4 DEF Target, Verdict, ConnectFailed, VerdictIgnored
  <2> QED BY <1>t, <1>p, <2>1, <2>2, QuietTile
<1>5. ASSUME NEW d \in Cameras, NEW kind \in Kinds, Dequeues(d, kind),
             \/ OnPreviewFrame(d)
             \/ OnCameraError(d) /\ kind = "error"
      PROVE  Fine(c)
  <2>1. /\ events[d] # <<>> /\ Head(events[d]).kind = kind
        /\ events' = [events EXCEPT ![d] = Tail(@)]
        BY <1>5 DEF Dequeues
  <2>2. CASE c # d
    <3>1. events'[c] = events[c] /\ tile'[c] = tile[c]
          BY <1>t, <1>5, <2>1, <2>2 DEF OnPreviewFrame, OnCameraError, TypeOK
    <3> QED BY <1>t, <1>p, <3>1, QuietTile
  <2>3. CASE c = d
    <3>1. events'[c] = Tail(events[c]) /\ events[c] # <<>>
          BY <1>t, <2>1, <2>3 DEF TypeOK
    <3>2. /\ QueueOrdered(Spent(c)', events'[c])
          /\ \A by : Shown(Spent(c)', events[c], by) => Shown(Spent(c)', events'[c], by)
          /\ Head(events[c]).kind = "error" =>
               Shown(Spent(c)', events'[c], Head(events[c]).play)
          BY <1>q, <3>1, QueueShrinks
    <3>3. \/ tile'[c] = tile[c]
          \/ tile'[c].banner # "failed"
          \/ tile'[c].by = Head(events[c]).play /\ Head(events[c]).kind = "error"
          BY <1>t, <1>5, <2>1, <2>3
             DEF OnPreviewFrame, OnCameraError, Labelled, TypeOK
    <3> QED BY <1>q, <3>2, <3>3
  <2> QED BY <2>2, <2>3
<1>6. CASE Replay
      BY <1>t, <1>p, <1>6, QuietTile DEF Replay, ReplayCheck, ReplaySend, ReplayAlone
<1>7. ASSUME NEW s \in Streams, Works(s) \/ Sends(s) PROVE Fine(c)
  <2>1. tile' = tile
        BY <1>7 DEF Works, Sends, LoopHead, ReadFrame, EmitPreview,
           ReportError, Cleanup, WriteFrame, WriteTrailer, Quiet, Posts, Alone
  <2>2. CASE events'[c] = events[c]
        BY <1>t, <1>p, <2>1, <2>2, QuietTile
  <2>3. CASE events'[c] # events[c]
    <3>1. \/ EmitPreview(s) /\ events' = [events EXCEPT ![s[1]] = Queued(@, "preview", s[2])]
          \/ ReportError(s) /\ events' = [events EXCEPT ![s[1]] = Queued(@, "error", s[2])]
          BY <1>7, <2>3 DEF Works, Sends, LoopHead, ReadFrame, EmitPreview,
             ReportError, Cleanup, WriteFrame, WriteTrailer, Quiet, Posts, Alone
    <3>2. c = s[1] /\ s[2] \in Plays /\ s[2] \in Nat \ {0} /\ s = <<c, s[2]>>
          BY <1>t, <2>3, <3>1, BoundsAssumption DEF TypeOK, Streams, Plays
    <3>3. plays' = plays /\ plays \in Nat /\ s[2] <= plays
          BY <1>t, <1>7, <3>1, ThreadSteps DEF OfThread, session, Ordered, EmitPreview,
             ReportError, Goes, TypeOK, Plays
    <3>4. PICK kind \in Kinds : /\ events'[c] = Queued(events[c], kind, s[2])
                                /\ kind = "error" <=> s[2] \in Spent(c)'
      <4>1. CASE EmitPreview(s) /\ events' = [events EXCEPT ![s[1]] = Queued(@, "preview", s[2])]
        <5>1. phase'[s] = "write"
              BY <1>t, <4>1 DEF EmitPreview, Goes, TypeOK
        <5>2. s[2] \notin Spent(c)'
              BY <3>2, <5>1 DEF Spent, Running
        <5>3. events'[c] = Queued(events[c], "preview", s[2])
              BY <1>t, <3>2, <4>1 DEF TypeOK
        <5> QED BY <5>2, <5>3 DEF Kinds
      <4>2. CASE ReportError(s) /\ events' = [events EXCEPT ![s[1]] = Queued(@, "error", s[2])]
        <5>1. phase'[s] = "over"
              BY <1>t, <4>2 DEF ReportError, Goes, TypeOK
        <5>2. s[2] \in Spent(c)'
              BY <3>2, <3>3, <5>1 DEF Spent, Running
        <5>3. events'[c] = Queued(events[c], "error", s[2])
              BY <1>t, <3>2, <4>2 DEF TypeOK
        <5> QED BY <5>2, <5>3 DEF Kinds
      <4> QED BY <3>1, <4>1, <4>2
    <3>5. /\ QueueOrdered(Spent(c)', Queued(events[c], kind, s[2]))
          /\ \A by : Shown(Spent(c)', events[c], by) =>
                      Shown(Spent(c)', Queued(events[c], kind, s[2]), by)
          BY <1>q, <3>2, <3>4, QueueGrows
    <3> QED BY <1>q, <2>1, <3>4, <3>5
  <2> QED BY <2>2, <2>3
<1>8. CASE UNCHANGED vars
      BY <1>t, <1>p, <1>8, QuietTile DEF vars
<1>9. CASE \E d \in Cameras : OnPreviewFrame(d) \/ OnCameraError(d)
      BY <1>5, <1>9 DEF OnPreviewFrame, OnCameraError, Kinds
<1> QED BY <1>1, <1>2, <1>3, <1>4, <1>6, <1>7, <1>8, <1>9 DEF Next, User, Gui

LEMMA AlwaysOrdered == Spec => [](IInv /\ Ordered)
<1>1. Init => Ordered
  <2> SUFFICES ASSUME Init PROVE Ordered
      OBVIOUS
  <2>1. \A s \in Streams : phase[s] = "none"
        BY DEF Init
  <2>2. ASSUME NEW c \in Cameras
        PROVE  QueueOrdered(Spent(c), events[c]) /\ tile[c].banner # "failed"
        BY <2>2 DEF Init, QueueOrdered, Idle
  <2> QED BY <2>1, <2>2 DEF Ordered
<1> QED BY <1>1, Start, Inductive, OrderedStep, PTL DEF Spec

(* No frame of a stream follows its error through the GUI's queue, so none *)
(* wipes the error off its tile.                                           *)
THEOREM ErrorsStayShown == Spec => OwnErrorStays
<1> DEFINE Stays ==
      \A c \in Cameras :
        /\ window' # "gone" /\ tile[c].banner = "failed"
        /\ tile'[c].banner # "failed" /\ Len(events'[c]) < Len(events[c])
        => Head(events[c]).play # tile[c].by
<1>1. IInv /\ Ordered /\ [Next]_vars => Stays
  <2> SUFFICES ASSUME IInv, Ordered, [Next]_vars, NEW c \in Cameras,
                      window' # "gone", tile[c].banner = "failed",
                      tile'[c].banner # "failed", Len(events'[c]) < Len(events[c])
               PROVE  Head(events[c]).play # tile[c].by
      OBVIOUS
  <2>t. TypeOK /\ events[c] \in Seq(Calls) /\ Len(events[c]) \in Nat
        BY Typed DEF IInv
  <2>1. events'[c] # events[c] /\ tile'[c] # tile[c]
        BY <2>t
  <2>2. \/ Play
        \/ OnPreviewFrame(c)
        \/ OnCameraError(c)
    <3> USE <2>1, <2>t DEF TypeOK
    <3>1. ~(\E h \in Handlers : StopEverything(h) \/ HandlerEnds(h))
          BY DEF StopEverything, HandlerEnds
    <3>2. ~Configure /\ ~Leave
          BY DEF Configure, Leave
    <3>3. ~Target /\ ~Replay /\ ~UNCHANGED vars
          BY DEF Target, Verdict, ConnectFailed, VerdictIgnored, Replay, ReplayCheck,
             ReplaySend, ReplayAlone, vars
    <3>4. ~OfThread
          BY DEF OfThread, Works, Sends, LoopHead, ReadFrame, EmitPreview,
             ReportError, Cleanup, WriteFrame, WriteTrailer, Quiet, Posts, Alone
    <3>5. \A d \in Cameras : d # c => ~OnPreviewFrame(d) /\ ~OnCameraError(d)
          BY DEF OnPreviewFrame, OnCameraError
    <3> QED BY <3>1, <3>2, <3>3, <3>4, <3>5 DEF Next, User, Gui, OfThread
  <2>3. ~Play
    <3> SUFFICES ASSUME Play PROVE FALSE
        OBVIOUS
    <3>1. PICK failing \in SUBSET cams : StartAll(failing)
          BY DEF Play
    <3>2. plays + 1 \in Plays
          BY <2>t, BoundsAssumption DEF Play, TypeOK, Plays
    <3>3. events'[c] = Queued(events[c], "error", plays + 1)
          BY <2>1, <3>1 DEF StartAll
    <3>4. [kind |-> "error", play |-> plays + 1] \in Calls
          BY <3>2 DEF Calls, Kinds
    <3> QED BY <2>t, <3>3, <3>4, AppendIndex DEF Queued
  <2>4. ~OnCameraError(c)
    <3> SUFFICES ASSUME OnCameraError(c) PROVE FALSE
        OBVIOUS
    <3> QED BY <2>t, <2>1 DEF OnCameraError, Labelled, TypeOK
  <2>5. Head(events[c]).kind = "preview" /\ events[c] # <<>>
        BY <2>2, <2>3, <2>4 DEF OnPreviewFrame, Dequeues
  <2>6. NoFrame(events[c], 1, tile[c].by)
        BY DEF Ordered, Shown
  <2>7. Head(events[c]) = events[c][1] /\ Len(events[c]) \in Nat \ {0}
        BY <2>t, <2>5, TailIndex
  <2> QED BY <2>5, <2>6, <2>7 DEF NoFrame
<1> QED BY <1>1, AlwaysOrdered, PTL DEF Spec, OwnErrorStays
=============================================================================
