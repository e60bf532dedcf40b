------------------------------- MODULE Pacing -------------------------------
(***************************************************************************)
(* One Play seen against the clock: startAll() captures the origin, opens  *)
(* the cameras one after the other and gives each its thread, the GUI      *)
(* thread then loads the Ethernet capture, and every sender paces what it  *)
(* sends by the origin.  A camera starts over at the end of its recording; *)
(* the capture is played once.                                             *)
(*                                                                         *)
(* now counts from StreamPool's origin.  A thread that is due may be late  *)
(* by any time: opening, decoding, encoding and writing take their time.   *)
(* StreamLifecycle has the threads, events and tiles of many plays; here   *)
(* are the times, the frames and the sizes of one.                         *)
(***************************************************************************)
EXTENDS Canvas, Sequences, FiniteSets

CONSTANTS
  NumCameras,  \* cameras of the pool, opened in this order
  Sources,     \* recordings, with the size the target declared for them
  Captures,    \* BLF files, as their objects
  TenMics,     \* units of now in a TimeTenMics of a BLF time stamp
  MaxPasses,   \* bound: passes of a recording
  MaxNow       \* bound: the clock

Cameras == 1..NumCameras

\* A packet of a recording: video or not, with or without a time stamp (dts,
\* or else pts).  depth is the number of packets the decoder keeps before it
\* returns a picture: reordering, and one for each of its threads but one.
Packet == [video : BOOLEAN, timed : BOOLEAN, at : Int]
Source == [size : Size, forced : [width : Nat, height : Nat],
           packets : Seq(Packet), depth : Nat]

Kinds == {"ETHERNET_FRAME", "ETHERNET_FRAME_EX", "other"}
Object == [kind : Kinds, stamp : Nat, tenMics : BOOLEAN]

ASSUME PacingAssumption ==
  /\ NumCameras \in Nat /\ TenMics \in Positive
  /\ MaxPasses \in Positive /\ MaxNow \in Nat
  /\ Sources \subseteq Source /\ Captures \subseteq Seq(Object)

VARIABLES
  now,      \* monotonicNowNs(), from the origin
  opening,  \* what the GUI thread opens: a camera, then the replay, then done
  stop,     \* stopRequested_ of every sender
  source,   \* the recording of a camera
  layout,   \* the sizes of its pictures
  phase,    \* where the thread of a camera is in run()
  start,    \* its streamStartNs_
  pass,     \* its passNumber
  next,     \* packets of this pass it has read
  deadline, \* its lastDeadlineUs
  held,     \* packets inside its decoder
  frames,   \* its frameCounter
  replay    \* BlfReplayer: its thread, origin, frames_ and what it has sent

streams == <<layout, phase, start, pass, next, deadline, held, frames>>
vars == <<now, opening, stop, source, streams, replay>>

NoReplay == [phase |-> "off", start |-> 0, queue |-> <<>>, wire |-> <<>>]
Unknown == [size |-> NoSize]

Init ==
  /\ now = 0 /\ opening = 1 /\ stop = FALSE
  /\ source \in [Cameras -> Sources]
  /\ layout = [c \in Cameras |-> Unknown]
  /\ phase = [c \in Cameras |-> "closed"]
  /\ start = [c \in Cameras |-> 0] /\ pass = [c \in Cameras |-> 1]
  /\ next = start /\ deadline = start /\ held = start /\ frames = start
  /\ replay = NoReplay

Packets(c) == source[c].packets
Current(c) == Packets(c)[next[c]]
-----------------------------------------------------------------------------
(* The GUI thread: StreamPool::startAll(), then the replay.                *)

\* The time run() counts from; the variant is the one it takes when nobody
\* has called setStartOrigin().
OwnOrigin == now
Origin == 0

\* Camera c opens: a file, a decoder or an output may fail, and so does the
\* encoder for a size it does not take.
Open(c) ==
  /\ opening = c
  /\ opening' = c + 1
  /\ \E l \in Layouts(source[c].size, source[c].forced) :
       \/ UNCHANGED streams
       \/ /\ Encodes(l.canvas)
          /\ layout' = [layout EXCEPT ![c] = l]
          /\ phase' = [phase EXCEPT ![c] = "read"]
          /\ start' = [start EXCEPT ![c] = Origin]
          /\ UNCHANGED <<pass, next, deadline, held, frames>>
  /\ UNCHANGED <<now, stop, source, replay>>

\* NormalizeTimestampNs(); the variant takes every stamp as it is.
AnyUnit(object) == object.stamp
Time(object) == IF object.tenMics THEN object.stamp * TenMics ELSE object.stamp

Ethernet(capture) == {k \in 1..Len(capture) : capture[k].kind # "other"}

\* std::sort() by time: frames of one time come in any order.
Sorted(capture) ==
  LET found == Ethernet(capture)
  IN {order \in UNION {[1..n -> found] : n \in 0..Len(capture)} :
        /\ \A k \in found : \E i \in DOMAIN order : order[i] = k
        /\ \A i, j \in DOMAIN order : i < j =>
             /\ order[i] # order[j]
             /\ Time(capture[order[i]]) <= Time(capture[order[j]])}

\* LoadBlfEthernetFrames(): the first frame is at 0.
Loaded(capture) ==
  {[i \in DOMAIN order |->
      [object |-> capture[order[i]],
       at |-> Time(capture[order[i]]) - Time(capture[order[1]])]] :
     order \in Sorted(capture)}

\* The capture is absent, does not open, or is loaded and its thread started.
OpenReplay ==
  /\ opening = NumCameras + 1
  /\ opening' = opening + 1
  /\ \/ UNCHANGED replay
     \/ \E capture \in Captures : \E queue \in Loaded(capture) :
          /\ queue # <<>>
          /\ replay' = [phase |-> "check", start |-> Origin,
                        queue |-> queue, wire |-> <<>>]
  /\ UNCHANGED <<now, stop, source, streams>>

\* stopEverything() of a Pause or a Stop.
Stop ==
  /\ opening = NumCameras + 2 /\ ~stop
  /\ stop' = TRUE
  /\ UNCHANGED <<now, opening, source, streams, replay>>

Tick ==
  /\ now < MaxNow
  /\ now' = now + 1
  /\ UNCHANGED <<opening, stop, source, streams, replay>>
-----------------------------------------------------------------------------
(* CameraStream::run().                                                    *)

Thread == UNCHANGED <<now, opening, stop, source, layout, replay>>

Goes(c, from, to) == phase[c] = from /\ phase' = [phase EXCEPT ![c] = to]

\* The stop flag is seen between two packets.
SeesStop(c) ==
  /\ stop /\ Goes(c, "read", "over")
  /\ UNCHANGED <<start, pass, next, deadline, held, frames>>
  /\ Thread

\* A packet that is not of the video stream is passed over, one without a
\* time stamp is not waited for.
ReadPacket(c) ==
  /\ ~stop /\ next[c] < Len(Packets(c))
  /\ next' = [next EXCEPT ![c] = @ + 1]
  /\ LET packet == Packets(c)[next[c] + 1]
     IN \/ ~packet.video /\ Goes(c, "read", "read") /\ UNCHANGED deadline
        \/ /\ packet.video /\ ~packet.timed /\ Goes(c, "read", "decode")
           /\ UNCHANGED deadline
        \/ /\ packet.video /\ packet.timed /\ Goes(c, "read", "sleep")
           /\ deadline' = [deadline EXCEPT ![c] = packet.at]
  /\ UNCHANGED <<start, pass, held, frames>>
  /\ Thread

Due(c) == now >= start[c] + deadline[c]

\* sleepUntilDeadline() returns.
Wake(c) ==
  /\ Due(c) /\ Goes(c, "sleep", "decode")
  /\ UNCHANGED <<start, pass, next, deadline, held, frames>>
  /\ Thread

\* The decoder takes the packet; once it is full it returns a picture for
\* each, which is encoded with the frame counter as its time and written.
\* Any of these calls may fail.
Decode(c) ==
  /\ Goes(c, "decode", "read")
  /\ \/ /\ held[c] < source[c].depth
        /\ held' = [held EXCEPT ![c] = @ + 1] /\ UNCHANGED frames
     \/ /\ held[c] = source[c].depth
        /\ frames' = [frames EXCEPT ![c] = @ + 1] /\ UNCHANGED held
  /\ UNCHANGED <<start, pass, next, deadline>>
  /\ Thread

DecodeFails(c) ==
  /\ Goes(c, "decode", "failed")
  /\ \/ UNCHANGED frames
     \/ held[c] = source[c].depth /\ frames' = [frames EXCEPT ![c] = @ + 1]
  /\ UNCHANGED <<start, pass, next, deadline, held>>
  /\ Thread

\* What starting over does to the clock; the variant is the code before the
\* fix its comment tells of.
AdvanceNothing(c) == UNCHANGED start
Advance(c) == start' = [start EXCEPT ![c] = @ + deadline[c]]

\* avcodec_flush_buffers(): the pictures still inside the decoder are lost.
FlushNothing(c) == UNCHANGED held
Flush(c) == held' = [held EXCEPT ![c] = 0]

\* The end of the recording.
Rewind(c) ==
  /\ ~stop /\ next[c] = Len(Packets(c))
  /\ pass[c] < MaxPasses
  /\ Goes(c, "read", "read")
  /\ pass' = [pass EXCEPT ![c] = @ + 1]
  /\ next' = [next EXCEPT ![c] = 0]
  /\ Flush(c) /\ Advance(c)
  /\ deadline' = [deadline EXCEPT ![c] = 0]
  /\ UNCHANGED frames
  /\ Thread

SeekFails(c) ==
  /\ ~stop /\ next[c] = Len(Packets(c))
  /\ Goes(c, "read", "failed")
  /\ pass' = [pass EXCEPT ![c] = @ + 1]
  /\ UNCHANGED <<start, next, deadline, held, frames>>
  /\ Thread

Runs(c) == SeesStop(c) \/ ReadPacket(c) \/ Wake(c) \/ Decode(c) \/ Rewind(c)
Fails(c) == DecodeFails(c) \/ SeekFails(c)
-----------------------------------------------------------------------------
(* BlfReplayer::run().                                                     *)

Replays(from, to) == replay.phase = from /\ replay' = [replay EXCEPT !.phase = to]
Replayer == UNCHANGED <<now, opening, stop, source, streams>>

ReplayCheck ==
  /\ Replays("check", IF stop \/ replay.queue = <<>> THEN "over" ELSE "sleep")
  /\ Replayer

ReplayDue == now >= replay.start + Head(replay.queue).at
Sent(wire) == Append(wire, [object |-> Head(replay.queue).object, at |-> now])

\* The frame at the head is due and nobody has asked to stop.  It is sent, or
\* its send() fails; the variant tries it again.
SendRetries ==
  \/ replay' = [replay EXCEPT !.phase = "check", !.wire = Sent(@), !.queue = Tail(@)]
  \/ replay' = [replay EXCEPT !.phase = "check"]
Send ==
  \E wire \in {replay.wire, Sent(replay.wire)} :
    replay' = [replay EXCEPT !.phase = "check", !.wire = wire, !.queue = Tail(@)]

ReplaySend ==
  /\ replay.phase = "sleep" /\ ReplayDue
  /\ \/ stop /\ Replays("sleep", "over")
     \/ ~stop /\ Send
  /\ Replayer

Next ==
  \/ \E c \in Cameras : Open(c) \/ Runs(c) \/ Fails(c)
  \/ OpenReplay \/ ReplayCheck \/ ReplaySend
  \/ Stop \/ Tick

Spec == Init /\ [][Next]_vars

\* The GUI thread gets through startStreaming(), the clock runs, and a thread
\* that can go on does.  Nothing has to fail and nobody has to press Stop.
Fairness ==
  /\ WF_vars(Tick)
  /\ WF_vars(OpenReplay \/ \E c \in Cameras : Open(c))
  /\ \A c \in Cameras : WF_vars(Runs(c))
  /\ WF_vars(ReplayCheck \/ ReplaySend)

FairSpec == Spec /\ Fairness
-----------------------------------------------------------------------------
(* Properties.                                                             *)

Running(c) == phase[c] \notin {"closed", "failed"}

Phases == {"closed", "read", "sleep", "decode", "over", "failed"}

\* Every variable stays in its range.
TypeOK ==
  /\ now \in Nat /\ opening \in 1..NumCameras + 2 /\ stop \in BOOLEAN
  /\ source \in [Cameras -> Sources]
  /\ DOMAIN layout = Cameras /\ phase \in [Cameras -> Phases]
  /\ start \in [Cameras -> Int] /\ deadline \in [Cameras -> Int]
  /\ pass \in [Cameras -> Positive] /\ next \in [Cameras -> Nat]
  /\ held \in [Cameras -> Nat] /\ frames \in [Cameras -> Nat]
  /\ \A c \in Cameras : next[c] <= Len(Packets(c)) /\ held[c] <= source[c].depth

\* The packets run() waits for, and the stamp of the last of them among the
\* first n packets, 0 if there is none.
Timed(packets) == {k \in DOMAIN packets : packets[k].video /\ packets[k].timed}
LastStamp(packets, n) ==
  IF \A k \in Timed(packets) : k > n THEN 0
  ELSE packets[CHOOSE k \in Timed(packets) :
                 k <= n /\ \A j \in Timed(packets) : j <= n => j <= k].at

\* What a pass takes.
Length(packets) == LastStamp(packets, Len(packets))

\* No packet of any pass is sent before its time: its own stamp, after the
\* whole of every pass before (run(): the next pass was once not paced).
NeverEarly ==
  \A c \in Cameras :
    phase[c] = "decode" /\ Current(c).timed =>
      now >= Origin + (pass[c] - 1) * Length(Packets(c)) + Current(c).at

\* A recording of video only, at a constant rate from 0 on.
Interval(packets) == packets[2].at
Constant(packets) ==
  /\ Len(packets) > 1
  /\ \A k \in DOMAIN packets :
       packets[k] = [video |-> TRUE, timed |-> TRUE, at |-> (k - 1) * Interval(packets)]

\* The clock of the encoder (a frame counter) and the clock of the pacing
\* drift apart by a constant at every pass and by nothing within one: the
\* decoder loses depth pictures, and a pass starts one interval early.
ClocksDriftByPass ==
  \A c \in Cameras :
    /\ phase[c] = "sleep" /\ held[c] = source[c].depth
    /\ Constant(Packets(c)) /\ source[c].depth <= Len(Packets(c))
    => start[c] + deadline[c] =
         Interval(Packets(c)) * (frames[c] + source[c].depth
                                 + (pass[c] - 1) * (source[c].depth - 1))

\* Once no sender is late, the first pass of every camera and the replay have
\* sent exactly what was captured up to now (BlfReplayer.h: "phase-aligned").
Waits(c) == phase[c] = "sleep" /\ pass[c] = 1 /\ ~Due(c)
Ascending(packets) ==
  \A j, k \in Timed(packets) : j < k => packets[j].at <= packets[k].at
InStep ==
  /\ \A c \in Cameras : Waits(c) /\ Ascending(Packets(c)) =>
       \A k \in Timed(Packets(c)) : Packets(c)[k].at <= now <=> k < next[c]
  /\ replay.phase = "sleep" /\ ~ReplayDue =>
       \A i \in DOMAIN replay.queue : replay.queue[i].at > now

\* Frames of the capture leave in the order of their time, whatever unit the
\* file gives it in, and at least as far apart from the first of the file.
Captured(object) == object.stamp * (IF object.tenMics THEN TenMics ELSE 1)
WireFollowsCapture ==
  \A i, j \in DOMAIN replay.wire : i <= j =>
    LET a == replay.wire[i]
        b == replay.wire[j]
    IN /\ a.object.kind # "other"
       /\ Captured(a.object) <= Captured(b.object)
       /\ b.at >= Captured(b.object) - Captured(a.object)

\* Whatever the recording and the declared size, a stream that runs draws its
\* pictures inside the canvas, and the target's decoder opens the canvas.
FitsTarget ==
  \A c \in Cameras : Running(c) => Inside(layout[c]) /\ Decodable(layout[c])

\* A camera nobody stops and that does not fail plays its recording again and
\* again, and a replay that was started ends.
GoesOn ==
  /\ \A c \in Cameras : \A p \in 1..MaxPasses - 1 :
       phase[c] = "read" /\ pass[c] = p ~>
         pass[c] > p \/ phase[c] \in {"over", "failed"}
  /\ replay.phase = "check" ~> replay.phase = "over"
=============================================================================
