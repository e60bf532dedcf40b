------------------------------ MODULE MCPacing ------------------------------
(* Small instances of Pacing, and of the sizes of Canvas. *)
EXTENDS Pacing

Video(at) == [video |-> TRUE, timed |-> TRUE, at |-> at]
Untimed == [video |-> TRUE, timed |-> FALSE, at |-> 0]
Audio == [video |-> FALSE, timed |-> TRUE, at |-> 0]

Recording(packets, depth) ==
  [size |-> [width |-> 4, height |-> 3], forced |-> NoSize,
   packets |-> packets, depth |-> depth]

\* Constant rate with and without delay, reordered (the first time is before
\* 0), starting late and with gaps, and mixed with other streams.
Recordings ==
  {Recording(<<Video(0), Video(2)>>, 1),
   Recording(<<Video(0), Video(1), Video(2)>>, 0),
   Recording(<<Video(0), Video(1), Video(2)>>, 2),
   Recording(<<Video(-1), Video(0), Video(1)>>, 1),
   Recording(<<Video(1), Untimed, Video(2), Audio>>, 0)}

\* Declared sizes below and above the caps, even and odd.
Pictures ==
  {[size |-> [width |-> w, height |-> 9], forced |-> f,
    packets |-> <<Video(0)>>, depth |-> 0] :
     w \in {1, 11},
     f \in {[width |-> 4, height |-> 2], [width |-> 7, height |-> 2],
            [width |-> 11, height |-> 4], [width |-> 12, height |-> 6]}}

AllSources == Recordings \cup Pictures

Frame(kind, stamp, tenMics) == [kind |-> kind, stamp |-> stamp, tenMics |-> tenMics]
OneCapture ==
  {<<Frame("ETHERNET_FRAME", 5, FALSE), Frame("other", 0, FALSE),
     Frame("ETHERNET_FRAME_EX", 3, TRUE)>>}

\* The preview of every canvas from 1 to 11 in both directions.
ASSUME PreviewsAreSmall ==
  \A canvas \in [width : 1..11, height : 1..11] :
    \A preview \in ComputeOutputSize(canvas, PreviewCap) :
      Fits(preview, PreviewCap) /\ Encodes(preview)
=============================================================================
