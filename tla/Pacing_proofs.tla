--------------------------- MODULE Pacing_proofs ---------------------------
(* Proofs about Canvas and Pacing. *)
EXTENDS Pacing, WellFoundedInduction, TLAPS

(***************************************************************************)
(* The sizes.                                                              *)
(***************************************************************************)

LEMMA QuotientBound ==
  ASSUME NEW n \in Nat, NEW den \in Positive, NEW b \in Nat, n <= b * den
  PROVE  n \div den \in Nat /\ n \div den <= b
<1>1. n \div den \in Int /\ n = den * (n \div den) + (n % den) /\ n % den \in 0..den - 1
  BY DEF Positive
<1>2. n \div den <= b
  <2>1. SUFFICES ASSUME n \div den >= b + 1 PROVE FALSE
    BY <1>1
  <2>2. den * (n \div den) >= den * (b + 1)
    BY <1>1, <2>1 DEF Positive
  <2>. QED BY <1>1, <2>2 DEF Positive
<1>3. n \div den >= 0
  BY DEF Positive
<1>. QED BY <1>1, <1>2, <1>3

LEMMA EvenParts ==
  ASSUME NEW n \in Int
  PROVE  EvenPart(n) \in Int /\ EvenPart(n) % 2 = 0 /\ EvenPart(n) <= n /\ n <= EvenPart(n) + 1
BY DEF EvenPart

LEMMA Planes ==
  ASSUME NEW n \in Int
  PROVE  /\ Plane(n) \in Positive /\ Plane(n) % 2 = 0
         /\ \A b \in Nat : n <= b /\ b > 1 => Plane(n) <= b
<1>1. CASE n < 2
  BY <1>1 DEF Plane, Positive
<1>2. CASE n >= 2
  <2>1. EvenPart(n) \in Int /\ EvenPart(n) % 2 = 0 /\ EvenPart(n) <= n /\ n <= EvenPart(n) + 1
    BY EvenParts
  <2>2. Plane(n) = EvenPart(n)
    BY <1>2 DEF Plane
  <2>3. EvenPart(n) > 0
    BY <1>2, <2>1
  <2>. QED BY <2>1, <2>2, <2>3 DEF Positive
<1>. QED BY <1>1, <1>2

LEMMA TruncatedBound ==
  ASSUME NEW n \in Positive, NEW num \in Positive, NEW den \in Positive,
         NEW b \in Nat, n * num <= b * den, NEW t \in Truncated(n, num, den)
  PROVE  t \in Int /\ t <= b
<1>1. CASE num = den
  <2>1. n <= b
    <3>1. SUFFICES ASSUME n >= b + 1 PROVE FALSE
      BY DEF Positive
    <3>2. n * den >= (b + 1) * den
      BY <3>1 DEF Positive
    <3>. QED BY <1>1, <3>2 DEF Positive
  <2>. QED BY <1>1, <2>1 DEF Truncated, Positive
<1>2. CASE num # den
  <2>1. n * num \in Nat
    BY DEF Positive
  <2>2. (n * num) \div den \in Nat /\ (n * num) \div den <= b
    BY <2>1, QuotientBound
  <2>. QED BY <1>2, <2>2 DEF Truncated
<1>. QED BY <1>1, <1>2

LEMMA ScaledFits ==
  ASSUME NEW size \in Size, NEW num \in Positive, NEW den \in Positive, NEW box \in Size,
         box.width > 1, box.height > 1,
         size.width * num <= box.width * den, size.height * num <= box.height * den,
         NEW s \in ScaledBy(size, num, den)
  PROVE  s \in Size /\ Encodes(s) /\ Fits(s, box)
<1>1. PICK w \in Truncated(size.width, num, den), h \in Truncated(size.height, num, den) :
        s = [width |-> Plane(w), height |-> Plane(h)]
  BY DEF ScaledBy
<1>2. w \in Int /\ w <= box.width
  BY TruncatedBound DEF Size, Positive
<1>3. h \in Int /\ h <= box.height
  BY TruncatedBound DEF Size, Positive
<1>4. Plane(w) \in Positive /\ Plane(w) % 2 = 0 /\ Plane(w) <= box.width
  BY <1>2, Planes DEF Size, Positive
<1>5. Plane(h) \in Positive /\ Plane(h) % 2 = 0 /\ Plane(h) <= box.height
  BY <1>3, Planes DEF Size, Positive
<1>. QED BY <1>1, <1>4, <1>5 DEF Size, Encodes, Fits

LEMMA FillFits ==
  ASSUME NEW size \in Size, NEW box \in Size, box.width > 1, box.height > 1,
         NEW s \in Fill(size, box)
  PROVE  s \in Size /\ Encodes(s) /\ Fits(s, box)
<1>. size.width \in Positive /\ size.height \in Positive
     /\ box.width \in Positive /\ box.height \in Positive
  BY DEF Size
<1>1. CASE WidthBinds(size, box)
  <2>1. size.width * box.width <= box.width * size.width
    BY DEF Positive
  <2>2. size.height * box.width <= box.height * size.width
    BY <1>1 DEF WidthBinds, Positive
  <2>. QED BY <1>1, <2>1, <2>2, ScaledFits DEF Fill
<1>2. CASE ~WidthBinds(size, box)
  <2>1. size.width * box.height <= box.width * size.height
    BY <1>2 DEF WidthBinds, Positive
  <2>2. size.height * box.height <= box.height * size.height
    BY DEF Positive
  <2>. QED BY <1>2, <2>1, <2>2, ScaledFits DEF Fill
<1>. QED BY <1>1, <1>2

LEMMA OutputFits ==
  ASSUME NEW size \in Size, NEW box \in Size, box.width > 1, box.height > 1,
         NEW s \in ComputeOutputSize(size, box)
  PROVE  s \in Size /\ Encodes(s) /\ Fits(s, box)
<1>1. CASE Fits(size, box)
  <2>1. size.width * 1 <= box.width * 1 /\ size.height * 1 <= box.height * 1
    BY <1>1 DEF Fits, Size, Positive
  <2>2. 1 \in Positive
    BY DEF Positive
  <2>. QED BY <1>1, <2>1, <2>2, ScaledFits DEF ComputeOutputSize
<1>2. CASE ~Fits(size, box)
  BY <1>2, FillFits DEF ComputeOutputSize
<1>. QED BY <1>1, <1>2

LEMMA CentredInside ==
  ASSUME NEW inner \in Positive, NEW outer \in Positive, inner <= outer
  PROVE  LET x == Centred(inner, outer)
         IN x \in Int /\ x % 2 = 0 /\ x >= 0 /\ x + inner <= outer
<1>. DEFINE half == (outer - inner) \div 2
<1>1. half \in Nat /\ 2 * half <= outer - inner
  BY DEF Positive
<1>2. /\ EvenPart(half) \in Int /\ EvenPart(half) % 2 = 0
      /\ EvenPart(half) <= half /\ half <= EvenPart(half) + 1
  BY <1>1, EvenParts
<1>3. EvenPart(half) >= 0
  BY <1>1, <1>2
<1>. HIDE DEF half
<1>4. EvenPart(half) + inner <= outer
  BY <1>1, <1>2, <1>3 DEF Positive
<1>. QED BY <1>2, <1>3, <1>4 DEF Centred, half

LEMMA LetterboxInside ==
  ASSUME NEW canvas \in Size, NEW content \in Size, Encodes(content), Fits(content, canvas)
  PROVE  Inside(Letterbox(canvas, content))
<1>1. CASE TRUE
  <2>1. LET x == Centred(content.width, canvas.width)
        IN x \in Int /\ x % 2 = 0 /\ x >= 0 /\ x + content.width <= canvas.width
    BY CentredInside DEF Size, Fits
  <2>2. LET y == Centred(content.height, canvas.height)
        IN y \in Int /\ y % 2 = 0 /\ y >= 0 /\ y + content.height <= canvas.height
    BY CentredInside DEF Size, Fits
  <2>. QED BY <2>1, <2>2 DEF Letterbox, Inside
<1>. QED BY <1>1

LEMMA EvenIsTwo ==
  ASSUME NEW s \in Size, Encodes(s)
  PROVE  s.width > 1 /\ s.height > 1
BY DEF Encodes, Size, Positive

\* open(): whatever the recording and the declared size, a canvas the encoder
\* takes is one the target decodes, and the picture lies inside it.
THEOREM LayoutsAreSound ==
  ASSUME NEW size \in Size, NEW forced \in [width : Nat, height : Nat],
         NEW l \in Layouts(size, forced), Encodes(l.canvas)
  PROVE  Inside(l) /\ Decodable(l)
<1>. Cap \in Size /\ Cap.width > 1 /\ Cap.height > 1
  BY CapAssumption DEF Cap
<1>1. CASE forced.width > 0 /\ forced.height > 0
  <2>1. forced \in Size
    BY <1>1 DEF Size, Positive
  <2>2. PICK canvas \in ForcedCanvas(forced) :
          \E content \in Fill(size, canvas) : l = Letterbox(canvas, content)
    BY <1>1 DEF Layouts
  <2>3. PICK content \in Fill(size, canvas) : l = Letterbox(canvas, content)
    BY <2>2
  <2>4. canvas \in Size /\ Fits(canvas, Cap)
    BY <2>1, FillFits DEF ForcedCanvas
  <2>5. l.canvas = canvas
    BY <2>3 DEF Letterbox
  <2>6. canvas.width > 1 /\ canvas.height > 1
    BY <2>4, <2>5, EvenIsTwo
  <2>7. content \in Size /\ Encodes(content) /\ Fits(content, canvas)
    BY <2>4, <2>6, FillFits
  <2>8. Inside(l)
    BY <2>3, <2>4, <2>7, LetterboxInside
  <2>. QED BY <2>4, <2>5, <2>8 DEF Decodable
<1>2. CASE ~(forced.width > 0 /\ forced.height > 0)
  <2>1. PICK canvas \in ComputeOutputSize(size, Cap) : l = Letterbox(canvas, canvas)
    BY <1>2 DEF Layouts
  <2>2. canvas \in Size /\ Encodes(canvas) /\ Fits(canvas, Cap)
    BY OutputFits
  <2>3. Fits(canvas, canvas)
    BY <2>2 DEF Fits, Size, Positive
  <2>4. Inside(l)
    BY <2>1, <2>2, <2>3, LetterboxInside
  <2>5. l.canvas = canvas
    BY <2>1 DEF Letterbox
  <2>. QED BY <2>2, <2>4, <2>5 DEF Decodable
<1>. QED BY <1>1, <1>2

\* openPreviewScaler(): the preview of any canvas is within its cap.
THEOREM PreviewsAreSound ==
  ASSUME NEW canvas \in Size, NEW preview \in ComputeOutputSize(canvas, PreviewCap)
  PROVE  Fits(preview, PreviewCap) /\ Encodes(preview)
<1>1. PreviewCap \in Size /\ PreviewCap.width > 1 /\ PreviewCap.height > 1
  BY CapAssumption, PreviewAssumption DEF PreviewCap
<1>. QED BY <1>1, OutputFits

(***************************************************************************)
(* Types.                                                                  *)
(***************************************************************************)

LEMMA PacketsType ==
  ASSUME TypeOK, NEW c \in Cameras
  PROVE  /\ Packets(c) \in Seq(Packet) /\ source[c].depth \in Nat
         /\ source[c].size \in Size
         /\ source[c].forced \in [width : Nat, height : Nat]
BY PacingAssumption DEF TypeOK, Packets, Source

LEMMA TypeInit == Init => TypeOK
<1>. SUFFICES ASSUME Init PROVE TypeOK
  OBVIOUS
<1>. USE DEF Init
<1>1. /\ now \in Nat /\ opening \in 1..NumCameras + 2 /\ stop \in BOOLEAN
      /\ source \in [Cameras -> Sources]
  <2>1. NumCameras \in Nat
    BY PacingAssumption
  <2>2. now = 0 /\ opening = 1 /\ stop = FALSE /\ source \in [Cameras -> Sources]
    OBVIOUS
  <2>. HIDE DEF Init
  <2>3. 0 \in Nat /\ 1 \in 1..NumCameras + 2
    BY <2>1
  <2>. QED BY <2>2, <2>3
<1>2. DOMAIN layout = Cameras /\ phase \in [Cameras -> Phases]
  BY DEF Phases
<1>3. /\ start \in [Cameras -> Int] /\ deadline \in [Cameras -> Int]
      /\ pass \in [Cameras -> Positive] /\ next \in [Cameras -> Nat]
      /\ held \in [Cameras -> Nat] /\ frames \in [Cameras -> Nat]
  BY DEF Positive
<1>4. ASSUME NEW c \in Cameras PROVE next[c] <= Len(Packets(c)) /\ held[c] <= source[c].depth
  <2>1. source[c] \in Source
    BY <1>1, PacingAssumption
  <2>. QED BY <2>1 DEF Packets, Source
<1>. QED BY <1>1, <1>2, <1>3, <1>4 DEF TypeOK

LEMMA TypeStep == TypeOK /\ [Next]_vars => TypeOK'
<1>. SUFFICES ASSUME TypeOK, [Next]_vars PROVE TypeOK'
  OBVIOUS
<1>. USE DEF TypeOK, Phases
<1>1. ASSUME NEW c \in Cameras, Open(c) PROVE TypeOK'
  <2>1. opening' \in 1..NumCameras + 2
    BY <1>1, PacingAssumption DEF Open, Cameras
  <2>2. PICK l \in Layouts(source[c].size, source[c].forced) :
          \/ UNCHANGED streams
          \/ /\ layout' = [layout EXCEPT ![c] = l]
             /\ phase' = [phase EXCEPT ![c] = "read"]
             /\ start' = [start EXCEPT ![c] = Origin]
             /\ UNCHANGED <<pass, next, deadline, held, frames>>
    BY <1>1 DEF Open
  <2>3. UNCHANGED <<now, stop, source>>
    BY <1>1 DEF Open
  <2>4. /\ phase' \in [Cameras -> Phases] /\ start' \in [Cameras -> Int]
        /\ DOMAIN layout' = Cameras
        /\ UNCHANGED <<pass, next, deadline, held, frames>>
    <3>1. CASE UNCHANGED streams
      BY <3>1 DEF streams
    <3>2. CASE ~UNCHANGED streams
      <4>1. phase' \in [Cameras -> Phases] /\ DOMAIN layout' = Cameras
        BY <2>2, <3>2
      <4>2. start' \in [Cameras -> Int] /\ UNCHANGED <<pass, next, deadline, held, frames>>
        BY <2>2, <3>2 DEF Origin
      <4>. QED BY <4>1, <4>2
    <3>. QED BY <3>1, <3>2
  <2>. QED BY <2>1, <2>3, <2>4 DEF Packets
<1>2. ASSUME NEW c \in Cameras, SeesStop(c) PROVE TypeOK'
  BY <1>2 DEF SeesStop, Goes, Thread, Packets
<1>3. ASSUME NEW c \in Cameras, ReadPacket(c) PROVE TypeOK'
  <2>1. Packets(c) \in Seq(Packet) /\ next[c] + 1 \in 1..Len(Packets(c))
    BY <1>3, PacketsType DEF ReadPacket
  <2>2. Packets(c)[next[c] + 1].at \in Int
    <3>1. Packets(c)[next[c] + 1] \in Packet
      BY <2>1
    <3>. QED BY <3>1 DEF Packet
  <2>3. phase' \in [Cameras -> Phases] /\ deadline' \in [Cameras -> Int]
    BY <1>3, <2>2 DEF ReadPacket, Goes
  <2>4. next' \in [Cameras -> Nat] /\ \A d \in Cameras : next'[d] <= Len(Packets(d))
    BY <1>3 DEF ReadPacket
  <2>. QED BY <1>3, <2>3, <2>4 DEF ReadPacket, Thread, Packets
<1>4. ASSUME NEW c \in Cameras, Wake(c) PROVE TypeOK'
  BY <1>4 DEF Wake, Goes, Thread, Packets
<1>5. ASSUME NEW c \in Cameras, Decode(c) \/ DecodeFails(c) PROVE TypeOK'
  <2>1. source[c].depth \in Nat
    BY PacketsType
  <2>2. /\ held' \in [Cameras -> Nat] /\ frames' \in [Cameras -> Nat]
        /\ \A d \in Cameras : held'[d] <= source[d].depth
    <3>1. CASE held' = [held EXCEPT ![c] = @ + 1] /\ held[c] < source[c].depth /\ UNCHANGED frames
      BY <2>1, <3>1
    <3>2. CASE UNCHANGED held /\ frames' = [frames EXCEPT ![c] = @ + 1]
      BY <3>2
    <3>3. CASE UNCHANGED <<held, frames>>
      BY <3>3
    <3>. QED BY <1>5, <3>1, <3>2, <3>3 DEF Decode, DecodeFails
  <2>3. phase' \in [Cameras -> Phases]
    BY <1>5 DEF Decode, DecodeFails, Goes
  <2>. QED BY <1>5, <2>2, <2>3 DEF Decode, DecodeFails, Thread, Packets
<1>6. ASSUME NEW c \in Cameras, Rewind(c) PROVE TypeOK'
  <2>1. source[c].depth \in Nat /\ Packets(c) \in Seq(Packet)
    BY PacketsType
  <2>2. /\ pass' \in [Cameras -> Positive] /\ next' \in [Cameras -> Nat]
        /\ start' \in [Cameras -> Int] /\ deadline' \in [Cameras -> Int]
    BY <1>6 DEF Rewind, Advance, Positive
  <2>3. held' \in [Cameras -> Nat] /\ \A d \in Cameras : held'[d] <= source[d].depth
    BY <1>6, <2>1 DEF Rewind, Flush
  <2>4. \A d \in Cameras : next'[d] <= Len(Packets(d))
    BY <1>6, <2>1 DEF Rewind
  <2>5. phase' \in [Cameras -> Phases]
    BY <1>6 DEF Rewind, Goes
  <2>. QED BY <1>6, <2>2, <2>3, <2>4, <2>5 DEF Rewind, Thread, Packets
<1>7. ASSUME NEW c \in Cameras, SeekFails(c) PROVE TypeOK'
  BY <1>7 DEF SeekFails, Goes, Thread, Packets, Positive
<1>8. ASSUME OpenReplay PROVE TypeOK'
  BY <1>8, PacingAssumption DEF OpenReplay, streams, Packets
<1>9. ASSUME ReplayCheck \/ ReplaySend PROVE TypeOK'
  BY <1>9 DEF ReplayCheck, ReplaySend, Replayer, streams, Packets
<1>10. ASSUME Stop \/ Tick PROVE TypeOK'
  <2>1. CASE Stop
    BY <2>1 DEF Stop, streams, Packets
  <2>2. CASE Tick
    <3>1. now' \in Nat
      BY <2>2 DEF Tick
    <3>2. UNCHANGED <<opening, stop, source, streams>>
      BY <2>2 DEF Tick
    <3>. QED BY <3>1, <3>2 DEF streams, Packets
  <2>. QED BY <1>10, <2>1, <2>2
<1>11. ASSUME UNCHANGED vars PROVE TypeOK'
  BY <1>11 DEF vars, streams, Packets
<1>. QED
  BY <1>1, <1>2, <1>3, <1>4, <1>5, <1>6, <1>7, <1>8, <1>9, <1>10, <1>11
  DEF Next, Runs, Fails

\* Every variable stays in its range: opening a camera is done once for each,
\* a pass never reads past its recording, a decoder never holds more than its
\* depth.
THEOREM PacingTypeCorrect == Spec => []TypeOK
BY TypeInit, TypeStep, PTL DEF Spec

(***************************************************************************)
(* The layouts of the running streams.                                     *)
(***************************************************************************)

\* A stream that runs draws its pictures inside a canvas the target decodes.
THEOREM StreamsFitTarget == Spec => []FitsTarget
<1>1. Init => FitsTarget
  BY DEF Init, FitsTarget, Running
<1>2. TypeOK /\ FitsTarget /\ [Next]_vars => FitsTarget'
  <2>. SUFFICES ASSUME TypeOK, FitsTarget, [Next]_vars, NEW d \in Cameras, Running(d)'
                PROVE  Inside(layout'[d]) /\ Decodable(layout'[d])
    BY DEF FitsTarget
  <2>1. CASE \E c \in Cameras : Open(c)
    <3>1. PICK c \in Cameras : Open(c)
      BY <2>1
    <3>2. PICK l \in Layouts(source[c].size, source[c].forced) :
            \/ UNCHANGED streams
            \/ /\ Encodes(l.canvas)
               /\ layout' = [layout EXCEPT ![c] = l]
               /\ phase' = [phase EXCEPT ![c] = "read"]
      BY <3>1 DEF Open
    <3>3. CASE UNCHANGED streams
      BY <3>3 DEF FitsTarget, Running, streams
    <3>4. CASE ~UNCHANGED streams
      <4>1. Inside(l) /\ Decodable(l)
        BY <3>2, <3>4, PacketsType, LayoutsAreSound
      <4>. QED BY <3>2, <3>4, <4>1 DEF FitsTarget, Running, TypeOK
    <3>. QED BY <3>3, <3>4
  <2>2. CASE UNCHANGED layout /\ Running(d)
    BY <2>2 DEF FitsTarget
  <2>3. ASSUME NEW c \in Cameras, Runs(c) \/ Fails(c) PROVE UNCHANGED layout /\ Running(d)
    <3>1. UNCHANGED layout
      BY <2>3 DEF Runs, Fails, SeesStop, ReadPacket, Wake, Decode, Rewind,
                  DecodeFails, SeekFails, Thread
    <3>2. \E from, to \in Phases : from # "closed" /\ from # "failed" /\ Goes(c, from, to)
      BY <2>3 DEF Runs, Fails, SeesStop, ReadPacket, Wake, Decode, Rewind,
                  DecodeFails, SeekFails, Phases
    <3>. QED BY <3>1, <3>2 DEF Goes, Running, TypeOK
  <2>4. ASSUME OpenReplay \/ ReplayCheck \/ ReplaySend \/ Stop \/ Tick \/ UNCHANGED vars
        PROVE  UNCHANGED layout /\ Running(d)
    BY <2>4 DEF OpenReplay, ReplayCheck, ReplaySend, Replayer, Stop, Tick, vars,
                streams, Running
  <2>. QED BY <2>1, <2>2, <2>3, <2>4 DEF Next
<1>. QED BY <1>1, <1>2, PacingTypeCorrect, PTL DEF Spec

(***************************************************************************)
(* The clock of a camera: where its origin is after any number of passes.  *)
(***************************************************************************)

LEMMA TimedType ==
  ASSUME NEW packets \in Seq(Packet)
  PROVE  /\ Timed(packets) \subseteq 1..Len(packets)
         /\ \A k \in 1..Len(packets) : packets[k].at \in Int
<1>1. \A k \in 1..Len(packets) : packets[k] \in Packet
  OBVIOUS
<1>. QED BY <1>1 DEF Timed, Packet

\* A set of naturals has a least element, and a bounded one a greatest.
LEMMA Least ==
  ASSUME NEW S, S \subseteq Nat, S # {}
  PROVE  \E x \in S : \A y \in S : x <= y
<1>. DEFINE R == OpToRel(<, Nat)
<1>1. IsWellFoundedOn(R, Nat)
  BY NatLessThanWellFounded
<1>2. \A x, y \in Nat : <<y, x>> \in R <=> y < x
  BY DEF OpToRel
<1>. HIDE DEF R
<1>3. PICK x \in S : \A y \in S : ~(<<y, x>> \in R)
  BY <1>1, WFMin
<1>4. \A y \in S : ~(y < x)
  BY <1>2, <1>3
<1>. QED BY <1>4

LEMMA Greatest ==
  ASSUME NEW S, S \subseteq Nat, S # {}, NEW n \in Nat, \A x \in S : x <= n
  PROVE  \E x \in S : \A y \in S : y <= x
<1>. DEFINE T == {n - x : x \in S}
<1>1. T \subseteq Nat /\ T # {}
  <2>1. \A x \in S : n - x \in Nat
    OBVIOUS
  <2>2. PICK x \in S : TRUE
    OBVIOUS
  <2>3. n - x \in T
    BY <2>2
  <2>. QED BY <2>1, <2>3
<1>2. PICK t \in T : \A u \in T : t <= u
  BY <1>1, Least
<1>3. PICK x \in S : t = n - x
  OBVIOUS
<1>4. \A y \in S : n - x <= n - y
  BY <1>2, <1>3
<1>. QED BY <1>4

LEMMA NoStampYet ==
  ASSUME NEW packets \in Seq(Packet)
  PROVE  LastStamp(packets, 0) = 0
<1>1. \A k \in Timed(packets) : k > 0
  BY TimedType
<1>. QED BY <1>1 DEF LastStamp

\* What LastStamp looks for is unique.
LEMMA LatestIs ==
  ASSUME NEW packets \in Seq(Packet), NEW n \in Nat, NEW i \in Timed(packets), i <= n,
         \A j \in Timed(packets) : j <= n => j <= i
  PROVE  LastStamp(packets, n) = packets[i].at
<1>. DEFINE Latest(k) == k <= n /\ \A j \in Timed(packets) : j <= n => j <= k
<1>1. Latest(i)
  OBVIOUS
<1>2. PICK m \in Timed(packets) : m = (CHOOSE k \in Timed(packets) : Latest(k)) /\ Latest(m)
  BY <1>1
<1>3. m = i
  BY <1>1, <1>2, TimedType
<1>4. ~(\A k \in Timed(packets) : k > n)
  BY TimedType
<1>. QED BY <1>2, <1>3, <1>4 DEF LastStamp

LEMMA StampOfTimed ==
  ASSUME NEW packets \in Seq(Packet), NEW n \in Timed(packets)
  PROVE  LastStamp(packets, n) = packets[n].at
<1>1. n \in Nat /\ \A j \in Timed(packets) : j <= n => j <= n
  BY TimedType
<1>. QED BY <1>1, LatestIs, TimedType

LEMMA StampType ==
  ASSUME NEW packets \in Seq(Packet), NEW n \in Nat
  PROVE  LastStamp(packets, n) \in Int
<1>. DEFINE past == {k \in Timed(packets) : k <= n}
<1>1. past \subseteq Nat
  BY TimedType
<1>2. CASE past = {}
  <2>1. \A k \in Timed(packets) : k > n
    BY <1>2, TimedType
  <2>. QED BY <2>1 DEF LastStamp
<1>3. CASE past # {}
  <2>1. PICK i \in past : \A j \in past : j <= i
    BY <1>1, <1>3, Greatest
  <2>2. LastStamp(packets, n) = packets[i].at
    BY <2>1, LatestIs
  <2>. QED BY <2>2, TimedType
<1>. QED BY <1>2, <1>3

LEMMA StampPast ==
  ASSUME NEW packets \in Seq(Packet), NEW n \in Nat, n + 1 \notin Timed(packets)
  PROVE  LastStamp(packets, n + 1) = LastStamp(packets, n)
<1>. \A k \in Timed(packets) : k \in Nat
  BY TimedType
<1>1. \A k \in Timed(packets) : k <= n + 1 <=> k <= n
  OBVIOUS
<1>2. \A k \in Timed(packets) : k > n + 1 <=> k > n
  BY <1>1
<1>. DEFINE Latest(k, b) == k <= b /\ \A j \in Timed(packets) : j <= b => j <= k
<1>3. \A k \in Timed(packets) : Latest(k, n + 1) <=> Latest(k, n)
  BY <1>1
<1>4. (CHOOSE k \in Timed(packets) : Latest(k, n + 1)) = (CHOOSE k \in Timed(packets) : Latest(k, n))
  BY <1>3
<1>5. LastStamp(packets, n + 1) =
        IF \A k \in Timed(packets) : k > n + 1 THEN 0
        ELSE packets[CHOOSE k \in Timed(packets) : Latest(k, n + 1)].at
  BY Zenon DEF LastStamp
<1>6. LastStamp(packets, n) =
        IF \A k \in Timed(packets) : k > n THEN 0
        ELSE packets[CHOOSE k \in Timed(packets) : Latest(k, n)].at
  BY Zenon DEF LastStamp
<1>. DEFINE late == CHOOSE k \in Timed(packets) : Latest(k, n + 1)
            late0 == CHOOSE k \in Timed(packets) : Latest(k, n)
            none == \A k \in Timed(packets) : k > n + 1
            none0 == \A k \in Timed(packets) : k > n
<1>7. late = late0 /\ (none <=> none0)
  BY <1>2, <1>4
<1>8. /\ LastStamp(packets, n + 1) = IF none THEN 0 ELSE packets[late].at
      /\ LastStamp(packets, n) = IF none0 THEN 0 ELSE packets[late0].at
  BY <1>5, <1>6
<1>. HIDE DEF late, late0, none, none0
<1>. QED BY <1>7, <1>8

\* The origin of a running camera has advanced by its completed passes, its
\* deadline is the last stamp it has read, and no packet it has got past was
\* early.
Plays(c) == phase[c] \in {"read", "sleep", "decode"}
Passed(c, k) == k < next[c] \/ (k = next[c] /\ phase[c] # "sleep")
ClockInv(c) ==
  Plays(c) =>
    /\ start[c] = (pass[c] - 1) * Length(Packets(c))
    /\ deadline[c] = LastStamp(Packets(c), next[c])
    /\ phase[c] = "sleep" => next[c] \in Timed(Packets(c))
    /\ phase[c] = "decode" => next[c] \in DOMAIN Packets(c) /\ Current(c).video
    /\ \A k \in Timed(Packets(c)) : Passed(c, k) => now >= start[c] + Packets(c)[k].at

\* A camera that has not been opened is where Init left it.
Fresh(c) ==
  /\ c >= opening => phase[c] = "closed"
  /\ phase[c] = "closed" =>
       pass[c] = 1 /\ next[c] = 0 /\ deadline[c] = 0 /\ held[c] = 0 /\ frames[c] = 0

Still(c) ==
  /\ phase'[c] = phase[c] /\ start'[c] = start[c] /\ pass'[c] = pass[c]
  /\ next'[c] = next[c] /\ deadline'[c] = deadline[c] /\ held'[c] = held[c]
  /\ frames'[c] = frames[c] /\ source' = source

\* A step is of one camera's thread, or of none.
LEMMA Steps ==
  ASSUME TypeOK, [Next]_vars, NEW c \in Cameras
  PROVE  /\ now' \in Nat /\ now' >= now /\ source' = source /\ opening' >= opening
         /\ Open(c) \/ Runs(c) \/ Fails(c) \/ Still(c)
<1>. USE DEF TypeOK
<1>1. ASSUME NEW d \in Cameras, Open(d)
      PROVE  now' = now /\ source' = source /\ opening' = opening + 1 /\ (d # c => Still(c))
  BY <1>1 DEF Open, Still, streams
<1>2. ASSUME NEW d \in Cameras, Runs(d) \/ Fails(d)
      PROVE  UNCHANGED <<now, source, opening>> /\ (d # c => Still(c))
  <2>1. UNCHANGED <<now, source, opening>>
    BY <1>2 DEF Runs, Fails, SeesStop, ReadPacket, Wake, Decode, Rewind,
                DecodeFails, SeekFails, Thread
  <2>2. CASE SeesStop(d) \/ ReadPacket(d) \/ Wake(d)
    BY <2>1, <2>2 DEF SeesStop, ReadPacket, Wake, Goes, Still
  <2>3. CASE Decode(d) \/ DecodeFails(d)
    BY <2>1, <2>3 DEF Decode, DecodeFails, Goes, Still
  <2>4. CASE Rewind(d) \/ SeekFails(d)
    BY <2>1, <2>4 DEF Rewind, SeekFails, Advance, Flush, Goes, Still
  <2>. QED BY <1>2, <2>1, <2>2, <2>3, <2>4 DEF Runs, Fails
<1>3. ASSUME OpenReplay \/ ReplayCheck \/ ReplaySend \/ Stop \/ UNCHANGED vars
      PROVE  now' = now /\ source' = source /\ opening' >= opening /\ Still(c)
  BY <1>3 DEF OpenReplay, ReplayCheck, ReplaySend, Replayer, Stop, vars, streams, Still
<1>4. ASSUME Tick PROVE now' = now + 1 /\ source' = source /\ opening' = opening /\ Still(c)
  BY <1>4 DEF Tick, streams, Still
<1>. QED BY <1>1, <1>2, <1>3, <1>4 DEF Next

LEMMA FreshStep ==
  ASSUME TypeOK, [Next]_vars, NEW c \in Cameras, Fresh(c)
  PROVE  Fresh(c)'
<1>. USE DEF TypeOK
<1>. c \in Int /\ opening \in Int /\ opening' \in Int
  BY TypeStep DEF Cameras
<1>1. CASE Open(c)
  BY <1>1 DEF Open, streams, Fresh
<1>2. CASE Runs(c) \/ Fails(c)
  <2>1. \E from, to \in Phases : from # "closed" /\ to # "closed" /\ Goes(c, from, to)
    BY <1>2 DEF Runs, Fails, SeesStop, ReadPacket, Wake, Decode, Rewind,
                DecodeFails, SeekFails, Phases
  <2>2. opening' = opening
    BY <1>2 DEF Runs, Fails, SeesStop, ReadPacket, Wake, Decode, Rewind,
                DecodeFails, SeekFails, Thread
  <2>. QED BY <2>1, <2>2 DEF Goes, Fresh
<1>3. CASE Still(c)
  <2>1. opening' >= opening
    BY Steps
  <2>. QED BY <1>3, <2>1 DEF Still, Fresh
<1>. QED BY <1>1, <1>2, <1>3, Steps

LEMMA ClockStep ==
  ASSUME TypeOK, [Next]_vars, NEW c \in Cameras, Fresh(c), ClockInv(c)
  PROVE  ClockInv(c)'
<1>. DEFINE ps == Packets(c)
<1>. ps \in Seq(Packet) /\ Packets(c)' = ps
  BY PacketsType, Steps DEF Packets
<1>. /\ now \in Nat /\ now' \in Nat /\ now' >= now
     /\ start[c] \in Int /\ deadline[c] \in Int /\ pass[c] \in Positive /\ next[c] \in Nat
     /\ next[c] <= Len(ps)
  BY Steps DEF TypeOK
<1>. /\ Timed(ps) \subseteq 1..Len(ps) /\ \A k \in 1..Len(ps) : ps[k].at \in Int
  BY TimedType
<1>. HIDE DEF ps
<1>a. ClockInv(c)' <=>
        (Plays(c)' =>
          /\ start'[c] = (pass'[c] - 1) * Length(ps)
          /\ deadline'[c] = LastStamp(ps, next'[c])
          /\ phase'[c] = "sleep" => next'[c] \in Timed(ps)
          /\ phase'[c] = "decode" => next'[c] \in DOMAIN ps /\ ps[next'[c]].video
          /\ \A k \in Timed(ps) :
               k < next'[c] \/ (k = next'[c] /\ phase'[c] # "sleep")
                 => now' >= start'[c] + ps[k].at)
  BY DEF ClockInv, Passed, Current
<1>b. Plays(c) =>
        /\ start[c] = (pass[c] - 1) * Length(ps)
        /\ deadline[c] = LastStamp(ps, next[c])
        /\ phase[c] = "sleep" => next[c] \in Timed(ps)
        /\ phase[c] = "decode" => next[c] \in DOMAIN ps /\ ps[next[c]].video
        /\ \A k \in Timed(ps) :
             k < next[c] \/ (k = next[c] /\ phase[c] # "sleep") => now >= start[c] + ps[k].at
  BY DEF ClockInv, Passed, Current, ps
<1>1. CASE Open(c)
  <2>1. CASE UNCHANGED streams
    BY <1>a, <1>b, <2>1 DEF streams, Plays
  <2>2. CASE ~UNCHANGED streams
    <3>1. /\ start'[c] = 0 /\ pass'[c] = 1 /\ next'[c] = 0 /\ deadline'[c] = 0
          /\ phase'[c] = "read"
      <4>1. phase[c] = "closed"
        BY <1>1 DEF Open, Fresh, Cameras
      <4>2. /\ phase' = [phase EXCEPT ![c] = "read"] /\ start' = [start EXCEPT ![c] = Origin]
            /\ UNCHANGED <<pass, next, deadline>>
        BY <1>1, <2>2 DEF Open
      <4>. QED BY <4>1, <4>2 DEF Fresh, Origin, TypeOK
    <3>2. LastStamp(ps, 0) = 0
      BY NoStampYet
    <3>3. (1 - 1) * Length(ps) = 0
      <4>1. Length(ps) \in Int
        BY StampType DEF Length
      <4>. QED BY <4>1
    <3>. QED BY <1>a, <3>1, <3>2, <3>3
  <2>. QED BY <2>1, <2>2
<1>2. CASE Still(c)
  BY <1>a, <1>b, <1>2 DEF Still, Plays
<1>3. CASE SeesStop(c) \/ Fails(c)
  BY <1>a, <1>3 DEF SeesStop, Fails, DecodeFails, SeekFails, Goes, Plays, TypeOK
<1>4. CASE ReadPacket(c)
  <2>. DEFINE n == next[c] + 1
  <2>1. /\ n \in 1..Len(ps) /\ next'[c] = n /\ UNCHANGED <<start, pass, now>>
        /\ phase[c] = "read"
    BY <1>4 DEF ReadPacket, Goes, Thread, TypeOK, ps
  <2>2. \/ phase'[c] = "read" /\ deadline' = deadline /\ ~ps[n].video
        \/ phase'[c] = "decode" /\ deadline' = deadline /\ ps[n].video /\ ~ps[n].timed
        \/ phase'[c] = "sleep" /\ deadline'[c] = ps[n].at /\ ps[n].video /\ ps[n].timed
    BY <1>4 DEF ReadPacket, Goes, TypeOK, ps
  <2>3. n \in Timed(ps) <=> ps[n].video /\ ps[n].timed
    BY <2>1 DEF Timed
  <2>4. deadline'[c] = LastStamp(ps, n)
    <3>1. CASE n \in Timed(ps)
      BY <2>2, <2>3, <3>1, StampOfTimed
    <3>2. CASE n \notin Timed(ps)
      BY <1>b, <2>1, <2>2, <2>3, <3>2, StampPast DEF Plays
    <3>. QED BY <3>1, <3>2
  <2>5. \A k \in Timed(ps) : k < n \/ (k = n /\ phase'[c] # "sleep") => k <= next[c]
    BY <2>2, <2>3
  <2>6. \A k \in Timed(ps) : k <= next[c] => now >= start[c] + ps[k].at
    BY <1>b, <2>1 DEF Plays
  <2>. HIDE DEF n
  <2>. QED BY <1>a, <1>b, <2>1, <2>2, <2>3, <2>4, <2>5, <2>6 DEF Plays
<1>5. CASE Wake(c)
  <2>1. /\ phase[c] = "sleep" /\ phase'[c] = "decode" /\ now >= start[c] + deadline[c]
        /\ UNCHANGED <<start, pass, next, deadline, now>>
    BY <1>5 DEF Wake, Goes, Due, Thread, TypeOK
  <2>2. next[c] \in Timed(ps) /\ deadline[c] = ps[next[c]].at
    BY <1>b, <2>1, StampOfTimed DEF Plays
  <2>3. next[c] \in DOMAIN ps /\ ps[next[c]].video
    BY <2>2 DEF Timed
  <2>4. \A k \in Timed(ps) : k < next[c] => now >= start[c] + ps[k].at
    BY <1>b, <2>1 DEF Plays
  <2>. QED BY <1>a, <1>b, <2>1, <2>2, <2>3, <2>4 DEF Plays
<1>6. CASE Decode(c)
  <2>1. /\ phase[c] = "decode" /\ phase'[c] = "read"
        /\ UNCHANGED <<start, pass, next, deadline, now>>
    BY <1>6 DEF Decode, Goes, Thread, TypeOK
  <2>. QED BY <1>a, <1>b, <2>1 DEF Plays
<1>7. CASE Rewind(c)
  <2>1. /\ phase[c] = "read" /\ phase'[c] = "read" /\ next[c] = Len(ps) /\ next'[c] = 0
        /\ pass'[c] = pass[c] + 1 /\ start'[c] = start[c] + deadline[c] /\ deadline'[c] = 0
    BY <1>7 DEF Rewind, Goes, Advance, TypeOK, ps
  <2>2. deadline[c] = Length(ps) /\ start[c] = (pass[c] - 1) * Length(ps)
    BY <1>b, <2>1 DEF Plays, Length
  <2>3. start'[c] = (pass'[c] - 1) * Length(ps)
    <3>1. Length(ps) \in Int /\ pass[c] \in Int
      BY <2>2 DEF Positive
    <3>2. pass'[c] \in Int /\ pass'[c] = pass[c] + 1
      BY <2>1, <3>1
    <3>3. \A p, q, l \in Int : q = p + 1 => (p - 1) * l + l = (q - 1) * l
      OBVIOUS
    <3>4. (pass[c] - 1) * Length(ps) + Length(ps) = (pass'[c] - 1) * Length(ps)
      BY <3>1, <3>2, <3>3
    <3>. QED BY <2>1, <2>2, <3>4, Zenon
  <2>4. LastStamp(ps, 0) = 0
    BY NoStampYet
  <2>. QED BY <1>a, <2>1, <2>3, <2>4
<1>. QED BY <1>1, <1>2, <1>3, <1>4, <1>5, <1>6, <1>7, Steps DEF Runs

LEMMA ClockInit == Init => \A c \in Cameras : Fresh(c) /\ ClockInv(c)
<1>. SUFFICES ASSUME Init, NEW c \in Cameras PROVE Fresh(c) /\ ClockInv(c)
  OBVIOUS
<1>1. /\ phase[c] = "closed" /\ pass[c] = 1 /\ next[c] = 0 /\ deadline[c] = 0
      /\ held[c] = 0 /\ frames[c] = 0
  BY DEF Init
<1>. QED BY <1>1 DEF Fresh, ClockInv, Plays

Clocks == \A c \in Cameras : Fresh(c) /\ ClockInv(c)

LEMMA ClocksHold == Spec => [](TypeOK /\ Clocks)
<1>1. Init => Clocks
  BY ClockInit DEF Clocks
<1>2. TypeOK /\ Clocks /\ [Next]_vars => Clocks'
  <2>. SUFFICES ASSUME TypeOK, Clocks, [Next]_vars, NEW c \in Cameras
                PROVE  Fresh(c)' /\ ClockInv(c)'
    BY DEF Clocks
  <2>1. Fresh(c) /\ ClockInv(c)
    BY DEF Clocks
  <2>. QED BY <2>1, FreshStep, ClockStep
<1>. QED BY <1>1, <1>2, PacingTypeCorrect, PTL DEF Spec

\* Whatever the recordings, no packet of any pass is sent before the passes
\* before it are over and its own stamp is reached.
THEOREM NoPassIsEarly == Spec => []NeverEarly
<1>1. TypeOK /\ Clocks => NeverEarly
  <2>. SUFFICES ASSUME TypeOK, Clocks, NEW c \in Cameras,
                       phase[c] = "decode", Current(c).timed
                PROVE  now >= Origin + (pass[c] - 1) * Length(Packets(c)) + Current(c).at
    BY DEF NeverEarly
  <2>1. ClockInv(c) /\ Plays(c)
    BY DEF Clocks, Plays
  <2>2. next[c] \in Timed(Packets(c)) /\ Passed(c, next[c])
    BY <2>1 DEF ClockInv, Timed, Current, Passed
  <2>3. now >= start[c] + Current(c).at
    BY <2>1, <2>2 DEF ClockInv, Current
  <2>4. start[c] = (pass[c] - 1) * Length(Packets(c)) /\ start[c] \in Int
    BY <2>1 DEF ClockInv, TypeOK
  <2>5. Packets(c)[next[c]].at \in Int
    BY <2>2, PacketsType, TimedType
  <2>. QED BY <2>3, <2>4, <2>5 DEF Origin, Current
<1>. QED BY <1>1, ClocksHold, PTL

(***************************************************************************)
(* The replay.                                                             *)
(***************************************************************************)

Item == [object : Object, at : Int]

\* The queue is sorted, what is on the wire comes before it, and both are
\* timed from the same frame, whose time is base.
Timing(base, queue, wire) ==
  /\ queue \in Seq(Item) /\ wire \in Seq(Item)
  /\ \A i \in 1..Len(queue) :
       queue[i].object.kind # "other" /\ queue[i].at = Captured(queue[i].object) - base
  /\ \A i, j \in 1..Len(queue) : i <= j => queue[i].at <= queue[j].at
  /\ \A i \in 1..Len(wire) :
       /\ wire[i].object.kind # "other" /\ base <= Captured(wire[i].object)
       /\ wire[i].at >= Captured(wire[i].object) - base
  /\ \A i, j \in 1..Len(wire) :
       i <= j => Captured(wire[i].object) <= Captured(wire[j].object)
  /\ \A i \in 1..Len(wire), j \in 1..Len(queue) :
       Captured(wire[i].object) <= Captured(queue[j].object)
  /\ \A j \in 1..Len(queue) : base <= Captured(queue[j].object)

ReplayInv ==
  /\ DOMAIN replay = {"phase", "start", "queue", "wire"}
  /\ replay.start = 0
  /\ replay.phase = "sleep" => replay.queue # <<>>
  /\ \E base \in Nat : Timing(base, replay.queue, replay.wire)

LEMMA CapturedType ==
  ASSUME NEW object \in Object
  PROVE  Captured(object) \in Nat /\ Captured(object) = Time(object)
<1>1. object.stamp \in Nat /\ TenMics \in Nat
  BY PacingAssumption DEF Object, Positive
<1>2. object.stamp * TenMics \in Nat /\ object.stamp * 1 = object.stamp
  BY <1>1
<1>. QED BY <1>1, <1>2 DEF Captured, Time

LEMMA LoadedTiming ==
  ASSUME NEW capture \in Seq(Object), NEW queue \in Loaded(capture), queue # <<>>
  PROVE  \E base \in Nat : Timing(base, queue, <<>>)
<1>1. PICK order \in Sorted(capture) :
        queue = [i \in DOMAIN order |->
                   [object |-> capture[order[i]],
                    at |-> Time(capture[order[i]]) - Time(capture[order[1]])]]
  BY DEF Loaded
<1>2. PICK n \in 0..Len(capture) : order \in [1..n -> Ethernet(capture)]
  BY DEF Sorted
<1>3. queue \in Seq(Item) /\ Len(queue) = n /\ 1 \in 1..n
  <2>1. ASSUME NEW i \in 1..n
        PROVE  /\ capture[order[i]] \in Object
               /\ Captured(capture[order[i]]) \in Nat
               /\ Time(capture[order[i]]) = Captured(capture[order[i]])
    <3>1. order[i] \in 1..Len(capture)
      BY <1>2 DEF Ethernet
    <3>2. capture[order[i]] \in Object
      BY <3>1
    <3>. QED BY <3>2, CapturedType
  <2>2. n # 0
    <3>1. SUFFICES ASSUME n = 0 PROVE FALSE
      OBVIOUS
    <3>2. DOMAIN queue = {}
      BY <1>1, <1>2, <3>1
    <3>3. queue = <<>>
      BY <1>1, <3>2
    <3>. QED BY <3>3
  <2>3. 1 \in 1..n
    BY <2>2
  <2>4. \A i \in 1..n : queue[i] \in Item
    BY <1>1, <1>2, <2>1, <2>3 DEF Item
  <2>. QED BY <1>1, <1>2, <2>3, <2>4
<1>. DEFINE base == Captured(capture[order[1]])
<1>4. ASSUME NEW i \in 1..n
      PROVE  /\ queue[i].object = capture[order[i]]
             /\ queue[i].object.kind # "other"
             /\ Captured(queue[i].object) \in Nat /\ base \in Nat
             /\ queue[i].at = Captured(queue[i].object) - base
  <2>1. order[i] \in 1..Len(capture) /\ capture[order[i]].kind # "other"
        /\ order[1] \in 1..Len(capture)
    BY <1>2, <1>3 DEF Ethernet
  <2>2. capture[order[i]] \in Object /\ capture[order[1]] \in Object
    BY <2>1
  <2>3. /\ Captured(capture[order[i]]) \in Nat /\ base \in Nat
        /\ Time(capture[order[i]]) = Captured(capture[order[i]])
        /\ Time(capture[order[1]]) = base
    BY <2>2, CapturedType
  <2>4. queue[i] = [object |-> capture[order[i]],
                    at |-> Time(capture[order[i]]) - Time(capture[order[1]])]
    BY <1>1, <1>2
  <2>. QED BY <2>1, <2>3, <2>4
<1>5. ASSUME NEW i \in 1..n, NEW j \in 1..n, i <= j
      PROVE  Captured(queue[i].object) <= Captured(queue[j].object)
  <2>1. CASE i = j
    BY <2>1, <1>4
  <2>2. CASE i < j
    <3>1. Time(capture[order[i]]) <= Time(capture[order[j]])
      BY <1>2, <2>2 DEF Sorted
    <3>2. order[i] \in 1..Len(capture) /\ order[j] \in 1..Len(capture)
      BY <1>2 DEF Ethernet
    <3>3. capture[order[i]] \in Object /\ capture[order[j]] \in Object
      BY <3>2
    <3>. QED BY <1>4, <3>1, <3>3, CapturedType
  <2>3. i = j \/ i < j
    <3>1. i \in Int /\ j \in Int
      BY <1>3
    <3>. QED BY <1>5, <3>1
  <2>. QED BY <2>1, <2>2, <2>3
<1>6. base = Captured(queue[1].object) /\ base \in Nat
  BY <1>3, <1>4
<1>. HIDE DEF base
<1>7. \A i, j \in 1..n : i <= j => queue[i].at <= queue[j].at
  BY <1>4, <1>5, <1>6
<1>8. \A j \in 1..n : base <= Captured(queue[j].object)
  BY <1>3, <1>5, <1>6
<1>9. Timing(base, queue, <<>>)
  BY <1>3, <1>4, <1>7, <1>8 DEF Timing
<1>. QED BY <1>6, <1>9

LEMMA TimingSent ==
  ASSUME NEW base \in Nat, NEW queue, NEW wire, Timing(base, queue, wire), queue # <<>>,
         NEW t \in Nat, t >= Head(queue).at
  PROVE  /\ Timing(base, Tail(queue), Append(wire, [object |-> Head(queue).object, at |-> t]))
         /\ Timing(base, Tail(queue), wire)
<1>. /\ queue \in Seq(Item) /\ wire \in Seq(Item) /\ Len(queue) \in Nat \ {0}
     /\ Head(queue) = queue[1] /\ Len(wire) \in Nat
  BY DEF Timing
<1>. DEFINE tail == Tail(queue)
            sent == [object |-> queue[1].object, at |-> t]
            longer == Append(wire, sent)
<1>1. /\ tail \in Seq(Item) /\ Len(tail) = Len(queue) - 1
      /\ \A i \in 1..Len(tail) : tail[i] = queue[i + 1] /\ i + 1 \in 1..Len(queue)
  OBVIOUS
<1>2. 1 \in 1..Len(queue) /\ queue[1] \in Item
  OBVIOUS
<1>3. sent \in Item
  BY <1>2 DEF Item
<1>4. /\ longer \in Seq(Item) /\ Len(longer) = Len(wire) + 1
      /\ \A i \in 1..Len(wire) : longer[i] = wire[i]
      /\ longer[Len(wire) + 1] = sent
  BY <1>3
<1>5. /\ \A i \in 1..Len(queue) : Captured(queue[i].object) \in Nat
      /\ \A i \in 1..Len(wire) : Captured(wire[i].object) \in Nat
  <2>1. \A i \in 1..Len(queue) : queue[i] \in Item
    OBVIOUS
  <2>2. \A i \in 1..Len(wire) : wire[i] \in Item
    OBVIOUS
  <2>. QED BY <2>1, <2>2, CapturedType DEF Item
<1>6. \A j \in 1..Len(queue) : Captured(queue[1].object) <= Captured(queue[j].object)
  <2>. SUFFICES ASSUME NEW j \in 1..Len(queue)
                PROVE  Captured(queue[1].object) <= Captured(queue[j].object)
    OBVIOUS
  <2>1. queue[1].at <= queue[j].at
    BY <1>2 DEF Timing
  <2>2. /\ queue[1].at = Captured(queue[1].object) - base
        /\ queue[j].at = Captured(queue[j].object) - base
    BY <1>2 DEF Timing
  <2>. QED BY <1>2, <1>5, <2>1, <2>2
<1>7. Timing(base, tail, wire)
  BY <1>1, <1>5 DEF Timing
<1>8. /\ sent.object.kind # "other" /\ base <= Captured(sent.object)
      /\ sent.at >= Captured(sent.object) - base
      /\ sent.object = queue[1].object
  BY <1>2 DEF Timing
<1>. HIDE DEF sent, longer, tail
<1>9. \A i \in 1..Len(longer) :
        /\ longer[i].object.kind # "other" /\ base <= Captured(longer[i].object)
        /\ longer[i].at >= Captured(longer[i].object) - base
  <2>. SUFFICES ASSUME NEW i \in 1..Len(longer)
                PROVE  /\ longer[i].object.kind # "other" /\ base <= Captured(longer[i].object)
                       /\ longer[i].at >= Captured(longer[i].object) - base
    OBVIOUS
  <2>1. i \in 1..Len(wire) \/ i = Len(wire) + 1
    BY <1>4
  <2>. QED BY <1>4, <1>8, <2>1 DEF Timing
<1>10. \A i, j \in 1..Len(longer) :
         i <= j => Captured(longer[i].object) <= Captured(longer[j].object)
  <2>. SUFFICES ASSUME NEW i \in 1..Len(longer), NEW j \in 1..Len(longer), i <= j
                PROVE  Captured(longer[i].object) <= Captured(longer[j].object)
    OBVIOUS
  <2>1. CASE j \in 1..Len(wire)
    <3>1. i \in 1..Len(wire)
      BY <2>1, <1>4
    <3>. QED BY <1>4, <2>1, <3>1 DEF Timing
  <2>2. CASE j = Len(wire) + 1 /\ i \in 1..Len(wire)
    <3>1. Captured(wire[i].object) <= Captured(queue[1].object)
      BY <1>2, <2>2 DEF Timing
    <3>. QED BY <1>4, <1>8, <2>2, <3>1
  <2>3. CASE j = Len(wire) + 1 /\ i = Len(wire) + 1
    <3>1. Captured(sent.object) <= Captured(sent.object)
      BY <1>2, <1>5, <1>8
    <3>. QED BY <1>4, <2>3, <3>1
  <2>4. (i \in 1..Len(wire) \/ i = Len(wire) + 1) /\ (j \in 1..Len(wire) \/ j = Len(wire) + 1)
    BY <1>4
  <2>. QED BY <2>1, <2>2, <2>3, <2>4
<1>11. \A i \in 1..Len(longer), j \in 1..Len(tail) :
         Captured(longer[i].object) <= Captured(tail[j].object)
  <2>. SUFFICES ASSUME NEW i \in 1..Len(longer), NEW j \in 1..Len(tail)
                PROVE  Captured(longer[i].object) <= Captured(tail[j].object)
    OBVIOUS
  <2>1. tail[j] = queue[j + 1] /\ j + 1 \in 1..Len(queue)
    BY <1>1
  <2>2. CASE i \in 1..Len(wire)
    BY <1>4, <2>1, <2>2 DEF Timing
  <2>3. CASE i = Len(wire) + 1
    BY <1>4, <1>6, <1>8, <2>1, <2>3
  <2>4. i \in 1..Len(wire) \/ i = Len(wire) + 1
    BY <1>4
  <2>. QED BY <2>2, <2>3, <2>4
<1>12. Timing(base, tail, longer)
  BY <1>4, <1>7, <1>9, <1>10, <1>11 DEF Timing
<1>. QED BY <1>7, <1>12 DEF longer, sent, tail

LEMMA ReplayInit == Init => ReplayInv
<1>. SUFFICES ASSUME Init PROVE ReplayInv
  OBVIOUS
<1>1. replay = NoReplay
  BY DEF Init
<1>2. Timing(0, <<>>, <<>>)
  BY DEF Timing
<1>. QED BY <1>1, <1>2 DEF ReplayInv, NoReplay

LEMMA ReplayStep == TypeOK /\ ReplayInv /\ [Next]_vars => ReplayInv'
<1>. SUFFICES ASSUME TypeOK, ReplayInv, [Next]_vars PROVE ReplayInv'
  OBVIOUS
<1>1. CASE UNCHANGED replay
  BY <1>1 DEF ReplayInv
<1>2. CASE OpenReplay
  <2>1. CASE UNCHANGED replay
    BY <1>1, <2>1
  <2>2. CASE ~UNCHANGED replay
    <3>0. PICK capture \in Captures : \E queue \in Loaded(capture) :
            /\ queue # <<>>
            /\ replay' = [phase |-> "check", start |-> Origin, queue |-> queue, wire |-> <<>>]
      BY <1>2, <2>2, Zenon DEF OpenReplay
    <3>1. PICK queue \in Loaded(capture) :
            /\ queue # <<>>
            /\ replay' = [phase |-> "check", start |-> Origin, queue |-> queue, wire |-> <<>>]
      BY <3>0
    <3>2. capture \in Seq(Object)
      BY PacingAssumption
    <3>3. \E base \in Nat : Timing(base, queue, <<>>)
      BY <3>1, <3>2, LoadedTiming
    <3>. QED BY <3>1, <3>3 DEF ReplayInv, Origin
  <2>. QED BY <2>1, <2>2
<1>3. PICK base \in Nat : Timing(base, replay.queue, replay.wire)
  BY DEF ReplayInv
<1>4. CASE ReplayCheck
  <2>1. /\ replay'.start = replay.start /\ replay'.queue = replay.queue
        /\ replay'.wire = replay.wire
        /\ DOMAIN replay' = DOMAIN replay
        /\ replay'.phase = "sleep" => replay.queue # <<>>
    <3>0. DOMAIN replay = {"phase", "start", "queue", "wire"}
      BY DEF ReplayInv
    <3>1. \/ replay' = [replay EXCEPT !.phase = "over"]
          \/ replay' = [replay EXCEPT !.phase = "sleep"] /\ replay.queue # <<>>
      BY <1>4 DEF ReplayCheck, Replays
    <3>. QED BY <3>0, <3>1
  <2>. QED BY <1>3, <2>1 DEF ReplayInv
<1>5. CASE ReplaySend
  <2>1. CASE Replays("sleep", "over")
    BY <1>3, <2>1 DEF ReplayInv, Replays
  <2>2. CASE Send
    <3>1. PICK wire \in {replay.wire, Sent(replay.wire)} :
            replay' = [replay EXCEPT !.phase = "check", !.wire = wire, !.queue = Tail(@)]
      BY <2>2 DEF Send
    <3>2. now \in Nat /\ now >= Head(replay.queue).at /\ replay.queue # <<>>
      <4>1. replay.queue # <<>> /\ replay.queue \in Seq(Item)
        BY <1>3, <1>5 DEF ReplaySend, ReplayInv, Timing
      <4>2. Head(replay.queue) \in Item
        BY <4>1
      <4>. QED BY <1>5, <4>1, <4>2 DEF ReplaySend, ReplayDue, ReplayInv, TypeOK, Item
    <3>3. Timing(base, Tail(replay.queue), wire)
      BY <1>3, <3>1, <3>2, TimingSent DEF Sent
    <3>4. /\ replay'.start = replay.start /\ replay'.phase = "check"
          /\ replay'.queue = Tail(replay.queue) /\ replay'.wire = wire
          /\ DOMAIN replay' = DOMAIN replay
      BY <3>1 DEF ReplayInv
    <3>. QED BY <3>3, <3>4 DEF ReplayInv
  <2>. QED BY <1>5, <2>1, <2>2 DEF ReplaySend
<1>6. ASSUME NEW c \in Cameras, Open(c) \/ Runs(c) \/ Fails(c) PROVE UNCHANGED replay
  BY <1>6 DEF Open, Runs, Fails, SeesStop, ReadPacket, Wake, Decode, Rewind,
              DecodeFails, SeekFails, Thread
<1>7. CASE Stop \/ Tick \/ UNCHANGED vars
  BY <1>1, <1>7 DEF Stop, Tick, vars
<1>. QED BY <1>1, <1>2, <1>4, <1>5, <1>6, <1>7 DEF Next

LEMMA ReplayHolds == Spec => [](TypeOK /\ ReplayInv)
BY ReplayInit, ReplayStep, PacingTypeCorrect, PTL DEF Spec

\* Frames of any capture leave in the order of their time, in either unit, and
\* no closer to the first than they were captured.
THEOREM ReplayFollowsCapture == Spec => []WireFollowsCapture
<1>1. TypeOK /\ ReplayInv => WireFollowsCapture
  <2>. SUFFICES ASSUME TypeOK, ReplayInv,
                       NEW i \in DOMAIN replay.wire, NEW j \in DOMAIN replay.wire, i <= j
                PROVE  LET a == replay.wire[i]
                           b == replay.wire[j]
                       IN /\ a.object.kind # "other"
                          /\ Captured(a.object) <= Captured(b.object)
                          /\ b.at >= Captured(b.object) - Captured(a.object)
    BY DEF WireFollowsCapture
  <2>1. PICK base \in Nat : Timing(base, replay.queue, replay.wire)
    BY DEF ReplayInv
  <2>2. /\ replay.wire \in Seq(Item)
        /\ i \in 1..Len(replay.wire) /\ j \in 1..Len(replay.wire)
    BY <2>1 DEF Timing
  <2>3. replay.wire[i] \in Item /\ replay.wire[j] \in Item
    BY <2>2
  <2>4. /\ Captured(replay.wire[i].object) \in Nat
        /\ Captured(replay.wire[j].object) \in Nat /\ replay.wire[j].at \in Int
    BY <2>3, CapturedType DEF Item
  <2>5. /\ replay.wire[i].object.kind # "other"
        /\ base <= Captured(replay.wire[i].object)
        /\ replay.wire[j].at >= Captured(replay.wire[j].object) - base
        /\ Captured(replay.wire[i].object) <= Captured(replay.wire[j].object)
    BY <2>1, <2>2 DEF Timing
  <2>. QED BY <2>4, <2>5
<1>. QED BY <1>1, ReplayHolds, PTL

\* Cameras and replay share one clock: when none is late, each has sent what
\* was captured up to now and nothing else.
THEOREM SendersInStep == Spec => []InStep
<1>1. TypeOK /\ Clocks /\ ReplayInv => InStep
  <2>. SUFFICES ASSUME TypeOK, Clocks, ReplayInv PROVE InStep
    OBVIOUS
  <2>1. ASSUME NEW c \in Cameras, Waits(c), Ascending(Packets(c)), NEW k \in Timed(Packets(c))
        PROVE  Packets(c)[k].at <= now <=> k < next[c]
    <3>1. ClockInv(c) /\ Plays(c) /\ phase[c] = "sleep" /\ pass[c] = 1 /\ ~Due(c)
      BY <2>1 DEF Clocks, Waits, Plays
    <3>2. Packets(c) \in Seq(Packet) /\ next[c] \in Timed(Packets(c))
      BY <3>1, PacketsType DEF ClockInv
    <3>3. /\ k \in Nat /\ next[c] \in Nat /\ now \in Nat
          /\ Packets(c)[k].at \in Int /\ Packets(c)[next[c]].at \in Int
      BY <3>2, TimedType DEF TypeOK
    <3>4. start[c] = 0
      <4>1. Length(Packets(c)) \in Int
        BY <3>2, StampType DEF Length
      <4>2. start[c] = (1 - 1) * Length(Packets(c))
        BY <3>1 DEF ClockInv
      <4>. QED BY <4>1, <4>2
    <3>5. deadline[c] = Packets(c)[next[c]].at
      BY <3>1, <3>2, StampOfTimed DEF ClockInv
    <3>6. now < Packets(c)[next[c]].at
      BY <3>1, <3>3, <3>4, <3>5 DEF Due
    <3>7. CASE k < next[c]
      <4>1. now >= start[c] + Packets(c)[k].at
        BY <3>1, <3>7 DEF ClockInv, Passed
      <4>. QED BY <3>3, <3>4, <3>7, <4>1
    <3>8. CASE k = next[c]
      BY <3>3, <3>6, <3>8
    <3>9. CASE k > next[c]
      <4>1. Packets(c)[next[c]].at <= Packets(c)[k].at
        BY <2>1, <3>2, <3>3, <3>9 DEF Ascending
      <4>. QED BY <3>3, <3>6, <3>9, <4>1
    <3>. QED BY <3>3, <3>7, <3>8, <3>9
  <2>2. ASSUME replay.phase = "sleep", ~ReplayDue, NEW i \in DOMAIN replay.queue
        PROVE  replay.queue[i].at > now
    <3>1. PICK base \in Nat : Timing(base, replay.queue, replay.wire)
      BY DEF ReplayInv
    <3>2. replay.queue \in Seq(Item) /\ i \in 1..Len(replay.queue) /\ 1 \in 1..Len(replay.queue)
      BY <2>2, <3>1 DEF Timing
    <3>3. replay.queue[1] \in Item /\ replay.queue[i] \in Item
      BY <3>2
    <3>4. replay.queue[1].at <= replay.queue[i].at
      BY <3>1, <3>2 DEF Timing
    <3>5. now < replay.queue[1].at
      BY <2>2, <3>2, <3>3 DEF ReplayDue, ReplayInv, TypeOK, Item
    <3>. QED BY <3>3, <3>4, <3>5 DEF Item, TypeOK
  <2>. QED BY <2>1, <2>2 DEF InStep
<1>. QED BY <1>1, ClocksHold, ReplayHolds, PTL

(***************************************************************************)
(* The clock of the encoder.                                               *)
(***************************************************************************)

\* The packets the decoder has got, and what that makes of them: it holds up
\* to depth, and has returned the rest.
Decoded(c) == IF phase[c] = "read" THEN next[c] ELSE next[c] - 1
Video(packets) == \A k \in DOMAIN packets : packets[k].video

FramesInv(c) ==
  Plays(c) /\ Video(Packets(c)) /\ source[c].depth <= Len(Packets(c)) =>
    /\ phase[c] # "read" => next[c] > 0
    /\ held[c] = IF Decoded(c) < source[c].depth THEN Decoded(c) ELSE source[c].depth
    /\ frames[c] = (pass[c] - 1) * (Len(Packets(c)) - source[c].depth)
                   + (IF Decoded(c) < source[c].depth THEN 0
                      ELSE Decoded(c) - source[c].depth)

LEMMA FramesStep ==
  ASSUME TypeOK, [Next]_vars, NEW c \in Cameras, Fresh(c), FramesInv(c)
  PROVE  FramesInv(c)'
<1>. DEFINE ps == Packets(c)
            depth == source[c].depth
            lost == Len(ps) - depth
<1>. ps \in Seq(Packet) /\ Packets(c)' = ps /\ source'[c] = source[c]
     /\ depth \in Nat /\ Len(ps) \in Nat
  BY PacketsType, Steps DEF Packets
<1>. /\ pass[c] \in Positive /\ next[c] \in Nat /\ held[c] \in Nat /\ frames[c] \in Nat
  BY DEF TypeOK
<1>. SUFFICES ASSUME Plays(c)', Video(ps), depth <= Len(ps)
              PROVE  /\ phase'[c] # "read" => next'[c] > 0
                     /\ held'[c] = IF Decoded(c)' < depth THEN Decoded(c)' ELSE depth
                     /\ frames'[c] = (pass'[c] - 1) * lost
                                     + (IF Decoded(c)' < depth THEN 0 ELSE Decoded(c)' - depth)
  BY DEF FramesInv
<1>. HIDE DEF ps, depth
<1>a. lost \in Nat
  OBVIOUS
<1>b. Plays(c) =>
        /\ phase[c] # "read" => next[c] > 0
        /\ held[c] = IF Decoded(c) < depth THEN Decoded(c) ELSE depth
        /\ frames[c] = (pass[c] - 1) * lost
                       + (IF Decoded(c) < depth THEN 0 ELSE Decoded(c) - depth)
  BY DEF FramesInv, ps, depth
<1>. HIDE DEF lost
<1>1. CASE Open(c)
  <2>1. CASE UNCHANGED streams
    BY <1>b, <2>1 DEF streams, Plays, Decoded
  <2>2. CASE ~UNCHANGED streams
    <3>1. phase[c] = "closed"
      BY <1>1 DEF Open, Fresh, Cameras
    <3>2. /\ phase' = [phase EXCEPT ![c] = "read"]
          /\ UNCHANGED <<pass, next, held, frames>>
      BY <1>1, <2>2 DEF Open
    <3>3. /\ phase'[c] = "read" /\ pass'[c] = 1 /\ next'[c] = 0 /\ held'[c] = 0
          /\ frames'[c] = 0
      BY <3>1, <3>2 DEF Fresh, TypeOK
    <3>4. (1 - 1) * lost = 0
      BY <1>a
    <3>5. Decoded(c)' = 0
      BY <3>3 DEF Decoded
    <3>. QED BY <3>3, <3>4, <3>5
  <2>. QED BY <2>1, <2>2
<1>2. CASE Still(c)
  BY <1>b, <1>2 DEF Still, Plays, Decoded
<1>3. CASE SeesStop(c) \/ Fails(c)
  BY <1>3 DEF SeesStop, Fails, DecodeFails, SeekFails, Goes, Plays, TypeOK
<1>4. CASE ReadPacket(c)
  <2>1. /\ next'[c] = next[c] + 1 /\ next[c] + 1 \in DOMAIN ps
        /\ UNCHANGED <<pass, held, frames>> /\ phase[c] = "read"
    BY <1>4 DEF ReadPacket, Goes, TypeOK, ps
  <2>2. ps[next[c] + 1].video
    BY <2>1 DEF Video
  <2>3. phase'[c] \in {"sleep", "decode"}
    BY <1>4, <2>2 DEF ReadPacket, Goes, TypeOK, ps
  <2>4. Decoded(c)' = Decoded(c)
    BY <2>1, <2>3 DEF Decoded
  <2>. QED BY <1>b, <2>1, <2>3, <2>4 DEF Plays
<1>5. CASE Wake(c)
  <2>1. /\ phase[c] = "sleep" /\ phase'[c] = "decode" /\ UNCHANGED <<pass, next, held, frames>>
    BY <1>5 DEF Wake, Goes, TypeOK
  <2>2. Decoded(c)' = Decoded(c)
    BY <2>1 DEF Decoded
  <2>. QED BY <1>b, <2>1, <2>2 DEF Plays
<1>6. CASE Decode(c)
  <2>1. phase[c] = "decode" /\ phase'[c] = "read" /\ UNCHANGED <<pass, next>>
    BY <1>6 DEF Decode, Goes, TypeOK
  <2>2. Decoded(c)' = Decoded(c) + 1 /\ Decoded(c) \in Nat
    BY <1>b, <2>1 DEF Decoded, Plays
  <2>3. \/ held[c] < depth /\ held'[c] = held[c] + 1 /\ frames'[c] = frames[c]
        \/ held[c] = depth /\ held'[c] = held[c] /\ frames'[c] = frames[c] + 1
    BY <1>6 DEF Decode, TypeOK, depth
  <2>4. (pass[c] - 1) * lost \in Int /\ pass'[c] = pass[c]
    BY <1>a, <2>1 DEF Positive
  <2>. DEFINE before == (pass[c] - 1) * lost
  <2>5. /\ held[c] = IF Decoded(c) < depth THEN Decoded(c) ELSE depth
        /\ frames[c] = before + (IF Decoded(c) < depth THEN 0 ELSE Decoded(c) - depth)
    BY <1>b, <2>1 DEF Plays
  <2>6. (pass'[c] - 1) * lost = before
    BY <2>4, Zenon
  <2>. HIDE DEF before
  <2>7. /\ held'[c] = IF Decoded(c) + 1 < depth THEN Decoded(c) + 1 ELSE depth
        /\ frames'[c] = before + (IF Decoded(c) + 1 < depth THEN 0 ELSE Decoded(c) + 1 - depth)
    BY <2>2, <2>3, <2>4, <2>5 DEF before
  <2>. QED BY <2>1, <2>2, <2>6, <2>7
<1>7. CASE Rewind(c)
  <2>1. /\ phase[c] = "read" /\ phase'[c] = "read" /\ next[c] = Len(ps) /\ next'[c] = 0
        /\ pass'[c] = pass[c] + 1 /\ held'[c] = 0 /\ frames' = frames
    BY <1>7 DEF Rewind, Goes, Flush, TypeOK, ps
  <2>2. Decoded(c) = Len(ps) /\ Decoded(c)' = 0
    BY <2>1 DEF Decoded
  <2>3. frames[c] = (pass[c] - 1) * lost + lost
    BY <1>b, <2>1, <2>2 DEF Plays, lost
  <2>4. \A p, q, l \in Int : q = p + 1 => (p - 1) * l + l = (q - 1) * l
    OBVIOUS
  <2>5. frames'[c] = (pass'[c] - 1) * lost
    BY <1>a, <2>1, <2>3, <2>4 DEF Positive
  <2>6. (pass'[c] - 1) * lost \in Int
    BY <2>1, <2>5
  <2>. QED BY <2>1, <2>2, <2>5, <2>6
<1>. QED BY <1>1, <1>2, <1>3, <1>4, <1>5, <1>6, <1>7, Steps DEF Runs

LEMMA FramesInit == Init => \A c \in Cameras : FramesInv(c)
BY DEF Init, FramesInv, Plays

AllFrames == \A c \in Cameras : FramesInv(c)

LEMMA FramesHold == Spec => []AllFrames
<1>1. Init => AllFrames
  BY FramesInit DEF AllFrames
<1>2. TypeOK /\ Clocks /\ AllFrames /\ [Next]_vars => AllFrames'
  <2>. SUFFICES ASSUME TypeOK, Clocks, AllFrames, [Next]_vars, NEW c \in Cameras
                PROVE  FramesInv(c)'
    BY DEF AllFrames
  <2>1. Fresh(c) /\ FramesInv(c)
    BY DEF Clocks, AllFrames
  <2>. QED BY <2>1, FramesStep
<1>. QED BY <1>1, <1>2, ClocksHold, PTL DEF Spec

LEMMA Ring ==
  ASSUME NEW a \in Int, NEW n \in Int, NEW d \in Int, NEW i \in Int, NEW k \in Int
  PROVE  a * ((n - 1) * i) + (k - 1) * i
           = i * (a * (n - d) + (k - 1 - d) + d + a * (d - 1))
OBVIOUS

\* For every recording of constant rate, every depth of the decoder and every
\* pass, the frame counter and the pacing differ by depth at first and by
\* depth - 1 intervals more with each pass.
THEOREM DriftIsExact == Spec => []ClocksDriftByPass
<1>1. TypeOK /\ Clocks /\ AllFrames => ClocksDriftByPass
  <2>. SUFFICES ASSUME TypeOK, Clocks, AllFrames, NEW c \in Cameras,
                       phase[c] = "sleep", held[c] = source[c].depth,
                       Constant(Packets(c)), source[c].depth <= Len(Packets(c))
                PROVE  start[c] + deadline[c] =
                         Interval(Packets(c)) * (frames[c] + source[c].depth
                                                 + (pass[c] - 1) * (source[c].depth - 1))
    BY DEF ClocksDriftByPass
  <2>. DEFINE ps == Packets(c)
              n == Len(ps)
              d == source[c].depth
              i == Interval(ps)
              k == next[c]
              a == pass[c] - 1
  <2>1. ps \in Seq(Packet) /\ n \in Nat /\ d \in Nat
    BY PacketsType
  <2>2. ClockInv(c) /\ FramesInv(c) /\ Plays(c) /\ a \in Int /\ k \in Nat
    BY DEF Clocks, AllFrames, Plays, TypeOK, Positive
  <2>3. n > 1 /\ n \in 1..n /\ 2 \in 1..n
    BY <2>1 DEF Constant
  <2>4. i \in Int
    BY <2>1, <2>3, TimedType DEF Interval
  <2>5. \A j \in 1..n : ps[j].video /\ ps[j].timed /\ ps[j].at = (j - 1) * i
    BY <2>1 DEF Constant
  <2>6. Video(ps) /\ \A j \in 1..n : j \in Timed(ps)
    BY <2>1, <2>5 DEF Video, Timed
  <2>7. k \in Timed(ps)
    BY <2>2 DEF ClockInv
  <2>8. k \in 1..n
    BY <2>1, <2>7, TimedType
  <2>9. deadline[c] = (k - 1) * i
    BY <2>1, <2>2, <2>5, <2>7, <2>8, StampOfTimed DEF ClockInv
  <2>10. start[c] = a * ((n - 1) * i)
    <3>1. Length(ps) = ps[n].at
      BY <2>1, <2>3, <2>6, StampOfTimed DEF Length
    <3>2. ps[n].at = (n - 1) * i
      BY <2>3, <2>5
    <3>3. start[c] = a * Length(ps)
      BY <2>2 DEF ClockInv
    <3>. QED BY <3>1, <3>2, <3>3, Zenon
  <2>11. frames[c] = a * (n - d) + (k - 1 - d)
    <3>1. Decoded(c) = k - 1
      BY DEF Decoded
    <3>2. /\ held[c] = IF Decoded(c) < d THEN Decoded(c) ELSE d
          /\ frames[c] = a * (n - d) + (IF Decoded(c) < d THEN 0 ELSE Decoded(c) - d)
      BY <2>2, <2>6 DEF FramesInv
    <3>3. ~(Decoded(c) < d)
      BY <2>1, <2>2, <3>1, <3>2
    <3>. QED BY <3>1, <3>2, <3>3, Zenon
  <2>12. a \in Int /\ n \in Int /\ d \in Int /\ i \in Int /\ k \in Int
    BY <2>1, <2>2, <2>4
  <2>. HIDE DEF n, d, i, k, a
  <2>13. a * ((n - 1) * i) + (k - 1) * i
           = i * (a * (n - d) + (k - 1 - d) + d + a * (d - 1))
    BY <2>12, Ring
  <2>14. start[c] + deadline[c] = i * (frames[c] + d + a * (d - 1))
    BY <2>9, <2>10, <2>11, <2>13, Zenon
  <2>. QED BY <2>14 DEF n, d, i, k, a
<1>. QED BY <1>1, ClocksHold, FramesHold, PTL
=============================================================================
