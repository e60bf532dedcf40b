------------------------------- MODULE Canvas -------------------------------
(***************************************************************************)
(* The sizes CameraStream::open() computes: the canvas the encoder gets,   *)
(* the rectangle of it the picture of the recording is drawn into, and the *)
(* preview.  The factors are doubles in the code and fractions here; the   *)
(* product of a size with a double that stands for a fraction is truncated *)
(* to the integer below, or to one less when the exact product is an       *)
(* integer.                                                                *)
(***************************************************************************)
EXTENDS Integers

CONSTANTS
  MaxWidth, MaxHeight,               \* kMaxWidth, kMaxHeight
  PreviewMaxWidth, PreviewMaxHeight  \* kPreviewMaxWidth, kPreviewMaxHeight

Positive == Nat \ {0}
Size == [width : Positive, height : Positive]

Cap == [width |-> MaxWidth, height |-> MaxHeight]
PreviewCap == [width |-> PreviewMaxWidth, height |-> PreviewMaxHeight]

ASSUME CapAssumption ==
  Cap \in Size /\ PreviewCap \in Size /\ MaxWidth > 1 /\ MaxHeight > 1
ASSUME PreviewAssumption == PreviewMaxWidth > 1 /\ PreviewMaxHeight > 1

Fits(size, box) == size.width <= box.width /\ size.height <= box.height

EvenPart(n) == n - (n % 2)
Plane(n) == IF n < 2 THEN 2 ELSE EvenPart(n)

\* int(n * (num / den)).
Truncated(n, num, den) ==
  IF num = den THEN {n}
  ELSE LET floor == (n * num) \div den
       IN {floor} \cup {k \in {floor - 1} : floor * den = n * num}

ScaledBy(size, num, den) ==
  {[width |-> Plane(w), height |-> Plane(h)] :
     w \in Truncated(size.width, num, den), h \in Truncated(size.height, num, den)}

\* The ratio that lets size fill box: the smaller of both directions.
WidthBinds(size, box) == box.width * size.height <= box.height * size.width

Fill(size, box) ==
  IF WidthBinds(size, box) THEN ScaledBy(size, box.width, size.width)
  ELSE ScaledBy(size, box.height, size.height)

\* computeOutputSize(): never larger than it was.
ComputeOutputSize(size, box) ==
  IF Fits(size, box) THEN ScaledBy(size, 1, 1) ELSE Fill(size, box)

\* The canvas of a camera whose target declared a size; the variant is the
\* one of the time before the cap.
ForcedCanvasUncapped(forced) == {forced}
ForcedCanvas(forced) == IF Fits(forced, Cap) THEN {forced} ELSE Fill(forced, Cap)

Centred(inner, outer) == EvenPart((outer - inner) \div 2)

Letterbox(canvas, content) ==
  [canvas |-> canvas, content |-> content,
   x |-> Centred(content.width, canvas.width),
   y |-> Centred(content.height, canvas.height)]

\* Where the pictures of a camera may go.  A forced size that is not
\* positive counts as none.
NoSize == [width |-> 0, height |-> 0]
Layouts(source, forced) ==
  IF forced.width > 0 /\ forced.height > 0
  THEN UNION {{Letterbox(canvas, content) : content \in Fill(source, canvas)} :
                canvas \in ForcedCanvas(forced)}
  ELSE {Letterbox(canvas, canvas) : canvas \in ComputeOutputSize(source, Cap)}

\* libx264 takes yuv420p pictures of even sizes only.
Encodes(size) == size.width % 2 = 0 /\ size.height % 2 = 0
-----------------------------------------------------------------------------
(* What the layout of a stream is for.                                     *)

\* The picture lies inside the canvas, on whole samples of all three planes.
Inside(layout) ==
  /\ layout.x % 2 = 0 /\ layout.y % 2 = 0
  /\ Encodes(layout.content)
  /\ layout.x >= 0 /\ layout.x + layout.content.width <= layout.canvas.width
  /\ layout.y >= 0 /\ layout.y + layout.content.height <= layout.canvas.height

\* The target can decode the canvas.
Decodable(layout) == Fits(layout.canvas, Cap) /\ Encodes(layout.canvas)
=============================================================================
