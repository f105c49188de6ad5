--------------------------- MODULE RenderTaskProofs ----------------------------
(* Proofs about RenderTask, for every number of retries and lost           *)
(* processes, every size and length of the cut, and every encoder.         *)
EXTENDS RenderTask, TLAPS

-----------------------------------------------------------------------------
(* The crop window and the camera of Reframe, for every size of the cut,   *)
(* every target size and every centre.                                     *)

LEMMA Division ==
  ASSUME NEW a \in Nat, NEW b \in Nat \ {0}
  PROVE  /\ a \div b \in Nat /\ a % b \in 0 .. b - 1
         /\ a = b * (a \div b) + (a % b)
OBVIOUS

(* round is off by at most one half.                                       *)
LEMMA RoundBounds ==
  ASSUME NEW a \in Nat, NEW b \in Nat \ {0}
  PROVE  /\ Round(a, b) \in Nat
         /\ 2 * (b * Round(a, b)) <= 2 * a + b
         /\ 2 * a - b <= 2 * (b * Round(a, b))
<1> DEFINE q == a \div b
           r == a % b
<1>1. q \in Nat /\ r \in 0 .. b - 1 /\ a = b * q + r
  BY Division
<1>2. Round(a, b) \in {q, q + 1} /\ (Round(a, b) = q => 2 * r <= b) /\ (Round(a, b) = q + 1 => 2 * r >= b)
  BY <1>1 DEF Round
<1> HIDE DEF q, r
<1>3. b * (q + 1) = b * q + b /\ b * q \in Nat
  BY <1>1
<1>4. CASE Round(a, b) = q      BY <1>4, <1>1, <1>2, <1>3
<1>5. CASE Round(a, b) = q + 1
  <2>1. b * Round(a, b) = b * q + b  BY <1>5, <1>3
  <2>2. 2 * r >= b /\ r < b  BY <1>5, <1>2, <1>1
  <2> QED  BY <2>1, <2>2, <1>1, <1>3, <1>5
<1>6. QED  BY <1>2, <1>4, <1>5

Sized == size \in (Nat \ {0}) \X (Nat \ {0})

LEMMA Target == {OutW, OutH} \subseteq Nat \ {0} /\ OutW < 2 * OutH /\ OutH < 2 * OutW
BY ReframeAssumption

(* Neither side of the crop is empty, or longer than the cut's.  In the    *)
(* narrow case the height follows from the width that the rounded one      *)
(* exceeds: the two roundings together are off by less than a pixel.       *)
LEMMA CropFits ==
  ASSUME Sized
  PROVE  CropW \in 1 .. Width /\ CropH \in 1 .. Height
<1> DEFINE w == Width
           h == Height
           p == Round(h * OutW, OutH)
           t == Round(w * OutH, OutW)
<1>1. w \in Nat \ {0} /\ h \in Nat \ {0} /\ OutW \in Nat \ {0} /\ OutH \in Nat \ {0}
  BY Target DEF Sized, Width, Height
<1>2. OutW < 2 * OutH /\ OutH < 2 * OutW  BY Target
<1>3. h * OutW \in Nat /\ h * OutW >= OutW /\ w * OutH \in Nat /\ w * OutH >= OutH
  BY <1>1
<1>4. p \in Nat /\ 2 * (OutH * p) <= 2 * (h * OutW) + OutH /\ 2 * (h * OutW) - OutH <= 2 * (OutH * p)
  BY <1>1, <1>3, RoundBounds
<1>5. t \in Nat /\ 2 * (OutW * t) <= 2 * (w * OutH) + OutW /\ 2 * (w * OutH) - OutW <= 2 * (OutW * t)
  BY <1>1, <1>3, RoundBounds
<1> HIDE DEF w, h, p, t
<1>6. p # 0
  <2>1. OutH * 0 = 0  BY <1>1
  <2> QED  BY <2>1, <1>1, <1>2, <1>3, <1>4
<1>7. t # 0
  <2>1. OutW * 0 = 0  BY <1>1
  <2> QED  BY <2>1, <1>1, <1>2, <1>3, <1>5
<1>8. ASSUME p > w PROVE t <= h
  <2> SUFFICES ASSUME t >= h + 1 PROVE FALSE  BY <1>1, <1>5
  <2>1. OutH * (w + 1) <= OutH * p  BY <1>1, <1>4, <1>8
  <2>2. OutH * (w + 1) = w * OutH + OutH  BY <1>1
  <2>3. OutW * (h + 1) <= OutW * t  BY <1>1, <1>5
  <2>4. OutW * (h + 1) = h * OutW + OutW  BY <1>1
  <2> DEFINE ow == OutW
             oh == OutH
             wh == w * OutH
             hw == h * OutW
             a == OutH * p
             b == OutW * t
  <2>5. ow \in Nat \ {0} /\ oh \in Nat \ {0} /\ wh \in Nat /\ hw \in Nat /\ a \in Nat /\ b \in Nat
    BY <1>1, <1>3, <1>4, <1>5
  <2>6. wh + oh <= a /\ 2 * a <= 2 * hw + oh /\ hw + ow <= b /\ 2 * b <= 2 * wh + ow
    BY <2>1, <2>2, <2>3, <2>4, <1>4, <1>5
  <2> HIDE DEF ow, oh, wh, hw, a, b
  <2> QED  BY <2>5, <2>6
<1>9. CASE p > w
  <2>1. CropW = w /\ CropH = t  BY <1>9 DEF CropW, CropH, TooNarrow, w, h, p, t
  <2> QED  BY <2>1, <1>1, <1>5, <1>7, <1>8, <1>9 DEF w, h
<1>10. CASE ~(p > w)
  <2>1. CropW = p /\ CropH = h  BY <1>10 DEF CropW, CropH, TooNarrow, w, h, p
  <2> QED  BY <2>1, <1>1, <1>4, <1>6, <1>10 DEF w, h
<1>11. QED  BY <1>9, <1>10

Position == [num : Int, den : Nat \ {0}]

LEMMA Clipped ==
  ASSUME NEW x \in Int, NEW n \in Nat
  PROVE  Clip(x, 0, Larger(n, 0)) \in 0 .. n
BY DEF Clip, Larger

(* Wherever the camera is, the crop around it is inside the cut.           *)
LEMMA WindowFits ==
  ASSUME Sized, NEW cx \in Position
  PROVE  Left(cx) \in 0 .. Width - CropW /\ Top \in 0 .. Height - CropH
<1>1. CropW \in 1 .. Width /\ CropH \in 1 .. Height /\ Width \in Nat /\ Height \in Nat
  BY CropFits DEF Sized, Width, Height
<1>2. Width - CropW \in Nat /\ Height - CropH \in Nat  BY <1>1
<1>3. (cx.num - CropW * cx.den) \div (2 * cx.den) \in Int
  <2>1. cx.num \in Int /\ cx.den \in Nat \ {0}  BY DEF Position
  <2>2. CropW * cx.den \in Int /\ 2 * cx.den \in Nat \ {0}  BY <1>1, <2>1
  <2> QED  BY <2>1, <2>2
<1>4. (Height - CropH) \div 2 \in Int  BY <1>2
<1>5. QED  BY <1>2, <1>3, <1>4, Clipped DEF Left, Top

(* Such a crop is not empty.                                               *)
LEMMA CropNotEmpty ==
  ASSUME Sized, NEW x \in 0 .. Width - CropW, NEW y \in 0 .. Height - CropH
  PROVE  ~Empty(<<x, y>>)
<1>1. CropW \in 1 .. Width /\ CropH \in 1 .. Height /\ Width \in Nat /\ Height \in Nat
  BY CropFits DEF Sized, Width, Height
<1>2. ASSUME NEW from \in Nat, NEW n \in Nat, NEW extent \in 1 .. n, from + extent <= n
      PROVE  Sliced(from, extent, n) = extent
  BY <1>2 DEF Sliced, Bound, Larger
<1>3. x \in Nat /\ y \in Nat /\ x + CropW <= Width /\ y + CropH <= Height  BY <1>1
<1>4. Sliced(x, CropW, Width) = CropW /\ Sliced(y, CropH, Height) = CropH  BY <1>1, <1>2, <1>3
<1>5. QED  BY <1>1, <1>4 DEF Empty

-----------------------------------------------------------------------------
(* What holds at every step of the passes.                                 *)

OpenAt(s) ==
  CASE s \in {"track", "smooth", "reopen"} -> {"first"}
    [] s = "writer" -> {"second"}
    [] s = "write"  -> {"second", "writer"}
    [] OTHER -> {}
HandlesInv == rf # "unguarded" => handles = OpenAt(rf)

WindowInv == window # <<>> => window[1] \in 0 .. Width - CropW /\ window[2] \in 0 .. Height - CropH

CameraInv ==
  /\ rf \in {"idle", "open", "track"} => path = <<>>
  /\ held \in KnownBy(Len(path))
  /\ CameraInSpan

LEMMA SizeFits == ReframeTypeOK => Sized /\ Width \in Nat \ {0} /\ Height \in Nat \ {0} /\ Middle \in Nat
<1> SUFFICES ASSUME ReframeTypeOK PROVE Sized /\ Width \in Nat \ {0} /\ Height \in Nat \ {0} /\ Middle \in Nat
  OBVIOUS
<1>1. size \in (Nat \ {0}) \X (Nat \ {0})  BY ReframeAssumption DEF ReframeTypeOK
<1>2. Width \in Nat \ {0} /\ Height \in Nat \ {0}  BY <1>1 DEF Width, Height
<1>3. Middle \in Nat  BY <1>2 DEF Middle
<1>4. QED  BY <1>1, <1>2, <1>3 DEF Sized

LEMMA CameraTyped == ReframeTypeOK => Camera \in Position
<1> SUFFICES ASSUME ReframeTypeOK PROVE Camera \in Position
  OBVIOUS
<1>1. path \in Seq(Position) /\ idx \in Nat  BY DEF ReframeTypeOK, Position
<1>2. CASE idx < Len(path)
  <2>1. path[idx + 1] \in Position  BY <1>1, <1>2
  <2> QED  BY <2>1, <1>2 DEF Camera
<1>3. CASE ~(idx < Len(path))  BY <1>3, SizeFits DEF Camera, Position
<1>4. QED  BY <1>2, <1>3

LEMMA SmoothedTyped ==
  ASSUME path \in Seq(Position), NEW c \in Int
  PROVE  Smoothed(c) \in Position
<1>1. CASE path = <<>>  BY <1>1 DEF Smoothed, Position
<1>2. CASE path # <<>>
  <2> DEFINE ema == path[Len(path)]
  <2>1. ema \in Position  BY <1>2
  <2>2. ema.num \in Int /\ ema.den \in Nat \ {0}  BY <2>1 DEF Position
  <2>3. Smoothed(c) = [num |-> 3 * c * ema.den + 22 * ema.num, den |-> 25 * ema.den]
    BY <1>2 DEF Smoothed
  <2> HIDE DEF ema
  <2>4. 3 * c * ema.den \in Int /\ 25 * ema.den \in Nat \ {0}  BY <2>2
  <2> QED  BY <2>2, <2>3, <2>4 DEF Position
<1>3. QED  BY <1>1, <1>2

LEMMA TypeStep == ReframeTypeOK /\ ReframeStep => ReframeTypeOK'
<1> SUFFICES ASSUME ReframeTypeOK, ReframeStep PROVE ReframeTypeOK'
  OBVIOUS
<1> USE DEF ReframeTypeOK, ReframeSteps
<1>1. CASE OpenCut        BY <1>1 DEF OpenCut
<1>2. CASE OpenCutFails   BY <1>2 DEF OpenCutFails, Abandon
<1>3. CASE TrackCenter
  <2>1. PICK reported \in {0, frames} : centers' = [i \in 1 .. Larger(reported, 1) |-> Width]
    BY <1>3 DEF TrackCenter
  <2>2. Larger(reported, 1) \in Nat /\ Width \in Int
    BY ReframeAssumption, SizeFits DEF Larger
  <2>3. centers' \in Seq(Int \cup {NoFace})  BY <2>1, <2>2
  <2> QED  BY <1>3, <2>3 DEF TrackCenter
<1>4. CASE TrackFrame
  <2>1. PICK c \in Faces \cup {NoFace} : centers' = Append(centers, c)
    BY <1>4 DEF TrackFrame
  <2>2. centers' \in Seq(Int \cup {NoFace})  BY <2>1, ReframeAssumption
  <2> QED  BY <1>4, <2>2 DEF TrackFrame
<1>5. CASE TrackEnds      BY <1>5 DEF TrackEnds
<1>6. CASE Crash          BY <1>6 DEF Crash, Abandon
<1>7. CASE Smooth
  <2> DEFINE c == centers[Len(path) + 1]
             known == IF c = NoFace THEN held ELSE c
  <2>1. held' = known /\ path' = Append(path, Smoothed(known)) /\ Len(path) < Len(centers)
    BY <1>7 DEF Smooth
  <2>2. path \in Seq(Position)  BY DEF Position
  <2>3. c \in Int \cup {NoFace}  BY <2>1, <2>2
  <2>4. known \in Int  BY <2>3
  <2>5. Smoothed(known) \in Position  BY <2>2, <2>4, SmoothedTyped
  <2>6. path' \in Seq([num : Int, den : Nat \ {0}])  BY <2>1, <2>2, <2>5 DEF Position
  <2> QED  BY <1>7, <2>1, <2>4, <2>6 DEF Smooth
<1>8. CASE SmoothEnds     BY <1>8 DEF SmoothEnds
<1>9. ASSUME NEW ok \in BOOLEAN, Reopen(ok) PROVE ReframeTypeOK'
  BY <1>9 DEF Reopen
<1>10. CASE OpenWriter    BY <1>10 DEF OpenWriter
<1>11. CASE OpenWriterFails  BY <1>11 DEF OpenWriterFails, Abandon
<1>12. CASE WriteFrame
  <2>1. Left(Camera) \in Nat /\ Top \in Nat
    BY SizeFits, CameraTyped, WindowFits, CropFits
  <2>2. window' \in Nat \X Nat /\ idx' \in Nat /\ shown' \in Nat  BY <1>12, <2>1 DEF WriteFrame
  <2> QED  BY <1>12, <2>2 DEF WriteFrame
<1>13. CASE Unguarded     BY <1>13 DEF Unguarded
<1>14. CASE WriteEnds     BY <1>14 DEF WriteEnds, Abandon
<1>15. QED
  BY <1>1, <1>2, <1>3, <1>4, <1>5, <1>6, <1>7, <1>8, <1>9, <1>10, <1>11, <1>12, <1>13, <1>14
  DEF ReframeStep

LEMMA HandlesStep == HandlesInv /\ ReframeStep => HandlesInv'
<1> SUFFICES ASSUME HandlesInv, ReframeStep PROVE HandlesInv'
  OBVIOUS
<1> USE DEF HandlesInv, OpenAt
<1>1. rf # "unguarded" /\ handles = OpenAt(rf)
  BY DEF ReframeStep, OpenCut, OpenCutFails, TrackCenter, TrackFrame, TrackEnds, Crash, Smooth,
    SmoothEnds, Reopen, OpenWriter, OpenWriterFails, WriteFrame, Unguarded, WriteEnds, ReframeSteps
<1>2. CASE OpenCut \/ TrackCenter \/ TrackFrame \/ TrackEnds \/ Smooth \/ SmoothEnds \/ WriteFrame
  BY <1>1, <1>2 DEF OpenCut, TrackCenter, TrackFrame, TrackEnds, Smooth, SmoothEnds, WriteFrame
<1>3. ASSUME NEW ok \in BOOLEAN, Reopen(ok) PROVE HandlesInv'
  BY <1>1, <1>3 DEF Reopen
<1>4. CASE OpenWriter  BY <1>1, <1>4 DEF OpenWriter
<1>5. CASE OpenCutFails \/ OpenWriterFails \/ WriteEnds
  BY <1>1, <1>5 DEF OpenCutFails, OpenWriterFails, WriteEnds, Abandon
<1>6. CASE Crash
  <2>1. rf' = "crashed" /\ handles' = {}
    BY <1>1, <1>6 DEF Crash, Abandon, ReframeSteps
  <2> QED  BY <2>1
<1>7. CASE Unguarded  BY <1>7 DEF Unguarded
<1>8. QED  BY <1>2, <1>3, <1>4, <1>5, <1>6, <1>7 DEF ReframeStep

(* The size stays, and with it the extent of the crop.                     *)
LEMMA SizeStays == ReframeStep => size' = size
BY DEF ReframeStep, OpenCut, OpenCutFails, TrackCenter, TrackFrame, TrackEnds, Crash, Smooth,
  SmoothEnds, Reopen, OpenWriter, OpenWriterFails, WriteFrame, Unguarded, WriteEnds, Abandon

LEMMA CropStays ==
  ASSUME size' = size
  PROVE  Width' = Width /\ Height' = Height /\ CropW' = CropW /\ CropH' = CropH /\ Middle' = Middle
BY DEF Width, Height, CropW, CropH, TooNarrow, Middle, Round

LEMMA WindowStep == ReframeTypeOK /\ WindowInv /\ ReframeStep => WindowInv'
<1> SUFFICES ASSUME ReframeTypeOK, WindowInv, ReframeStep PROVE WindowInv'
  OBVIOUS
<1>1. Width' = Width /\ Height' = Height /\ CropW' = CropW /\ CropH' = CropH
  BY SizeStays, CropStays
<1>2. CASE WriteFrame
  <2>1. window' = <<Left(Camera), Top>>  BY <1>2 DEF WriteFrame
  <2>2. Left(Camera) \in 0 .. Width - CropW /\ Top \in 0 .. Height - CropH
    BY SizeFits, CameraTyped, WindowFits
  <2> QED  BY <1>1, <2>1, <2>2 DEF WindowInv
<1>3. CASE window' = window  BY <1>1, <1>3 DEF WindowInv
<1>4. WriteFrame \/ window' = window
  BY DEF ReframeStep, OpenCut, OpenCutFails, TrackCenter, TrackFrame, TrackEnds, Crash, Smooth,
    SmoothEnds, Reopen, OpenWriter, OpenWriterFails, Unguarded, WriteEnds, Abandon
<1>5. QED  BY <1>2, <1>3, <1>4

(* A frame that is read is written, because its crop is not empty.         *)
LEMMA FramesStep == ReframeTypeOK /\ FramesKept /\ ReframeStep => FramesKept'
<1> SUFFICES ASSUME ReframeTypeOK, FramesKept, ReframeStep PROVE FramesKept'
  OBVIOUS
<1>1. CASE WriteFrame
  <2>1. window' = <<Left(Camera), Top>> /\ idx' = idx + 1 /\ rf = "write" /\ rf' = rf
    BY <1>1 DEF WriteFrame
  <2>2. ~Empty(window')
    <3>1. Sized /\ Camera \in Position  BY SizeFits, CameraTyped
    <3>2. Left(Camera) \in 0 .. Width - CropW /\ Top \in 0 .. Height - CropH  BY <3>1, WindowFits
    <3> QED  BY <3>1, <3>2, <2>1, CropNotEmpty
  <2>3. shown' = shown + 1  BY <1>1, <2>2 DEF WriteFrame
  <2> QED  BY <2>1, <2>3 DEF FramesKept
<1>2. CASE WriteEnds  BY <1>2 DEF WriteEnds, Abandon, FramesKept
<1>3. CASE UNCHANGED <<shown, idx, frames>> /\ rf' # "mux"  BY <1>3 DEF FramesKept
<1>4. QED
  BY <1>1, <1>2, <1>3
  DEF ReframeStep, OpenCut, OpenCutFails, TrackCenter, TrackFrame, TrackEnds, Crash, Smooth,
    SmoothEnds, Reopen, OpenWriter, OpenWriterFails, Unguarded, Abandon

(* An average of two bounded values, by the weights of _smooth.            *)
LEMMA Mixed ==
  ASSUME NEW a \in Int, NEW b \in Int, NEW c \in Int, NEW num \in Int, NEW den \in Nat \ {0},
         a * den <= num, num <= b * den
  PROVE  /\ \E low \in {a, c} : low * (25 * den) <= 3 * c * den + 22 * num
         /\ \E high \in {b, c} : 3 * c * den + 22 * num <= high * (25 * den)
<1>1. ASSUME NEW x \in Int, NEW y \in Int, x <= y PROVE x * den <= y * den
  BY <1>1
<1>2. a * (25 * den) = 25 * (a * den) /\ b * (25 * den) = 25 * (b * den)
       /\ c * (25 * den) = 25 * (c * den) /\ 3 * c * den = 3 * (c * den)
  OBVIOUS
<1> DEFINE ad == a * den
           bd == b * den
           cd == c * den
<1>3. ad \in Int /\ bd \in Int /\ cd \in Int  OBVIOUS
<1>4. (a <= c => ad <= cd) /\ (c <= a => cd <= ad) /\ (b <= c => bd <= cd) /\ (c <= b => cd <= bd)
  BY <1>1
<1>5. a * (25 * den) = 25 * ad /\ b * (25 * den) = 25 * bd /\ c * (25 * den) = 25 * cd
       /\ 3 * c * den = 3 * cd /\ ad <= num /\ num <= bd
  BY <1>2
<1> HIDE DEF ad, bd, cd
<1>6. \/ a * (25 * den) <= 3 * c * den + 22 * num
      \/ c * (25 * den) <= 3 * c * den + 22 * num
  BY <1>3, <1>4, <1>5
<1>7. \/ 3 * c * den + 22 * num <= b * (25 * den)
      \/ 3 * c * den + 22 * num <= c * (25 * den)
  BY <1>3, <1>4, <1>5
<1>8. QED  BY <1>6, <1>7

LEMMA KnownGrows ==
  ASSUME NEW m \in Nat, NEW n \in Nat, m <= n
  PROVE  KnownBy(m) \subseteq KnownBy(n)
BY DEF KnownBy

LEMMA KnownStays ==
  ASSUME size' = size, centers' = centers, NEW n \in Nat
  PROVE  KnownBy(n)' = KnownBy(n)
BY CropStays DEF KnownBy

LEMMA KnownTyped ==
  ASSUME ReframeTypeOK, NEW n \in 0 .. Len(centers)
  PROVE  KnownBy(n) \subseteq Int
<1>1. \A j \in 1 .. n : centers[j] \in Int \cup {NoFace}  BY DEF ReframeTypeOK
<1>2. QED  BY <1>1, SizeFits DEF KnownBy

(* A centre of the camera is in the span of what was known by then.        *)
InSpan(p, i) == \E a, b \in KnownBy(i) : a * p.den <= p.num /\ p.num <= b * p.den

LEMMA CameraStep == ReframeTypeOK /\ CameraInv /\ ReframeStep => CameraInv'
<1> SUFFICES ASSUME ReframeTypeOK, CameraInv, ReframeStep PROVE CameraInv'
  OBVIOUS
<1>1. size' = size  BY SizeStays
<1>2. path \in Seq(Position) /\ centers \in Seq(Int \cup {NoFace}) /\ Len(path) \in Nat
  BY DEF ReframeTypeOK, Position
<1>3. CASE Smooth
  <2> DEFINE n == Len(path)
             c == centers[n + 1]
             known == IF c = NoFace THEN held ELSE c
  <2>1. /\ held' = known /\ path' = Append(path, Smoothed(known)) /\ n < Len(centers)
        /\ centers' = centers /\ rf = "smooth" /\ rf' = rf
    BY <1>3 DEF Smooth
  <2>2. \A i \in Nat : KnownBy(i)' = KnownBy(i)  BY <1>1, <2>1, KnownStays
  <2>3. KnownBy(n) \subseteq KnownBy(n + 1) /\ KnownBy(n + 1) \subseteq Int
    BY <1>2, <2>1, KnownGrows, KnownTyped
  <2>4. known \in KnownBy(n + 1)
    <3>1. CASE c = NoFace   BY <3>1, <2>3 DEF CameraInv
    <3>2. CASE c # NoFace   BY <3>2, <1>2 DEF KnownBy
    <3> QED  BY <3>1, <3>2
  <2>5. InSpan(Smoothed(known), n + 1)
    <3>1. CASE path = <<>>
      <4>1. Smoothed(known).num = known /\ Smoothed(known).den = 1  BY <3>1 DEF Smoothed
      <4>2. known \in Int  BY <2>3, <2>4
      <4> HIDE DEF known, n
      <4> QED  BY <4>1, <4>2, <2>4 DEF InSpan
    <3>2. CASE path # <<>>
      <4> DEFINE ema == path[n]
      <4>1. n \in DOMAIN path /\ ema \in Position  BY <3>2, <1>2
      <4>2. PICK a, b \in KnownBy(n) : a * ema.den <= ema.num /\ ema.num <= b * ema.den
        BY <4>1 DEF CameraInv, CameraInSpan
      <4>3. /\ Smoothed(known).num = 3 * known * ema.den + 22 * ema.num
            /\ Smoothed(known).den = 25 * ema.den
        BY <3>2 DEF Smoothed
      <4>4. ema.num \in Int /\ ema.den \in Nat \ {0}  BY <4>1 DEF Position
      <4>5. a \in Int /\ b \in Int /\ known \in Int  BY <4>2, <2>3, <2>4
      <4> HIDE DEF known, n, ema
      <4>6. /\ \E low \in {a, known} : low * Smoothed(known).den <= Smoothed(known).num
            /\ \E high \in {b, known} : Smoothed(known).num <= high * Smoothed(known).den
        BY <4>2, <4>3, <4>4, <4>5, Mixed
      <4>7. {a, b, known} \subseteq KnownBy(n + 1)  BY <4>2, <2>3, <2>4
      <4> QED  BY <4>6, <4>7 DEF InSpan
    <3> QED  BY <3>1, <3>2
  <2>6. Smoothed(known) \in Position
    BY <1>2, <2>3, <2>4, SmoothedTyped
  <2>7. /\ Len(path') = n + 1 /\ DOMAIN path' = 1 .. n + 1 /\ path'[n + 1] = Smoothed(known)
        /\ \A i \in 1 .. n : path'[i] = path[i]
    BY <1>2, <2>1, <2>6
  <2> HIDE DEF known, c
  <2>8. \A i \in DOMAIN path' : InSpan(path'[i], i)
    <3> SUFFICES ASSUME NEW i \in 1 .. n + 1 PROVE InSpan(path'[i], i)  BY <2>7
    <3>1. CASE i = n + 1  BY <3>1, <2>5, <2>7
    <3>2. CASE i \in 1 .. n
      <4>1. i \in DOMAIN path  BY <3>2, <1>2
      <4> QED  BY <4>1, <3>2, <2>7 DEF CameraInv, CameraInSpan, InSpan
    <3> QED  BY <3>1, <3>2, <1>2
  <2>9. CameraInSpan'
    <3> SUFFICES ASSUME NEW i \in DOMAIN path'
        PROVE \E a, b \in KnownBy(i)' : a * path'[i].den <= path'[i].num /\ path'[i].num <= b * path'[i].den
      BY DEF CameraInSpan
    <3>1. KnownBy(i)' = KnownBy(i)  BY <2>2, <2>7, <1>2
    <3> QED  BY <3>1, <2>8 DEF InSpan
  <2>10. (held \in KnownBy(Len(path)))'
    BY <1>1, <2>1, <2>4, <2>7, CropStays DEF KnownBy
  <2> QED  BY <2>1, <2>9, <2>10 DEF CameraInv
<1>4. CASE rf = "track" /\ path = <<>> /\ UNCHANGED <<held, path>>
  <2>1. KnownBy(0)' = KnownBy(0)  BY <1>1, CropStays DEF KnownBy
  <2> QED  BY <1>4, <2>1 DEF CameraInv, CameraInSpan
<1>5. CASE UNCHANGED <<held, path, centers>> /\ (rf' \in {"idle", "open", "track"} => path = <<>>)
  <2>1. \A i \in Nat : KnownBy(i)' = KnownBy(i)  BY <1>1, <1>5, KnownStays
  <2>2. DOMAIN path = 1 .. Len(path)  BY <1>2
  <2>3. CameraInSpan'
    <3> SUFFICES ASSUME NEW i \in DOMAIN path
        PROVE \E a, b \in KnownBy(i)' : a * path[i].den <= path[i].num /\ path[i].num <= b * path[i].den
      BY <1>5 DEF CameraInSpan
    <3>1. KnownBy(i)' = KnownBy(i)  BY <2>1, <2>2, <1>2
    <3> QED  BY <3>1 DEF CameraInv, CameraInSpan
  <2>4. (held \in KnownBy(Len(path)))'
    BY <1>1, <1>5, CropStays DEF CameraInv, KnownBy
  <2> QED  BY <1>5, <2>3, <2>4 DEF CameraInv
<1>6. Smooth \/ (rf = "track" /\ path = <<>> /\ UNCHANGED <<held, path>>)
      \/ (UNCHANGED <<held, path, centers>> /\ (rf' \in {"idle", "open", "track"} => path = <<>>))
  BY DEF CameraInv, ReframeStep, OpenCut, OpenCutFails, TrackCenter, TrackFrame, TrackEnds,
    Crash, SmoothEnds, Reopen, OpenWriter, OpenWriterFails, WriteFrame, Unguarded,
    WriteEnds, Abandon
<1>7. QED  BY <1>3, <1>4, <1>5, <1>6

-----------------------------------------------------------------------------
(* The commands of Encoder: where the encoder's arguments are found in     *)
(* each, and what the fallback leaves.                                     *)

Strings == Seq(Tokens)

LEMMA ArgsTyped ==
  ASSUME NEW e \in Encoders
  PROVE  /\ Args(e) \in Strings
         /\ Len(Args(e)) \in {2, 6} /\ Args(e)[1] = "-c:v" /\ Args(e)[2] = e
         /\ e # "libx264" => Len(Args(e)) = Span(e)
<1>1. e \in Tokens  BY DEF Tokens, Encoders, Hardware
<1>2. CASE e = "h264_nvenc"
  <2>1. Args(e) = <<"-c:v", "h264_nvenc", "-preset", "p4", "-cq", "crf">>  BY <1>2 DEF Args
  <2>2. <<"-c:v", "h264_nvenc", "-preset", "p4", "-cq", "crf">> \in Seq(Tokens)
    BY DEF Tokens, Encoders, Hardware
  <2>3. Span(e) = 6  BY <1>2 DEF Span
  <2>4. Len(Args(e)) = 6 /\ Args(e)[1] = "-c:v" /\ Args(e)[2] = e  BY <1>2, <2>1
  <2>5. Args(e) \in Strings  BY <2>1, <2>2 DEF Strings
  <2> QED  BY <2>3, <2>4, <2>5
<1>3. CASE e = "libx264"
  <2>1. Args(e) = <<"-c:v", "libx264", "-preset", "preset", "-crf", "crf">>  BY <1>3 DEF Args
  <2>2. <<"-c:v", "libx264", "-preset", "preset", "-crf", "crf">> \in Seq(Tokens)
    BY DEF Tokens, Encoders, Hardware
  <2>3. Len(Args(e)) = 6 /\ Args(e)[1] = "-c:v" /\ Args(e)[2] = e  BY <1>3, <2>1
  <2>4. Args(e) \in Strings  BY <2>1, <2>2 DEF Strings
  <2> QED  BY <1>3, <2>3, <2>4
<1>4. CASE e \notin {"h264_nvenc", "libx264"}
  <2>1. Args(e) = <<"-c:v", e>>  BY <1>4 DEF Args
  <2>2. <<"-c:v", e>> \in Seq(Tokens)  BY <1>1 DEF Tokens
  <2>3. Span(e) = 2  BY <1>4 DEF Span
  <2> QED  BY <2>1, <2>2, <2>3 DEF Strings
<1>5. QED  BY <1>2, <1>3, <1>4

(* A prefix of a command in which no encoder is named.                     *)
Plain(x) == x \in Strings /\ \A i \in 1 .. Len(x) : x[i] # "-c:v"

LEMMA PlainJoined ==
  ASSUME NEW x, NEW y, Plain(x), Plain(y)
  PROVE  Plain(x \o y)
<1>1. x \in Seq(Tokens) /\ y \in Seq(Tokens)  BY DEF Plain, Strings
<1>2. x \o y \in Seq(Tokens) /\ Len(x \o y) = Len(x) + Len(y)  BY <1>1
<1>3. ASSUME NEW i \in 1 .. Len(x \o y) PROVE (x \o y)[i] # "-c:v"
  <2>1. CASE i <= Len(x)
    <3>1. i \in 1 .. Len(x) /\ (x \o y)[i] = x[i]  BY <1>1, <1>2, <2>1
    <3> QED  BY <3>1 DEF Plain
  <2>2. CASE ~(i <= Len(x))
    <3>1. i - Len(x) \in 1 .. Len(y) /\ (x \o y)[i] = y[i - Len(x)]  BY <1>1, <1>2, <2>2
    <3> QED  BY <3>1 DEF Plain
  <2> QED  BY <2>1, <2>2
<1>4. QED  BY <1>2, <1>3 DEF Plain, Strings

LEMMA InputsTyped ==
  ASSUME NEW s \in Stages
  PROVE  Inputs[s] \in Strings /\ \A i \in 1 .. Len(Inputs[s]) : Inputs[s][i] # "-c:v"
<1>1. Plain(Quiet)  BY DEF Plain, Quiet, Strings, Tokens
<1>2. ASSUME NEW t, Plain(t), Inputs[s] = Quiet \o t PROVE Plain(Inputs[s])
  BY <1>1, <1>2, PlainJoined
<1>3. CASE s = "cut"
  <2>1. Inputs[s] = Quiet \o <<"-ss", "start", "-to", "end", "-i", "src">>  BY <1>3 DEF Inputs
  <2>2. Plain(<<"-ss", "start", "-to", "end", "-i", "src">>)  BY DEF Plain, Strings, Tokens
  <2> QED  BY <1>2, <2>1, <2>2 DEF Plain
<1>4. CASE s = "mux"
  <2>1. Inputs[s] = Quiet \o <<"-i", "silent", "-i", "cut", "-map", "0:v:0", "-map", "1:a:0?">>
    BY <1>4 DEF Inputs
  <2>2. Plain(<<"-i", "silent", "-i", "cut", "-map", "0:v:0", "-map", "1:a:0?">>)
    BY DEF Plain, Strings, Tokens
  <2> QED  BY <1>2, <2>1, <2>2 DEF Plain
<1>5. CASE s = "burn"
  <2>1. Inputs[s] = Quiet \o <<"-i", "framed", "-vf", "subtitles">>  BY <1>5 DEF Inputs
  <2>2. Plain(<<"-i", "framed", "-vf", "subtitles">>)  BY DEF Plain, Strings, Tokens
  <2> QED  BY <1>2, <2>1, <2>2 DEF Plain
<1>6. QED  BY <1>3, <1>4, <1>5 DEF Stages

LEMMA OutputsTyped ==
  ASSUME NEW s \in Stages
  PROVE  Outputs[s] \in Strings
<1>1. CASE s = "cut"
  <2>1. Outputs[s] = <<"-c:a", "aac", "-b:a", "160k", "-avoid_negative_ts", "make_zero", "cut">>
    BY <1>1 DEF Outputs
  <2> QED  BY <2>1 DEF Strings, Tokens
<1>2. CASE s = "mux"
  <2>1. Outputs[s] = <<"-c:a", "aac", "-b:a", "160k", "-shortest", "framed">>
    BY <1>2 DEF Outputs
  <2> QED  BY <2>1 DEF Strings, Tokens
<1>3. CASE s = "burn"
  <2>1. Outputs[s] = <<"-c:a", "copy", "final">>  BY <1>3 DEF Outputs
  <2> QED  BY <2>1 DEF Strings, Tokens
<1>4. QED  BY <1>1, <1>2, <1>3 DEF Stages

LEMMA CommandTyped ==
  ASSUME NEW s \in Stages, NEW e \in Encoders
  PROVE  Command(s, e) \in Strings
<1>1. Inputs[s] \in Strings /\ Args(e) \in Strings /\ Outputs[s] \in Strings
  BY ArgsTyped, InputsTyped, OutputsTyped
<1>2. QED  BY <1>1 DEF Command, Strings

(* The encoder is found behind the inputs.                                 *)
LEMMA Found ==
  ASSUME NEW s \in Stages, NEW e \in Encoders
  PROVE  Index(Command(s, e)) = Len(Inputs[s]) + 1 /\ EncoderOf(Command(s, e)) = e
<1> DEFINE c == Command(s, e)
           n == Len(Inputs[s])
<1>1. Inputs[s] \in Strings /\ Args(e) \in Strings /\ Outputs[s] \in Strings
  BY ArgsTyped, InputsTyped, OutputsTyped
<1>2. /\ c \in Strings /\ Len(c) = n + Len(Args(e)) + Len(Outputs[s])
      /\ \A i \in 1 .. n : c[i] = Inputs[s][i]
      /\ \A i \in 1 .. Len(Args(e)) : c[n + i] = Args(e)[i]
  <2> DEFINE x == Inputs[s]
             y == Args(e)
             z == Outputs[s]
  <2>1. x \in Strings /\ y \in Strings /\ z \in Strings  BY <1>1
  <2>2. c = (x \o y) \o z /\ n = Len(x)  BY DEF Command
  <2> HIDE DEF c, n, x, y, z
  <2>3. /\ (x \o y) \o z \in Strings
        /\ Len((x \o y) \o z) = Len(x) + Len(y) + Len(z)
        /\ \A i \in 1 .. Len(x) : ((x \o y) \o z)[i] = x[i]
        /\ \A i \in 1 .. Len(y) : ((x \o y) \o z)[Len(x) + i] = y[i]
    BY <2>1 DEF Strings
  <2> QED  BY <2>2, <2>3 DEF x, y, z
<1>3. \A i \in 1 .. n : Inputs[s][i] # "-c:v"  BY InputsTyped
<1> HIDE DEF c
<1>4. \A i \in 1 .. n : c[i] # "-c:v"  BY <1>2, <1>3
<1>5. n \in Nat /\ Len(Outputs[s]) \in Nat /\ DOMAIN c = 1 .. Len(c) /\ Len(c) \in Nat
  <2>1. n \in Nat /\ Len(Outputs[s]) \in Nat  BY <1>1 DEF Strings
  <2>2. c \in Seq(Tokens)  BY <1>2 DEF Strings
  <2> QED  BY <2>1, <2>2
<1>6. Len(Args(e)) \in {2, 6} /\ Args(e)[1] = "-c:v" /\ Args(e)[2] = e  BY ArgsTyped
<1>7. c[n + 1] = "-c:v" /\ c[n + 2] = e /\ n + 1 \in DOMAIN c
  <2> HIDE DEF n
  <2>1. 1 \in 1 .. Len(Args(e)) /\ 2 \in 1 .. Len(Args(e))  BY <1>6
  <2>2. c[n + 1] = "-c:v" /\ c[n + 2] = e  BY <1>2, <1>6, <2>1
  <2> DEFINE m == Len(Args(e))
             k == Len(Outputs[s])
  <2>3. Len(c) = n + m + k /\ m \in {2, 6} /\ n \in Nat /\ k \in Nat
    BY <1>2, <1>5, <1>6
  <2> HIDE DEF m, k
  <2>4. Len(c) >= n + 2 /\ n + 1 >= 1  BY <2>3
  <2> QED  BY <2>2, <2>4, <1>5
<1> HIDE DEF n
<1>8. Index(c) = n + 1
  <2> DEFINE First(i) == i \in DOMAIN c /\ c[i] = "-c:v" /\ \A j \in 1 .. i - 1 : c[j] # "-c:v"
  <2>1. First(n + 1)  BY <1>4, <1>5, <1>7
  <2>2. ASSUME NEW i, First(i) PROVE i = n + 1
    <3>1. i \in Nat  BY <2>2, <1>5
    <3>2. ~(i \in 1 .. n)  BY <2>2, <1>4
    <3>3. ~(n + 1 \in 1 .. i - 1)  BY <2>2, <1>7
    <3>4. i >= 1  BY <2>2, <1>5
    <3> QED  BY <3>1, <3>2, <3>3, <3>4, <1>5
  <2>3. Index(c) = CHOOSE i : First(i)  BY DEF Index
  <2> HIDE DEF First
  <2> QED  BY <2>1, <2>2, <2>3
<1>9. c[(n + 1) + 1] = e  BY <1>5, <1>7
<1>10. QED  BY <1>8, <1>9 DEF EncoderOf, c, n

(* The fallback is the command of libx264, from every other encoder.       *)
LEMMA Spliced ==
  ASSUME NEW s \in Stages, NEW e \in Hardware
  PROVE  WithSoftware(Command(s, e)) = Command(s, "libx264")
<1> DEFINE c == Command(s, e)
           n == Len(Inputs[s])
<1>1. e \in Encoders /\ e # "libx264"  BY DEF Encoders, Hardware
<1>2. /\ Inputs[s] \in Strings /\ Args(e) \in Strings /\ Outputs[s] \in Strings
      /\ Len(Args(e)) = Span(e)
  BY <1>1, ArgsTyped, InputsTyped, OutputsTyped
<1>3. Index(c) = n + 1 /\ EncoderOf(c) = e  BY <1>1, Found
<1>4. SubSeq(c, 1, n) = Inputs[s] /\ SubSeq(c, n + Span(e) + 1, Len(c)) = Outputs[s]
  <2> DEFINE x == Inputs[s]
             y == Args(e)
             z == Outputs[s]
  <2>1. x \in Strings /\ y \in Strings /\ z \in Strings /\ Len(y) = Span(e)  BY <1>2
  <2>2. c = (x \o y) \o z /\ n = Len(x)  BY DEF Command
  <2> HIDE DEF c, n, x, y, z
  <2>3. /\ SubSeq((x \o y) \o z, 1, Len(x)) = x
        /\ SubSeq((x \o y) \o z, Len(x) + Len(y) + 1, Len((x \o y) \o z)) = z
    BY <2>1 DEF Strings
  <2> QED  BY <2>1, <2>2, <2>3, Zenon DEF x, y, z
<1>5. n \in Nat /\ Span(e) \in Nat  BY <1>2 DEF Strings, Span
<1> HIDE DEF c, n
<1>6. (n + 1) - 1 = n /\ (n + 1) + Span(e) = n + Span(e) + 1  BY <1>5
<1>7. WithSoftware(c) = Inputs[s] \o Args("libx264") \o Outputs[s]
  BY <1>3, <1>4, <1>6 DEF WithSoftware
<1>8. QED  BY <1>7 DEF Command, c

-----------------------------------------------------------------------------
(* The types, with what is at rest while another part runs, and a cause    *)
(* for each exception.                                                     *)

AtRest ==
  /\ step \notin Stages => ffmpeg = "idle"
  /\ step # "reframe" => rf = "idle"
  /\ step # "metadata" => claude = "idle"
  /\ step = "raised" => err # "none"

LEMMA TypeInit == Init => TypeOK /\ AtRest
<1> SUFFICES ASSUME Init PROVE TypeOK /\ AtRest
  OBVIOUS
<1>1. EncoderTypeOK
  BY EncoderAssumption DEF Init, EncoderInit, EncoderTypeOK, Stages
<1>2. ReframeTypeOK
  <2>1. size \in Sizes /\ size \in (Nat \ {0}) \X (Nat \ {0})
    BY ReframeAssumption DEF Init, ReframeInit
  <2>2. Middle \in Int  BY <2>1 DEF Middle, Width
  <2> QED  BY <2>1, <2>2 DEF Init, ReframeInit, ReframeTypeOK
<1>3. ClaudeTypeOK  BY DEF Init, ClaudeInit, ClaudeTypeOK, Attempts
<1>4. QED
  BY <1>1, <1>2, <1>3, TaskAssumption
  DEF Init, EncoderInit, ReframeInit, ClaudeInit, TypeOK, AtRest, Stages

LEMMA EncoderEnter ==
  ASSUME EncoderTypeOK, NEW s \in Stages, Encode(s), UNCHANGED <<hwaccel, smi>>
  PROVE  EncoderTypeOK'
BY DEF EncoderTypeOK, Encode

LEMMA EncoderLeave ==
  ASSUME EncoderTypeOK, LeaveEncode, UNCHANGED hwaccel, smi' \in {smi, "unknown"}
  PROVE  EncoderTypeOK'
BY DEF EncoderTypeOK, LeaveEncode

(* A command that is run is one that _video_encoder_args was put into.     *)
CmdInv ==
  /\ ffmpeg = "run" => \E e \in Encoders : cmd = Command(stage, e)
  /\ FallbackIsSoftware

LEMMA EncoderStep ==
  ASSUME EncoderTypeOK, CmdInv, HardwareNeverFailsClip, EncodeStep
  PROVE  EncoderTypeOK' /\ CmdInv' /\ HardwareNeverFailsClip'
<1> USE DEF EncoderTypeOK
<1>1. CASE Pick
  <2>1. PICK answer : cmd' = Command(stage, Picked(answer))  BY <1>1 DEF Pick
  <2>2. Picked(answer) \in Encoders  BY DEF Picked, Encoders, Hardware
  <2>3. cmd' \in Seq(Tokens)  BY <2>1, <2>2, CommandTyped DEF Strings
  <2> QED
    BY <1>1, <2>1, <2>2, <2>3 DEF Pick, CmdInv, FallbackIsSoftware, HardwareNeverFailsClip
<1>2. CASE FallbackFails
  <2>1. EncoderOf(cmd) = "libx264" /\ "libx264" \in Encoders
    BY <1>2, Found DEF FallbackFails, CmdInv, FallbackIsSoftware, Encoders
  <2>2. ran' = Append(ran, "libx264") /\ ffmpeg' = "raised"  BY <1>2, <2>1 DEF FallbackFails
  <2>3. ran' \in Seq(Encoders) /\ ran'[Len(ran')] = "libx264"  BY <2>1, <2>2
  <2> QED
    BY <1>2, <2>2, <2>3 DEF FallbackFails, CmdInv, FallbackIsSoftware, HardwareNeverFailsClip
<1>3. ASSUME NEW why \in {"exit", "timeout", "os"}, FallBack(why)
      PROVE  EncoderTypeOK' /\ CmdInv' /\ HardwareNeverFailsClip'
  <2>1. PICK e \in Encoders : cmd = Command(stage, e)  BY <1>3 DEF FallBack, CmdInv
  <2>2. EncoderOf(cmd) = e  BY <2>1, Found
  <2>3. ran' = Append(ran, e) /\ ran' \in Seq(Encoders) /\ ran'[Len(ran')] = e
    BY <1>3, <2>2 DEF FallBack
  <2>4. CASE e = "libx264"
    BY <1>3, <2>2, <2>3, <2>4 DEF FallBack, CmdInv, FallbackIsSoftware, HardwareNeverFailsClip
  <2>5. CASE e # "libx264"
    <3>1. e \in Hardware  BY <2>5 DEF Encoders
    <3>2. cmd' = Command(stage, "libx264") /\ ffmpeg' = "fallback" /\ stage' = stage
      BY <1>3, <2>1, <2>2, <2>5, <3>1, Spliced DEF FallBack
    <3>3. cmd' \in Seq(Tokens)  BY <3>2, CommandTyped DEF Encoders, Strings
    <3> QED
      BY <1>3, <2>3, <3>2, <3>3 DEF FallBack, CmdInv, FallbackIsSoftware, HardwareNeverFailsClip
  <2> QED  BY <2>4, <2>5
<1>4. QED  BY <1>1, <1>2, <1>3 DEF EncodeStep

LEMMA EncoderSame ==
  ASSUME UNCHANGED encoderVars, EncoderTypeOK, CmdInv, HardwareNeverFailsClip
  PROVE  EncoderTypeOK' /\ CmdInv' /\ HardwareNeverFailsClip'
BY DEF encoderVars, EncoderTypeOK, CmdInv, FallbackIsSoftware, HardwareNeverFailsClip

LEMMA EncoderQuiet ==
  ASSUME ffmpeg' \in {"idle", "pick"}
  PROVE  CmdInv' /\ HardwareNeverFailsClip'
BY DEF CmdInv, FallbackIsSoftware, HardwareNeverFailsClip

-----------------------------------------------------------------------------
(* Entering and leaving reframe.                                           *)

ReframeInv == HandlesInv /\ WindowInv /\ FramesKept /\ CameraInv

LEMMA ReframePasses ==
  ASSUME ReframeTypeOK, ReframeInv, ReframeStep
  PROVE  ReframeTypeOK' /\ ReframeInv'
BY TypeStep, HandlesStep, WindowStep, FramesStep, CameraStep DEF ReframeInv

LEMMA ReframeSame ==
  ASSUME UNCHANGED reframeVars, ReframeTypeOK, ReframeInv
  PROVE  ReframeTypeOK' /\ ReframeInv'
<1>1. UNCHANGED <<size, frames, backend, rf, handles, centers, held, path, idx, shown, window>>
  BY DEF reframeVars
<1>2. ReframeTypeOK'  BY <1>1 DEF ReframeTypeOK
<1>3. HandlesInv' /\ FramesKept'  BY <1>1 DEF ReframeInv, HandlesInv, OpenAt, FramesKept
<1>4. WindowInv'
  <2>1. Width' = Width /\ Height' = Height /\ CropW' = CropW /\ CropH' = CropH  BY <1>1, CropStays
  <2> QED  BY <1>1, <2>1 DEF ReframeInv, WindowInv
<1>5. CameraInv'
  BY <1>1 DEF ReframeInv, CameraInv, CameraInSpan, KnownBy, Middle, Width
<1>6. QED  BY <1>2, <1>3, <1>4, <1>5 DEF ReframeInv

LEMMA ReframeEntered ==
  ASSUME ReframeTypeOK, ReframeInv, rf = "idle", EnterReframe
  PROVE  ReframeTypeOK' /\ ReframeInv'
<1>1. UNCHANGED <<size, frames, backend, handles, centers, held, path, idx, shown, window>> /\ rf' = "open"
  BY DEF EnterReframe
<1>2. ReframeTypeOK'  BY <1>1 DEF ReframeTypeOK, ReframeSteps
<1>3. HandlesInv' /\ FramesKept'  BY <1>1 DEF ReframeInv, HandlesInv, OpenAt, FramesKept
<1>4. WindowInv'
  <2>1. Width' = Width /\ Height' = Height /\ CropW' = CropW /\ CropH' = CropH  BY <1>1, CropStays
  <2> QED  BY <1>1, <2>1 DEF ReframeInv, WindowInv
<1>5. CameraInv'
  BY <1>1 DEF ReframeInv, CameraInv, CameraInSpan, KnownBy, Middle, Width
<1>6. QED  BY <1>2, <1>3, <1>4, <1>5 DEF ReframeInv

LEMMA ReframeLeft ==
  ASSUME ReframeTypeOK, LeaveReframe, handles' = {}
  PROVE  ReframeTypeOK' /\ ReframeInv'
<1>1. /\ UNCHANGED <<size, frames, backend>> /\ rf' = "idle"
      /\ centers' = <<>> /\ held' = Middle /\ path' = <<>>
      /\ idx' = 0 /\ shown' = 0 /\ window' = <<>>
  BY DEF LeaveReframe
<1>2. Middle \in Nat /\ Middle' = Middle  BY <1>1, SizeFits, CropStays
<1>3. ReframeTypeOK'  BY <1>1, <1>2 DEF ReframeTypeOK
<1>4. HandlesInv' /\ FramesKept' /\ WindowInv'
  BY <1>1 DEF HandlesInv, OpenAt, FramesKept, WindowInv
<1>5. CameraInv'  BY <1>1, <1>2 DEF CameraInv, CameraInSpan, KnownBy
<1>6. QED  BY <1>3, <1>4, <1>5 DEF ReframeInv

LEMMA ReframeInitially == Init => ReframeInv
<1> SUFFICES ASSUME Init PROVE ReframeInv
  OBVIOUS
<1>1. /\ rf = "idle" /\ handles = {} /\ window = <<>> /\ path = <<>> /\ held = Middle
      /\ idx = 0 /\ shown = 0
  BY DEF Init, ReframeInit
<1>2. QED
  BY <1>1
  DEF ReframeInv, HandlesInv, OpenAt, WindowInv, FramesKept, CameraInv, CameraInSpan, KnownBy

-----------------------------------------------------------------------------
(* The task.                                                               *)

(* A wait comes before another attempt, an exception has a cause.          *)
Waits ==
  /\ claude = "backoff" => attempt < Attempts
  /\ claude = "raised" => last \in Causes

Inv == TypeOK /\ AtRest /\ Waits /\ CmdInv /\ HardwareNeverFailsClip /\ ReframeInv

LEMMA ClaudeStep == ClaudeTypeOK /\ Waits /\ ParseStep => ClaudeTypeOK' /\ Waits'
<1> SUFFICES ASSUME ClaudeTypeOK, Waits, ParseStep PROVE ClaudeTypeOK' /\ Waits'
  OBVIOUS
<1> USE DEF Waits, ClaudeTypeOK, Attempts, Answers, Replies, Outcomes, Causes
<1>1. CASE Parse        BY <1>1 DEF Parse
<1>2. CASE NoKey        BY <1>2 DEF NoKey
<1>3. CASE Backoff      BY <1>3 DEF Backoff, Answered
<1>4. CASE NextAttempt  BY <1>4 DEF NextAttempt
<1>5. CASE CallFails    BY <1>5 DEF CallFails, Answered, Count
<1>6. CASE CallBreaks   BY <1>6 DEF CallBreaks, Answered
<1>7. ASSUME NEW a \in Replies, Reply(a) PROVE ClaudeTypeOK' /\ Waits'
  BY <1>7 DEF Reply, Answered, Count
<1>8. QED  BY <1>1, <1>2, <1>3, <1>4, <1>5, <1>6, <1>7 DEF ParseStep

LEMMA ClaudeSame == ClaudeTypeOK /\ Waits /\ UNCHANGED claudeVars => ClaudeTypeOK' /\ Waits'
BY DEF Waits, ClaudeTypeOK, claudeVars

TaskTypeOK ==
  /\ step \in Working \cup {"queued", "raised"} \cup Ended
  /\ err \in Causes \cup {"none"}
  /\ retries \in 0 .. TaskRetries
  /\ lost \in 0 .. MaxLost

LEMMA InvInit == Init => Inv
BY TypeInit, ReframeInitially
DEF Init, EncoderInit, ClaudeInit, Inv, Waits, CmdInv, FallbackIsSoftware, HardwareNeverFailsClip

LEMMA InvStep == Inv /\ [Next]_vars => Inv'
<1> SUFFICES ASSUME Inv, [Next]_vars PROVE Inv'
  OBVIOUS
<1> USE TaskAssumption DEF Inv, Working, Ended, Stages
<1>c. {"ffmpeg", "render", "other"} \subseteq Causes /\ "none" \notin Causes
  BY DEF Causes, Answers, Replies
<1>a. TypeOK <=> EncoderTypeOK /\ ReframeTypeOK /\ ClaudeTypeOK /\ TaskTypeOK
  BY DEF TypeOK, TaskTypeOK
<1>b. TypeOK' <=> EncoderTypeOK' /\ ReframeTypeOK' /\ ClaudeTypeOK' /\ TaskTypeOK'
  BY DEF TypeOK, TaskTypeOK
<1>1. CASE Execute
  <2>1. EncoderTypeOK' /\ CmdInv' /\ HardwareNeverFailsClip'
    BY <1>1, <1>a, EncoderEnter, EncoderQuiet DEF Execute, Encode
  <2>2. ReframeTypeOK' /\ ReframeInv' /\ ClaudeTypeOK' /\ Waits'
    BY <1>1, <1>a, ReframeSame, ClaudeSame DEF Execute
  <2>3. TaskTypeOK' /\ AtRest'
    BY <1>1, <1>a DEF Execute, TaskTypeOK, AtRest, reframeVars, claudeVars, Encode
  <2> QED  BY <1>b, <2>1, <2>2, <2>3
<1>2. CASE Encoding
  <2>1. EncoderTypeOK' /\ CmdInv' /\ HardwareNeverFailsClip'
    BY <1>2, <1>a, EncoderStep DEF Encoding
  <2>2. ReframeTypeOK' /\ ReframeInv' /\ ClaudeTypeOK' /\ Waits'
    BY <1>2, <1>a, ReframeSame, ClaudeSame DEF Encoding
  <2>3. TaskTypeOK' /\ AtRest'
    BY <1>2, <1>a DEF Encoding, TaskTypeOK, AtRest, reframeVars, claudeVars, taskVars
  <2> QED  BY <1>b, <2>1, <2>2, <2>3
<1>3. CASE Encoded
  <2>1. EncoderTypeOK' /\ CmdInv' /\ HardwareNeverFailsClip'
    BY <1>3, <1>a, EncoderLeave, EncoderQuiet DEF Encoded, LeaveEncode
  <2>2. ReframeTypeOK' /\ ReframeInv'
    <3>1. CASE step = "cut"
      <4>1. rf = "idle" /\ EnterReframe  BY <1>3, <3>1 DEF Encoded, AtRest
      <4> QED  BY <4>1, <1>a, ReframeEntered
    <3>2. CASE step # "cut"
      <4>1. UNCHANGED reframeVars  BY <1>3, <3>2 DEF Encoded
      <4> QED  BY <4>1, <1>a, ReframeSame
    <3> QED  BY <3>1, <3>2
  <2>3. ClaudeTypeOK' /\ Waits' /\ claude' = claude
    BY <1>3, <1>a, ClaudeSame DEF Encoded, claudeVars
  <2>4. TaskTypeOK' /\ AtRest'
    BY <1>3, <1>a, <2>3 DEF Encoded, Advance, EnterReframe, LeaveEncode, TaskTypeOK, AtRest, reframeVars
  <2> QED  BY <1>b, <2>1, <2>2, <2>3, <2>4
<1>4. CASE EncodeRaises
  <2>1. EncoderTypeOK' /\ CmdInv' /\ HardwareNeverFailsClip'
    BY <1>4, <1>a, EncoderLeave, EncoderQuiet DEF EncodeRaises, LeaveEncode
  <2>2. ReframeTypeOK' /\ ReframeInv' /\ ClaudeTypeOK' /\ Waits'
    BY <1>4, <1>a, ReframeSame, ClaudeSame DEF EncodeRaises
  <2>3. TaskTypeOK' /\ AtRest'
    BY <1>4, <1>a, <1>c DEF EncodeRaises, Raise, LeaveEncode, TaskTypeOK, AtRest, reframeVars, claudeVars
  <2> QED  BY <1>b, <2>1, <2>2, <2>3
<1>5. CASE Reframing
  <2>1. EncoderTypeOK' /\ CmdInv' /\ HardwareNeverFailsClip' /\ ClaudeTypeOK' /\ Waits'
    BY <1>5, <1>a, EncoderSame, ClaudeSame DEF Reframing
  <2>2. ReframeTypeOK' /\ ReframeInv'
    BY <1>5, <1>a, ReframePasses DEF Reframing
  <2>3. TaskTypeOK' /\ AtRest'
    BY <1>5, <1>a DEF Reframing, TaskTypeOK, AtRest, encoderVars, claudeVars, taskVars
  <2> QED  BY <1>b, <2>1, <2>2, <2>3
<1>6. CASE Reframed
  <2>1. EncoderTypeOK' /\ CmdInv' /\ HardwareNeverFailsClip'
    BY <1>6, <1>a, EncoderEnter, EncoderQuiet DEF Reframed, Encode
  <2>2. ReframeTypeOK' /\ ReframeInv' /\ ClaudeTypeOK' /\ Waits'
    <3>1. handles' = {}  BY <1>6 DEF Reframed, ReframeInv, HandlesInv, OpenAt
    <3> QED  BY <3>1, <1>6, <1>a, ReframeLeft, ClaudeSame DEF Reframed
  <2>3. TaskTypeOK' /\ AtRest'
    BY <1>6, <1>a DEF Reframed, Advance, LeaveReframe, Encode, TaskTypeOK, AtRest, claudeVars
  <2> QED  BY <1>b, <2>1, <2>2, <2>3
<1>7. CASE ReframeRaises
  <2>1. EncoderTypeOK' /\ CmdInv' /\ HardwareNeverFailsClip' /\ ClaudeTypeOK' /\ Waits'
    BY <1>7, <1>a, EncoderSame, ClaudeSame DEF ReframeRaises
  <2>2. ReframeTypeOK' /\ ReframeInv'
    <3>1. handles' = {}  BY <1>7 DEF ReframeRaises, ReframeInv, HandlesInv, OpenAt
    <3> QED  BY <3>1, <1>7, <1>a, ReframeLeft DEF ReframeRaises
  <2>3. TaskTypeOK' /\ AtRest'
    BY <1>7, <1>a, <1>c DEF ReframeRaises, Raise, LeaveReframe, TaskTypeOK, AtRest, encoderVars, claudeVars
  <2> QED  BY <1>b, <2>1, <2>2, <2>3
<1>8. CASE Subtitled
  <2>1. /\ EncoderTypeOK' /\ CmdInv' /\ HardwareNeverFailsClip'
        /\ ReframeTypeOK' /\ ReframeInv'
    BY <1>8, <1>a, EncoderSame, ReframeSame DEF Subtitled
  <2>2. ClaudeTypeOK' /\ Waits'  BY <1>8, <1>a DEF Subtitled, EnterParse, ClaudeTypeOK, Waits
  <2>3. TaskTypeOK' /\ AtRest'
    BY <1>8, <1>a DEF Subtitled, Advance, EnterParse, TaskTypeOK, AtRest, encoderVars, reframeVars
  <2> QED  BY <1>b, <2>1, <2>2, <2>3
<1>9. CASE Requesting
  <2>1. /\ EncoderTypeOK' /\ CmdInv' /\ HardwareNeverFailsClip'
        /\ ReframeTypeOK' /\ ReframeInv' /\ ClaudeTypeOK' /\ Waits'
    BY <1>9, <1>a, EncoderSame, ReframeSame, ClaudeStep DEF Requesting
  <2>2. TaskTypeOK' /\ AtRest'
    BY <1>9, <1>a DEF Requesting, TaskTypeOK, AtRest, encoderVars, reframeVars, taskVars
  <2> QED  BY <1>b, <2>1, <2>2
<1>10. CASE Described
  <2>1. EncoderTypeOK' /\ CmdInv' /\ HardwareNeverFailsClip'
    BY <1>10, <1>a, EncoderEnter, EncoderQuiet DEF Described, Encode
  <2>2. ReframeTypeOK' /\ ReframeInv'  BY <1>10, <1>a, ReframeSame DEF Described
  <2>3. ClaudeTypeOK' /\ Waits'
    BY <1>10, <1>a DEF Described, LeaveParse, ClaudeTypeOK, Waits, Attempts
  <2>4. TaskTypeOK' /\ AtRest'
    BY <1>10, <1>a DEF Described, Advance, LeaveParse, Encode, TaskTypeOK, AtRest, reframeVars
  <2> QED  BY <1>b, <2>1, <2>2, <2>3, <2>4
<1>11. CASE RequestRaises
  <2>1. /\ EncoderTypeOK' /\ CmdInv' /\ HardwareNeverFailsClip'
        /\ ReframeTypeOK' /\ ReframeInv'
    BY <1>11, <1>a, EncoderSame, ReframeSame DEF RequestRaises
  <2>2. ClaudeTypeOK' /\ Waits'
    BY <1>11, <1>a DEF RequestRaises, LeaveParse, ClaudeTypeOK, Waits, Attempts
  <2>3. TaskTypeOK' /\ AtRest'
    BY <1>11, <1>a, <1>c
    DEF Waits, RequestRaises, Raise, LeaveParse, TaskTypeOK, AtRest, encoderVars, reframeVars
  <2> QED  BY <1>b, <2>1, <2>2, <2>3
<1>12. CASE Packaged \/ PackageRaises \/ SubtitlesRaise
  <2>1. /\ EncoderTypeOK' /\ CmdInv' /\ HardwareNeverFailsClip'
        /\ ReframeTypeOK' /\ ReframeInv' /\ ClaudeTypeOK' /\ Waits'
    BY <1>12, <1>a, EncoderSame, ReframeSame, ClaudeSame
    DEF Packaged, PackageRaises, SubtitlesRaise
  <2>2. TaskTypeOK' /\ AtRest'
    BY <1>12, <1>a, <1>c
    DEF Packaged, PackageRaises, SubtitlesRaise, Advance, Raise, TaskTypeOK, AtRest, encoderVars,
        reframeVars, claudeVars
  <2> QED  BY <1>b, <2>1, <2>2
<1>13. CASE Interrupt
  <2>1. EncoderTypeOK' /\ CmdInv' /\ HardwareNeverFailsClip'
    BY <1>13, <1>a, EncoderLeave, EncoderQuiet DEF Interrupt, LeaveEncode
  <2>2. ReframeTypeOK' /\ ReframeInv'  BY <1>13, <1>a, ReframeSame DEF Interrupt
  <2>3. ClaudeTypeOK' /\ Waits'
    BY <1>13, <1>a DEF Interrupt, BreakParse, ClaudeTypeOK, Waits, Attempts
  <2>4. TaskTypeOK' /\ AtRest'
    BY <1>13, <1>a, <1>c DEF Interrupt, Raise, BreakParse, LeaveEncode, TaskTypeOK, AtRest, reframeVars
  <2> QED  BY <1>b, <2>1, <2>2, <2>3, <2>4
<1>14. CASE Retry \/ GiveUp
  <2>1. /\ EncoderTypeOK' /\ CmdInv' /\ HardwareNeverFailsClip'
        /\ ReframeTypeOK' /\ ReframeInv' /\ ClaudeTypeOK' /\ Waits'
    BY <1>14, <1>a, EncoderSame, ReframeSame, ClaudeSame DEF Retry, GiveUp
  <2>2. TaskTypeOK' /\ AtRest'
    BY <1>14, <1>a DEF Retry, GiveUp, TaskTypeOK, AtRest, encoderVars, reframeVars, claudeVars
  <2> QED  BY <1>b, <2>1, <2>2
<1>15. CASE LoseProcess
  <2>1. EncoderTypeOK' /\ CmdInv' /\ HardwareNeverFailsClip'
    BY <1>15, <1>a, EncoderLeave, EncoderQuiet DEF LoseProcess, LeaveEncode
  <2>2. ReframeTypeOK' /\ ReframeInv'  BY <1>15, <1>a, ReframeLeft DEF LoseProcess
  <2>3. ClaudeTypeOK' /\ Waits'
    BY <1>15, <1>a DEF LoseProcess, LoseMetrics, BreakParse, ClaudeTypeOK, Waits, Attempts
  <2>4. TaskTypeOK' /\ AtRest'
    BY <1>15, <1>a DEF LoseProcess, BreakParse, LeaveEncode, LeaveReframe, TaskTypeOK, AtRest
  <2> QED  BY <1>b, <2>1, <2>2, <2>3, <2>4
<1>16. CASE UNCHANGED vars
  <2>1. /\ EncoderTypeOK' /\ CmdInv' /\ HardwareNeverFailsClip'
        /\ ReframeTypeOK' /\ ReframeInv' /\ ClaudeTypeOK' /\ Waits'
    BY <1>16, <1>a, EncoderSame, ReframeSame, ClaudeSame DEF vars
  <2>2. TaskTypeOK' /\ AtRest'
    BY <1>16, <1>a DEF vars, TaskTypeOK, AtRest, encoderVars, reframeVars, claudeVars, taskVars
  <2> QED  BY <1>b, <2>1, <2>2
<1>17. QED
  BY <1>1, <1>2, <1>3, <1>4, <1>5, <1>6, <1>7, <1>8, <1>9, <1>10, <1>11, <1>12, <1>13, <1>14, <1>15,
     <1>16
  DEF Next

-----------------------------------------------------------------------------
(* The budget of calls, the token metric and the refusal.                  *)

(* Calls of this execution.                                                *)
Made ==
  IF step \in {"queued", "cut", "reframe", "mux", "subtitles"} \/ claude = "parse" THEN 0
  ELSE IF claude = "create" THEN attempt - 1
  ELSE IF claude = "backoff" THEN attempt
  ELSE Attempts
BudgetInv == calls <= Attempts * (retries + lost) + Made /\ (claude = "create" => attempt >= 1)

(* A refusal is on its way to the end of the task.                         *)
RefusalInv ==
  last = "refusal" =>
    \/ step = "metadata" /\ claude = "raised"
    \/ step = "raised" /\ ~Retryable(err)
    \/ step = "failed"

CallsInv == BudgetInv /\ TokensCounted /\ RefusalInv

LEMMA CallsInit == Init => CallsInv
BY DEF Init, ClaudeInit, CallsInv, BudgetInv, Made, Attempts, TokensCounted, RefusalInv, Outcomes, Replies

LEMMA CallsParse ==
  ASSUME TypeOK, Waits, CallsInv, Requesting
  PROVE  CallsInv' /\ (last = "refusal" => calls' = calls)
<1> DEFINE base == Attempts * (retries + lost)
<1>1. /\ retries \in Nat /\ lost \in Nat /\ calls \in Nat /\ tokens \in Nat /\ attempt \in 0 .. 5
      /\ base \in Nat /\ counted \in [Outcomes -> Nat]
  BY TaskAssumption DEF TypeOK, ClaudeTypeOK, Attempts
<1>2. step = "metadata" /\ step' = "metadata" /\ base' = base /\ ParseStep
  BY DEF Requesting, taskVars
<1>3. /\ calls <= base + Made /\ (claude = "create" => attempt >= 1)
      /\ TokensCounted /\ (last = "refusal" => claude = "raised")
  BY <1>2 DEF CallsInv, BudgetInv, RefusalInv
<1>4. SUFFICES /\ calls' <= base + Made' /\ (claude' = "create" => attempt' >= 1)
               /\ TokensCounted' /\ (last' = "refusal" => claude' = "raised")
               /\ (last = "refusal" => calls' = calls)
  BY <1>2 DEF CallsInv, BudgetInv, RefusalInv
<1> HIDE DEF base
<1> USE <1>1, <1>2, <1>3 DEF Made, Attempts, Outcomes, Replies, TokensCounted
<1>5. CASE Parse        BY <1>5 DEF Parse
<1>6. CASE NoKey        BY <1>6 DEF NoKey
<1>7. CASE Backoff      BY <1>7 DEF Backoff, Answered
<1>8. CASE NextAttempt  BY <1>8 DEF NextAttempt
<1>9. CASE CallFails    BY <1>9 DEF CallFails, Answered, Count
<1>10. CASE CallBreaks  BY <1>10 DEF CallBreaks, Answered
<1>11. ASSUME NEW a \in Replies, Reply(a)
       PROVE  /\ calls' <= base + Made' /\ (claude' = "create" => attempt' >= 1)
              /\ TokensCounted' /\ (last' = "refusal" => claude' = "raised")
              /\ (last = "refusal" => calls' = calls)
  BY <1>11 DEF Reply, Answered, Count
<1>12. QED  BY <1>5, <1>6, <1>7, <1>8, <1>9, <1>10, <1>11 DEF ParseStep

(* The steps outside the request.                                          *)
LEMMA CallsStep ==
  ASSUME TypeOK, AtRest, Waits, CallsInv, [Next]_vars
  PROVE  CallsInv' /\ (last = "refusal" => calls' = calls)
<1> DEFINE base == Attempts * (retries + lost)
<1>1. /\ retries \in Nat /\ lost \in Nat /\ calls \in Nat /\ attempt \in 0 .. 5 /\ base \in Nat
      /\ Attempts * (retries + 1 + lost) = base + 5 /\ Attempts * (retries + (lost + 1)) = base + 5
  BY TaskAssumption DEF TypeOK, ClaudeTypeOK, Attempts
<1>2. /\ calls <= base + Made /\ (claude = "create" => attempt >= 1)
      /\ TokensCounted /\ RefusalInv
  BY DEF CallsInv, BudgetInv
<1>3. Made \in 0 .. 5  BY <1>1, <1>2 DEF Made, Attempts
<1> USE DEF Stages, Working
<1>4. CASE Requesting  BY <1>4, CallsParse
<1>5. ASSUME UNCHANGED <<retries, lost, claudeVars>>, Made' >= Made, RefusalInv'
      PROVE  CallsInv' /\ (last = "refusal" => calls' = calls)
  <2>1. UNCHANGED <<tokens, counted, claude, attempt>> /\ calls' = calls  BY <1>5 DEF claudeVars
  <2>2. Made' \in Int  BY <1>1, <2>1 DEF Made, Attempts
  <2>3. base' = base  BY <1>5
  <2>4. TokensCounted'  BY <1>2, <2>1 DEF TokensCounted
  <2>5. calls' <= base' + Made'
    <3>1. /\ calls \in Int /\ base \in Int /\ Made \in Int /\ Made' \in Int
          /\ calls <= base + Made /\ Made <= Made'
      BY <1>1, <1>2, <1>3, <1>5, <2>2
    <3>2. calls' = calls  BY <2>1
    <3>3. calls' <= base + Made'
      <4>1. \A b, m, n, c \in Int : c <= b + m /\ m <= n => c <= b + n
        OBVIOUS
      <4> HIDE DEF base
      <4> QED  BY ONLY <3>1, <3>2, <4>1
    <3> QED  BY <2>3, <3>3
  <2> QED  BY <1>2, <1>5, <2>1, <2>4, <2>5 DEF CallsInv, BudgetInv
<1>6. CASE Execute
  <2>1. /\ UNCHANGED <<retries, lost, claudeVars>> /\ Made' = Made
        /\ RefusalInv'
    BY <1>6, <1>2 DEF Execute, Made, claudeVars, RefusalInv
  <2> QED  BY <1>3, <1>5, <2>1
<1>7. CASE Encoding \/ Reframing
  <2>1. UNCHANGED <<taskVars, claudeVars>>  BY <1>7 DEF Encoding, Reframing
  <2>2. UNCHANGED <<retries, lost>> /\ Made' = Made /\ RefusalInv'
    BY <1>2, <2>1 DEF Made, taskVars, claudeVars, RefusalInv
  <2> QED  BY <1>3, <1>5, <2>1, <2>2
<1>8. CASE Encoded \/ Reframed
  <2>1. UNCHANGED <<retries, lost, err, claudeVars>>  BY <1>8 DEF Encoded, Reframed, Advance
  <2>2. \/ step = "cut" /\ step' = "reframe"
        \/ step = "reframe" /\ step' = "mux"
        \/ step = "mux" /\ step' = "subtitles"
        \/ step = "burn" /\ step' = "thumbnail"
    BY <1>8 DEF Encoded, Reframed, Advance
  <2>3. Made' = Made /\ RefusalInv'
    BY <1>2, <2>1, <2>2 DEF Made, claudeVars, RefusalInv
  <2> QED  BY <1>3, <1>5, <2>1, <2>3
<1>9. CASE EncodeRaises \/ ReframeRaises \/ SubtitlesRaise \/ PackageRaises
  <2>1. UNCHANGED <<retries, lost, claudeVars>> /\ step' = "raised" /\ step \in Working \ {"metadata"}
    BY <1>9 DEF EncodeRaises, ReframeRaises, SubtitlesRaise, PackageRaises, Raise
  <2>2. claude = "idle" /\ last # "refusal"  BY <1>2, <2>1 DEF AtRest, RefusalInv
  <2>3. Made' >= Made /\ RefusalInv'
    BY <1>3, <2>1, <2>2 DEF Made, Attempts, claudeVars, RefusalInv
  <2> QED  BY <1>5, <2>1, <2>3
<1>10. CASE Packaged
  <2>1. UNCHANGED <<retries, lost, claudeVars>> /\ step' = "completed" /\ step = "thumbnail"
    BY <1>10 DEF Packaged, Advance
  <2>2. Made' = Made /\ RefusalInv'
    BY <1>2, <2>1 DEF Made, claudeVars, RefusalInv
  <2> QED  BY <1>3, <1>5, <2>1, <2>2
<1>11. CASE GiveUp
  <2>1. UNCHANGED <<retries, lost, claudeVars>> /\ step' = "failed" /\ step = "raised"
    BY <1>11 DEF GiveUp
  <2>2. Made' = Made /\ RefusalInv'
    BY <1>2, <2>1 DEF Made, claudeVars, RefusalInv
  <2> QED  BY <1>3, <1>5, <2>1, <2>2
<1>12. CASE Subtitled
  <2>1. /\ UNCHANGED <<retries, lost, calls, tokens, counted, last, attempt>>
        /\ step = "subtitles" /\ claude = "idle" /\ claude' = "parse"
    BY <1>12 DEF Subtitled, EnterParse, Advance, AtRest
  <2>2. Made = 0 /\ Made' = 0 /\ last # "refusal"  BY <1>2, <2>1 DEF Made, RefusalInv
  <2>3. TokensCounted'  BY <1>2, <2>1 DEF TokensCounted
  <2> QED  BY <1>2, <2>1, <2>2, <2>3 DEF CallsInv, BudgetInv, RefusalInv
<1>13. CASE Described \/ RequestRaises
  <2>1. /\ UNCHANGED <<retries, lost, calls, tokens, counted, last>>
        /\ step = "metadata" /\ claude \in {"done", "raised"} /\ claude' = "idle"
        /\ step' \in {"burn", "raised"}
    BY <1>13 DEF Described, RequestRaises, LeaveParse, Advance, Raise
  <2>2. Made = 5 /\ Made' = 5  BY <2>1 DEF Made, Attempts
  <2>3. TokensCounted'  BY <1>2, <2>1 DEF TokensCounted
  <2>4. RefusalInv'
    BY <1>2, <1>13, <2>1
    DEF RefusalInv, Described, RequestRaises, Raise, Retryable
  <2> QED  BY <1>2, <2>1, <2>2, <2>3, <2>4 DEF CallsInv, BudgetInv
<1>14. CASE Interrupt
  <2>1. /\ UNCHANGED <<retries, lost, tokens, counted, last>> /\ step \in Working /\ step' = "raised"
        /\ err' = "other" /\ claude' = "idle" /\ (claude # "create" => calls' = calls)
        /\ calls' \in {calls, calls + 1}
    BY <1>14 DEF Interrupt, BreakParse, Raise
  <2>2. claude = "create" => Made <= 4 /\ last # "refusal"
    BY <1>1, <1>2, <2>1 DEF Made, AtRest, RefusalInv
  <2>3. Made' = 5 /\ RefusalInv'  BY <2>1 DEF Made, Attempts, RefusalInv, Retryable
  <2>4. TokensCounted'  BY <1>2, <2>1 DEF TokensCounted
  <2>5. calls' <= base' + Made'
    <3>1. base' = base  BY <2>1
    <3> HIDE DEF base
    <3> QED  BY <1>1, <1>2, <1>3, <2>1, <2>2, <2>3, <3>1
  <2> QED  BY <2>1, <2>2, <2>3, <2>4, <2>5 DEF CallsInv, BudgetInv
<1>15. CASE Retry
  <2>1. /\ UNCHANGED <<lost, claudeVars>> /\ retries' = retries + 1
        /\ step = "raised" /\ step' = "queued" /\ Retryable(err)
    BY <1>15 DEF Retry
  <2>2. claude = "idle" /\ last # "refusal"  BY <1>2, <2>1 DEF AtRest, RefusalInv
  <2>3. Made = 5 /\ Made' = 0  BY <2>1, <2>2 DEF Made, Attempts
  <2>4. base' = base + 5  BY <1>1, <2>1
  <2>5. TokensCounted' /\ RefusalInv'
    BY <1>2, <2>1, <2>2 DEF TokensCounted, claudeVars, RefusalInv
  <2> HIDE DEF base
  <2>6. calls' <= base' + Made' /\ (claude' = "create" => attempt' >= 1)
    BY <1>1, <1>2, <2>1, <2>2, <2>3, <2>4 DEF claudeVars
  <2> QED  BY <2>2, <2>5, <2>6 DEF CallsInv, BudgetInv, base
<1>16. CASE LoseProcess
  <2>1. /\ UNCHANGED retries /\ lost' = lost + 1 /\ step' = "queued" /\ claude' = "idle"
        /\ last' = "none" /\ tokens' = 0 /\ counted' = [o \in Outcomes |-> 0]
        /\ (claude # "create" => calls' = calls) /\ calls' \in {calls, calls + 1}
        /\ step \in Working \cup {"raised"}
    BY <1>16 DEF LoseProcess, LoseMetrics, BreakParse
  <2>2. claude = "create" => Made <= 4 /\ last # "refusal"
    BY <1>1, <1>2, <2>1 DEF Made, AtRest, RefusalInv
  <2>3. Made' = 0  BY <2>1 DEF Made
  <2>4. base' = base + 5  BY <1>1, <2>1
  <2>5. TokensCounted' /\ RefusalInv'
    BY <2>1 DEF TokensCounted, RefusalInv, Outcomes, Replies
  <2> HIDE DEF base
  <2>6. calls' <= base' + Made' /\ (claude' = "create" => attempt' >= 1)
    BY <1>1, <1>2, <1>3, <2>1, <2>2, <2>3, <2>4
  <2> QED  BY <2>1, <2>2, <2>5, <2>6 DEF CallsInv, BudgetInv, base
<1>17. CASE UNCHANGED vars
  <2>1. UNCHANGED <<retries, lost, claudeVars>> /\ Made' = Made /\ RefusalInv'
    BY <1>2, <1>17 DEF vars, taskVars, claudeVars, Made, RefusalInv
  <2> QED  BY <1>3, <1>5, <2>1
<1>18. QED
  BY <1>4, <1>6, <1>7, <1>8, <1>9, <1>10, <1>11, <1>12, <1>13, <1>14, <1>15, <1>16, <1>17 DEF Next

-----------------------------------------------------------------------------
(* The properties.                                                         *)

AllInv == Inv /\ CallsInv

LEMMA AllInvariant == Spec => []AllInv
<1>1. Init => AllInv  BY InvInit, CallsInit DEF AllInv
<1>2. AllInv /\ [Next]_vars => AllInv'  BY InvStep, CallsStep DEF AllInv, Inv
<1>3. QED  BY <1>1, <1>2, PTL DEF Spec

(* The types of the whole task, with every frame, every attempt and every  *)
(* token of the commands in its range.                                     *)
THEOREM TaskTypes == Spec => []TypeOK
<1>1. AllInv => TypeOK  BY DEF AllInv, Inv
<1>2. QED  BY AllInvariant, <1>1, PTL

(* Calls of the API: never more than Attempts for each execution, whatever *)
(* max_retries is and however many processes are lost.                     *)
THEOREM CallsBounded == Spec => []CallBudget
<1>1. AllInv => CallBudget
  <2> SUFFICES ASSUME AllInv PROVE CallBudget
    OBVIOUS
  <2>1. /\ retries \in Nat /\ lost \in Nat /\ calls \in Nat /\ attempt \in 0 .. 5
        /\ claude = "backoff" => attempt < 5
    BY TaskAssumption DEF AllInv, Inv, TypeOK, ClaudeTypeOK, Attempts, Waits
  <2>2. calls <= Attempts * (retries + lost) + Made  BY DEF AllInv, CallsInv, BudgetInv
  <2>3. Made <= 5  BY <2>1 DEF Made, Attempts
  <2>4. Made \in Int  BY <2>1 DEF Made, Attempts
  <2> QED  BY <2>1, <2>2, <2>3, <2>4 DEF CallBudget, Attempts
<1>2. QED  BY AllInvariant, <1>1, PTL

(* The token metric knows every reply that was charged for.                *)
THEOREM TokensAreCounted == Spec => []TokensCounted
<1>1. AllInv => TokensCounted  BY DEF AllInv, CallsInv
<1>2. QED  BY AllInvariant, <1>1, PTL

(* A refused prompt is not sent again by the process that knows it.        *)
THEOREM RefusalsAreFinal == Spec => RefusalIsFinal
<1>1. AllInv /\ [Next]_vars => (last = "refusal" => calls' = calls)
  BY CallsStep DEF AllInv, Inv
<1>2. AllInv /\ [Next]_vars => [last = "refusal" => calls' = calls]_vars
  BY <1>1
<1>3. QED  BY AllInvariant, <1>2, PTL DEF Spec, RefusalIsFinal

(* The spliced command is the one for libx264, for every picked encoder.   *)
THEOREM FallbackCommand == Spec => []FallbackIsSoftware
<1>1. AllInv => FallbackIsSoftware  BY DEF AllInv, Inv, CmdInv
<1>2. QED  BY AllInvariant, <1>1, PTL

(* No clip fails over a hardware encoder that libx264 can stand in for.    *)
THEOREM SoftwareIsTried == Spec => []HardwareNeverFailsClip
<1>1. AllInv => HardwareNeverFailsClip  BY DEF AllInv, Inv
<1>2. QED  BY AllInvariant, <1>1, PTL

(* The crop window stays inside the cut, for every size of the cut, every  *)
(* target whose sides differ by less than a factor of two, and every       *)
(* camera position.                                                        *)
THEOREM WindowAlwaysFits == Spec => []WindowInFrame
<1>1. AllInv => WindowInFrame
  <2> SUFFICES ASSUME AllInv, window # <<>>
               PROVE  /\ window[1] + CropW \in CropW .. Width
                      /\ window[2] + CropH \in CropH .. Height
    BY DEF WindowInFrame
  <2>1. ReframeTypeOK /\ WindowInv  BY DEF AllInv, Inv, TypeOK, ReframeInv
  <2>2. CropW \in 1 .. Width /\ CropH \in 1 .. Height /\ Width \in Nat /\ Height \in Nat
    BY <2>1, SizeFits, CropFits
  <2> QED  BY <2>1, <2>2 DEF WindowInv
<1>2. QED  BY AllInvariant, <1>1, PTL

(* As the window always fits, no frame is skipped: sound and picture keep  *)
(* together, for every length of the cut.                                  *)
THEOREM EveryFrameIsKept == Spec => []FramesKept
<1>1. AllInv => FramesKept  BY DEF AllInv, Inv, ReframeInv
<1>2. QED  BY AllInvariant, <1>1, PTL

(* The camera stays between centres that were seen, for every path.        *)
THEOREM CameraStaysInSpan == Spec => []CameraInSpan
<1>1. AllInv => CameraInSpan  BY DEF AllInv, Inv, ReframeInv, CameraInv
<1>2. QED  BY AllInvariant, <1>1, PTL

(* No way out of reframe leaves a capture or a writer open.                *)
THEOREM NoHandleStaysOpen == Spec => []HandlesReleased
<1>1. AllInv => HandlesReleased
  BY DEF AllInv, Inv, ReframeInv, HandlesInv, OpenAt, HandlesReleased
<1>2. QED  BY AllInvariant, <1>1, PTL

(* Each step of the task is a step of the abstract task or none: retried   *)
(* after a passing error while retries are left, never after a final one,  *)
(* and a lost process costs no retry.  That it ends, the other half of     *)
(* ImplementsAttempts, is left to the model checker.                       *)
THEOREM StepsAreAttempts == Spec => Attempted!Init /\ [][Attempted!Next]_Attempted!vars
<1> USE DEF Stages, Working, Ended, Status
<1>1. Init => Attempted!Init  BY DEF Init, Attempted!Init, ErrorKind, Recurring
<1>2. ASSUME TypeOK, AtRest, Waits, [Next]_vars PROVE [Attempted!Next]_Attempted!vars
  <2> USE DEF Attempted!vars, Attempted!Next
  <2>a. err' = err => ErrorKind' = ErrorKind  BY DEF ErrorKind
  <2>b. err' = "none" => ErrorKind' = "none"  BY DEF ErrorKind, Recurring
  <2>c. ASSUME err' \in Causes PROVE ErrorKind' \in {"passing", "final", "open"}
    <3>1. err' # "none"  BY <2>c DEF Causes, Answers, Replies
    <3> QED  BY <3>1 DEF ErrorKind
  <2>d. Retryable(err) => ErrorKind # "final"  BY DEF Retryable, ErrorKind, Recurring
  <2>e. ~Retryable(err) => ErrorKind = "final"  BY DEF Retryable, ErrorKind, Recurring
  <2>1. CASE Execute
    BY <2>1, <2>b DEF Execute, Attempted!Execute
  <2>2. CASE Encoded \/ Reframed \/ Subtitled \/ Described
    <3>1. UNCHANGED <<retries, lost, err>> /\ Status = "running" /\ Status' = "running"
      BY <2>2 DEF Encoded, Reframed, Subtitled, Described, Advance
    <3> QED  BY <3>1, <2>a
  <2>3. CASE Encoding \/ Reframing \/ Requesting \/ UNCHANGED vars
    BY <2>3, <2>a DEF Encoding, Reframing, Requesting, taskVars, vars
  <2>4. CASE \/ EncodeRaises \/ ReframeRaises \/ SubtitlesRaise \/ RequestRaises
             \/ PackageRaises \/ Interrupt
    <3>1. UNCHANGED <<retries, lost>> /\ Status = "running" /\ Status' = "raised"
      BY <2>4
      DEF EncodeRaises, ReframeRaises, SubtitlesRaise, RequestRaises, PackageRaises, Interrupt, Raise
    <3>2. err' \in Causes
      <4>1. {"ffmpeg", "render", "other"} \subseteq Causes  BY DEF Causes, Answers, Replies
      <4> QED
        BY <1>2, <2>4, <4>1
        DEF EncodeRaises, ReframeRaises, SubtitlesRaise, RequestRaises, PackageRaises, Interrupt,
            Raise, Waits
    <3> QED  BY <3>1, <3>2, <2>c DEF Attempted!Raise, Attempted!Errors
  <2>5. CASE Packaged  BY <2>5, <2>a DEF Packaged, Advance, Attempted!Complete
  <2>6. CASE Retry     BY <2>6, <2>a, <2>d DEF Retry, Attempted!Retry
  <2>7. CASE GiveUp
    <3>1. retries \in 0 .. TaskRetries  BY <1>2 DEF TypeOK
    <3> QED  BY <2>7, <3>1, <2>a, <2>e, TaskAssumption DEF GiveUp, Attempted!Fail
  <2>8. CASE LoseProcess
    BY <2>8, <2>a DEF LoseProcess, Attempted!Lose
  <2>9. QED  BY <1>2, <2>1, <2>2, <2>3, <2>4, <2>5, <2>6, <2>7, <2>8 DEF Next
<1>3. AllInv /\ [Next]_vars => [Attempted!Next]_Attempted!vars  BY <1>2 DEF AllInv, Inv
<1>4. QED  BY <1>1, <1>3, AllInvariant, PTL DEF Spec
=============================================================================
