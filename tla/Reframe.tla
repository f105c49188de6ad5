-------------------------------- MODULE Reframe -------------------------------
(***************************************************************************)
(* reframe.reframe up to its mux: one pass over the cut that looks for     *)
(* faces, the smoothing of their centres into a camera path, and a second  *)
(* pass that crops every frame around the camera into the silent video.    *)
(* Lengths are pixels, centres half pixels; a smoothed centre is an exact  *)
(* fraction, the weights being 0.12 = 3/25 and 22/25.                      *)
(***************************************************************************)
EXTENDS Integers, Sequences

CONSTANTS
  OutW, OutH,   \* settings.target_width and target_height; only their ratio matters
  Sizes,        \* <<width, height>> of the cuts
  Lengths,      \* numbers of frames that can be read from a cut
  Stride,       \* settings.face_detect_stride
  Backends,     \* values of settings.tracking_backend
  Faces,        \* centres a detector may return, beyond the edges included
  NoFace        \* None

ASSUME ReframeAssumption ==
  /\ {OutW, OutH} \subseteq Nat \ {0} /\ Lengths \subseteq Nat
  /\ OutW < 2 * OutH /\ OutH < 2 * OutW
  /\ Sizes \subseteq (Nat \ {0}) \X (Nat \ {0})
  /\ Stride \in Int
  /\ Backends \subseteq {"center", "opencv", "mediapipe"}
  /\ Faces \subseteq Int /\ NoFace \notin Int

VARIABLES
  size,      \* of the cut
  frames,    \* of the cut
  backend,   \* settings.tracking_backend
  rf,        \* next step
  handles,   \* OpenCV objects open in the worker process
  centers,   \* what _track_centers collects
  held,      \* _smooth: the last known centre
  path,      \* _smooth: the camera
  idx,       \* frames the second pass has read
  shown,     \* frames_written
  window     \* the last crop: <<x0, y0>>

reframeVars == <<size, frames, backend, rf, handles, centers, held, path, idx, shown, window>>

Width  == size[1]
Height == size[2]

-----------------------------------------------------------------------------
(* The crop window.                                                        *)

(* round(a / b), ties to even.                                             *)
Round(a, b) ==
  LET q == a \div b
      r == a % b
  IN IF 2 * r > b \/ (2 * r = b /\ q % 2 = 1) THEN q + 1 ELSE q

TooNarrow == Round(Height * OutW, OutH) > Width
CropW == IF TooNarrow THEN Width ELSE Round(Height * OutW, OutH)
CropH == IF TooNarrow THEN Round(Width * OutH, OutW) ELSE Height

Clip(x, low, high) == IF x < low THEN low ELSE IF x > high THEN high ELSE x
Larger(a, b) == IF a > b THEN a ELSE b

(* Mutant: only the right edge is respected.                               *)
LeftUnclipped(cx) ==
  LET x == (cx.num - CropW * cx.den) \div (2 * cx.den)
  IN IF x > Larger(Width - CropW, 0) THEN Larger(Width - CropW, 0) ELSE x
(* int(clip(cx - crop_w / 2, 0, max_x)), and the same for the rows.        *)
Left(cx) == Clip((cx.num - CropW * cx.den) \div (2 * cx.den), 0, Larger(Width - CropW, 0))
Top      == Clip((Height - CropH) \div 2, 0, Larger(Height - CropH, 0))

(* How much of a side of n pixels the slice from : from + extent selects;  *)
(* a negative index counts from the end.                                   *)
Bound(i, n) == IF i < 0 THEN Larger(n + i, 0) ELSE IF i > n THEN n ELSE i
Sliced(from, extent, n) == Larger(Bound(from + extent, n) - Bound(from, n), 0)
Empty(w) == Sliced(w[1], CropW, Width) = 0 \/ Sliced(w[2], CropH, Height) = 0
-----------------------------------------------------------------------------
(* The passes.                                                             *)

ReframeSteps == {"open", "track", "smooth", "reopen", "writer", "write", "mux"}

ReframeTypeOK ==
  /\ size \in Sizes
  /\ frames \in Lengths
  /\ backend \in Backends
  /\ rf \in ReframeSteps \cup {"idle", "failed", "crashed", "unguarded"}
  /\ handles \subseteq {"first", "second", "writer"}
  /\ centers \in Seq(Int \cup {NoFace})
  /\ held \in Int
  /\ path \in Seq([num : Int, den : Nat \ {0}])
  /\ idx \in Nat /\ shown \in Nat
  /\ window \in (Nat \X Nat) \cup {<<>>}

Middle == 2 * (Width \div 2)    \* src_w // 2

ReframeInit ==
  /\ size \in Sizes /\ frames \in Lengths
  /\ backend \in Backends
  /\ rf = "idle" /\ handles = {}
  /\ centers = <<>> /\ held = Middle /\ path = <<>>
  /\ idx = 0 /\ shown = 0 /\ window = <<>>

(* reframe is called.                                                      *)
EnterReframe == rf' = "open" /\ UNCHANGED <<size, frames, backend, handles, centers, held, path, idx, shown, window>>
(* Its locals go when it is left.                                          *)
LeaveReframe ==
  /\ rf' = "idle"
  /\ centers' = <<>> /\ held' = Middle /\ path' = <<>>
  /\ idx' = 0 /\ shown' = 0 /\ window' = <<>>
  /\ UNCHANGED <<size, frames, backend>>

(* An exception: RenderErrors are "failed", others "crashed".  The finally *)
(* clauses release the writer and the capture that cap is bound to.        *)
Abandon(outcome, cap) ==
  /\ rf' = outcome
  /\ handles' = handles \ {cap, "writer"}
  /\ UNCHANGED <<size, frames, backend, centers, held, path, idx, shown, window>>

OpenCut ==
  /\ rf = "open" /\ rf' = "track"
  /\ handles' = handles \cup {"first"}
  /\ UNCHANGED <<size, frames, backend, centers, held, path, idx, shown, window>>
(* The file does not open, or reports dimensions that are not positive.    *)
OpenCutFails == rf = "open" /\ Abandon("failed", "first")

(* backend "center": one centre per frame that the container reports,      *)
(* which may be none at all.                                               *)
TrackCenter ==
  /\ rf = "track" /\ backend = "center" /\ rf' = "smooth"
  /\ \E reported \in {0, frames} : centers' = [i \in 1 .. Larger(reported, 1) |-> Width]
  /\ UNCHANGED <<size, frames, backend, handles, held, path, idx, shown, window>>

Detected(i) == i % Larger(1, Stride) = 0

(* _track_strided: the frames between two detections repeat the last one.  *)
TrackFrame ==
  /\ rf = "track" /\ backend # "center" /\ Len(centers) < frames
  /\ \E c \in Faces \cup {NoFace} :
       /\ ~Detected(Len(centers)) => c = IF centers = <<>> THEN NoFace ELSE centers[Len(centers)]
       /\ centers' = Append(centers, c)
  /\ UNCHANGED <<size, frames, backend, rf, handles, held, path, idx, shown, window>>
TrackEnds ==
  /\ rf = "track" /\ backend # "center" /\ Len(centers) = frames
  /\ rf' = "smooth"
  /\ UNCHANGED <<size, frames, backend, handles, centers, held, path, idx, shown, window>>

(* OpenCV, the detector or the soft time limit throws, with the variable   *)
(* cap bound to the first capture or to the second.                        *)
Crash ==
  /\ rf \in ReframeSteps \ {"mux"}
  /\ Abandon("crashed", IF rf \in {"writer", "write"} THEN "second" ELSE "first")
(* The limit strikes after an object was opened and before the try whose   *)
(* finally releases it.                                                    *)
Unguarded ==
  /\ rf \in {"open", "writer"} /\ rf' = "unguarded"
  /\ handles' = IF rf = "open" THEN handles \cup {"first"} ELSE {"writer"} \cup (handles \ {"second"})
  /\ UNCHANGED <<size, frames, backend, centers, held, path, idx, shown, window>>

(* Mutant: the weights of the old and the new centre do not sum to one.    *)
SmoothedOver(c) ==
  IF path = <<>> THEN [num |-> c, den |-> 1]
  ELSE LET ema == path[Len(path)] IN
    [num |-> 4 * c * ema.den + 22 * ema.num, den |-> 25 * ema.den]
(* The average starts at the first centre and follows the next ones.       *)
Smoothed(c) ==
  IF path = <<>> THEN [num |-> c, den |-> 1]
  ELSE LET ema == path[Len(path)] IN
    [num |-> 3 * c * ema.den + 22 * ema.num, den |-> 25 * ema.den]

Smooth ==
  /\ rf = "smooth" /\ Len(path) < Len(centers)
  /\ LET c == centers[Len(path) + 1]
         known == IF c = NoFace THEN held ELSE c
     IN held' = known /\ path' = Append(path, Smoothed(known))
  /\ UNCHANGED <<size, frames, backend, rf, handles, centers, idx, shown, window>>
SmoothEnds ==
  /\ rf = "smooth" /\ Len(path) = Len(centers)
  /\ rf' = "reopen"
  /\ UNCHANGED <<size, frames, backend, handles, centers, held, path, idx, shown, window>>

(* Mutant: the first capture is only rebound.                              *)
ReopenOver(ok) ==
  /\ rf = "reopen"
  /\ handles' = handles \cup (IF ok THEN {"second"} ELSE {})
  /\ rf' = IF ok THEN "writer" ELSE "failed"
  /\ UNCHANGED <<size, frames, backend, centers, held, path, idx, shown, window>>
(* cap is released and bound to a new capture, which may not open.         *)
Reopen(ok) ==
  /\ rf = "reopen"
  /\ handles' = (handles \ {"first"}) \cup (IF ok THEN {"second"} ELSE {})
  /\ rf' = IF ok THEN "writer" ELSE "failed"
  /\ UNCHANGED <<size, frames, backend, centers, held, path, idx, shown, window>>

OpenWriter ==
  /\ rf = "writer" /\ rf' = "write"
  /\ handles' = handles \cup {"writer"}
  /\ UNCHANGED <<size, frames, backend, centers, held, path, idx, shown, window>>
OpenWriterFails == rf = "writer" /\ Abandon("failed", "second")

Camera == IF idx < Len(path) THEN path[idx + 1] ELSE [num |-> Middle, den |-> 1]

(* A frame is cropped, scaled and written; an empty crop is skipped.       *)
WriteFrame ==
  /\ rf = "write" /\ idx < frames
  /\ idx' = idx + 1
  /\ window' = <<Left(Camera), Top>>
  /\ shown' = IF Empty(window') THEN shown ELSE shown + 1
  /\ UNCHANGED <<size, frames, backend, rf, handles, centers, held, path>>

(* The writer is released, frames_written judged, the capture released.    *)
WriteEnds ==
  /\ rf = "write" /\ idx = frames
  /\ Abandon(IF shown = 0 THEN "failed" ELSE "mux", "second")

ReframeStep ==
  \/ OpenCut \/ OpenCutFails \/ TrackCenter \/ TrackFrame \/ TrackEnds \/ Crash \/ Unguarded
  \/ Smooth \/ SmoothEnds \/ (\E ok \in BOOLEAN : Reopen(ok)) \/ OpenWriter \/ OpenWriterFails
  \/ WriteFrame \/ WriteEnds

-----------------------------------------------------------------------------
(* The crop is a whole window of the cut: inside it on every side, however *)
(* the sizes round and wherever, beyond the edges too, a face is seen.     *)
WindowInFrame ==
  window # <<>> =>
    /\ window[1] + CropW \in CropW .. Width
    /\ window[2] + CropH \in CropH .. Height

(* The silent video has a frame for each frame of the cut, so that the     *)
(* sound muxed back in stays with the picture.                             *)
FramesKept == shown = idx /\ (rf = "mux" => shown = frames)

(* The camera never overshoots and never anticipates: at each frame it is  *)
(* between two centres that were known by then, the middle included.       *)
KnownBy(i) == {Middle} \cup {centers[j] : j \in {k \in 1 .. i : centers[k] # NoFace}}
CameraInSpan ==
  \A i \in DOMAIN path : \E a, b \in KnownBy(i) :
    a * path[i].den <= path[i].num /\ path[i].num <= b * path[i].den

(* "resources are released in a finally": whichever step fails, no capture *)
(* and no writer stays open to pile up in the worker over its tasks, and   *)
(* the mux reads a file that is closed.  What Unguarded leaves open has no *)
(* finally: it is closed when its frame goes, and is gone when the task is *)
(* "idle" again.                                                           *)
HandlesReleased == rf \in {"idle", "mux", "failed", "crashed"} => handles = {}
=============================================================================
