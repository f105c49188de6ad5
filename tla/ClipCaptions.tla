----------------------------- MODULE ClipCaptions -----------------------------
(***************************************************************************)
(* The two stages that work on the words of a transcript, one after the    *)
(* other: analyze chooses clips and stores their times, and for each of    *)
(* them render_clip builds the captions from the same transcript.          *)
(***************************************************************************)
EXTENDS Analyze

CONSTANT PerLine   \* style["words_per_line"]

ASSUME CaptionsAssumption == PerLine \in Nat \ {0}

VARIABLES
  rank,     \* of the clip that is captioned, 0 before the first
  window,   \* its start_seconds and end_seconds
  shown,    \* locals of build_ass: words of the clip, next word, events
  next,
  events,
  step

captions == <<rank, window, shown, next, events, step>>

Ass == INSTANCE Subtitles WITH
  Horizon <- Duration + 1, transcript <- words, from <- window.start, to <- window.end,
  words <- shown, pc <- step

CaptionsInit ==
  /\ Init
  /\ rank = 0 /\ window = [start |-> 0, end |-> 0]
  /\ shown = <<>> /\ next = 1 /\ events = <<>> /\ step = "waiting"

AnalyzeStep == Next /\ UNCHANGED captions

(* A render reaches its caption stage with the row as analyze stored it.   *)
Render ==
  /\ pc = "done" /\ step \in {"waiting", "written", "raised"}
  /\ rank < Len(clips)
  /\ rank' = rank + 1
  /\ window' = [start |-> clips[rank + 1].start, end |-> clips[rank + 1].end]
  /\ shown' = <<>> /\ next' = 1 /\ events' = <<>> /\ step' = "select"
  /\ UNCHANGED vars

CaptionStep == UNCHANGED <<vars, rank, window>> /\ Ass!Next

CaptionsNext == AnalyzeStep \/ Render \/ CaptionStep

CaptionsSpec == CaptionsInit /\ [][CaptionsNext]_<<vars, captions>>

-----------------------------------------------------------------------------
(* The types of both stages; clips and captions lie inside the recording.  *)
StagesTypeOK == TypeOK /\ rank \in 0 .. MaxClips /\ (step = "waiting" \/ Ass!TypeOK)

(* As stated in Subtitles.                                                 *)
SpokenIsShown == Ass!SpokenIsShown
HighlightNeverLate == Ass!HighlightNeverLate

(* A clip that analyze chose is never refused by build_ass for having no   *)
(* words, and its first caption is up from its first moment, as long as    *)
(* there are words, each has a length and clips must have one: snapping,   *)
(* shortening and the selection of words fit together.                     *)
CaptionedFromStart ==
  (MinLen > 0 /\ words # <<>> /\ \A i \in DOMAIN words : words[i].start < words[i].end) =>
    /\ step # "raised"
    /\ step = "written" => events[1].start = 0
=============================================================================
