------------------------------- MODULE Analyze -------------------------------
(***************************************************************************)
(* _post_process of the analyze stage: each candidate the language model   *)
(* proposes is clamped to the recording, snapped to the words of the       *)
(* transcript, dropped or shortened by its length, and what is left is     *)
(* ranked and capped.  Times are whole numbers; the model's answer may     *)
(* hold any times, and the last word may end after the reported duration.  *)
(***************************************************************************)
EXTENDS Integers, Sequences, FiniteSets, Enumerations

CONSTANTS
  Duration,        \* transcript["duration"]
  MinLen, MaxLen,  \* settings.min_clip_seconds, max_clip_seconds
  MaxClips,        \* settings.max_clips_per_video
  MaxScore,        \* scores are 0 .. MaxScore
  MaxWords,        \* bound: words of the transcript
  MaxCandidates    \* bound: candidates of one answer

ASSUME AnalyzeAssumption ==
  /\ {Duration, MinLen, MaxLen, MaxClips, MaxScore, MaxWords, MaxCandidates} \subseteq Nat
  /\ MinLen <= MaxLen

VARIABLES
  words,   \* _all_words(transcript), in order
  read,    \* candidates read
  out,     \* candidates kept, in the order of the answer
  clips,   \* the result
  pc

vars == <<words, read, out, clips, pc>>

Times     == -1 .. Duration + 1
Word      == {w \in [start : 0 .. Duration, end : 0 .. Duration + 1] : w.start <= w.end}
Candidate == [start : Times, end : Times, score : 0 .. MaxScore]
Clip      == [start : 0 .. Duration, end : 0 .. Duration + 1, score : 0 .. MaxScore]

TypeOK ==
  /\ words \in Seq(Word)
  /\ read \in 0 .. MaxCandidates
  /\ out \in Seq(Clip) /\ clips \in Seq(Clip)    \* clips inside the recording
  /\ pc \in {"clean", "done"}

(* Words follow each other; the recognizer also yields words of no length. *)
Transcripts ==
  {ws \in UNION {[1 .. n -> Word] : n \in 0 .. MaxWords} :
     \A i \in DOMAIN ws : i > 1 => ws[i - 1].end <= ws[i].start}

Init ==
  /\ words \in Transcripts
  /\ read = 0 /\ out = <<>> /\ clips = <<>> /\ pc = "clean"

-----------------------------------------------------------------------------
(* Mutant: without max(0.0, ...).                                          *)
ClampAbove(t) == IF t > Duration THEN Duration ELSE t
Clamp(t) == IF t < 0 THEN 0 ELSE IF t > Duration THEN Duration ELSE t

Distance(a, b) == IF a < b THEN b - a ELSE a - b

(* _snap_to_word: the boundary nearest to t, the earlier of two that are   *)
(* equally near; without words t itself.                                   *)
Snapped(t, bounds) ==
  IF bounds = {} THEN {t}
  ELSE {x \in bounds : \A y \in bounds :
          \/ Distance(x, t) < Distance(y, t)
          \/ Distance(x, t) = Distance(y, t) /\ x <= y}

Starts == {words[i].start : i \in DOMAIN words}
Ends   == {words[i].end : i \in DOMAIN words}

(* Mutant: ends snap to starts, too.                                       *)
BoundsAtStarts(c) == Snapped(Clamp(c.start), Starts) \X Snapped(Clamp(c.end), Starts)
(* The start and end a candidate has after clamping and snapping.          *)
Bounds(c) == Snapped(Clamp(c.start), Starts) \X Snapped(Clamp(c.end), Ends)
Length(b) == b[2] - b[1]

Inverted(c) == Clamp(c.end) <= Clamp(c.start)

Read == pc = "clean" /\ read < MaxCandidates /\ read' = read + 1

(* Nothing is left of it, or too little.                                   *)
Drop(c) ==
  /\ Read
  /\ Inverted(c) \/ \E b \in Bounds(c) : Length(b) < MinLen
  /\ UNCHANGED <<words, out, clips, pc>>

(* A clip that is too long ends MaxLen after its start.                    *)
Shortened(b) == IF Length(b) > MaxLen THEN b[1] + MaxLen ELSE b[2]
Kept(b, c) == [start |-> b[1], end |-> Shortened(b), score |-> c.score]

(* Mutant: the length is compared before snapping.                         *)
KeepUnsnapped(c) ==
  /\ Read /\ ~Inverted(c)
  /\ Clamp(c.end) - Clamp(c.start) >= MinLen
  /\ \E b \in Bounds(c) : out' = Append(out, Kept(b, c))
  /\ UNCHANGED <<words, clips, pc>>

Keep(c) ==
  /\ Read /\ ~Inverted(c)
  /\ \E b \in Bounds(c) : Length(b) >= MinLen /\ out' = Append(out, Kept(b, c))
  /\ UNCHANGED <<words, clips, pc>>

(* sort(key=score, reverse=True) is stable.                                *)
Ranked(s) ==
  LET Better(i, j) == s[i].score > s[j].score \/ (s[i].score = s[j].score /\ i < j)
      order == Enumeration(DOMAIN s, Better)
  IN [k \in DOMAIN s |-> s[order[k]]]

First(s, n) == SubSeq(s, 1, IF Len(s) < n THEN Len(s) ELSE n)

(* Mutant: the cap before the ranking.                                     *)
CapThenRank ==
  /\ pc = "clean" /\ pc' = "done"
  /\ clips' = Ranked(First(out, MaxClips))
  /\ UNCHANGED <<words, read, out>>
RankAndCap ==
  /\ pc = "clean" /\ pc' = "done"
  /\ clips' = First(Ranked(out), MaxClips)
  /\ UNCHANGED <<words, read, out>>

Next == (\E c \in Candidate : Drop(c) \/ Keep(c)) \/ RankAndCap

Spec == Init /\ [][Next]_vars

-----------------------------------------------------------------------------
(* Every candidate kept has an allowed length, although snapping moves    *)
(* both its ends after the model chose them.                               *)
LengthsInBounds ==
  \A i \in DOMAIN out : out[i].end - out[i].start \in MinLen .. MaxLen

(* Rank n is the n-th best of what was kept, equal scores in the order of  *)
(* the answer: nothing that was left out beats a clip that is in.          *)
BestFirst ==
  pc = "done" =>
    /\ Len(clips) = IF Len(out) < MaxClips THEN Len(out) ELSE MaxClips
    /\ \A k \in DOMAIN clips :
         \E i \in DOMAIN out :
           /\ out[i] = clips[k]
           /\ Cardinality({j \in DOMAIN out :
                \/ out[j].score > out[i].score
                \/ out[j].score = out[i].score /\ j < i}) = k - 1

(* Cuts fall between words: a clip starts with a word, and ends with one   *)
(* unless it has the greatest length.                                      *)
CutsAtWords ==
  words # <<>> =>
    \A i \in DOMAIN out :
      /\ out[i].start \in Starts
      /\ out[i].end \in Ends \/ out[i].end - out[i].start = MaxLen
=============================================================================
