------------------------------- MODULE Subtitles ------------------------------
(***************************************************************************)
(* build_ass: the words of a transcript that overlap a clip, in lines of a *)
(* few words, each line an event in which every word is highlighted for    *)
(* the time its \kf tag says.  Times are in hundredths of a second; text,  *)
(* style and escaping are left out.  ClipCaptions says which transcripts   *)
(* and clips there are.                                                    *)
(***************************************************************************)
EXTENDS Integers, Sequences, FiniteSets, Functions, Enumerations

CONSTANTS
  Horizon,    \* where the last word may end
  PerLine     \* style["words_per_line"]

VARIABLES
  transcript,   \* its words, in order
  from, to,     \* the clip
  words,        \* words of the clip, rebased
  next,         \* first word of the next line
  events,       \* Dialogue lines
  pc

vars == <<transcript, from, to, words, next, events, pc>>

Word  == [start : 0 .. Horizon, end : 0 .. Horizon]
Event == [start : 0 .. Horizon, end : 0 .. Horizon, kf : Seq(Nat \ {0}), first : Nat \ {0}]

TypeOK ==
  /\ transcript \in Seq(Word) /\ words \in Seq(Word)
  /\ {from, to} \subseteq 0 .. Horizon
  /\ next \in Nat \ {0}
  /\ events \in Seq(Event)
  /\ pc \in {"select", "lines", "written", "raised"}

Positive(n) == IF n < 0 THEN 0 ELSE n

(* The words of the transcript at some of its indices, in its order.       *)
WordsAt(kept) ==
  LET order == Enumeration(kept, <) IN [k \in DOMAIN order |-> transcript[order[k]]]

(* Mutants: words wholly inside the clip only; not the word at its start.  *)
LaterWords ==
  WordsAt({i \in DOMAIN transcript : transcript[i].start > from /\ transcript[i].start < to})
InsideWords ==
  WordsAt({i \in DOMAIN transcript : from <= transcript[i].start /\ transcript[i].end <= to})

Rebased(w) == [start |-> Positive(w.start - from), end |-> Positive(w.end - from)]

(* _clip_words: the words that overlap the clip.                           *)
Overlapping == {i \in DOMAIN transcript : transcript[i].end > from /\ transcript[i].start < to}
ClipWords == WordsAt(Overlapping)

Select ==
  /\ pc = "select" /\ pc' = "lines"
  /\ words' = [i \in DOMAIN ClipWords |-> Rebased(ClipWords[i])]
  /\ UNCHANGED <<transcript, from, to, next, events>>

(* Mutant: a word is highlighted into the next centisecond.                *)
KfInclusive(w) == w.end - w.start + 1
Kf(w) == IF w.end - w.start < 1 THEN 1 ELSE w.end - w.start

(* The line that begins with word n, and the tags of its words.            *)
Line(n) ==
  LET last == IF n + PerLine - 1 > Len(words) THEN Len(words) ELSE n + PerLine - 1
  IN [start |-> words[n].start, end |-> words[last].end,
      kf |-> [i \in 1 .. last - n + 1 |-> Kf(words[n + i - 1])], first |-> n]

(* A line of no length is left out.                                        *)
AddLine ==
  /\ pc = "lines" /\ next <= Len(words)
  /\ events' = IF Line(next).end <= Line(next).start THEN events
                                                     ELSE Append(events, Line(next))
  /\ next' = next + PerLine
  /\ UNCHANGED <<transcript, from, to, words, pc>>

Write ==
  /\ pc = "lines" /\ next > Len(words)
  /\ pc' = IF events = <<>> THEN "raised" ELSE "written"
  /\ UNCHANGED <<transcript, from, to, words, next, events>>

Next == Select \/ AddLine \/ Write

-----------------------------------------------------------------------------
(* While a word with a duration is spoken in the clip, a line that holds   *)
(* it is on the screen, including words the clip begins or ends in.        *)
SpokenIsShown ==
  pc = "written" =>
    \A i \in DOMAIN transcript : \A t \in from .. to - 1 :
      transcript[i].start <= t /\ t < transcript[i].end =>
        \E e \in Range(events) :
          /\ e.start <= t - from /\ t - from < e.end
          /\ \E k \in DOMAIN e.kf : words[e.first + k - 1] = Rebased(transcript[i])

(* When the highlight reaches the words of an event.                       *)
Reached(e) ==
  LET at[k \in DOMAIN e.kf] == IF k = 1 THEN e.start ELSE at[k - 1] + e.kf[k - 1]
  IN at

(* The highlight never lags behind the voice, but for the least duration   *)
(* that words of no length are given.  (It runs ahead after a pause.)      *)
HighlightNeverLate ==
  \A i \in DOMAIN events : \A k \in DOMAIN events[i].kf :
    LET word(j) == words[events[i].first + j - 1]
        empty == {j \in 1 .. k - 1 : word(j).end = word(j).start}
    IN Reached(events[i])[k] <= word(k).start + Cardinality(empty)
=============================================================================
