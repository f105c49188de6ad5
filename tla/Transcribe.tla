------------------------------ MODULE Transcribe ------------------------------
(***************************************************************************)
(* The transcribe stage of prepare_video, step by step, in one worker      *)
(* process that executes one task after another: the cached model, the     *)
(* loop over the recognizer's segments, the progress that a callback       *)
(* commits through the task's own session, and the time limits.  Prepare   *)
(* has the stage as one action; this module opens it.                      *)
(***************************************************************************)
EXTENDS Naturals, FiniteSets

CONSTANTS
  Caching,        \* settings.whisper_cache_models
  Duration,       \* length of an audio file; progress 1.0 is Duration + 1
  MaxSegments,    \* bound: segments of one audio file
  TasksPerChild,  \* worker_max_tasks_per_child
  MaxTasks,       \* bound: tasks of the run
  Faults          \* what else may fail: subset of {"db", "limit"}

ASSUME TranscribeAssumption ==
  /\ Caching \in BOOLEAN
  /\ {Duration, MaxSegments, TasksPerChild, MaxTasks} \subseteq Nat \ {0}
  /\ Faults \subseteq {"db", "limit"}

VARIABLES
  pc,       \* next step of the process
  model,    \* of the process: is a model cached, and how many tasks it began
  tasks,    \* tasks begun in all
  run,      \* locals of the task, and what failed in it (history)
  session,  \* can the task's session execute statements?
  row       \* what is committed for the video and its transcribe job

vars == <<pc, model, tasks, run, session, row>>

Full  == Duration + 1     \* progress 1.0
Steps == {"audio", "model", "measure", "segment", "report", "last_report",
          "save", "finish"}
Commits == {"report", "last_report", "save", "finish"}
Places == Steps \cup {"handler"}   \* where an exception may be raised
Errors == {"none", "transient", "permanent", "unexpected"}

FreshProcess == [cached |-> FALSE, tasks |-> 0]
FreshRun == [total |-> 0, at |-> 0, got |-> 0, drained |-> FALSE, soft |-> "none",
             error |-> "none", faults |-> {}]
FreshRow == [video |-> "running", job |-> "running", progress |-> 0, transcript |-> 0]

TypeOK ==
  /\ pc \in Places \cup {"idle", "killed"}
  /\ model \in [cached : BOOLEAN, tasks : 0 .. TasksPerChild]
  /\ tasks \in 0 .. MaxTasks
  /\ run \in [total : {0, Duration}, at : 0 .. Duration + 1, got : 0 .. MaxSegments,
              drained : BOOLEAN, soft : Places \cup {"none"}, error : Errors,
              faults : SUBSET Steps]
  /\ session \in {"ok", "broken"}
  /\ row \in [video : {"running", "failed"}, job : {"running", "completed", "failed"},
              progress : 0 .. Full, transcript : 0 .. MaxSegments]

Init ==
  /\ pc = "idle" /\ tasks = 0 /\ session = "ok"
  /\ model = FreshProcess
  /\ run = FreshRun
  /\ row = [FreshRow EXCEPT !.video = "failed", !.job = "failed"]

(* A task reaches the stage with its ingest committed and opens the job.   *)
(* After TasksPerChild tasks the pool replaces the process.                *)
Begin ==
  /\ pc = "idle" /\ tasks < MaxTasks
  /\ pc' = "audio" /\ tasks' = tasks + 1
  /\ model' = IF model.tasks = TasksPerChild THEN [FreshProcess EXCEPT !.tasks = 1]
                                             ELSE [model EXCEPT !.tasks = @ + 1]
  /\ run' = FreshRun /\ session' = "ok" /\ row' = FreshRow

(* An exception leaves the stage; prepare_video's handlers are next.       *)
Raise(error) ==
  /\ pc' = "handler"
  /\ run' = [run EXCEPT !.error = error, !.faults = @ \cup {pc}]
  /\ UNCHANGED <<model, tasks, session, row>>

Goto(step) == pc' = step /\ UNCHANGED <<model, tasks, run, session, row>>

ExtractAudio == pc = "audio" /\ Goto("model")
ExtractFails == pc = "audio" /\ Raise("transient")
EmptyAudio   == pc = "audio" /\ Raise("permanent")

(* _get_model: the cached model, or a new one, kept if caching is on.      *)
GetModel ==
  /\ pc = "model" /\ pc' = "measure"
  /\ model' = [model EXCEPT !.cached = Caching]
  /\ UNCHANGED <<tasks, run, session, row>>

(* Only the caching branch turns the failure into a TranscriptionError.    *)
LoadFails ==
  /\ pc = "model" /\ ~(Caching /\ model.cached)
  /\ Raise(IF Caching THEN "transient" ELSE "unexpected")

(* ffprobe may report a length of zero, which turns progress off.          *)
Measure ==
  /\ pc = "measure" /\ pc' = "segment"
  /\ \E total \in {0, Duration} : run' = [run EXCEPT !.total = total]
  /\ UNCHANGED <<model, tasks, session, row>>
MeasureFails == pc = "measure" /\ Raise("permanent")

(* The generator yields a segment that ends no earlier than the one        *)
(* before; the last may end beyond the length ffprobe reported.            *)
Segment ==
  /\ pc = "segment" /\ run.got < MaxSegments
  /\ \E at \in run.at .. Duration + 1 : run' = [run EXCEPT !.at = at, !.got = @ + 1]
  /\ pc' = IF run.total = 0 THEN "segment" ELSE "report"
  /\ UNCHANGED <<model, tasks, session, row>>

(* Mutant: an error of the generator ends the loop like its end.           *)
SegmentFailsQuietly ==
  /\ pc = "segment" /\ run.got > 0 /\ pc' = "last_report"
  /\ UNCHANGED <<model, tasks, run, session, row>>
SegmentFails == pc = "segment" /\ Raise("transient")

Drained ==
  /\ pc = "segment" /\ run.got > 0
  /\ pc' = "last_report" /\ run' = [run EXCEPT !.drained = TRUE]
  /\ UNCHANGED <<model, tasks, session, row>>
NoSegments == pc = "segment" /\ run.got = 0 /\ Raise("transient")

After(step) == CASE step = "report"      -> "segment"
                 [] step = "last_report" -> "save"
                 [] step = "save"        -> "finish"
                 [] step = "finish"      -> "idle"

(* Mutant: without the cap at 0.99.                                        *)
ProgressUncapped == IF pc = "last_report" THEN Full ELSE run.at
(* min(seg.end / total, 0.99) in the loop, 1.0 after it.                   *)
Progress == IF pc = "last_report" THEN Full
            ELSE IF run.at < Duration THEN run.at ELSE Duration

(* What the commit of this step writes.                                    *)
Written ==
  CASE pc \in {"report", "last_report"} -> [row EXCEPT !.progress = Progress]
    [] pc = "save"   -> [row EXCEPT !.transcript = run.got]
    [] pc = "finish" -> [row EXCEPT !.job = "completed", !.progress = Full]

Commit ==
  /\ pc \in Commits
  /\ session = "ok"
  /\ row' = Written /\ pc' = After(pc)
  /\ UNCHANGED <<model, tasks, run, session>>

(* A commit that fails leaves a session that refuses every statement until *)
(* it is rolled back, which nothing does.  The callback's failure is       *)
(* logged and the loop goes on; the others reach the handlers.             *)
CommitFails ==
  /\ pc \in Commits
  /\ session = "broken" \/ "db" \in Faults
  /\ session' = "broken"
  /\ run' = [run EXCEPT !.faults = IF session = "ok" THEN @ \cup {pc} ELSE @,
                        !.error = IF pc \in {"save", "finish"} THEN "unexpected" ELSE @]
  /\ pc' = IF pc \in {"save", "finish"} THEN "handler" ELSE After(pc)
  /\ UNCHANGED <<model, tasks, row>>

(* Mutant: only the clause for ClipFarmError.                              *)
HandleTyped ==
  /\ pc = "handler" /\ pc' = "idle"
  /\ row' = IF session = "broken" \/ run.error = "unexpected" THEN row
             ELSE [row EXCEPT !.video = "failed",
                              !.job = IF @ = "running" THEN "failed" ELSE @]
  /\ UNCHANGED <<model, tasks, run, session>>
(* What the handlers' commit writes: the video failed, and the job if it   *)
(* is open.                                                                *)
Failed == [row EXCEPT !.video = "failed", !.job = IF @ = "running" THEN "failed" ELSE @]
Handle ==
  /\ pc = "handler" /\ pc' = "idle"
  /\ row' = IF session = "broken" THEN row ELSE Failed
  /\ UNCHANGED <<model, tasks, run, session>>
HandleFails ==
  /\ pc = "handler" /\ "db" \in Faults
  /\ pc' = "idle" /\ session' = "broken"
  /\ UNCHANGED <<model, tasks, run, row>>

(* The soft limit raises SoftTimeLimitExceeded, an Exception, wherever the *)
(* task is, once.  In a step it comes before, during or after its commit:  *)
(* inside the callback it is swallowed, in the loop it becomes a           *)
(* TranscriptionError, elsewhere what that step's except clause makes of   *)
(* it.                                                                     *)
SoftLimit ==
  /\ "limit" \in Faults /\ pc \in Steps /\ run.soft = "none"
  /\ run' = [run EXCEPT !.soft = pc,
               !.faults = @ \cup {pc},
               !.error = CASE pc \in {"report", "last_report"} -> @
                           [] pc \in {"audio", "segment"} -> "transient"
                           [] pc = "model" -> IF Caching THEN "transient" ELSE "unexpected"
                           [] pc = "measure" -> "permanent"
                           [] pc \in {"save", "finish"} -> "unexpected"]
  /\ pc' = IF pc \in {"report", "last_report"} THEN After(pc) ELSE "handler"
  /\ session' \in IF pc \in Commits THEN {session, "broken"} ELSE {session}
  /\ row' \in IF pc \in Commits /\ session = "ok" THEN {row, Written} ELSE {row}
  /\ UNCHANGED <<model, tasks>>

(* In an except clause no other clause of that try statement catches it:   *)
(* the task ends there, before, during or after the handlers' commit.      *)
SoftLimitInHandler ==
  /\ "limit" \in Faults /\ pc = "handler" /\ run.soft = "none"
  /\ run' = [run EXCEPT !.soft = "handler"] /\ pc' = "idle"
  /\ session' \in {session, "broken"}
  /\ row' \in IF session = "ok" THEN {row, Failed} ELSE {row}
  /\ UNCHANGED <<model, tasks>>

(* An hour later the hard limit kills the process.  Only the loop can last *)
(* that long: a handler is one commit.                                     *)
HardLimit ==
  /\ run.soft # "none" /\ pc \in {"segment", "report"}
  /\ pc' = "killed" /\ model' = FreshProcess
  /\ UNCHANGED <<tasks, run, session, row>>
Replaced == pc = "killed" /\ Goto("idle")

Next ==
  \/ Begin \/ ExtractAudio \/ ExtractFails \/ EmptyAudio
  \/ GetModel \/ LoadFails \/ Measure \/ MeasureFails
  \/ Segment \/ SegmentFails \/ Drained \/ NoSegments
  \/ Commit \/ CommitFails \/ Handle \/ HandleFails
  \/ SoftLimit \/ SoftLimitInHandler \/ HardLimit \/ Replaced

Spec == Init /\ [][Next]_vars

-----------------------------------------------------------------------------
(* A job is completed only after its transcript is committed, and the      *)
(* transcript is the whole one: no failure of a commit, of the recognizer  *)
(* or of the time limit leaves a shorter one that counts as done.          *)
CompletedIsStored ==
  row.job = "completed" => run.drained /\ row.transcript = run.got /\ run.got > 0

(* The dashboard shows 100 % only when the recognizer has nothing left,    *)
(* although a segment may end at or beyond the reported length before the  *)
(* generator is exhausted.                                                 *)
FullOnlyWhenDrained == row.progress = Full => run.drained

(* A task that ends before its transcript is done leaves a failed video,   *)
(* for the dashboard and the retry.  There are three exceptions.  The      *)
(* database took the handlers' session along.  The soft limit fell into    *)
(* the progress callback, which swallows it, and the hard limit killed a   *)
(* task that knew of nothing.  Or the soft limit fell into the handlers    *)
(* themselves, before their commit: the job then says running although the *)
(* session is sound.                                                       *)
FailedUnlessInterrupted ==
  pc \in {"idle", "killed"} /\ row.video = "running" /\ row.job # "completed" =>
    \/ session = "broken"
    \/ run.soft = "report" /\ model = FreshProcess
    \/ run.soft = "handler"

(* A failure of the progress callback alone never fails the task.          *)
ProgressFailureIsHarmless ==
  pc = "handler" => ~(run.faults \subseteq {"report", "last_report"})
=============================================================================
