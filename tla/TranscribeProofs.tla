--------------------------- MODULE TranscribeProofs ---------------------------
(* Proofs about Transcribe, for every length of an audio file, number of   *)
(* segments, tasks, and faults.                                            *)
EXTENDS Transcribe, TLAPS

(* Where the task is tells what it has done: nothing is completed before   *)
(* the last step, the steps after the loop come after its end, a task that *)
(* is still in the loop after the soft limit swallowed it, and only such a *)
(* task is killed.                                                         *)
Placed ==
  /\ pc \in Steps => row.job = "running"
  /\ pc \in {"last_report", "save", "finish"} => run.drained /\ run.got > 0
  /\ pc = "finish" => row.transcript = run.got
  /\ pc \in {"audio", "model", "measure"} => run.soft = "none"
  /\ pc \in {"segment", "report"} => run.soft \in {"none", "report"}
  /\ pc = "killed" => run.soft = "report" /\ model = FreshProcess

Inv == TypeOK /\ Placed /\ CompletedIsStored /\ FullOnlyWhenDrained /\ FailedUnlessInterrupted

RunType ==
  [total : {0, Duration}, at : 0 .. Duration + 1, got : 0 .. MaxSegments,
   drained : BOOLEAN, soft : Places \cup {"none"}, error : Errors, faults : SUBSET Steps]
RowType ==
  [video : {"running", "failed"}, job : {"running", "completed", "failed"},
   progress : 0 .. Full, transcript : 0 .. MaxSegments]

LEMMA Sizes ==
  /\ Duration \in Nat /\ Duration > 0 /\ MaxSegments \in Nat /\ MaxSegments > 0
  /\ TasksPerChild \in Nat /\ TasksPerChild > 0 /\ MaxTasks \in Nat /\ MaxTasks > 0
BY TranscribeAssumption

LEMMA FreshTyped ==
  /\ FreshProcess \in [cached : BOOLEAN, tasks : 0 .. TasksPerChild]
  /\ [FreshProcess EXCEPT !.tasks = 1] \in [cached : BOOLEAN, tasks : 0 .. TasksPerChild]
  /\ FreshRun \in RunType /\ FreshRow \in RowType
<1>1. /\ FreshProcess \in [cached : BOOLEAN, tasks : 0 .. TasksPerChild]
      /\ [FreshProcess EXCEPT !.tasks = 1] \in [cached : BOOLEAN, tasks : 0 .. TasksPerChild]
  <2>1. 0 \in 0 .. TasksPerChild /\ 1 \in 0 .. TasksPerChild  BY Sizes
  <2>2. FreshProcess \in [cached : BOOLEAN, tasks : 0 .. TasksPerChild]  BY <2>1 DEF FreshProcess
  <2>3. [FreshProcess EXCEPT !.tasks = 1] \in [cached : BOOLEAN, tasks : 0 .. TasksPerChild]
    BY <2>1, <2>2
  <2> QED  BY <2>1, <2>2, <2>3
<1>2. FreshRun \in RunType
  BY TranscribeAssumption DEF FreshRun, RunType, Errors, Places
<1>3. FreshRow \in RowType
  BY TranscribeAssumption DEF FreshRow, RowType, Full
<1> QED  BY <1>1, <1>2, <1>3

LEMMA InvInit == Init => Inv
<1> SUFFICES ASSUME Init PROVE Inv
  OBVIOUS
<1>1. TypeOK
  <2>1. [FreshRow EXCEPT !.video = "failed", !.job = "failed"] \in RowType
    BY FreshTyped DEF RowType
  <2> QED  BY <2>1, Sizes, FreshTyped DEF Init, TypeOK, RunType, RowType, Places
<1>2. row.video = "failed" /\ row.job = "failed" /\ row.progress = 0
  BY DEF Init, FreshRow
<1>3. Placed /\ CompletedIsStored /\ FullOnlyWhenDrained /\ FailedUnlessInterrupted
  BY <1>2, TranscribeAssumption
     DEF Init, Placed, CompletedIsStored, FullOnlyWhenDrained, FailedUnlessInterrupted, Full, Places, Steps
<1> QED  BY <1>1, <1>3 DEF Inv

(* What a commit writes has the type of a row.                             *)
LEMMA WrittenTyped ==
  ASSUME TypeOK, pc \in Commits
  PROVE  /\ Written \in [video : {"running", "failed"}, job : {"running", "completed", "failed"},
                         progress : 0 .. Full, transcript : 0 .. MaxSegments]
         /\ Written.video = row.video
         /\ pc \in {"report", "last_report"} =>
              Written.job = row.job /\ Written.transcript = row.transcript
         /\ pc = "report" => Written.progress # Full
         /\ pc = "save" => Written.job = row.job /\ Written.progress = row.progress
                             /\ Written.transcript = run.got
         /\ pc = "finish" => Written.job = "completed" /\ Written.transcript = row.transcript
<1>1. Progress \in 0 .. Full /\ (pc = "report" => Progress # Full)
  BY TranscribeAssumption DEF TypeOK, Progress, Full
<1>2. CASE pc \in {"report", "last_report"}
  <2>1. Written = [row EXCEPT !.progress = Progress]  BY <1>2 DEF Written
  <2> QED  BY <1>1, <1>2, <2>1 DEF TypeOK
<1>3. CASE pc = "save"
  <2>1. Written = [row EXCEPT !.transcript = run.got]  BY <1>3 DEF Written
  <2> QED  BY <1>3, <2>1 DEF TypeOK
<1>4. CASE pc = "finish"
  <2>1. Written = [row EXCEPT !.job = "completed", !.progress = Full]  BY <1>4 DEF Written
  <2>2. Full \in 0 .. Full  BY TranscribeAssumption DEF Full
  <2>3. row \in RowType  BY DEF TypeOK, RowType
  <2>4. Written \in RowType  BY <2>1, <2>2, <2>3 DEF RowType
  <2> QED  BY <1>4, <2>1, <2>3, <2>4 DEF RowType
<1>5. QED  BY <1>2, <1>3, <1>4 DEF Commits

LEMMA AfterCommit ==
  ASSUME pc \in Commits
  PROVE  /\ pc = "report" => After(pc) = "segment"
         /\ pc = "last_report" => After(pc) = "save"
         /\ pc = "save" => After(pc) = "finish"
         /\ pc = "finish" => After(pc) = "idle"
BY DEF Commits, After

LEMMA RaiseKeeps ==
  ASSUME Inv, pc \in Steps, NEW e \in Errors, Raise(e)
  PROVE  Inv'
<1>1. /\ run' \in RunType
      /\ run'.drained = run.drained /\ run'.got = run.got
  BY DEF Inv, TypeOK, Raise, RunType
<1>2. TypeOK'
  BY <1>1 DEF Inv, TypeOK, Raise, RunType, Places
<1>3. pc' = "handler" /\ row' = row /\ session' = session
  BY DEF Raise
<1>4. Placed' /\ FailedUnlessInterrupted'
  BY <1>3 DEF Placed, FailedUnlessInterrupted, Places, Steps
<1>5. CompletedIsStored' /\ FullOnlyWhenDrained'
  BY <1>1, <1>3 DEF Inv, CompletedIsStored, FullOnlyWhenDrained, Full
<1> QED  BY <1>2, <1>4, <1>5 DEF Inv

LEMMA InvStep == Inv /\ [Next]_vars => Inv'
<1> SUFFICES ASSUME Inv, [Next]_vars PROVE Inv'
  OBVIOUS
<1>1. CASE Begin
  <2>1. TypeOK'
    <3>1. tasks' \in 0 .. MaxTasks /\ pc' = "audio" /\ session' = "ok"
          /\ run' = FreshRun /\ row' = FreshRow
      BY <1>1, Sizes DEF Begin, Inv, TypeOK
    <3>2. model' \in [cached : BOOLEAN, tasks : 0 .. TasksPerChild]
      BY <1>1, Sizes, FreshTyped DEF Begin, Inv, TypeOK
    <3> QED  BY <3>1, <3>2, FreshTyped DEF TypeOK, RunType, RowType, Places, Steps
  <2>2. /\ row'.job = "running" /\ row'.progress = 0 /\ run'.soft = "none"
        /\ pc' = "audio" /\ Full # 0
    BY <1>1, TranscribeAssumption DEF Begin, FreshRun, FreshRow, Full
  <2>3. Placed' /\ CompletedIsStored' /\ FullOnlyWhenDrained' /\ FailedUnlessInterrupted'
    BY <2>2 DEF Placed, CompletedIsStored, FullOnlyWhenDrained, FailedUnlessInterrupted, Full
  <2> QED  BY <2>1, <2>3 DEF Inv
<1>2. ASSUME NEW e \in {"transient", "permanent", "unexpected"}, Raise(e),
             pc \in {"audio", "model", "measure", "segment"}
      PROVE  Inv'
  BY <1>2, RaiseKeeps DEF Steps, Errors
<1>7. CASE Segment
  <2>1. PICK at \in run.at .. Duration + 1 : run' = [run EXCEPT !.at = at, !.got = @ + 1]
    BY <1>7 DEF Segment
  <2>2. run.got < MaxSegments /\ run \in RunType /\ at \in 0 .. Duration + 1
    BY <1>7, TranscribeAssumption DEF Segment, Inv, TypeOK, RunType
  <2>3. run' \in RunType
    <3>1. run.got + 1 \in 0 .. MaxSegments  BY <2>2, Sizes DEF RunType
    <3> QED  BY <2>1, <2>2, <3>1 DEF RunType
  <2>4. /\ pc = "segment" /\ pc' \in {"segment", "report"}
        /\ row' = row /\ session' = session
        /\ run'.drained = run.drained /\ run'.soft = run.soft /\ run'.faults = run.faults
    BY <1>7, <2>1, <2>2 DEF Segment, RunType
  <2>5. TypeOK'
    BY <1>7, <2>3, <2>4 DEF Segment, Inv, TypeOK, RunType, Places, Steps
  <2>6. row.job = "running"
    BY <2>4 DEF Inv, Placed, Steps
  <2>7. Placed' /\ CompletedIsStored' /\ FullOnlyWhenDrained' /\ FailedUnlessInterrupted'
    BY <2>4, <2>6 DEF Inv, Placed, CompletedIsStored, FullOnlyWhenDrained, FailedUnlessInterrupted, Full
  <2> QED  BY <2>5, <2>7 DEF Inv
<1> USE TranscribeAssumption
        DEF Inv, TypeOK, Placed, CompletedIsStored, FullOnlyWhenDrained, FailedUnlessInterrupted, Full
<1>3. CASE GetModel
  BY <1>3 DEF GetModel, Places, Steps
<1>4. CASE ExtractAudio
  BY <1>4 DEF ExtractAudio, Goto, Places, Steps
<1>5. CASE Measure
  BY <1>5 DEF Measure, Places, Steps
<1>6. CASE ExtractFails \/ EmptyAudio \/ LoadFails \/ MeasureFails \/ SegmentFails \/ NoSegments
  <2>1. PICK e \in {"transient", "permanent", "unexpected"} :
          Raise(e) /\ pc \in {"audio", "model", "measure", "segment"}
    BY <1>6 DEF ExtractFails, EmptyAudio, LoadFails, MeasureFails, SegmentFails, NoSegments
  <2> QED  BY <1>2, <2>1
<1>8. CASE Drained
  BY <1>8 DEF Drained, Places, Steps
<1>9. CASE Commit
  BY <1>9, WrittenTyped, AfterCommit DEF Commit, Commits, Places, Steps
<1>10. CASE CommitFails
  BY <1>10, AfterCommit DEF CommitFails, Commits, Places, Steps, Errors
<1>11. CASE Handle \/ HandleFails
  BY <1>11 DEF Handle, HandleFails, Failed, Places, Steps
<1>12. CASE SoftLimit
  <2>1. row' = row \/ (pc \in Commits /\ row' = Written)  BY <1>12 DEF SoftLimit
  <2>2. CASE row' = row
    BY <1>12, <2>2, AfterCommit DEF SoftLimit, Commits, Places, Steps, Errors
  <2>3. CASE pc \in Commits /\ row' = Written
    BY <1>12, <2>3, WrittenTyped, AfterCommit DEF SoftLimit, Commits, Places, Steps, Errors
  <2> QED  BY <2>1, <2>2, <2>3
<1>16. CASE SoftLimitInHandler
  BY <1>16 DEF SoftLimitInHandler, Failed, Places, Steps
<1>13. CASE HardLimit
  BY <1>13 DEF HardLimit, FreshProcess, Places, Steps
<1>14. CASE Replaced
  BY <1>14 DEF Replaced, Goto, Places, Steps
<1>15. CASE UNCHANGED vars
  BY <1>15 DEF vars
<1> QED
  BY <1>1, <1>3, <1>4, <1>5, <1>6, <1>7, <1>8, <1>9, <1>10, <1>11, <1>12, <1>13, <1>14,
     <1>15, <1>16 DEF Next

LEMMA Invariant == Spec => []Inv
BY InvInit, InvStep, PTL DEF Spec

(* The locals of the task, its session and the rows keep their types.      *)
THEOREM TranscribeTypes == Spec => []TypeOK
BY Invariant, PTL DEF Inv

(* A transcript that counts as done is all the recognizer yielded, in any  *)
(* history of failing commits, segments, loads and time limits.            *)
THEOREM TranscriptIsWhole == Spec => []CompletedIsStored
BY Invariant, PTL DEF Inv

(* 100 % means that the recognizer has nothing left.                       *)
THEOREM FullMeansDrained == Spec => []FullOnlyWhenDrained
BY Invariant, PTL DEF Inv

(* A video is left running only by a broken session, a kill after a        *)
(* swallowed limit, or a limit that fell into the handlers.                *)
THEOREM OnlyInterruptsLeaveRunning == Spec => []FailedUnlessInterrupted
BY Invariant, PTL DEF Inv
=============================================================================
