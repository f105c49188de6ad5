--------------------------- MODULE ClipFarmProofs ---------------------------
(***************************************************************************)
(* What holds of ClipFarm for every set of videos, workers and titles, for *)
(* every retry limit and for every choice and number of events.            *)
(***************************************************************************)
EXTENDS ClipFarm, TLAPS

----------------------------------------------------------------------------
(* Types.  TypeOK is not inductive alone: Crash and Report put into the    *)
(* broker what the worker's message says, so a slot that is not idle must  *)
(* hold a message; CountRetry writes what the task read from a clip row.   *)

SlotOK(slot) ==
  /\ slot.pc # "idle" => slot.msg \in Messages
  /\ slot.pc = "count_retry" => slot.seen \in ClipRow \cup {None}
Occupied == \A w \in Workers : SlotOK(worker[w])
WorkersOK == worker \in [Workers -> WorkerState] /\ Occupied
TypeInv == TypeOK /\ Occupied

(* Facts about the helpers of the actions.                                 *)
LEMMA BecomeType ==
  ASSUME WorkersOK, NEW w \in Workers, NEW slot \in WorkerState, SlotOK(slot), Become(w, slot)
  PROVE  WorkersOK'
BY DEF WorkersOK, Occupied, Become

LEMMA BusyType ==
  ASSUME WorkersOK, NEW w \in Workers, ~ At(w, "idle")
  PROVE  worker[w] \in WorkerState /\ worker[w].msg \in Messages
BY DEF WorkersOK, Occupied, SlotOK, At

LEMMA GotoType ==
  ASSUME WorkersOK, NEW w \in Workers, ~ At(w, "idle"),
         NEW step \in Steps \ {"count_retry"}, Goto(w, step)
  PROVE  WorkersOK'
<1> DEFINE slot == [worker[w] EXCEPT !.pc = step]
<1>1. slot \in WorkerState /\ SlotOK(slot)
  BY BusyType DEF WorkerState, SlotOK
<1> QED
  BY <1>1, BecomeType DEF Goto

LEMMA SeeType ==
  ASSUME WorkersOK, NEW w \in Workers, ~ At(w, "idle"), NEW step \in Steps,
         NEW seen \in VideoRow \cup ClipRow \cup {None},
         step = "count_retry" => seen \in ClipRow \cup {None},
         Become(w, [worker[w] EXCEPT !.pc = step, !.seen = seen])
  PROVE  WorkersOK'
<1> DEFINE slot == [worker[w] EXCEPT !.pc = step, !.seen = seen]
<1>1. slot \in WorkerState
  BY BusyType DEF WorkerState
<1>2. SlotOK(slot)
  BY BusyType DEF WorkerState, SlotOK
<1> QED
  BY <1>1, <1>2, BecomeType

LEMMA ReturnType ==
  ASSUME WorkersOK, NEW w \in Workers, ~ At(w, "idle"),
         NEW step \in Steps \ {"count_retry"}, Return(w, step)
  PROVE  WorkersOK'
<1> DEFINE slot == [Idle EXCEPT !.pc = step, !.msg = worker[w].msg]
<1>1. slot \in WorkerState
  BY BusyType DEF Idle, WorkerState, Stages, Tallies
<1>2. SlotOK(slot)
  BY BusyType DEF Idle, SlotOK
<1> QED
  BY <1>1, <1>2, BecomeType DEF Return

LEMMA IdleType == Idle \in WorkerState
BY DEF Idle, WorkerState, Steps, Stages, Tallies

LEMMA SubjectType ==
  ASSUME WorkersOK, NEW w \in Workers, Doing(w, "process_video") \/ Doing(w, "finalize_video")
  PROVE  Subject(w) \in Videos
BY BusyType DEF Doing, Subject, Messages

LEMMA TargetType ==
  ASSUME WorkersOK, NEW w \in Workers, Doing(w, "render_clip")
  PROVE  Target(w) \in ClipIds
BY BusyType DEF Doing, Target, Messages

LEMMA ClipIdParts ==
  ASSUME NEW c \in ClipIds
  PROVE  VideoOf(c) \in Videos /\ RunOf(c) \in Runs /\ c[3] \in Nat
BY DEF ClipIds, VideoOf, RunOf, Runs

LEMMA InsertedType ==
  ASSUME NEW T, NEW R, NEW table, DOMAIN table \subseteq T, \A i \in DOMAIN table : table[i] \in R,
         NEW ids \in SUBSET T, NEW row \in R
  PROVE  /\ DOMAIN Inserted(table, ids, row) \subseteq T
         /\ \A i \in DOMAIN Inserted(table, ids, row) : Inserted(table, ids, row)[i] \in R
BY DEF Inserted

(* What an action leaves alone keeps its type.                             *)
LEMMA UnchangedTypes ==
  /\ TablesOK /\ UNCHANGED tables => TablesOK'
  /\ BrokerOK /\ UNCHANGED broker => BrokerOK'
  /\ DiskOK /\ UNCHANGED disk => DiskOK'
  /\ WorkersOK /\ UNCHANGED worker => WorkersOK'
  /\ TypeInv <=> /\ TablesOK /\ BrokerOK /\ DiskOK /\ WorkersOK
                 /\ enqueuing \subseteq Videos /\ used \in Nat
  /\ TypeInv' <=> /\ TablesOK' /\ BrokerOK' /\ DiskOK' /\ WorkersOK'
                  /\ enqueuing' \subseteq Videos /\ used' \in Nat
BY DEF TablesOK, BrokerOK, DiskOK, WorkersOK, Occupied, SlotOK, TypeInv, TypeOK, tables, broker, disk

LEMMA FlushedType ==
  ASSUME NEW S, NEW current \in S, NEW new \in S, NEW loaded
  PROVE  Flushed(current, loaded, new) \in S
BY DEF Flushed

LEMMA VideoUpdateType ==
  ASSUME TablesOK, NEW v \in Videos, NEW status \in JobStatus, NEW error \in Tallies \cup {"prepare"},
         video' = [video EXCEPT ![v] = [@ EXCEPT !.status = status, !.error = error]]
  PROVE  video' \in [Videos -> VideoRow]
<1>1. [video[v] EXCEPT !.status = status, !.error = error] \in VideoRow
  BY DEF TablesOK, VideoRow
<1> QED
  BY <1>1 DEF TablesOK

LEMMA ClipUpdateType ==
  ASSUME TablesOK, NEW c, NEW row, c \in DOMAIN clip => row \in ClipRow,
         clip' = [clip EXCEPT ![c] = row]
  PROVE  DOMAIN clip' \subseteq ClipIds /\ \A i \in DOMAIN clip' : clip'[i] \in ClipRow
BY DEF TablesOK

LEMMA JobUpdateType ==
  ASSUME TablesOK, NEW j, NEW s \in JobStatus, job' = [job EXCEPT ![j] = s]
  PROVE  DOMAIN job' \subseteq JobIds /\ \A i \in DOMAIN job' : job'[i] \in JobStatus
BY DEF TablesOK

LEMMA HappensType == ASSUME used \in Nat, NEW k, Happens(k) PROVE used' \in Nat
BY DEF Happens

LEMMA InitType == Init => TypeInv
<1> SUFFICES ASSUME Init PROVE TypeInv
  OBVIOUS
<1>1. video \in [Videos -> VideoRow]
  <2>1. [NewVideo EXCEPT !.status = "absent"] \in VideoRow
    BY DEF NewVideo, VideoRow, JobStatus, Tallies
  <2> QED
    BY <2>1 DEF Init
<1>2. DOMAIN clip = {} /\ DOMAIN job = {}
  BY DEF Init
<1>3. TablesOK
  BY <1>1, <1>2 DEF TablesOK, Init
<1>4. WorkersOK
  BY IdleType DEF Init, WorkersOK, Occupied, SlotOK, Idle
<1> QED
  BY <1>3, <1>4, UnchangedTypes DEF Init, BrokerOK, DiskOK

LEMMA FreeSlotType ==
  ASSUME WorkersOK, NEW w \in Workers, Become(w, Idle)
  PROVE  WorkersOK'
BY IdleType, BecomeType DEF Idle, SlotOK

LEMMA LosePartType ==
  ASSUME BrokerOK, WorkersOK, NEW w \in Workers, ~ At(w, "idle"), LosePart(worker[w].msg),
         ready' = ready
  PROVE  BrokerOK'
<1>1. IsPart(worker[w].msg) => RunOf(worker[w].msg.clip) \in Runs
  BY BusyType, ClipIdParts DEF Messages, IsPart
<1> QED
  BY <1>1 DEF LosePart, BrokerOK

(* The steps of the broker, of the three tasks and of the API.             *)
LEMMA BrokerType ==
  ASSUME TypeInv, NEW w \in Workers,
         Deliver(w) \/ Report(w) \/ ReportFailure(w) \/ Ack(w)
           \/ Crash(w) \/ Redeliver(w) \/ Kill(w)
  PROVE  TypeInv'
<1> USE UnchangedTypes, HappensType
<1>1. CASE Deliver(w)
  <2>1. PICK m \in ready :
          /\ ready' = ready \ {m}
          /\ Become(w, [Idle EXCEPT !.pc = FirstStep[m.task], !.msg = m])
    BY <1>1 DEF Deliver
  <2>2. m \in Messages /\ FirstStep[m.task] \in Steps \ {"count_retry"}
    BY DEF TypeInv, TypeOK, BrokerOK, Messages, FirstStep, Steps, FinalizeSteps
  <2>3. WorkersOK'
    <3> DEFINE slot == [Idle EXCEPT !.pc = FirstStep[m.task], !.msg = m]
    <3>1. slot \in WorkerState
      BY <2>2 DEF Idle, WorkerState, Stages, Tallies
    <3>2. SlotOK(slot)
      BY <2>2 DEF Idle, SlotOK
    <3> QED
      BY <2>1, <3>1, <3>2, BecomeType
  <2>4. BrokerOK'
    BY <1>1, <2>1 DEF Deliver, BrokerOK
  <2> QED
    BY <1>1, <2>3, <2>4 DEF Deliver
<1>2. CASE Report(w)
  <2>1. BrokerOK'
    <3>1. worker[w].msg.clip \in awaited =>
            Finalize(RunOf(worker[w].msg.clip)) \in Messages
      <4> SUFFICES ASSUME worker[w].msg.clip \in awaited
                   PROVE  Finalize(RunOf(worker[w].msg.clip)) \in Messages
        OBVIOUS
      <4>1. RunOf(worker[w].msg.clip) \in Videos \X Nat
        BY ClipIdParts DEF TypeInv, TypeOK, BrokerOK, Runs
      <4> QED
        BY <4>1 DEF Finalize, Messages
    <3> QED
      BY <1>2, <3>1 DEF Report, BrokerOK
  <2>2. WorkersOK'
    BY <1>2, ReturnType DEF Report, At, Steps
  <2> QED
    BY <1>2, <2>1, <2>2 DEF Report
<1>3. CASE ReportFailure(w)
  <2>1. BrokerOK'
    BY <1>3, LosePartType DEF ReportFailure, At
  <2>2. WorkersOK'
    BY <1>3, ReturnType DEF ReportFailure, At, Steps
  <2> QED
    BY <1>3, <2>1, <2>2 DEF ReportFailure
<1>4. CASE Ack(w)
  <2>1. WorkersOK'
    BY <1>4, FreeSlotType DEF Ack
  <2> QED
    BY <1>4, <2>1 DEF Ack
<1>5. CASE Crash(w)
  <2>1. WorkersOK' /\ BrokerOK'
    BY <1>5, FreeSlotType, BusyType DEF Crash, BrokerOK
  <2> QED
    BY <1>5, <2>1 DEF Crash
<1>6. CASE Redeliver(w)
  <2>1. BrokerOK'
    BY <1>6, BusyType DEF Redeliver, BrokerOK
  <2> QED
    BY <1>6, <2>1 DEF Redeliver
<1>7. CASE Kill(w)
  <2>1. WorkersOK' /\ BrokerOK'
    BY <1>7, FreeSlotType, LosePartType DEF Kill
  <2> QED
    BY <1>7, <2>1 DEF Kill
<1> QED
  BY <1>1, <1>2, <1>3, <1>4, <1>5, <1>6, <1>7

LEMMA OwnClipsType ==
  ASSUME TypeInv, NEW w \in Workers
  PROVE  /\ OwnClips(w) \subseteq ClipIds
         /\ {Render(c, 0, 0) : c \in OwnClips(w)} \subseteq Messages
BY DEF TypeInv, TypeOK, TablesOK, OwnClips, ClipsOfRun, Render, Messages

LEMMA JobOfType ==
  ASSUME TypeInv, NEW w \in Workers, Doing(w, "process_video")
  PROVE  JobOf(w) \in JobIds
BY SubjectType, UnchangedTypes DEF JobOf, JobIds, WorkersOK, WorkerState

LEMMA PrepareType ==
  ASSUME TypeInv, NEW w \in Workers, PrepareStep(w) \/ PrepareFault(w)
  PROVE  TypeInv'
<1> USE UnchangedTypes, HappensType
<1>1. CASE ReadVideo(w)
  <2>1. video[Subject(w)] \in VideoRow
    BY <1>1, SubjectType DEF ReadVideo, Preparing, TablesOK
  <2>2. WorkersOK'
    <3>1. At(w, "start")
      BY <1>1 DEF ReadVideo, Preparing
    <3>2. CASE Return(w, "ack")
      BY <3>1, <3>2, ReturnType DEF At, Steps
    <3>3. CASE Become(w, [worker[w] EXCEPT !.pc = "claim", !.seen = video[Subject(w)]])
      <4>1. "claim" \in Steps /\ ~ At(w, "idle")
        BY <3>1 DEF At, Steps, PrepareSteps
      <4>2. video[Subject(w)] \in VideoRow \cup ClipRow \cup {None}
        BY <2>1
      <4> QED
        BY <3>3, <4>1, <4>2, SeeType
    <3> QED
      BY <1>1, <3>2, <3>3 DEF ReadVideo
  <2> QED
    BY <1>1, <2>2 DEF ReadVideo
<1>2. CASE ClaimVideo(w)
  <2>1. Subject(w) \in Videos
    BY <1>2, SubjectType DEF ClaimVideo, Preparing
  <2>2. TablesOK'
    <3> DEFINE error == Flushed(video[Subject(w)].error, worker[w].seen.error, "none")
    <3>1. error \in Tallies \cup {"prepare"} /\ "running" \in JobStatus
      BY <2>1, FlushedType DEF TablesOK, VideoRow, JobStatus, Tallies
    <3>2. video' \in [Videos -> VideoRow]
      <4>1. video' = [video EXCEPT ![Subject(w)] =
                       [@ EXCEPT !.status = "running", !.error = error]]
        BY <1>2 DEF ClaimVideo
      <4> QED
        BY <2>1, <3>1, <4>1, VideoUpdateType
    <3>3. runs' \in [Videos -> Nat]
      BY <1>2, <2>1 DEF ClaimVideo, TablesOK
    <3> QED
      BY <1>2, <3>2, <3>3 DEF ClaimVideo, TablesOK
  <2>3. WorkersOK'
    <3> DEFINE slot == [worker[w] EXCEPT !.pc = "open_job", !.seen = None,
                                         !.run = runs[Subject(w)] + 1]
    <3>1. runs[Subject(w)] + 1 \in Nat
      BY <2>1 DEF TablesOK
    <3>2. slot \in WorkerState
      BY <3>1 DEF WorkersOK, WorkerState, Steps, PrepareSteps
    <3>3. SlotOK(slot)
      BY <1>2, BusyType DEF ClaimVideo, Preparing, At, WorkerState, SlotOK
    <3> QED
      BY <1>2, <3>2, <3>3, BecomeType DEF ClaimVideo
  <2> QED
    BY <1>2, <2>2, <2>3 DEF ClaimVideo
<1>3. CASE OpenJob(w)
  <2>1. TablesOK'
    <3>1. {JobOf(w)} \in SUBSET JobIds /\ "running" \in JobStatus
      BY <1>3, JobOfType DEF OpenJob, Preparing, JobStatus
    <3> QED
      BY <1>3, <3>1, InsertedType DEF OpenJob, TablesOK
  <2>2. WorkersOK'
    BY <1>3, GotoType DEF OpenJob, Preparing, At, Steps, PrepareSteps
  <2> QED
    BY <1>3, <2>1, <2>2 DEF OpenJob
<1>4. CASE Ingest(w)
  <2>1. Subject(w) \in Videos
    BY <1>4, SubjectType DEF Ingest, Staging, Preparing
  <2>2. TablesOK' /\ DiskOK'
    BY <1>4, <2>1 DEF Ingest, TablesOK, DiskOK, VideoRow
  <2>3. WorkersOK'
    BY <1>4, GotoType DEF Ingest, Staging, Preparing, At, Steps, PrepareSteps
  <2> QED
    BY <1>4, <2>2, <2>3 DEF Ingest
<1>5. CASE Transcribe(w)
  <2>1. TablesOK'
    BY <1>5, SubjectType DEF Transcribe, Staging, Preparing, TablesOK, VideoRow
  <2>2. WorkersOK'
    BY <1>5, GotoType DEF Transcribe, Staging, Preparing, At, Steps, PrepareSteps
  <2> QED
    BY <1>5, <2>1, <2>2 DEF Transcribe
<1>6. CASE Analyze(w)
  <2>1. PICK n \in 0 .. MaxClips :
          clip' = Inserted(clip, {Subject(w)} \X {worker[w].run} \X (1 .. n), NewClip)
    BY <1>6 DEF Analyze
  <2> DEFINE ids == {Subject(w)} \X {worker[w].run} \X (1 .. n)
  <2>2. ids \in SUBSET ClipIds
    BY <1>6, SubjectType, FarmAssumption
       DEF Analyze, Staging, Preparing, ClipIds, WorkersOK, WorkerState
  <2>3. NewClip \in ClipRow
    BY DEF NewClip, ClipRow, ClipStatus
  <2>4. TablesOK'
    <3> HIDE DEF ids
    <3>1. clip' = Inserted(clip, ids, NewClip)
      BY <2>1 DEF ids
    <3> QED
      BY <1>6, <2>2, <2>3, <3>1, InsertedType DEF Analyze, TablesOK
  <2>5. WorkersOK'
    BY <1>6, GotoType DEF Analyze, Staging, Preparing, At, Steps, PrepareSteps
  <2> QED
    BY <1>6, <2>4, <2>5 DEF Analyze
<1>7. CASE CloseJob(w)
  <2>1. TablesOK'
    <3>1. "completed" \in JobStatus
      BY DEF JobStatus
    <3> QED
      BY <1>7, <3>1, JobUpdateType DEF CloseJob, TablesOK
  <2>2. WorkersOK'
    <3>1. At(w, "close_job")
      BY <1>7 DEF CloseJob, Preparing
    <3>2. CASE worker[w].stage = "analyze"
      BY <1>7, <3>1, <3>2, GotoType DEF CloseJob, At, Steps, PrepareSteps
    <3>3. CASE worker[w].stage # "analyze"
      <4> DEFINE slot == [worker[w] EXCEPT !.pc = "open_job", !.stage = Following[@]]
      <4>1. Following[worker[w].stage] \in Stages
        BY <3>3 DEF Following, Stages, WorkersOK, WorkerState
      <4>2. slot \in WorkerState
        BY <4>1 DEF WorkersOK, WorkerState, Steps, PrepareSteps
      <4>3. SlotOK(slot)
        BY <3>1, BusyType DEF At, WorkerState, SlotOK
      <4> QED
        BY <1>7, <3>3, <4>2, <4>3, BecomeType DEF CloseJob
    <3> QED
      BY <3>2, <3>3
  <2> QED
    BY <1>7, <2>1, <2>2 DEF CloseJob
<1>8. ASSUME NEW e \in Errors, StageFails(w, e)
      PROVE  TypeInv'
  <2>1. Subject(w) \in Videos
    BY <1>8, SubjectType DEF StageFails, Preparing
  <2>2. TablesOK' /\ DiskOK'
    BY <1>8, <2>1 DEF StageFails, TablesOK, DiskOK, VideoRow, JobStatus
  <2>3. WorkersOK'
    BY <1>8, ReturnType DEF StageFails, Preparing, At, Steps, PrepareSteps
  <2> QED
    BY <1>8, <2>2, <2>3 DEF StageFails
<1>9. CASE RetryProcess(w)
  <2>1. Process(Subject(w), worker[w].msg.retries + 1) \in Messages
    BY <1>9, SubjectType, BusyType
       DEF RetryProcess, Preparing, Doing, Messages, Process
  <2>2. BrokerOK'
    BY <1>9, <2>1 DEF RetryProcess, BrokerOK
  <2>3. WorkersOK'
    BY <1>9, ReturnType DEF RetryProcess, Preparing, At, Steps
  <2> QED
    BY <1>9, <2>2, <2>3 DEF RetryProcess
<1>10. CASE Dispatch(w)
  <2>1. BrokerOK'
    BY <1>10, OwnClipsType DEF Dispatch, BrokerOK
  <2>2. WorkersOK'
    BY <1>10, ReturnType DEF Dispatch, Preparing, At, Steps, FinalizeSteps
  <2> QED
    BY <1>10, <2>1, <2>2 DEF Dispatch
<1>11. CASE RetryProcessFails(w)
  <2>1. WorkersOK'
    BY <1>11, ReturnType DEF RetryProcessFails, Preparing, At, Steps
  <2> QED
    BY <1>11, <2>1 DEF RetryProcessFails
<1>12. CASE DispatchFails(w)
  <2>1. PICK sent \in SUBSET OwnClips(w) : ready' = ready \cup {Render(c, 0, 0) : c \in sent}
    BY <1>12 DEF DispatchFails
  <2>2. <<Subject(w), worker[w].run>> \in Runs
    BY <1>12, SubjectType DEF DispatchFails, Preparing, Runs, WorkersOK, WorkerState
  <2>3. BrokerOK'
    BY <1>12, <2>1, <2>2, OwnClipsType DEF DispatchFails, BrokerOK
  <2>4. WorkersOK'
    BY <1>12, ReturnType DEF DispatchFails, Preparing, At, Steps
  <2> QED
    BY <1>12, <2>3, <2>4 DEF DispatchFails
<1>13. CASE PrepareCommitFails(w)
  <2>1. WorkersOK'
    BY <1>13, ReturnType DEF PrepareCommitFails, Preparing, At, Steps
  <2>2. DiskOK'
    BY <1>13, SubjectType DEF PrepareCommitFails, Staging, Preparing, DiskOK
  <2> QED
    BY <1>13, <2>1, <2>2 DEF PrepareCommitFails
<1> QED
  BY <1>1, <1>2, <1>3, <1>4, <1>5, <1>6, <1>7, <1>8, <1>9, <1>10, <1>11, <1>12, <1>13
     DEF PrepareStep, PrepareFault

LEMMA RenderType ==
  ASSUME TypeInv, NEW w \in Workers, RenderStep(w) \/ RenderFault(w)
  PROVE  TypeInv'
<1> USE UnchangedTypes, HappensType
<1>0. ASSUME NEW step, Rendering(w, step), step # "idle"
      PROVE  /\ ~ At(w, "idle") /\ Target(w) \in ClipIds /\ worker[w] \in WorkerState
             /\ Target(w) \in DOMAIN clip => clip[Target(w)] \in ClipRow
  BY <1>0, TargetType, BusyType DEF Rendering, At, TablesOK
<1>1. CASE ReadClip(w)
  <2>1. Get(clip, Target(w)) \in VideoRow \cup ClipRow \cup {None}
    BY DEF Get, TablesOK
  <2>2. ~ At(w, "idle")
    BY <1>0, <1>1 DEF ReadClip
  <2>3. "report" \in Steps /\ "mark_rendering" \in Steps
    BY DEF Steps, RenderSteps
  <2>4. WorkersOK'
    BY <1>1, <2>1, <2>2, <2>3, SeeType, ReturnType DEF ReadClip
  <2> QED
    BY <1>1, <2>4 DEF ReadClip
<1>2. CASE MarkRendering(w)
  <2> DEFINE status == Flushed(clip[Target(w)].status, worker[w].seen.status, "rendering")
             error == Flushed(clip[Target(w)].error, worker[w].seen.error, FALSE)
  <2>1. Target(w) \in DOMAIN clip =>
          [clip[Target(w)] EXCEPT !.status = status, !.error = error] \in ClipRow
    <3> SUFFICES ASSUME Target(w) \in DOMAIN clip
                 PROVE  [clip[Target(w)] EXCEPT !.status = status, !.error = error] \in ClipRow
      OBVIOUS
    <3>1. clip[Target(w)] \in ClipRow
      BY DEF TablesOK
    <3>2. status \in ClipStatus /\ error \in BOOLEAN
      BY <3>1 DEF ClipRow, ClipStatus, Flushed
    <3> QED
      BY <3>1, <3>2 DEF ClipRow
  <2>2. TablesOK'
    BY <1>2, <2>1, ClipUpdateType DEF MarkRendering, TablesOK
  <2>3. WorkersOK'
    BY <1>0, <1>2, GotoType DEF MarkRendering, Steps, RenderSteps
  <2> QED
    BY <1>2, <2>2, <2>3 DEF MarkRendering
<1>3. CASE MakeDir(w)
  <2>1. DiskOK'
    BY <1>0, <1>3 DEF MakeDir, DiskOK, Files
  <2>2. WorkersOK'
    BY <1>0, <1>3, GotoType DEF MakeDir, Steps, RenderSteps
  <2> QED
    BY <1>3, <2>1, <2>2 DEF MakeDir
<1>4. CASE Cut(w)
  <2>1. DiskOK'
    BY <1>0, <1>4 DEF Cut, DiskOK, Files
  <2>2. WorkersOK'
    BY <1>0, <1>4, GotoType DEF Cut, Steps, RenderSteps
  <2> QED
    BY <1>4, <2>1, <2>2 DEF Cut
<1>5. CASE Reframe(w)
  <2>1. DiskOK'
    BY <1>0, <1>5 DEF Reframe, DiskOK, Files
  <2>2. WorkersOK'
    <3>1. PICK t \in Titles : Become(w, [worker[w] EXCEPT !.pc = "burn", !.title = t])
      BY <1>5 DEF Reframe
    <3>2. ~ At(w, "idle")
      BY <1>0, <1>5 DEF Reframe
    <3> DEFINE slot == [worker[w] EXCEPT !.pc = "burn", !.title = t]
    <3>3. slot \in WorkerState
      BY <3>2, BusyType DEF WorkerState, Steps, RenderSteps
    <3>4. SlotOK(slot)
      BY <3>2, BusyType DEF WorkerState, SlotOK
    <3> QED
      BY <3>1, <3>3, <3>4, BecomeType
  <2> QED
    BY <1>5, <2>1, <2>2 DEF Reframe
<1>6. CASE Burn(w)
  <2>1. DiskOK'
    BY <1>6 DEF Burn, DiskOK
  <2>2. WorkersOK'
    BY <1>0, <1>6, GotoType DEF Burn, Steps, RenderSteps
  <2> QED
    BY <1>6, <2>1, <2>2 DEF Burn
<1>7. CASE Package(w)
  <2>1. Final(w) \in Videos \X Nat \X (Titles \cup {None})
    BY <1>0, <1>7 DEF Package, Final, OutputOf, WorkerState, ClipIds
  <2>2. DiskOK'
    BY <1>7, <2>1 DEF Package, DiskOK
  <2>3. WorkersOK'
    BY <1>0, <1>7, GotoType DEF Package, Steps, RenderSteps
  <2> QED
    BY <1>7, <2>2, <2>3 DEF Package
<1>8. CASE MarkCompleted(w)
  <2> DEFINE output == Flushed(clip[Target(w)].output, worker[w].seen.output, worker[w].title)
  <2>1. Target(w) \in DOMAIN clip =>
          [clip[Target(w)] EXCEPT !.status = "completed", !.output = output] \in ClipRow
    <3> SUFFICES ASSUME Target(w) \in DOMAIN clip
                 PROVE  [clip[Target(w)] EXCEPT !.status = "completed", !.output = output]
                          \in ClipRow
      OBVIOUS
    <3>1. clip[Target(w)] \in ClipRow
      BY DEF TablesOK
    <3>2. output \in Titles \cup {None}
      BY <1>0, <1>8, <3>1, FlushedType DEF MarkCompleted, WorkerState, ClipRow
    <3> QED
      BY <3>1, <3>2 DEF ClipRow, ClipStatus
  <2>2. TablesOK'
    BY <1>8, <2>1, ClipUpdateType DEF MarkCompleted, TablesOK
  <2>3. WorkersOK'
    BY <1>0, <1>8, GotoType DEF MarkCompleted, Steps, RenderSteps
  <2> QED
    BY <1>8, <2>2, <2>3 DEF MarkCompleted
<1>9. CASE RemoveDir(w)
  <2>1. DiskOK'
    BY <1>9 DEF RemoveDir, DiskOK
  <2>2. WorkersOK'
    BY <1>0, <1>9, ReturnType DEF RemoveDir, Steps, RenderSteps
  <2> QED
    BY <1>9, <2>1, <2>2 DEF RemoveDir
<1>10. ASSUME NEW e \in Errors, RenderFails(w, e)
       PROVE  TypeInv'
  <2>1. ~ At(w, "idle") /\ worker[w] \in WorkerState
    BY <1>0, <1>10 DEF RenderFails
  <2>2. Target(w) \in DOMAIN clip =>
          [clip[Target(w)] EXCEPT !.status = "failed", !.error = TRUE] \in ClipRow
    BY DEF TablesOK, ClipRow, ClipStatus
  <2>3. TablesOK'
    BY <1>10, <2>2, ClipUpdateType DEF RenderFails, TablesOK
  <2>4. WorkersOK'
    <3> DEFINE slot == [worker[w] EXCEPT !.pc = "render_failed", !.err = e, !.seen = None,
                                         !.title = None]
    <3>1. slot \in WorkerState
      BY <2>1 DEF WorkerState, Steps, RenderSteps
    <3>2. SlotOK(slot)
      BY <2>1, BusyType DEF WorkerState, SlotOK
    <3> QED
      BY <1>10, <3>1, <3>2, BecomeType DEF RenderFails
  <2> QED
    BY <1>10, <2>3, <2>4 DEF RenderFails
<1>11. CASE HandleRenderError(w)
  <2>1. DiskOK'
    BY <1>11 DEF HandleRenderError, DiskOK
  <2>2. Get(clip, Target(w)) \in ClipRow \cup {None}
    BY DEF Get, TablesOK
  <2>3. ~ At(w, "idle") /\ "report" \in Steps /\ "count_retry" \in Steps
    BY <1>0, <1>11 DEF HandleRenderError, Steps, RenderSteps
  <2>4. WorkersOK'
    BY <1>11, <2>2, <2>3, SeeType, ReturnType DEF HandleRenderError
  <2> QED
    BY <1>11, <2>1, <2>4 DEF HandleRenderError
<1>12. CASE CountRetry(w)
  <2>1. worker[w].seen # None => worker[w].seen \in ClipRow
    BY <1>12 DEF CountRetry, Rendering, At, WorkersOK, Occupied, SlotOK
  <2>2. TablesOK'
    <3>1. CASE worker[w].seen = None
      BY <1>12, <3>1 DEF CountRetry, TablesOK
    <3>2. CASE worker[w].seen # None
      <4> DEFINE row == [clip[Target(w)] EXCEPT !.retries = worker[w].seen.retries + 1]
      <4>1. Target(w) \in DOMAIN clip => row \in ClipRow
        BY <2>1, <3>2 DEF TablesOK, ClipRow
      <4>2. clip' = [clip EXCEPT ![Target(w)] = row]
        BY <1>12, <3>2 DEF CountRetry
      <4> HIDE DEF row
      <4> QED
        BY <1>12, <4>1, <4>2, ClipUpdateType DEF CountRetry, TablesOK
    <3> QED
      BY <3>1, <3>2
  <2>3. WorkersOK'
    BY <1>0, <1>12, ReturnType DEF CountRetry, Steps, RenderSteps
  <2> QED
    BY <1>12, <2>2, <2>3 DEF CountRetry
<1>13. CASE RetryRender(w)
  <2>1. Render(worker[w].msg.clip, worker[w].msg.request, worker[w].msg.retries + 1) \in Messages
    BY <1>13, BusyType DEF RetryRender, Rendering, Doing, Messages, Render
  <2>2. BrokerOK'
    BY <1>13, <2>1 DEF RetryRender, BrokerOK
  <2>3. WorkersOK'
    BY <1>0, <1>13, ReturnType DEF RetryRender, Steps
  <2> QED
    BY <1>13, <2>2, <2>3 DEF RetryRender
<1>14. CASE Report(w) \/ ReportFailure(w)
  BY <1>14, BrokerType
<1>15. CASE MakeDirFails(w)
  <2>1. WorkersOK'
    BY <1>0, <1>15, ReturnType DEF MakeDirFails, Steps, RenderSteps
  <2> QED
    BY <1>15, <2>1 DEF MakeDirFails
<1>16. CASE RetryRenderFails(w)
  <2>1. WorkersOK'
    BY <1>0, <1>16, ReturnType DEF RetryRenderFails, Steps, RenderSteps
  <2> QED
    BY <1>16, <2>1 DEF RetryRenderFails
<1>17. CASE RenderCommitFails(w)
  <2>1. WorkersOK'
    BY <1>0, <1>17, ReturnType DEF RenderCommitFails, Steps, RenderSteps
  <2> QED
    BY <1>17, <2>1 DEF RenderCommitFails
<1>18. CASE CountRetryFails(w)
  <2>1. WorkersOK'
    BY <1>0, <1>18, ReturnType DEF CountRetryFails, Steps, RenderSteps
  <2> QED
    BY <1>18, <2>1 DEF CountRetryFails
<1> QED
  BY <1>1, <1>2, <1>3, <1>4, <1>5, <1>6, <1>7, <1>8, <1>9, <1>10, <1>11, <1>12, <1>13,
     <1>14, <1>15, <1>16, <1>17, <1>18
     DEF RenderStep, RenderFault

LEMMA FinalizeType ==
  ASSUME TypeInv, NEW w \in Workers, FinalizeStep(w) \/ FinalizeFault(w)
  PROVE  TypeInv'
<1> USE UnchangedTypes, HappensType
<1>0. ASSUME NEW step, Finalizing(w, step), step # "idle"
      PROVE  /\ ~ At(w, "idle") /\ Subject(w) \in Videos /\ worker[w] \in WorkerState
             /\ video[Subject(w)] \in VideoRow
  BY <1>0, SubjectType, BusyType DEF Finalizing, At, TablesOK
<1>1. CASE ReadClips(w)
  <2> DEFINE slot == [worker[w] EXCEPT !.pc = "mark_finalized", !.seen = video[Subject(w)],
                                       !.tally = Tally(Subject(w))]
  <2>1. ~ At(w, "idle") /\ worker[w] \in WorkerState /\ video[Subject(w)] \in VideoRow
    BY <1>0, <1>1 DEF ReadClips
  <2>2. Tally(Subject(w)) \in Tallies
    BY DEF Tally, Tallies
  <2>3. slot \in WorkerState
    BY <2>1, <2>2 DEF WorkerState, Steps, FinalizeSteps
  <2>4. SlotOK(slot)
    BY <2>1, BusyType DEF WorkerState, SlotOK
  <2>5. WorkersOK'
    BY <1>1, <2>3, <2>4, BecomeType DEF ReadClips
  <2> QED
    BY <1>1, <2>5 DEF ReadClips
<1>2. CASE MarkFinalized(w)
  <2> DEFINE now == video[Subject(w)]
             status == Flushed(now.status, worker[w].seen.status, "completed")
             error == IF worker[w].tally = "none"
                        THEN now.error
                        ELSE Flushed(now.error, worker[w].seen.error, worker[w].tally)
  <2>1. Subject(w) \in Videos /\ worker[w] \in WorkerState /\ now \in VideoRow
    BY <1>0, <1>2 DEF MarkFinalized
  <2>2. [now EXCEPT !.status = status, !.error = error] \in VideoRow
    <3>1. status \in JobStatus \cup {"absent"}
      BY <2>1 DEF VideoRow, JobStatus, Flushed
    <3>2. error \in Tallies \cup {"prepare"}
      BY <2>1 DEF VideoRow, Tallies, Flushed, WorkerState
    <3> QED
      BY <2>1, <3>1, <3>2 DEF VideoRow
  <2>3. TablesOK'
    BY <1>2, <2>1, <2>2 DEF MarkFinalized, TablesOK
  <2>4. WorkersOK'
    BY <1>0, <1>2, GotoType DEF MarkFinalized, Steps, FinalizeSteps
  <2> QED
    BY <1>2, <2>3, <2>4 DEF MarkFinalized
<1>3. CASE RemoveWorkspace(w)
  <2>1. DiskOK'
    BY <1>3 DEF RemoveWorkspace, DropWorkspace, DiskOK
  <2>2. WorkersOK'
    BY <1>0, <1>3, ReturnType DEF RemoveWorkspace, Steps
  <2> QED
    BY <1>3, <2>1, <2>2 DEF RemoveWorkspace
<1>4. CASE RemoveWorkspaceFails(w)
  <2>1. WorkersOK'
    BY <1>0, <1>4, ReturnType DEF RemoveWorkspaceFails, Steps
  <2>2. DiskOK'
    BY <1>4 DEF RemoveWorkspaceFails, DiskOK
  <2> QED
    BY <1>4, <2>1, <2>2 DEF RemoveWorkspaceFails
<1>5. CASE FinalizeCommitFails(w)
  <2>1. WorkersOK'
    BY <1>0, <1>5, ReturnType DEF FinalizeCommitFails, Steps
  <2> QED
    BY <1>5, <2>1 DEF FinalizeCommitFails
<1> QED
  BY <1>1, <1>2, <1>3, <1>4, <1>5 DEF FinalizeStep, FinalizeFault

LEMMA ApiType ==
  ASSUME TypeInv,
         NEW v \in Videos, CreateVideo(v) \/ Enqueue(v) \/ EnqueueFails(v) \/ Purge(v)
  PROVE  TypeInv'
<1> USE UnchangedTypes, HappensType
<1>1. CASE CreateVideo(v)
  <2>1. TablesOK'
    BY <1>1 DEF CreateVideo, TablesOK, NewVideo, VideoRow, JobStatus, Tallies
  <2> QED
    BY <1>1, <2>1 DEF CreateVideo
<1>2. CASE Enqueue(v)
  <2>1. BrokerOK'
    BY <1>2 DEF Enqueue, BrokerOK, Process, Messages
  <2> QED
    BY <1>2, <2>1 DEF Enqueue
<1>3. CASE EnqueueFails(v)
  BY <1>3 DEF EnqueueFails
<1>4. CASE Purge(v)
  <2>1. DiskOK'
    BY <1>4 DEF Purge, DropWorkspace, DiskOK
  <2> QED
    BY <1>4, <2>1 DEF Purge
<1> QED
  BY <1>1, <1>2, <1>3, <1>4

LEMMA RerenderType ==
  ASSUME TypeInv, NEW c \in DOMAIN clip, Rerender(c)
  PROVE  TypeInv'
<1>1. Render(c, used + 1, 0) \in Messages
  BY UnchangedTypes DEF Render, Messages, TablesOK
<1>2. BrokerOK'
  BY <1>1, UnchangedTypes DEF Rerender, BrokerOK
<1> QED
  BY <1>2, UnchangedTypes, HappensType DEF Rerender

LEMMA TypesHold == Spec => []TypeInv
<1>1. Init => TypeInv
  BY InitType
<1>2. TypeInv /\ [Next]_vars => TypeInv'
  <2> SUFFICES ASSUME TypeInv, [Next]_vars PROVE TypeInv'
    OBVIOUS
  <2>1. ASSUME NEW v \in Videos, CreateVideo(v) \/ Enqueue(v) \/ EnqueueFails(v) \/ Purge(v)
        PROVE  TypeInv'
    BY <2>1, ApiType
  <2>2. ASSUME NEW w \in Workers, Deliver(w) \/ WorkerStep(w) \/ WorkerFault(w)
        PROVE  TypeInv'
    BY <2>2, BrokerType, PrepareType, RenderType, FinalizeType DEF WorkerStep, WorkerFault
  <2>3. ASSUME NEW c \in DOMAIN clip, Rerender(c)
        PROVE  TypeInv'
    BY <2>3, RerenderType
  <2>4. CASE UNCHANGED vars
    BY <2>4, UnchangedTypes DEF vars
  <2> QED
    BY <2>1, <2>2, <2>3, <2>4 DEF Next
<1> QED
  BY <1>1, <1>2, PTL DEF Spec

(* Every message, row, file name and local variable is of its type: no     *)
(* step of any task meets a message of another task, a status its column   *)
(* cannot hold or a retry count that is not a number.                      *)
THEOREM TypeCorrect == Spec => []TypeOK
<1>1. TypeInv => TypeOK
  BY DEF TypeInv
<1> QED
  BY <1>1, TypesHold, PTL

----------------------------------------------------------------------------
(* No render is lost.  NoLostRender is inductive given the types: a worker *)
(* stops carrying a part only when the part returns, fails, or is back in  *)
(* the broker.                                                             *)

Carries(w) == worker[w].pc \notin {"idle", "ack"}

(* One slot changes and the broker loses nothing: it suffices that what    *)
(* the slot carried is still carried, and that new parts are published.    *)
LEMMA CarryOn ==
  ASSUME TypeInv, NoLostRender, NEW w \in Workers, NEW slot, Become(w, slot),
         ready \subseteq ready',
         \A c \in awaited' : c \in awaited \/ \E m \in ready' : CarriedBy(c, m),
         \A c \in awaited' :
           Carries(w) /\ CarriedBy(c, worker[w].msg) =>
             \/ slot.pc \notin {"idle", "ack"} /\ slot.msg = worker[w].msg
             \/ \E m \in ready' : CarriedBy(c, m)
  PROVE  NoLostRender'
<1> SUFFICES ASSUME NEW c \in awaited', ~ \E m \in ready' : CarriedBy(c, m)
             PROVE  \E u \in Workers : Carries(u)' /\ CarriedBy(c, worker'[u].msg)
  BY DEF NoLostRender, Carries, CarriedBy, IsPart
<1>1. PICK u \in Workers : Carries(u) /\ CarriedBy(c, worker[u].msg)
  BY DEF NoLostRender, Carries
<1>2. worker \in [Workers -> WorkerState]
  BY DEF TypeInv, TypeOK
<1>3. worker'[w] = slot /\ \A x \in Workers \ {w} : worker'[x] = worker[x]
  BY <1>2 DEF Become
<1>4. Carries(u)' /\ worker'[u].msg = worker[u].msg
  BY <1>1, <1>3 DEF Carries
<1> QED
  BY <1>1, <1>4

(* A step of a render that goes on keeps its message.                      *)
LEMMA KeepsMessage ==
  ASSUME TypeInv, NoLostRender, NEW w \in Workers, UNCHANGED broker, NEW slot, Become(w, slot),
         slot.pc \notin {"idle", "ack"}, slot.msg = worker[w].msg
  PROVE  NoLostRender'
BY CarryOn DEF broker

LEMMA GotoCarries ==
  ASSUME TypeInv, NoLostRender, NEW w \in Workers, worker[w] \in WorkerState, UNCHANGED broker,
         NEW step, step \notin {"idle", "ack"}, Goto(w, step) \/ Return(w, step)
  PROVE  NoLostRender'
<1>1. CASE Goto(w, step)
  <2> DEFINE slot == [worker[w] EXCEPT !.pc = step]
  <2>1. slot.pc = step /\ slot.msg = worker[w].msg
    BY DEF WorkerState
  <2>2. Become(w, slot)
    BY <1>1 DEF Goto
  <2> QED
    BY <2>1, <2>2, KeepsMessage
<1>2. CASE Return(w, step)
  <2> DEFINE slot == [Idle EXCEPT !.pc = step, !.msg = worker[w].msg]
  <2>1. slot.pc = step /\ slot.msg = worker[w].msg
    BY DEF Idle
  <2>2. Become(w, slot)
    BY <1>2 DEF Return
  <2> QED
    BY <2>1, <2>2, KeepsMessage
<1> QED
  BY <1>1, <1>2

(* A task that is not a part of a chord may do as it likes with its slot.  *)
LEMMA OtherTaskCarries ==
  ASSUME TypeInv, NoLostRender, NEW w \in Workers, NEW slot, Become(w, slot),
         ~ IsPart(worker[w].msg) \/ ~ Carries(w),
         ready \subseteq ready', awaited' = awaited
  PROVE  NoLostRender'
BY CarryOn DEF CarriedBy

LEMMA LosePartCarries ==
  ASSUME TypeInv, NoLostRender, NEW w \in Workers, NEW slot, Become(w, slot),
         LosePart(worker[w].msg), ready' = ready
  PROVE  NoLostRender'
<1>1. awaited' \subseteq awaited
  BY DEF LosePart
<1>2. \A c \in awaited' : ~ CarriedBy(c, worker[w].msg)
  BY DEF LosePart, CarriedBy
<1> QED
  BY <1>1, <1>2, CarryOn

LEMMA BrokerCarries ==
  ASSUME TypeInv, NoLostRender, NEW w \in Workers,
         Deliver(w) \/ Report(w) \/ ReportFailure(w) \/ Ack(w)
           \/ Crash(w) \/ Redeliver(w) \/ Kill(w)
  PROVE  NoLostRender'
<1>1. CASE Deliver(w)
  <2>1. PICK m \in ready :
          /\ ready' = ready \ {m}
          /\ Become(w, [Idle EXCEPT !.pc = FirstStep[m.task], !.msg = m])
    BY <1>1 DEF Deliver
  <2>2. worker \in [Workers -> WorkerState] /\ m \in Messages
    BY DEF TypeInv, TypeOK, BrokerOK
  <2>3. worker'[w].msg = m /\ worker'[w].pc \notin {"idle", "ack"}
    BY <2>1, <2>2 DEF Become, Idle, FirstStep, Messages
  <2>4. \A u \in Workers \ {w} : worker'[u] = worker[u]
    BY <2>1, <2>2 DEF Become
  <2>5. ~ Carries(w) /\ awaited' = awaited
    BY <1>1 DEF Deliver, At, Carries
  <2> QED
    BY <2>1, <2>3, <2>4, <2>5 DEF NoLostRender, Carries, CarriedBy, IsPart
<1>2. CASE Report(w)
  <2>1. ready \subseteq ready' /\ awaited' \subseteq awaited
    BY <1>2 DEF Report
  <2>2. \A c \in awaited' : ~ CarriedBy(c, worker[w].msg)
    BY <1>2 DEF Report, CarriedBy
  <2>3. PICK slot : Become(w, slot)
    BY <1>2 DEF Report, Return
  <2> QED
    BY <2>1, <2>2, <2>3, CarryOn
<1>3. CASE ReportFailure(w)
  BY <1>3, LosePartCarries DEF ReportFailure, Return
<1>4. CASE Ack(w)
  BY <1>4, OtherTaskCarries DEF Ack, At, Carries, broker
<1>5. CASE Crash(w)
  BY <1>5, CarryOn DEF Crash
<1>6. CASE Redeliver(w)
  BY <1>6 DEF Redeliver, NoLostRender, CarriedBy
<1>7. CASE Kill(w)
  BY <1>7, LosePartCarries DEF Kill
<1> QED
  BY <1>1, <1>2, <1>3, <1>4, <1>5, <1>6, <1>7

LEMMA PrepareCarries ==
  ASSUME TypeInv, NoLostRender, NEW w \in Workers, PrepareStep(w) \/ PrepareFault(w)
  PROVE  NoLostRender'
<1>1. ~ IsPart(worker[w].msg)
  BY DEF PrepareStep, PrepareFault, ReadVideo, ClaimVideo, OpenJob, Staging, Ingest, Transcribe,
         Analyze, CloseJob, StageFails, RetryProcess, Dispatch, RetryProcessFails, DispatchFails,
         PrepareCommitFails, Preparing, Doing, IsPart
<1>2. PICK slot : Become(w, slot)
  BY DEF PrepareStep, PrepareFault, ReadVideo, ClaimVideo, OpenJob, Ingest, Transcribe,
         Analyze, CloseJob, StageFails, RetryProcess, Dispatch, RetryProcessFails, DispatchFails,
         PrepareCommitFails, Goto, Return
<1>3. CASE Dispatch(w)
  <2>1. \A c \in OwnClips(w) : Render(c, 0, 0) \in ready' /\ CarriedBy(c, Render(c, 0, 0))
    BY <1>3 DEF Dispatch, CarriedBy, IsPart, Render
  <2>2. ready \subseteq ready' /\ awaited' = awaited \cup OwnClips(w)
    BY <1>3 DEF Dispatch
  <2> QED
    BY <1>1, <1>2, <2>1, <2>2, CarryOn DEF CarriedBy
<1>4. CASE ~ Dispatch(w)
  <2>1. ready \subseteq ready' /\ awaited' = awaited
    BY <1>4
       DEF PrepareStep, PrepareFault, ReadVideo, ClaimVideo, OpenJob, Ingest, Transcribe,
           Analyze, CloseJob, StageFails, RetryProcess, RetryProcessFails, DispatchFails,
           PrepareCommitFails, broker
  <2> QED
    BY <1>1, <1>2, <2>1, OtherTaskCarries
<1> QED
  BY <1>3, <1>4

LEMMA FinalizeCarries ==
  ASSUME TypeInv, NoLostRender, NEW w \in Workers, FinalizeStep(w) \/ FinalizeFault(w)
  PROVE  NoLostRender'
<1>1. ~ IsPart(worker[w].msg)
  BY DEF FinalizeStep, FinalizeFault, ReadClips, MarkFinalized, RemoveWorkspace,
         RemoveWorkspaceFails, FinalizeCommitFails, Finalizing, Doing, IsPart
<1>2. PICK slot : Become(w, slot)
  BY DEF FinalizeStep, FinalizeFault, ReadClips, MarkFinalized, RemoveWorkspace,
         RemoveWorkspaceFails, FinalizeCommitFails, Goto, Return
<1>3. UNCHANGED broker
  BY DEF FinalizeStep, FinalizeFault, ReadClips, MarkFinalized, RemoveWorkspace,
         RemoveWorkspaceFails, FinalizeCommitFails
<1> QED
  BY <1>1, <1>2, <1>3, OtherTaskCarries DEF broker

LEMMA RenderCarries ==
  ASSUME TypeInv, NoLostRender, NEW w \in Workers, RenderStep(w) \/ RenderFault(w)
  PROVE  NoLostRender'
<1>1. CASE Report(w) \/ ReportFailure(w)
  BY <1>1, BrokerCarries
<1>2. CASE RetryRender(w)
  <2> DEFINE again == Render(worker[w].msg.clip, worker[w].msg.request, worker[w].msg.retries + 1)
  <2>1. ready' = ready \cup {again} /\ awaited' = awaited
    BY <1>2 DEF RetryRender
  <2>2. \A c \in awaited : CarriedBy(c, worker[w].msg) => CarriedBy(c, again)
    BY DEF CarriedBy, IsPart, Render
  <2>3. PICK slot : Become(w, slot)
    BY <1>2 DEF RetryRender, Return
  <2> QED
    BY <2>1, <2>2, <2>3, CarryOn
<1>3. CASE ~ (Report(w) \/ ReportFailure(w) \/ RetryRender(w))
  <2>1. UNCHANGED broker /\ ~ At(w, "idle")
    BY <1>3
       DEF RenderStep, RenderFault, ReadClip, MarkRendering, MakeDir, Cut, Reframe, Burn, Package,
           MarkCompleted, RemoveDir, RenderFails, HandleRenderError, CountRetry, MakeDirFails,
           RetryRenderFails, RenderCommitFails, CountRetryFails, Rendering, Doing
  <2>2. worker[w] \in WorkerState
    BY <2>1, BusyType, UnchangedTypes
  <2>3. CASE ReadClip(w)
    <3> DEFINE row == Get(clip, Target(w))
    <3>1. \/ Become(w, [worker[w] EXCEPT !.pc = "mark_rendering", !.seen = row])
          \/ Return(w, "report")
      BY <2>3 DEF ReadClip
    <3>2. \A slot : slot = [worker[w] EXCEPT !.pc = "mark_rendering", !.seen = row] =>
                      slot.pc = "mark_rendering" /\ slot.msg = worker[w].msg
      BY <2>2 DEF WorkerState
    <3> QED
      BY <2>1, <2>2, <3>1, <3>2, GotoCarries, KeepsMessage
  <2>4. CASE Reframe(w)
    <3>1. PICK t \in Titles : Become(w, [worker[w] EXCEPT !.pc = "burn", !.title = t])
      BY <2>4 DEF Reframe
    <3>2. \A slot : slot = [worker[w] EXCEPT !.pc = "burn", !.title = t] =>
                      slot.pc = "burn" /\ slot.msg = worker[w].msg
      BY <2>2 DEF WorkerState
    <3> QED
      BY <2>1, <3>1, <3>2, KeepsMessage
  <2>5. ASSUME NEW e \in Errors, RenderFails(w, e)
        PROVE  NoLostRender'
    <3> DEFINE failed == [worker[w] EXCEPT !.pc = "render_failed", !.err = e, !.seen = None,
                                           !.title = None]
    <3>1. Become(w, failed)
      BY <2>5 DEF RenderFails
    <3>2. failed.pc = "render_failed" /\ failed.msg = worker[w].msg
      BY <2>2 DEF WorkerState
    <3> QED
      BY <2>1, <3>1, <3>2, KeepsMessage
  <2>6. CASE HandleRenderError(w)
    <3> DEFINE row == Get(clip, Target(w))
    <3>1. \/ Become(w, [worker[w] EXCEPT !.pc = "count_retry", !.seen = row])
          \/ Return(w, "report")
      BY <2>6 DEF HandleRenderError
    <3>2. \A slot : slot = [worker[w] EXCEPT !.pc = "count_retry", !.seen = row] =>
                      slot.pc = "count_retry" /\ slot.msg = worker[w].msg
      BY <2>2 DEF WorkerState
    <3> QED
      BY <2>1, <2>2, <3>1, <3>2, GotoCarries, KeepsMessage
  <2>7. CASE \/ MarkRendering(w) \/ MakeDir(w) \/ Cut(w) \/ Burn(w) \/ Package(w)
             \/ MarkCompleted(w) \/ RemoveDir(w) \/ CountRetry(w) \/ RenderFault(w)
    <3>1. PICK step : step \notin {"idle", "ack"} /\ (Goto(w, step) \/ Return(w, step))
      BY <2>7
         DEF MarkRendering, MakeDir, Cut, Burn, Package, MarkCompleted, RemoveDir, CountRetry,
             RenderFault, MakeDirFails, RetryRenderFails, RenderCommitFails, CountRetryFails
    <3> QED
      BY <2>1, <2>2, <3>1, GotoCarries
  <2> QED
    BY <1>3, <2>3, <2>4, <2>5, <2>6, <2>7 DEF RenderStep
<1> QED
  BY <1>1, <1>2, <1>3

(* task_acks_late and the chord of process_video: under every combination  *)
(* of worker deaths, redeliveries, time limits, retries and database, disk *)
(* or broker failures, a chord part that has not returned is waiting for   *)
(* delivery or is being executed.                                          *)
THEOREM RendersNotLost == Spec => []NoLostRender
<1>1. Init => NoLostRender
  BY DEF Init, NoLostRender
<1>2. TypeInv /\ NoLostRender /\ [Next]_vars => NoLostRender'
  <2> SUFFICES ASSUME TypeInv, NoLostRender, [Next]_vars PROVE NoLostRender'
    OBVIOUS
  <2>1. ASSUME NEW v \in Videos, CreateVideo(v) \/ Enqueue(v) \/ EnqueueFails(v) \/ Purge(v)
        PROVE  NoLostRender'
    BY <2>1 DEF CreateVideo, Enqueue, EnqueueFails, Purge, broker, NoLostRender, CarriedBy
  <2>2. ASSUME NEW w \in Workers, Deliver(w) \/ WorkerStep(w) \/ WorkerFault(w)
        PROVE  NoLostRender'
    BY <2>2, BrokerCarries, PrepareCarries, RenderCarries, FinalizeCarries
       DEF WorkerStep, WorkerFault
  <2>3. ASSUME NEW c \in DOMAIN clip, Rerender(c)
        PROVE  NoLostRender'
    BY <2>3 DEF Rerender, NoLostRender, CarriedBy
  <2>4. CASE UNCHANGED vars
    BY <2>4 DEF vars, broker, NoLostRender, CarriedBy
  <2> QED
    BY <2>1, <2>2, <2>3, <2>4 DEF Next
<1> QED
  BY <1>1, <1>2, TypesHold, PTL DEF Spec

-----------------------------------------------------------------------------
(***************************************************************************)
(* Stages and the chord.  A prepare goes through its stages in order and   *)
(* commits what each one produces before the next begins; what is proved   *)
(* of the rows from that.  The run it holds is its own until it dispatches *)
(* it; what is proved of the chord from that.                              *)
(***************************************************************************)
(* A row that has columns filled exists.                                   *)
FilledRowExists ==
  \A v \in Videos : video[v].ingested \/ video[v].transcript => video[v].status # "absent"

(* Where a slot may be, given what the row of its video says: the row      *)
(* exists once it was claimed, and holds the results of the stages that    *)
(* are behind.                                                             *)
Fits(slot, rows) ==
  /\ slot.pc \in PrepareSteps \ {"claim", "retry_process"} /\ slot.msg.task = "process_video" =>
       rows[slot.msg.video].status # "absent"
  /\ slot.stage # "ingest" \/ slot.pc = "close_job" =>
       /\ slot.pc # "idle" /\ slot.msg.task = "process_video"
       /\ rows[slot.msg.video].ingested
  /\ slot.stage = "analyze" \/ (slot.pc = "close_job" /\ slot.stage = "transcribe") =>
       rows[slot.msg.video].transcript
StagesInOrder == FilledRowExists /\ \A w \in Workers : Fits(worker[w], video)
StagesInv == StagesInOrder /\ ClipHasTranscript

(* The columns of a row are never reset, and a row never vanishes.         *)
Kept(v) ==
  /\ video[v].ingested => video'[v].ingested
  /\ video[v].transcript => video'[v].transcript
  /\ video[v].status # "absent" => video'[v].status # "absent"

----------------------------------------------------------------------------
LEMMA FitsWithRows ==
  ASSUME NEW slot, Fits(slot, video), \A v \in Videos : Kept(v),
         slot.pc = "idle" \/ slot.msg \in Messages
  PROVE  Fits(slot, video')
<1>1. CASE slot.pc = "idle"
  BY <1>1 DEF Fits, PrepareSteps
<1>2. CASE slot.msg \in Messages
  <2>1. slot.msg.task = "process_video" => slot.msg.video \in Videos
    BY <1>2 DEF Messages
  <2> QED
    BY <2>1 DEF Fits, Kept
<1> QED
  BY <1>1, <1>2

LEMMA FitsKept ==
  ASSUME TypeInv, NEW w \in Workers, Fits(worker[w], video), \A v \in Videos : Kept(v),
         worker'[w] = worker[w]
  PROVE  Fits(worker'[w], video')
<1>1. At(w, "idle") \/ worker[w].msg \in Messages
  BY BusyType, UnchangedTypes
<1> QED
  BY <1>1, FitsWithRows DEF At

(* One slot moves, rows keep their columns, and new clips belong to videos *)
(* that have a source and a transcript.                                    *)
LEMMA StagesKept ==
  ASSUME TypeInv, StagesInv, NEW w \in Workers, NEW slot, Become(w, slot), Fits(slot, video'),
         \A v \in Videos : Kept(v), FilledRowExists',
         \A c \in DOMAIN clip' \ DOMAIN clip :
           video'[VideoOf(c)].ingested /\ video'[VideoOf(c)].transcript
  PROVE  StagesInv'
<1>1. worker \in [Workers -> WorkerState] /\ DOMAIN clip \subseteq ClipIds
  BY DEF TypeInv, TypeOK, TablesOK
<1>2. worker'[w] = slot /\ \A x \in Workers \ {w} : worker'[x] = worker[x]
  BY <1>1 DEF Become
<1>3. \A x \in Workers : Fits(worker'[x], video')
  <2>1. Fits(worker'[w], video')
    BY <1>2 DEF Fits
  <2>2. ASSUME NEW x \in Workers \ {w} PROVE Fits(worker'[x], video')
    BY <1>2, FitsKept DEF StagesInv, StagesInOrder
  <2> QED
    BY <2>1, <2>2
<1>4. ClipHasTranscript'
  BY <1>1, ClipIdParts DEF StagesInv, ClipHasTranscript, Kept
<1> QED
  BY <1>3, <1>4 DEF StagesInv, StagesInOrder

(* The usual case: neither the videos nor the set of clips change.         *)
LEMMA StagesSameRows ==
  ASSUME TypeInv, StagesInv, NEW w \in Workers, NEW slot, Become(w, slot), Fits(slot, video),
         UNCHANGED video, DOMAIN clip' = DOMAIN clip
  PROVE  StagesInv'
<1>1. Fits(slot, video')
  BY DEF Fits
<1>2. FilledRowExists'
  BY DEF StagesInv, StagesInOrder, FilledRowExists
<1> QED
  BY <1>1, <1>2, StagesKept DEF Kept

(* A slot that leaves prepare, or starts anew, fits any row.               *)
LEMMA FitsAnywhere ==
  ASSUME NEW slot, slot.pc \notin PrepareSteps \ {"claim", "retry_process"}, slot.stage = "ingest"
  PROVE  Fits(slot, video)
BY DEF Fits, PrepareSteps

LEMMA FitsReturned ==
  ASSUME NEW step, step \notin PrepareSteps \ {"claim", "retry_process"}, NEW m
  PROVE  Fits([Idle EXCEPT !.pc = step, !.msg = m], video)
<1> DEFINE slot == [Idle EXCEPT !.pc = step, !.msg = m]
<1>1. slot.pc = step /\ slot.stage = "ingest"
  BY DEF Idle
<1> QED
  BY <1>1, FitsAnywhere

(* A slot that goes on outside of prepare keeps fitting.                   *)
LEMMA FitsOn ==
  ASSUME NEW w \in Workers, Fits(worker[w], video), NEW slot,
         slot.pc \notin (PrepareSteps \ {"claim", "retry_process"}) \cup {"idle"},
         slot.msg = worker[w].msg, slot.stage = worker[w].stage
  PROVE  Fits(slot, video)
BY DEF Fits, PrepareSteps

LEMMA ReturnKeepsStages ==
  ASSUME TypeInv, StagesInv, NEW w \in Workers,
         NEW step, step \notin PrepareSteps \ {"claim", "retry_process"}, Return(w, step),
         UNCHANGED video, DOMAIN clip' = DOMAIN clip
  PROVE  StagesInv'
BY FitsReturned, StagesSameRows DEF Return

LEMMA GotoKeepsStages ==
  ASSUME TypeInv, StagesInv, NEW w \in Workers, worker[w] \in WorkerState,
         NEW step, step \notin (PrepareSteps \ {"claim", "retry_process"}) \cup {"idle"},
         Goto(w, step), UNCHANGED video, DOMAIN clip' = DOMAIN clip
  PROVE  StagesInv'
<1> DEFINE slot == [worker[w] EXCEPT !.pc = step]
<1>1. slot.pc = step /\ slot.msg = worker[w].msg /\ slot.stage = worker[w].stage
  BY DEF WorkerState
<1>2. Fits(slot, video)
  BY <1>1, FitsOn DEF StagesInv, StagesInOrder
<1>3. Become(w, slot)
  BY DEF Goto
<1> QED
  BY <1>2, <1>3, StagesSameRows

LEMMA OnKeepsStages ==
  ASSUME TypeInv, StagesInv, NEW w \in Workers, NEW slot, Become(w, slot),
         slot.pc \notin (PrepareSteps \ {"claim", "retry_process"}) \cup {"idle"},
         slot.msg = worker[w].msg, slot.stage = worker[w].stage,
         UNCHANGED video, DOMAIN clip' = DOMAIN clip
  PROVE  StagesInv'
BY FitsOn, StagesSameRows DEF StagesInv, StagesInOrder

LEMMA IdleKeepsStages ==
  ASSUME TypeInv, StagesInv, NEW w \in Workers, Become(w, Idle),
         UNCHANGED video, DOMAIN clip' = DOMAIN clip
  PROVE  StagesInv'
<1>1. Fits(Idle, video)
  BY FitsAnywhere DEF Idle, PrepareSteps
<1> QED
  BY <1>1, StagesSameRows

LEMMA StillKeepsStages ==
  ASSUME TypeInv, StagesInv, UNCHANGED <<video, worker>>, DOMAIN clip' = DOMAIN clip
  PROVE  StagesInv'
BY DEF StagesInv, StagesInOrder, FilledRowExists, Fits, ClipHasTranscript

LEMMA BrokerKeepsStages ==
  ASSUME TypeInv, StagesInv, NEW w \in Workers,
         Deliver(w) \/ Report(w) \/ ReportFailure(w) \/ Ack(w)
           \/ Crash(w) \/ Redeliver(w) \/ Kill(w)
  PROVE  StagesInv'
<1>1. UNCHANGED video /\ DOMAIN clip' = DOMAIN clip
  BY DEF Deliver, Report, ReportFailure, Ack, Crash, Redeliver, Kill, tables
<1>2. CASE Deliver(w)
  <2>1. PICK m \in ready : Become(w, [Idle EXCEPT !.pc = FirstStep[m.task], !.msg = m])
    BY <1>2 DEF Deliver
  <2>2. FirstStep[m.task] \in {"start", "read_clips"}
    BY DEF FirstStep, TypeInv, TypeOK, BrokerOK, Messages
  <2>3. FirstStep[m.task] \notin PrepareSteps \ {"claim", "retry_process"}
    BY <2>2 DEF PrepareSteps
  <2> QED
    BY <1>1, <2>1, <2>3, FitsReturned, StagesSameRows
<1>3. CASE Report(w) \/ ReportFailure(w)
  <2>1. "ack" \notin PrepareSteps
    BY DEF PrepareSteps
  <2> QED
    BY <1>1, <1>3, <2>1, ReturnKeepsStages DEF Report, ReportFailure
<1>4. CASE Ack(w) \/ Crash(w) \/ Kill(w)
  BY <1>1, <1>4, IdleKeepsStages DEF Ack, Crash, Kill
<1>5. CASE Redeliver(w)
  BY <1>1, <1>5, StillKeepsStages DEF Redeliver
<1> QED
  BY <1>2, <1>3, <1>4, <1>5

LEMMA RenderKeepsStages ==
  ASSUME TypeInv, StagesInv, NEW w \in Workers, RenderStep(w) \/ RenderFault(w)
  PROVE  StagesInv'
<1>1. CASE Report(w) \/ ReportFailure(w)
  BY <1>1, BrokerKeepsStages
<1>2. CASE ~ (Report(w) \/ ReportFailure(w))
  <2>1. UNCHANGED video /\ DOMAIN clip' = DOMAIN clip /\ ~ At(w, "idle")
    BY <1>2
       DEF RenderStep, RenderFault, ReadClip, MarkRendering, MakeDir, Cut, Reframe, Burn, Package,
           MarkCompleted, RemoveDir, RenderFails, HandleRenderError, CountRetry, RetryRender,
           MakeDirFails, RetryRenderFails, RenderCommitFails, CountRetryFails, Rendering, Doing,
           tables
  <2>2. worker[w] \in WorkerState
    BY <2>1, BusyType, UnchangedTypes
  <2>3. RenderSteps \cap PrepareSteps = {} /\ "idle" \notin RenderSteps
    BY DEF RenderSteps, PrepareSteps
  <2>4. CASE ReadClip(w) \/ HandleRenderError(w)
    <3> DEFINE row == Get(clip, Target(w))
    <3>1. \/ \E step \in {"mark_rendering", "count_retry"} :
               Become(w, [worker[w] EXCEPT !.pc = step, !.seen = row])
          \/ Return(w, "report")
      BY <2>4 DEF ReadClip, HandleRenderError
    <3>2. {"mark_rendering", "count_retry", "report"} \subseteq RenderSteps
      BY DEF RenderSteps
    <3>3. \A slot : \A step : slot = [worker[w] EXCEPT !.pc = step, !.seen = row] =>
            slot.pc = step /\ slot.msg = worker[w].msg /\ slot.stage = worker[w].stage
      BY <2>2 DEF WorkerState
    <3> QED
      BY <2>1, <2>3, <3>1, <3>2, <3>3, ReturnKeepsStages, OnKeepsStages
  <2>5. CASE Reframe(w)
    <3>1. PICK t \in Titles : Become(w, [worker[w] EXCEPT !.pc = "burn", !.title = t])
      BY <2>5 DEF Reframe
    <3>2. \A slot : slot = [worker[w] EXCEPT !.pc = "burn", !.title = t] =>
            slot.pc = "burn" /\ slot.msg = worker[w].msg /\ slot.stage = worker[w].stage
      BY <2>2 DEF WorkerState
    <3>3. "burn" \in RenderSteps
      BY DEF RenderSteps
    <3> QED
      BY <2>1, <2>3, <3>1, <3>2, <3>3, OnKeepsStages
  <2>6. ASSUME NEW e \in Errors, RenderFails(w, e)
        PROVE  StagesInv'
    <3> DEFINE failed == [worker[w] EXCEPT !.pc = "render_failed", !.err = e, !.seen = None,
                                           !.title = None]
    <3>1. Become(w, failed)
      BY <2>6 DEF RenderFails
    <3>2. /\ failed.pc = "render_failed" /\ failed.msg = worker[w].msg
          /\ failed.stage = worker[w].stage
      BY <2>2 DEF WorkerState
    <3>3. "render_failed" \in RenderSteps
      BY DEF RenderSteps
    <3> QED
      BY <2>1, <2>3, <3>1, <3>2, <3>3, OnKeepsStages
  <2>7. CASE \/ MarkRendering(w) \/ MakeDir(w) \/ Cut(w) \/ Burn(w) \/ Package(w)
             \/ MarkCompleted(w) \/ RemoveDir(w) \/ CountRetry(w) \/ RetryRender(w)
             \/ RenderFault(w)
    <3>1. PICK step \in RenderSteps \cup {"ack"} : Goto(w, step) \/ Return(w, step)
      BY <2>7
         DEF MarkRendering, MakeDir, Cut, Burn, Package, MarkCompleted, RemoveDir, CountRetry,
             RetryRender, RenderFault, MakeDirFails, RetryRenderFails, RenderCommitFails,
             CountRetryFails, RenderSteps
    <3>2. "ack" \notin PrepareSteps
      BY DEF PrepareSteps
    <3> QED
      BY <2>1, <2>2, <2>3, <3>1, <3>2, GotoKeepsStages, ReturnKeepsStages
  <2> QED
    BY <1>2, <2>4, <2>5, <2>6, <2>7 DEF RenderStep
<1> QED
  BY <1>1, <1>2

(* Only the status and the error of a row change, and it stays a row.      *)
LEMMA StatusKeeps ==
  ASSUME TypeInv, StagesInv, NEW v \in Videos, NEW status \in JobStatus \cup {video[v].status},
         NEW error, video' = [video EXCEPT ![v] = [@ EXCEPT !.status = status, !.error = error]]
  PROVE  FilledRowExists' /\ \A u \in Videos : Kept(u)
<1>1. video \in [Videos -> VideoRow]
  BY DEF TypeInv, TypeOK, TablesOK
<1>2. /\ video'[v].status = status /\ video'[v].ingested = video[v].ingested
      /\ video'[v].transcript = video[v].transcript
      /\ \A u \in Videos \ {v} : video'[u] = video[u]
  BY <1>1 DEF VideoRow
<1>3. status # "absent" \/ status = video[v].status
  BY DEF JobStatus
<1> QED
  BY <1>2, <1>3 DEF StagesInv, StagesInOrder, FilledRowExists, Kept

LEMMA FinalizeKeepsStages ==
  ASSUME TypeInv, StagesInv, NEW w \in Workers, FinalizeStep(w) \/ FinalizeFault(w)
  PROVE  StagesInv'
<1>1. ~ At(w, "idle") /\ (Doing(w, "process_video") \/ Doing(w, "finalize_video"))
  BY DEF FinalizeStep, FinalizeFault, ReadClips, MarkFinalized, RemoveWorkspace,
         RemoveWorkspaceFails, FinalizeCommitFails, Finalizing, Doing
<1>2. worker[w] \in WorkerState /\ Subject(w) \in Videos
  BY <1>1, BusyType, SubjectType, UnchangedTypes
<1>3. FinalizeSteps \cap PrepareSteps = {} /\ "ack" \notin PrepareSteps /\ "idle" \notin FinalizeSteps
  BY DEF FinalizeSteps, PrepareSteps
<1>4. CASE ReadClips(w)
  <2> DEFINE slot == [worker[w] EXCEPT !.pc = "mark_finalized", !.seen = video[Subject(w)],
                                       !.tally = Tally(Subject(w))]
  <2>1. /\ slot.pc = "mark_finalized" /\ slot.msg = worker[w].msg
        /\ slot.stage = worker[w].stage
    BY <1>2 DEF WorkerState
  <2>2. Become(w, slot) /\ UNCHANGED video /\ DOMAIN clip' = DOMAIN clip
    BY <1>4 DEF ReadClips, tables
  <2>3. slot.pc \in FinalizeSteps
    BY <2>1 DEF FinalizeSteps
  <2> HIDE DEF slot
  <2> QED
    BY <1>3, <2>1, <2>2, <2>3, OnKeepsStages
<1>5. CASE MarkFinalized(w)
  <2> DEFINE slot == [worker[w] EXCEPT !.pc = "remove_workspace"]
  <2>1. /\ slot.pc = "remove_workspace" /\ slot.msg = worker[w].msg
        /\ slot.stage = worker[w].stage
    BY <1>2 DEF WorkerState
  <2>2. FilledRowExists' /\ \A v \in Videos : Kept(v)
    <3>1. PICK status \in {"completed", video[Subject(w)].status} : \E error :
            video' = [video EXCEPT ![Subject(w)] = [@ EXCEPT !.status = status, !.error = error]]
      BY <1>5 DEF MarkFinalized, Flushed
    <3>2. status \in JobStatus \cup {video[Subject(w)].status}
      BY DEF JobStatus
    <3> QED
      BY <1>2, <3>1, <3>2, StatusKeeps
  <2>3. Become(w, slot) /\ DOMAIN clip' = DOMAIN clip
    BY <1>5 DEF MarkFinalized, Goto
  <2> HIDE DEF slot
  <2>4. Fits(slot, video)
    <3>1. slot.pc \in FinalizeSteps
      BY <2>1 DEF FinalizeSteps
    <3> QED
      BY <1>3, <2>1, <3>1, FitsOn DEF StagesInv, StagesInOrder
  <2>5. slot.msg \in Messages
    BY <1>1, <2>1, BusyType, UnchangedTypes
  <2> QED
    BY <2>2, <2>3, <2>4, <2>5, FitsWithRows, StagesKept
<1>6. CASE RemoveWorkspace(w) \/ FinalizeFault(w)
  BY <1>3, <1>6, ReturnKeepsStages
     DEF RemoveWorkspace, FinalizeFault, RemoveWorkspaceFails, FinalizeCommitFails, tables
<1> QED
  BY <1>4, <1>5, <1>6 DEF FinalizeStep

LEMMA ApiKeepsStages ==
  ASSUME TypeInv, StagesInv,
         NEW v \in Videos, CreateVideo(v) \/ Enqueue(v) \/ EnqueueFails(v) \/ Purge(v)
  PROVE  StagesInv'
<1>1. CASE CreateVideo(v)
  <2>1. video \in [Videos -> VideoRow]
    BY DEF TypeInv, TypeOK, TablesOK
  <2>2. ~ video[v].ingested /\ ~ video[v].transcript
    BY <1>1, <2>1 DEF CreateVideo, StagesInv, StagesInOrder, FilledRowExists, VideoRow
  <2>3. FilledRowExists' /\ \A u \in Videos : Kept(u)
    BY <1>1, <2>1, <2>2
       DEF CreateVideo, NewVideo, StagesInv, StagesInOrder, FilledRowExists, Kept
  <2>4. \A u \in Workers : Fits(worker'[u], video')
    BY <1>1, <2>3, FitsKept DEF CreateVideo, StagesInv, StagesInOrder
  <2>5. ClipHasTranscript'
    BY <1>1, <2>3, ClipIdParts
       DEF CreateVideo, StagesInv, ClipHasTranscript, Kept, TypeInv, TypeOK, TablesOK
  <2> QED
    BY <2>3, <2>4, <2>5 DEF StagesInv, StagesInOrder
<1>2. CASE Enqueue(v) \/ EnqueueFails(v) \/ Purge(v)
  BY <1>2, StillKeepsStages DEF Enqueue, EnqueueFails, Purge, tables
<1> QED
  BY <1>1, <1>2

(* Ingest and Transcribe fill a column of a row that exists.               *)
LEMMA ColumnKeeps ==
  ASSUME TypeInv, StagesInv, NEW v \in Videos, video[v].status # "absent",
         \/ video' = [video EXCEPT ![v].ingested = TRUE]
         \/ video' = [video EXCEPT ![v].transcript = TRUE]
  PROVE  FilledRowExists' /\ \A u \in Videos : Kept(u)
<1>1. video \in [Videos -> VideoRow]
  BY DEF TypeInv, TypeOK, TablesOK
<1>2. \A u \in Videos \ {v} : video'[u] = video[u]
  BY <1>1
<1>3. /\ video'[v].status = video[v].status
      /\ video[v].ingested => video'[v].ingested
      /\ video[v].transcript => video'[v].transcript
  BY <1>1 DEF VideoRow
<1> QED
  BY <1>2, <1>3 DEF StagesInv, StagesInOrder, FilledRowExists, Kept

LEMMA PrepareKeepsStages ==
  ASSUME TypeInv, StagesInv, NEW w \in Workers, PrepareStep(w) \/ PrepareFault(w)
  PROVE  StagesInv'
<1>1. ~ At(w, "idle") /\ Doing(w, "process_video")
  BY DEF PrepareStep, PrepareFault, ReadVideo, ClaimVideo, OpenJob, Staging, Ingest, Transcribe,
         Analyze, CloseJob, StageFails, RetryProcess, Dispatch, RetryProcessFails, DispatchFails,
         PrepareCommitFails, Preparing, Doing
<1>2. /\ worker[w] \in WorkerState /\ worker[w].msg \in Messages
      /\ Subject(w) \in Videos /\ worker[w].msg.video = Subject(w)
  BY <1>1, BusyType, SubjectType, UnchangedTypes DEF Subject
<1>3. Fits(worker[w], video) /\ worker[w].msg.task = "process_video"
  BY <1>1 DEF StagesInv, StagesInOrder, Doing
<1>4. {"idle", "ack", "start", "read_clips"} \cap PrepareSteps = {}
  BY DEF PrepareSteps
<1>5. CASE ReadVideo(w)
  <2> DEFINE row == video[Subject(w)]
  <2>1. \/ Become(w, [worker[w] EXCEPT !.pc = "claim", !.seen = row])
        \/ Return(w, "ack")
    BY <1>5 DEF ReadVideo
  <2>2. \A slot : slot = [worker[w] EXCEPT !.pc = "claim", !.seen = row] =>
          slot.pc = "claim" /\ slot.msg = worker[w].msg /\ slot.stage = worker[w].stage
    BY <1>2 DEF WorkerState
  <2>3. UNCHANGED video /\ DOMAIN clip' = DOMAIN clip
    BY <1>5 DEF ReadVideo, tables
  <2> QED
    BY <1>4, <2>1, <2>2, <2>3, ReturnKeepsStages, OnKeepsStages
<1>6. CASE ClaimVideo(w)
  <2> DEFINE slot == [worker[w] EXCEPT !.pc = "open_job", !.seen = None,
                                       !.run = runs[Subject(w)] + 1]
  <2>1. slot.pc = "open_job" /\ slot.msg = worker[w].msg /\ slot.stage = worker[w].stage
    BY <1>2 DEF WorkerState
  <2>2. PICK error : video' = [video EXCEPT ![Subject(w)] =
                                 [@ EXCEPT !.status = "running", !.error = error]]
    BY <1>6 DEF ClaimVideo
  <2>3. FilledRowExists' /\ \A v \in Videos : Kept(v)
    BY <1>2, <2>2, StatusKeeps DEF JobStatus
  <2>4. video'[Subject(w)].status = "running"
    BY <1>2, <2>2 DEF TypeInv, TypeOK, TablesOK, VideoRow
  <2>5. Become(w, slot) /\ DOMAIN clip' = DOMAIN clip
    BY <1>6 DEF ClaimVideo
  <2> HIDE DEF slot
  <2>6. Fits(slot, video')
    BY <1>1, <1>2, <1>3, <2>1, <2>3, <2>4 DEF Fits, Kept
  <2> QED
    BY <2>3, <2>5, <2>6, StagesKept
<1>7. CASE OpenJob(w)
  <2> DEFINE slot == [worker[w] EXCEPT !.pc = "stage"]
  <2>1. slot.pc = "stage" /\ slot.msg = worker[w].msg /\ slot.stage = worker[w].stage
    BY <1>2 DEF WorkerState
  <2>2. Become(w, slot) /\ UNCHANGED video /\ DOMAIN clip' = DOMAIN clip
    BY <1>7 DEF OpenJob, Goto
  <2>3. worker[w].pc = "open_job"
    BY <1>7 DEF OpenJob, Preparing, At
  <2> HIDE DEF slot
  <2>4. Fits(slot, video)
    BY <1>3, <2>1, <2>3 DEF Fits, PrepareSteps
  <2> QED
    BY <2>2, <2>4, StagesSameRows
<1>8. CASE Ingest(w) \/ Transcribe(w)
  <2> DEFINE slot == [worker[w] EXCEPT !.pc = "close_job"]
  <2>1. slot.pc = "close_job" /\ slot.msg = worker[w].msg /\ slot.stage = worker[w].stage
    BY <1>2 DEF WorkerState
  <2>2. Become(w, slot) /\ DOMAIN clip' = DOMAIN clip
    BY <1>8 DEF Ingest, Transcribe, Goto
  <2>3. worker[w].pc = "stage" /\ video[Subject(w)].status # "absent"
    BY <1>2, <1>3, <1>8 DEF Ingest, Transcribe, Staging, Preparing, At, Fits, PrepareSteps
  <2>4. FilledRowExists' /\ \A v \in Videos : Kept(v)
    BY <1>2, <1>8, <2>3, ColumnKeeps DEF Ingest, Transcribe
  <2>5. \/ worker[w].stage = "ingest" /\ video'[Subject(w)].ingested
        \/ worker[w].stage = "transcribe" /\ video'[Subject(w)].transcript
    BY <1>2, <1>8 DEF Ingest, Transcribe, Staging, TypeInv, TypeOK, TablesOK, VideoRow
  <2> HIDE DEF slot
  <2>6. Fits(slot, video')
    BY <1>2, <1>3, <2>1, <2>3, <2>4, <2>5 DEF Fits, Kept, PrepareSteps
  <2> QED
    BY <2>2, <2>4, <2>6, StagesKept
<1>9. CASE Analyze(w)
  <2> DEFINE slot == [worker[w] EXCEPT !.pc = "close_job"]
  <2>1. slot.pc = "close_job" /\ slot.msg = worker[w].msg /\ slot.stage = worker[w].stage
    BY <1>2 DEF WorkerState
  <2>2. Become(w, slot) /\ UNCHANGED video
    BY <1>9 DEF Analyze, Goto
  <2>3. worker[w].pc = "stage" /\ worker[w].stage = "analyze"
    BY <1>9 DEF Analyze, Staging, Preparing, At
  <2>4. video[Subject(w)].ingested /\ video[Subject(w)].transcript
    BY <1>2, <1>3, <2>3 DEF Fits
  <2>5. \A c \in DOMAIN clip' \ DOMAIN clip : VideoOf(c) = Subject(w)
    BY <1>9 DEF Analyze, Inserted, VideoOf
  <2> HIDE DEF slot
  <2>6. Fits(slot, video')
    BY <1>1, <1>2, <1>3, <2>1, <2>2, <2>3 DEF Fits, PrepareSteps
  <2>7. FilledRowExists' /\ \A v \in Videos : Kept(v)
    BY <2>2 DEF StagesInv, StagesInOrder, FilledRowExists, Kept
  <2> QED
    BY <2>2, <2>4, <2>5, <2>6, <2>7, StagesKept
<1>10. CASE CloseJob(w)
  <2>1. UNCHANGED video /\ DOMAIN clip' = DOMAIN clip
    BY <1>10 DEF CloseJob
  <2>2. worker[w].pc = "close_job" /\ worker[w].stage \in Stages
    BY <1>2, <1>10 DEF CloseJob, Preparing, At, WorkerState
  <2>3. PICK slot : /\ Become(w, slot) /\ slot.msg = worker[w].msg
                    /\ \/ worker[w].stage = "analyze" /\ slot.pc = "dispatch"
                          /\ slot.stage = "analyze"
                       \/ worker[w].stage # "analyze" /\ slot.pc = "open_job"
                          /\ slot.stage = Following[worker[w].stage]
    <3>1. CASE worker[w].stage = "analyze"
      <4> DEFINE slot == [worker[w] EXCEPT !.pc = "dispatch"]
      <4>1. slot.pc = "dispatch" /\ slot.msg = worker[w].msg /\ slot.stage = worker[w].stage
        BY <1>2 DEF WorkerState
      <4>2. Become(w, slot)
        BY <1>10, <3>1 DEF CloseJob, Goto
      <4> QED
        BY <3>1, <4>1, <4>2
    <3>2. CASE worker[w].stage # "analyze"
      <4> DEFINE slot == [worker[w] EXCEPT !.pc = "open_job", !.stage = Following[@]]
      <4>1. /\ slot.pc = "open_job" /\ slot.msg = worker[w].msg
            /\ slot.stage = Following[worker[w].stage]
        BY <1>2 DEF WorkerState
      <4>2. Become(w, slot)
        BY <1>10, <3>2 DEF CloseJob
      <4> QED
        BY <3>2, <4>1, <4>2
    <3> QED
      BY <3>1, <3>2
  <2>4. Fits(slot, video)
    BY <1>1, <1>2, <1>3, <2>2, <2>3 DEF Fits, Following, Stages, PrepareSteps
  <2> QED
    BY <2>1, <2>3, <2>4, StagesSameRows
<1>11. ASSUME NEW e \in Errors, StageFails(w, e)
       PROVE  StagesInv'
  <2>1. PICK step \in {"retry_process", "ack"} : Return(w, step)
    BY <1>11 DEF StageFails
  <2> DEFINE slot == [Idle EXCEPT !.pc = step, !.msg = worker[w].msg]
  <2>2. slot.pc = step /\ slot.stage = "ingest"
    BY DEF Idle
  <2>3. FilledRowExists' /\ \A v \in Videos : Kept(v)
    BY <1>2, <1>11, StatusKeeps DEF StageFails, JobStatus
  <2>4. Become(w, slot) /\ DOMAIN clip' = DOMAIN clip
    BY <1>11, <2>1 DEF StageFails, Return
  <2> HIDE DEF slot
  <2>5. Fits(slot, video')
    BY <1>4, <2>1, <2>2 DEF Fits, PrepareSteps
  <2> QED
    BY <2>3, <2>4, <2>5, StagesKept
<1>12. CASE RetryProcess(w) \/ Dispatch(w) \/ PrepareFault(w)
  <2>1. PICK step \in {"ack", "read_clips"} : Return(w, step)
    BY <1>12
       DEF RetryProcess, Dispatch, PrepareFault, RetryProcessFails, DispatchFails, PrepareCommitFails
  <2>2. UNCHANGED video /\ DOMAIN clip' = DOMAIN clip
    BY <1>12
       DEF RetryProcess, Dispatch, PrepareFault, RetryProcessFails, DispatchFails,
           PrepareCommitFails, tables
  <2> QED
    BY <1>4, <2>1, <2>2, ReturnKeepsStages
<1> QED
  BY <1>5, <1>6, <1>7, <1>8, <1>9, <1>10, <1>11, <1>12 DEF PrepareStep

(* The comment before the guard of render_clip, that a clip row implies an *)
(* earlier successful prepare_video: whatever fails, is retried, runs      *)
(* twice or is killed, a clip's video has its source path and transcript,  *)
(* so that the ValueError of the guard is never raised.                    *)
THEOREM RenderInputsCommitted == Spec => []ClipHasTranscript
<1>1. Init => StagesInv
  BY FitsAnywhere
     DEF Init, StagesInv, StagesInOrder, FilledRowExists, ClipHasTranscript, NewVideo, Idle,
         PrepareSteps
<1>2. TypeInv /\ StagesInv /\ [Next]_vars => StagesInv'
  <2> SUFFICES ASSUME TypeInv, StagesInv, [Next]_vars PROVE StagesInv'
    OBVIOUS
  <2>1. ASSUME NEW v \in Videos, CreateVideo(v) \/ Enqueue(v) \/ EnqueueFails(v) \/ Purge(v)
        PROVE  StagesInv'
    BY <2>1, ApiKeepsStages
  <2>2. ASSUME NEW w \in Workers, Deliver(w) \/ WorkerStep(w) \/ WorkerFault(w)
        PROVE  StagesInv'
    BY <2>2, BrokerKeepsStages, PrepareKeepsStages, RenderKeepsStages, FinalizeKeepsStages
       DEF WorkerStep, WorkerFault
  <2>3. ASSUME NEW c \in DOMAIN clip, Rerender(c)
        PROVE  StagesInv'
    BY <2>3, StillKeepsStages DEF Rerender, tables
  <2>4. CASE UNCHANGED vars
    BY <2>4, StillKeepsStages DEF vars, tables
  <2> QED
    BY <2>1, <2>2, <2>3, <2>4 DEF Next
<1>3. StagesInv => ClipHasTranscript
  BY DEF StagesInv
<1> QED
  BY <1>1, <1>2, <1>3, TypesHold, PTL DEF Spec
----------------------------------------------------------------------------
(* The chord's body comes last.  FinalizeAfterAll is not inductive alone:  *)
(* Dispatch makes parts of a run outstanding, so no body of that run may   *)
(* be in flight before it.  Nothing of a run is outstanding or in flight   *)
(* while a prepare still holds it, one prepare holds it at a time, and     *)
(* ClaimVideo begins a run that was never begun before.                    *)

Owning(slot) ==
  slot.pc \in {"open_job", "stage", "close_job", "dispatch"} /\ slot.msg.task = "process_video"
RunHeld(slot) == <<slot.msg.video, slot.run>>
Begun(r) == r[2] <= runs[r[1]]
Dispatched(r) == (\E c \in awaited : RunOf(c) = r) \/ InFlight(Finalize(r))

HeldIsNew ==
  \A w \in Workers : Owning(worker[w]) =>
    Begun(RunHeld(worker[w])) /\ ~ Dispatched(RunHeld(worker[w]))
HeldByOne ==
  \A w, u \in Workers : w # u /\ Owning(worker[w]) /\ Owning(worker[u]) =>
    RunHeld(worker[w]) # RunHeld(worker[u])
ChordInv ==
  /\ FinalizeAfterAll
  /\ \A r \in Runs : Dispatched(r) => Begun(r)
  /\ HeldIsNew
  /\ HeldByOne

LEMMA FinalizeInjective ==
  ASSUME NEW r \in Runs, NEW s \in Runs, Finalize(r) = Finalize(s)
  PROVE  r = s
BY DEF Finalize, Runs

LEMMA AwaitedRuns == ASSUME TypeInv, NEW c \in awaited PROVE RunOf(c) \in Runs
BY ClipIdParts DEF TypeInv, TypeOK, BrokerOK

LEMMA HeldType ==
  ASSUME TypeInv, NEW w \in Workers, Owning(worker[w])
  PROVE  RunHeld(worker[w]) \in Runs /\ ~ At(w, "idle") /\ Doing(w, "process_video")
<1>1. ~ At(w, "idle") /\ Doing(w, "process_video")
  BY DEF Owning, At, Doing
<1> QED
  BY <1>1, BusyType, SubjectType, UnchangedTypes DEF RunHeld, Runs, Subject, WorkerState

(* One slot moves, and nothing of any chord is new but what the slot holds *)
(* or gives back: no part is outstanding, no body in flight and no run     *)
(* held that was not before.                                               *)
LEMMA ChordKept ==
  ASSUME TypeInv, ChordInv, NEW w \in Workers, NEW slot, Become(w, slot),
         runs' = runs, awaited' \subseteq awaited,
         \A r \in Runs : Finalize(r) \in ready' => InFlight(Finalize(r)),
         \A r \in Runs : slot.pc # "idle" /\ slot.msg = Finalize(r) => InFlight(Finalize(r)),
         Owning(slot) => Owning(worker[w]) /\ RunHeld(slot) = RunHeld(worker[w])
  PROVE  ChordInv'
<1>1. worker'[w] = slot /\ \A x \in Workers \ {w} : worker'[x] = worker[x]
  BY DEF Become, TypeInv, TypeOK
<1>2. ASSUME NEW r \in Runs, InFlight(Finalize(r))'
      PROVE  InFlight(Finalize(r))
  <2>1. CASE Finalize(r) \in ready'
    BY <2>1
  <2>2. CASE \E x \in Workers : ~ At(x, "idle")' /\ worker'[x].msg = Finalize(r)
    BY <1>1, <2>2 DEF InFlight, At
  <2> QED
    BY <1>2, <2>1, <2>2 DEF InFlight, Finalize
<1>3. ASSUME NEW r \in Runs, Dispatched(r)'
      PROVE  Dispatched(r)
  BY <1>2, <1>3 DEF Dispatched
<1>4. FinalizeAfterAll'
  <2> SUFFICES ASSUME NEW c \in awaited', InFlight(Finalize(RunOf(c)))'
               PROVE  FALSE
    BY DEF FinalizeAfterAll
  <2> QED
    BY <1>2, AwaitedRuns DEF ChordInv, FinalizeAfterAll
<1>5. \A x \in Workers : Owning(worker'[x]) =>
        Owning(worker[x]) /\ RunHeld(worker'[x]) = RunHeld(worker[x])
  BY <1>1
<1>6. HeldIsNew'
  BY <1>3, <1>5, HeldType DEF ChordInv, HeldIsNew, Begun
<1>7. HeldByOne'
  BY <1>5 DEF ChordInv, HeldByOne
<1> QED
  BY <1>3, <1>4, <1>6, <1>7 DEF ChordInv, Begun

(* A task that keeps its message, or is done with it, and holds no run.    *)
LEMMA OnKeepsChord ==
  ASSUME TypeInv, ChordInv, NEW w \in Workers, ~ At(w, "idle"), NEW slot, Become(w, slot),
         slot.msg = worker[w].msg \/ slot.pc = "idle", ~ Owning(slot),
         runs' = runs, awaited' \subseteq awaited,
         \A r \in Runs : Finalize(r) \in ready' => Finalize(r) \in ready \cup {worker[w].msg}
  PROVE  ChordInv'
<1>1. \A m : m \in ready \cup {worker[w].msg} => InFlight(m)
  BY DEF InFlight
<1> QED
  BY <1>1, ChordKept

LEMMA StillKeepsChord ==
  ASSUME TypeInv, ChordInv, UNCHANGED <<worker, runs, awaited>>,
         \A r \in Runs : Finalize(r) \in ready' => InFlight(Finalize(r))
  PROVE  ChordInv'
<1>1. \A r \in Runs : InFlight(Finalize(r))' => InFlight(Finalize(r))
  BY DEF InFlight, At, Finalize
<1>2. \A r \in Runs : Dispatched(r)' => Dispatched(r)
  BY <1>1 DEF Dispatched
<1>3. FinalizeAfterAll'
  BY <1>1, AwaitedRuns DEF ChordInv, FinalizeAfterAll
<1>4. HeldIsNew' /\ HeldByOne'
  BY <1>2, HeldType DEF ChordInv, HeldIsNew, HeldByOne, Begun
<1> QED
  BY <1>2, <1>3, <1>4 DEF ChordInv, Begun

(* A slot that goes on or returns keeps its message.                       *)
LEMMA NextSlot ==
  ASSUME TypeInv, NEW w \in Workers, ~ At(w, "idle"), NEW step, Goto(w, step) \/ Return(w, step)
  PROVE  \E slot : Become(w, slot) /\ slot.pc = step /\ slot.msg = worker[w].msg
<1>1. worker[w] \in WorkerState
  BY BusyType, UnchangedTypes
<1>2. CASE Goto(w, step)
  <2> DEFINE slot == [worker[w] EXCEPT !.pc = step]
  <2>1. slot.pc = step /\ slot.msg = worker[w].msg
    BY <1>1 DEF WorkerState
  <2> QED
    BY <1>2, <2>1 DEF Goto
<1>3. CASE Return(w, step)
  <2> DEFINE slot == [Idle EXCEPT !.pc = step, !.msg = worker[w].msg]
  <2>1. slot.pc = step /\ slot.msg = worker[w].msg
    BY DEF Idle
  <2> QED
    BY <1>3, <2>1 DEF Return
<1> QED
  BY <1>2, <1>3

LEMMA ReturnKeepsChord ==
  ASSUME TypeInv, ChordInv, NEW w \in Workers, ~ At(w, "idle"),
         NEW step \in {"ack", "report", "report_failure", "read_clips", "retry_process"},
         Return(w, step), runs' = runs, awaited' \subseteq awaited,
         \A r \in Runs : Finalize(r) \in ready' => Finalize(r) \in ready \cup {worker[w].msg}
  PROVE  ChordInv'
<1>1. PICK slot : Become(w, slot) /\ slot.pc = step /\ slot.msg = worker[w].msg
  BY NextSlot
<1>2. ~ Owning(slot)
  BY <1>1 DEF Owning
<1> QED
  BY <1>1, <1>2, OnKeepsChord

LEMMA OtherTaskKeepsChord ==
  ASSUME TypeInv, ChordInv, NEW w \in Workers, ~ At(w, "idle"), NEW slot, Become(w, slot),
         slot.msg = worker[w].msg, worker[w].msg.task # "process_video",
         runs' = runs, awaited' \subseteq awaited,
         \A r \in Runs : Finalize(r) \in ready' => Finalize(r) \in ready
  PROVE  ChordInv'
BY OnKeepsChord DEF Owning

(* Report publishes the body of a run when its last part returns.          *)
LEMMA ReportKeepsChord ==
  ASSUME TypeInv, ChordInv, NEW w \in Workers, ~ At(w, "idle"), Report(w)
  PROVE  ChordInv'
<1> DEFINE m == worker[w].msg
           r == RunOf(m.clip)
<1>1. runs' = runs /\ awaited' \subseteq awaited /\ Return(w, "ack")
  BY DEF Report, tables
<1>2. CASE ready' = ready
  BY <1>1, <1>2, ReturnKeepsChord
<1>3. CASE ready' # ready
  <2>1. /\ m.clip \in awaited /\ \A c \in awaited' : RunOf(c) # r
        /\ ready' = ready \cup {Finalize(r)}
    BY <1>3 DEF Report
  <2>2. r \in Runs /\ Dispatched(r)
    BY <2>1, AwaitedRuns DEF Dispatched
  <2>3. PICK slot : Become(w, slot) /\ slot.pc = "ack" /\ slot.msg = worker[w].msg
    BY <1>1, NextSlot
  <2>4. worker'[w] = slot /\ \A x \in Workers \ {w} : worker'[x] = worker[x]
    BY <2>3 DEF Become, TypeInv, TypeOK
  <2>5. ASSUME NEW s \in Runs, InFlight(Finalize(s))', s # r
        PROVE  InFlight(Finalize(s))
    <3>1. Finalize(s) # Finalize(r)
      BY <2>2, <2>5, FinalizeInjective
    <3>2. CASE Finalize(s) \in ready'
      BY <2>1, <3>1, <3>2 DEF InFlight
    <3>3. CASE \E x \in Workers : ~ At(x, "idle")' /\ worker'[x].msg = Finalize(s)
      BY <2>3, <2>4, <3>3 DEF InFlight, At
    <3> QED
      BY <2>5, <3>2, <3>3 DEF InFlight, Finalize
  <2>6. ASSUME NEW s \in Runs, Dispatched(s)'
        PROVE  Dispatched(s)
    BY <1>1, <2>2, <2>5, <2>6 DEF Dispatched
  <2>7. FinalizeAfterAll'
    <3> SUFFICES ASSUME NEW c \in awaited', InFlight(Finalize(RunOf(c)))'
                 PROVE  FALSE
      BY DEF FinalizeAfterAll
    <3> QED
      BY <1>1, <2>1, <2>5, AwaitedRuns DEF ChordInv, FinalizeAfterAll
  <2>8. \A x \in Workers : Owning(worker'[x]) => x # w /\ worker'[x] = worker[x]
    BY <2>3, <2>4 DEF Owning
  <2>9. HeldIsNew' /\ HeldByOne'
    BY <1>1, <2>6, <2>8, HeldType DEF ChordInv, HeldIsNew, HeldByOne, Begun
  <2> QED
    BY <1>1, <2>6, <2>7, <2>9 DEF ChordInv, Begun
<1> QED
  BY <1>2, <1>3

LEMMA BrokerKeepsChord ==
  ASSUME TypeInv, ChordInv, NEW w \in Workers,
         Deliver(w) \/ Report(w) \/ ReportFailure(w) \/ Ack(w)
           \/ Crash(w) \/ Redeliver(w) \/ Kill(w)
  PROVE  ChordInv'
<1>1. CASE Deliver(w)
  <2>1. PICK m \in ready :
          /\ ready' = ready \ {m}
          /\ Become(w, [Idle EXCEPT !.pc = FirstStep[m.task], !.msg = m])
    BY <1>1 DEF Deliver
  <2> DEFINE slot == [Idle EXCEPT !.pc = FirstStep[m.task], !.msg = m]
  <2>2. slot.msg = m /\ slot.pc \in {"start", "read_clips"}
    BY DEF Idle, FirstStep, TypeInv, TypeOK, BrokerOK, Messages
  <2>3. Become(w, slot)
    BY <2>1
  <2>4. runs' = runs /\ awaited' = awaited
    BY <1>1 DEF Deliver, tables
  <2> HIDE DEF slot
  <2> QED
    BY <2>1, <2>2, <2>3, <2>4, ChordKept DEF InFlight, Owning
<1>2. CASE Report(w)
  BY <1>2, ReportKeepsChord DEF Report, At
<1>3. CASE ReportFailure(w)
  BY <1>3, ReturnKeepsChord DEF ReportFailure, LosePart, tables, At
<1>4. CASE Ack(w) \/ Crash(w) \/ Kill(w)
  <2>1. ~ At(w, "idle") /\ Become(w, Idle) /\ runs' = runs /\ awaited' \subseteq awaited
    BY <1>4 DEF Ack, Crash, Kill, LosePart, tables, broker, At
  <2>2. ready' \subseteq ready \cup {worker[w].msg}
    BY <1>4 DEF Ack, Crash, Kill, broker
  <2>3. Idle.pc = "idle" /\ ~ Owning(Idle)
    BY DEF Idle, Owning
  <2> QED
    BY <2>1, <2>2, <2>3, OnKeepsChord
<1>5. CASE Redeliver(w)
  BY <1>5, StillKeepsChord DEF Redeliver, InFlight, tables
<1> QED
  BY <1>1, <1>2, <1>3, <1>4, <1>5

LEMMA OtherMessages ==
  /\ \A c, q, n, r : Render(c, q, n) # Finalize(r)
  /\ \A v, n, r : Process(v, n) # Finalize(r)
<1>1. \A c, q, n, r : Render(c, q, n).task # Finalize(r).task
  BY DEF Render, Finalize
<1>2. \A v, n, r : Process(v, n).task # Finalize(r).task
  BY DEF Process, Finalize
<1> QED
  BY <1>1, <1>2

LEMMA RenderKeepsChord ==
  ASSUME TypeInv, ChordInv, NEW w \in Workers, RenderStep(w) \/ RenderFault(w)
  PROVE  ChordInv'
<1>1. CASE Report(w) \/ ReportFailure(w)
  BY <1>1, BrokerKeepsChord
<1>2. CASE ~ (Report(w) \/ ReportFailure(w))
  <2>1. /\ Doing(w, "render_clip") /\ ~ At(w, "idle")
        /\ runs' = runs /\ awaited' = awaited
    BY <1>2
       DEF RenderStep, RenderFault, ReadClip, MarkRendering, MakeDir, Cut, Reframe, Burn, Package,
           MarkCompleted, RemoveDir, RenderFails, HandleRenderError, CountRetry, RetryRender,
           MakeDirFails, RetryRenderFails, RenderCommitFails, CountRetryFails, Rendering, Doing,
           tables, broker
  <2>2. \A r \in Runs : Finalize(r) \in ready' => Finalize(r) \in ready
    <3>1. ready' = ready \/ \E c, q, n : ready' = ready \cup {Render(c, q, n)}
      BY <1>2
         DEF RenderStep, RenderFault, ReadClip, MarkRendering, MakeDir, Cut, Reframe, Burn,
             Package, MarkCompleted, RemoveDir, RenderFails, HandleRenderError, CountRetry,
             RetryRender, MakeDirFails, RetryRenderFails, RenderCommitFails, CountRetryFails, broker
    <3> QED
      BY <3>1, OtherMessages
  <2>3. worker[w] \in WorkerState
    BY <2>1, BusyType, UnchangedTypes
  <2>4. PICK slot : Become(w, slot) /\ slot.msg = worker[w].msg
    <3>1. CASE ReadClip(w) \/ HandleRenderError(w)
      <4> DEFINE row == Get(clip, Target(w))
      <4>1. PICK step : \/ Become(w, [worker[w] EXCEPT !.pc = step, !.seen = row])
                        \/ Return(w, step)
        BY <3>1 DEF ReadClip, HandleRenderError
      <4>2. [worker[w] EXCEPT !.pc = step, !.seen = row].msg = worker[w].msg
        BY <2>3 DEF WorkerState
      <4> QED
        BY <2>1, <4>1, <4>2, NextSlot
    <3>2. CASE Reframe(w)
      <4>1. PICK t \in Titles : Become(w, [worker[w] EXCEPT !.pc = "burn", !.title = t])
        BY <3>2 DEF Reframe
      <4>2. [worker[w] EXCEPT !.pc = "burn", !.title = t].msg = worker[w].msg
        BY <2>3 DEF WorkerState
      <4> QED
        BY <4>1, <4>2
    <3>3. ASSUME NEW e \in Errors, RenderFails(w, e)
          PROVE  \E slot : Become(w, slot) /\ slot.msg = worker[w].msg
      <4> DEFINE failed == [worker[w] EXCEPT !.pc = "render_failed", !.err = e, !.seen = None,
                                             !.title = None]
      <4>1. failed.msg = worker[w].msg
        BY <2>3 DEF WorkerState
      <4>2. Become(w, failed)
        BY <3>3 DEF RenderFails
      <4> QED
        BY <4>1, <4>2
    <3>4. CASE \/ MarkRendering(w) \/ MakeDir(w) \/ Cut(w) \/ Burn(w) \/ Package(w)
               \/ MarkCompleted(w) \/ RemoveDir(w) \/ CountRetry(w) \/ RetryRender(w)
               \/ RenderFault(w)
      <4>1. \E step : Goto(w, step) \/ Return(w, step)
        BY <3>4
           DEF MarkRendering, MakeDir, Cut, Burn, Package, MarkCompleted, RemoveDir, CountRetry,
               RetryRender, RenderFault, MakeDirFails, RetryRenderFails, RenderCommitFails,
               CountRetryFails
      <4> QED
        BY <2>1, <4>1, NextSlot
    <3> QED
      BY <1>2, <3>1, <3>2, <3>3, <3>4 DEF RenderStep
  <2> QED
    BY <2>1, <2>2, <2>4, OtherTaskKeepsChord DEF Doing
<1> QED
  BY <1>1, <1>2

LEMMA FinalizeKeepsChord ==
  ASSUME TypeInv, ChordInv, NEW w \in Workers, FinalizeStep(w) \/ FinalizeFault(w)
  PROVE  ChordInv'
<1>1. ~ At(w, "idle") /\ runs' = runs /\ awaited' = awaited /\ ready' = ready
  BY DEF FinalizeStep, FinalizeFault, ReadClips, MarkFinalized, RemoveWorkspace,
         RemoveWorkspaceFails, FinalizeCommitFails, Finalizing, Doing, tables, broker
<1>2. worker[w] \in WorkerState
  BY <1>1, BusyType, UnchangedTypes
<1>3. PICK slot : /\ Become(w, slot) /\ slot.msg = worker[w].msg
                  /\ slot.pc \in {"mark_finalized", "remove_workspace", "ack"}
  <2>1. CASE ReadClips(w)
    <3> DEFINE slot == [worker[w] EXCEPT !.pc = "mark_finalized", !.seen = video[Subject(w)],
                                         !.tally = Tally(Subject(w))]
    <3>1. slot.pc = "mark_finalized" /\ slot.msg = worker[w].msg
      BY <1>2 DEF WorkerState
    <3>2. Become(w, slot)
      BY <2>1 DEF ReadClips
    <3> QED
      BY <3>1, <3>2
  <2>2. CASE MarkFinalized(w) \/ RemoveWorkspace(w) \/ FinalizeFault(w)
    <3>1. PICK step \in {"remove_workspace", "ack"} : Goto(w, step) \/ Return(w, step)
      BY <2>2
         DEF MarkFinalized, RemoveWorkspace, FinalizeFault, RemoveWorkspaceFails,
             FinalizeCommitFails
    <3> QED
      BY <1>1, <3>1, NextSlot
  <2> QED
    BY <2>1, <2>2 DEF FinalizeStep
<1>4. ~ Owning(slot)
  BY <1>3 DEF Owning
<1> QED
  BY <1>1, <1>3, <1>4, OnKeepsChord

(* A claim begins a run: what was dispatched or is held is older.          *)
LEMMA ClaimKeepsChord ==
  ASSUME TypeInv, ChordInv, NEW w \in Workers, ClaimVideo(w)
  PROVE  ChordInv'
<1> DEFINE v == Subject(w)
           slot == [worker[w] EXCEPT !.pc = "open_job", !.seen = None, !.run = runs[v] + 1]
<1>0. PICK new : new = <<v, runs[v] + 1>>
  OBVIOUS
<1>1. ~ At(w, "idle") /\ Doing(w, "process_video") /\ At(w, "claim")
  BY DEF ClaimVideo, Preparing, Doing
<1>2. /\ v \in Videos /\ worker[w] \in WorkerState /\ runs[v] \in Nat
      /\ runs' = [runs EXCEPT ![v] = @ + 1] /\ runs \in [Videos -> Nat]
  BY <1>1, BusyType, SubjectType, UnchangedTypes DEF ClaimVideo, TablesOK
<1>3. slot.msg = worker[w].msg /\ slot.run = runs[v] + 1 /\ RunHeld(slot) = new
  BY <1>0, <1>2 DEF WorkerState, RunHeld, Subject
<1>4. Become(w, slot) /\ awaited' = awaited /\ ready' = ready
  BY DEF ClaimVideo, broker
<1> HIDE DEF slot
<1>5. worker'[w] = slot /\ \A x \in Workers \ {w} : worker'[x] = worker[x]
  BY <1>4 DEF Become, TypeInv, TypeOK
<1>6. \A r \in Runs : Begun(r) => Begun(r)' /\ r # new
  BY <1>0, <1>2 DEF Begun, Runs
<1>7. Begun(new)' /\ new \in Runs
  BY <1>0, <1>2 DEF Begun, Runs
<1>8. \A r \in Runs : InFlight(Finalize(r))' => InFlight(Finalize(r))
  BY <1>1, <1>3, <1>4, <1>5 DEF InFlight, At
<1>9. \A r \in Runs : Dispatched(r)' => Dispatched(r)
  BY <1>4, <1>8 DEF Dispatched
<1>10. FinalizeAfterAll'
  BY <1>4, <1>8, AwaitedRuns DEF ChordInv, FinalizeAfterAll
<1>11. \A r \in Runs : Dispatched(r)' => Begun(r)'
  BY <1>6, <1>9 DEF ChordInv
<1>12. \A x \in Workers \ {w} : Owning(worker[x]) => RunHeld(worker[x]) # new
  BY <1>6, HeldType DEF ChordInv, HeldIsNew
<1>13. HeldIsNew'
  <2>1. ~ Dispatched(new)'
    BY <1>6, <1>7, <1>9 DEF ChordInv
  <2>2. ASSUME NEW x \in Workers \ {w}, Owning(worker[x])
        PROVE  Begun(RunHeld(worker[x]))' /\ ~ Dispatched(RunHeld(worker[x]))'
    BY <1>5, <1>6, <1>9, <2>2, HeldType DEF ChordInv, HeldIsNew, RunHeld, Begun, Dispatched
  <2> QED
    BY <1>3, <1>5, <1>7, <2>1, <2>2 DEF HeldIsNew
<1>14. HeldByOne'
  BY <1>3, <1>5, <1>12 DEF ChordInv, HeldByOne
<1> QED
  BY <1>10, <1>11, <1>13, <1>14 DEF ChordInv

(* Dispatch makes the parts of the run it held outstanding: nothing of it  *)
(* was before, and nobody holds it any more.                               *)
LEMMA DispatchKeepsChord ==
  ASSUME TypeInv, ChordInv, NEW w \in Workers, Dispatch(w)
  PROVE  ChordInv'
<1>0. PICK held : held = RunHeld(worker[w])
  OBVIOUS
<1>1. ~ At(w, "idle") /\ Owning(worker[w])
  BY DEF Dispatch, Preparing, Doing, Owning, At
<1>2. held \in Runs /\ Begun(held) /\ ~ Dispatched(held)
  BY <1>0, <1>1, HeldType DEF ChordInv, HeldIsNew
<1>3. runs' = runs /\ \A c \in awaited' : c \in awaited \/ RunOf(c) = held
  BY <1>0 DEF Dispatch, OwnClips, ClipsOfRun, RunHeld, Subject, tables
<1>4. \A r \in Runs : Finalize(r) \in ready' => Finalize(r) \in ready
  BY OtherMessages DEF Dispatch
<1>5. PICK step \in {"read_clips", "ack"} : Return(w, step)
  BY DEF Dispatch
<1>6. PICK slot : Become(w, slot) /\ slot.pc = step /\ slot.msg = worker[w].msg
  BY <1>1, <1>5, NextSlot
<1>7. /\ worker'[w] = slot /\ ~ Owning(slot)
      /\ \A x \in Workers \ {w} : worker'[x] = worker[x]
  BY <1>5, <1>6 DEF Become, TypeInv, TypeOK, Owning
<1>8. \A r \in Runs : InFlight(Finalize(r))' => InFlight(Finalize(r))
  BY <1>1, <1>4, <1>6, <1>7 DEF InFlight, At, Finalize
<1>9. \A r \in Runs : Dispatched(r)' => Dispatched(r) \/ r = held
  BY <1>3, <1>8 DEF Dispatched
<1>10. FinalizeAfterAll'
  <2> SUFFICES ASSUME NEW c \in awaited', InFlight(Finalize(RunOf(c)))'
               PROVE  FALSE
    BY DEF FinalizeAfterAll
  <2>1. CASE c \in awaited
    BY <1>8, <2>1, AwaitedRuns DEF ChordInv, FinalizeAfterAll
  <2>2. CASE RunOf(c) = held
    BY <1>2, <1>8, <2>2 DEF Dispatched
  <2> QED
    BY <1>3, <2>1, <2>2
<1>11. \A r \in Runs : Dispatched(r)' => Begun(r)'
  BY <1>2, <1>3, <1>9 DEF ChordInv, Begun
<1>12. ASSUME NEW x \in Workers, Owning(worker'[x])
       PROVE  /\ x # w /\ worker'[x] = worker[x]
              /\ RunHeld(worker[x]) # held
  BY <1>0, <1>1, <1>7, <1>12 DEF ChordInv, HeldByOne
<1>13. HeldIsNew'
  BY <1>3, <1>9, <1>12, HeldType DEF ChordInv, HeldIsNew, Begun
<1>14. HeldByOne'
  BY <1>12 DEF ChordInv, HeldByOne
<1> QED
  BY <1>10, <1>11, <1>13, <1>14 DEF ChordInv

LEMMA PrepareKeepsChord ==
  ASSUME TypeInv, ChordInv, NEW w \in Workers, PrepareStep(w) \/ PrepareFault(w)
  PROVE  ChordInv'
<1>1. ~ At(w, "idle") /\ Doing(w, "process_video")
  BY DEF PrepareStep, PrepareFault, ReadVideo, ClaimVideo, OpenJob, Staging, Ingest, Transcribe,
         Analyze, CloseJob, StageFails, RetryProcess, Dispatch, RetryProcessFails, DispatchFails,
         PrepareCommitFails, Preparing, Doing
<1>2. worker[w] \in WorkerState
  BY <1>1, BusyType, UnchangedTypes
<1>3. CASE ReadVideo(w)
  <2> DEFINE row == video[Subject(w)]
             slot == [worker[w] EXCEPT !.pc = "claim", !.seen = row]
  <2>1. runs' = runs /\ awaited' = awaited /\ ready' = ready
    BY <1>3 DEF ReadVideo, tables, broker
  <2>2. CASE Return(w, "ack")
    BY <1>1, <2>1, <2>2, ReturnKeepsChord
  <2>3. CASE Become(w, slot)
    <3>1. slot.pc = "claim" /\ slot.msg = worker[w].msg
      BY <1>2 DEF WorkerState
    <3> HIDE DEF slot
    <3>2. ~ Owning(slot)
      BY <3>1 DEF Owning
    <3> QED
      BY <1>1, <2>1, <2>3, <3>1, <3>2, OnKeepsChord
  <2> QED
    BY <1>3, <2>2, <2>3 DEF ReadVideo
<1>4. CASE ClaimVideo(w) \/ Dispatch(w)
  BY <1>4, ClaimKeepsChord, DispatchKeepsChord
<1>5. CASE OpenJob(w) \/ Ingest(w) \/ Transcribe(w) \/ Analyze(w) \/ CloseJob(w)
  <2>1. Owning(worker[w])
    BY <1>1, <1>5 DEF OpenJob, Ingest, Transcribe, Analyze, CloseJob, Staging, Preparing, At,
                      Doing, Owning
  <2>2. runs' = runs /\ awaited' = awaited /\ ready' = ready
    BY <1>5 DEF OpenJob, Ingest, Transcribe, Analyze, CloseJob, broker, tables
  <2>3. PICK slot : /\ Become(w, slot)
                    /\ slot.msg = worker[w].msg /\ slot.run = worker[w].run
    <3>1. PICK step, stage :
            \/ Become(w, [worker[w] EXCEPT !.pc = step])
            \/ Become(w, [worker[w] EXCEPT !.pc = step, !.stage = stage])
      BY <1>5 DEF OpenJob, Ingest, Transcribe, Analyze, CloseJob, Goto
    <3>2. /\ [worker[w] EXCEPT !.pc = step].msg = worker[w].msg
          /\ [worker[w] EXCEPT !.pc = step].run = worker[w].run
          /\ [worker[w] EXCEPT !.pc = step, !.stage = stage].msg = worker[w].msg
          /\ [worker[w] EXCEPT !.pc = step, !.stage = stage].run = worker[w].run
      BY <1>2 DEF WorkerState
    <3> QED
      BY <3>1, <3>2
  <2>4. RunHeld(slot) = RunHeld(worker[w])
    BY <2>3 DEF RunHeld
  <2> QED
    BY <1>1, <2>1, <2>2, <2>3, <2>4, ChordKept DEF InFlight
<1>6. CASE (\E e \in Errors : StageFails(w, e)) \/ RetryProcess(w) \/ PrepareFault(w)
  <2>1. runs' = runs /\ awaited' = awaited
    BY <1>6 DEF StageFails, RetryProcess, PrepareFault, RetryProcessFails, DispatchFails,
                PrepareCommitFails, tables, broker
  <2>2. \A r \in Runs : Finalize(r) \in ready' => Finalize(r) \in ready
    BY <1>6, OtherMessages
       DEF StageFails, RetryProcess, PrepareFault, RetryProcessFails, DispatchFails,
           PrepareCommitFails, broker
  <2>3. PICK step \in {"retry_process", "ack"} : Return(w, step)
    BY <1>6 DEF StageFails, RetryProcess, PrepareFault, RetryProcessFails, DispatchFails,
                PrepareCommitFails
  <2> QED
    BY <1>1, <2>1, <2>2, <2>3, ReturnKeepsChord
<1> QED
  BY <1>3, <1>4, <1>5, <1>6 DEF PrepareStep

LEMMA ChordHolds == Spec => []ChordInv
<1>1. Init => ChordInv
  BY DEF Init, ChordInv, FinalizeAfterAll, Dispatched, InFlight, At, HeldIsNew, HeldByOne, Owning,
         Idle
<1>2. TypeInv /\ ChordInv /\ [Next]_vars => ChordInv'
  <2> SUFFICES ASSUME TypeInv, ChordInv, [Next]_vars PROVE ChordInv'
    OBVIOUS
  <2>1. ASSUME NEW v \in Videos, CreateVideo(v) \/ Enqueue(v) \/ EnqueueFails(v) \/ Purge(v)
        PROVE  ChordInv'
    BY <2>1, StillKeepsChord, OtherMessages
       DEF CreateVideo, Enqueue, EnqueueFails, Purge, tables, broker, InFlight
  <2>2. ASSUME NEW w \in Workers, Deliver(w) \/ WorkerStep(w) \/ WorkerFault(w)
        PROVE  ChordInv'
    BY <2>2, BrokerKeepsChord, PrepareKeepsChord, RenderKeepsChord, FinalizeKeepsChord
       DEF WorkerStep, WorkerFault
  <2>3. ASSUME NEW c \in DOMAIN clip, Rerender(c)
        PROVE  ChordInv'
    BY <2>3, StillKeepsChord, OtherMessages DEF Rerender, tables, InFlight
  <2>4. CASE UNCHANGED vars
    BY <2>4, StillKeepsChord DEF vars, tables, broker, InFlight
  <2> QED
    BY <2>1, <2>2, <2>3, <2>4 DEF Next
<1> QED
  BY <1>1, <1>2, TypesHold, PTL DEF Spec

(* The chord of process_video "runs finalize_video only after every clip   *)
(* finishes": under every combination of worker deaths, redeliveries, time *)
(* limits, retries and failures, while a part of a run is outstanding its  *)
(* finalize_video is neither waiting for delivery nor being executed.      *)
THEOREM FinalizeWaits == Spec => []FinalizeAfterAll
<1>1. ChordInv => FinalizeAfterAll
  BY DEF ChordInv
<1> QED
  BY <1>1, ChordHolds, PTL
=============================================================================
