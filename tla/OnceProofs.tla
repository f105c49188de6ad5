----------------------------- MODULE OnceProofs -----------------------------
(***************************************************************************)
(* What holds of the farm when a message is not delivered twice.           *)
(***************************************************************************)
EXTENDS ClipFarmProofs

(* No task outlasts the visibility timeout, and no worker dies             *)
(* while it prepares a video: process_video runs once per publication.     *)
(* Everything else may happen: renders and finalize_video are redelivered  *)
(* after a death, tasks are killed, commits, disks and brokers fail.       *)
PreparedOnce ==
  "redeliver" \notin Events /\ ("crash" \in Events => "process_video" \notin CrashTasks)

Preps(w, v) ==
  /\ worker[w].pc \notin {"idle", "ack"}
  /\ worker[w].msg.task = "process_video" /\ worker[w].msg.video = v
Queued(v) == \E n \in Nat : Process(v, n) \in ready
PartOut(v) == \E c \in awaited : VideoOf(c) = v
BodyOut(v) == \E n \in Nat : InFlight(Finalize(<<v, n>>))
Free(v) == v \notin enqueuing /\ ~ Queued(v) /\ \A w \in Workers : ~ Preps(w, v)

(* One request to prepare a video exists at a time, in the API process, in *)
(* the broker or in a slot, and none once the renders are dispatched.      *)
OnePrepare(v) ==
  /\ v \in enqueuing => ~ Queued(v)
  /\ \A n, k \in Nat : Process(v, n) \in ready /\ Process(v, k) \in ready => n = k
  /\ v \in enqueuing \/ Queued(v) => \A w \in Workers : ~ Preps(w, v)
  /\ \A w, u \in Workers : Preps(w, v) /\ Preps(u, v) => w = u
  /\ PartOut(v) \/ BodyOut(v) => Free(v)

(* What the row says of where the video is.  A video has clips of one run  *)
(* only, the last, and from then on it is never prepared again.            *)
RowFits(v) ==
  /\ v \in enqueuing \/ Queued(v) => video[v].status \in {"pending", "failed"}
  /\ video[v].status \in {"absent", "pending", "failed"} => ClipsOf(v) = {}
  /\ \A c \in ClipsOf(v) : c[2] = runs[v]
  /\ \A n \in Nat : InFlight(Finalize(<<v, n>>)) =>
       n = runs[v] /\ video[v].status \in {"running", "completed"}
  /\ \A c \in awaited : VideoOf(c) = v => c \in DOMAIN clip /\ video[v].status = "running"

(* Where a prepare is, and what the row of its video says.                 *)
PrepareFits(w, v) ==
  Preps(w, v) =>
    /\ video[v].status # "absent"
    /\ worker[w].pc \in {"start", "claim"} => video[v].status \in {"pending", "failed"}
    /\ worker[w].pc = "retry_process" => video[v].status = "failed"
    /\ worker[w].pc \in {"open_job", "stage", "close_job", "dispatch"} =>
         video[v].status = "running" /\ worker[w].run = runs[v]
    /\ worker[w].pc \in {"open_job", "stage"} \cup FinalizeSteps => ClipsOf(v) = {}
    /\ worker[w].pc = "close_job" /\ worker[w].stage # "analyze" => ClipsOf(v) = {}
    /\ worker[w].pc \in {"read_clips", "mark_finalized"} => video[v].status = "running"
FinalizeFits(w, v) ==
  Subject(w) = v =>
    /\ Finalizing(w, "mark_finalized") /\ worker[w].seen.status = "completed" =>
         video[v].status = "completed"
    /\ Finalizing(w, "remove_workspace") => video[v].status = "completed"

Once(v) ==
  /\ OnePrepare(v) /\ RowFits(v)
  /\ \A w \in Workers : PrepareFits(w, v) /\ FinalizeFits(w, v)
OnceInv == \A v \in Videos : Once(v)

----------------------------------------------------------------------------
(* The slots after a step, field by field.                                 *)

Others(w) == \A x \in Workers \ {w} : worker'[x] = worker[x]
SameLocals(w) ==
  /\ worker'[w].msg = worker[w].msg /\ worker'[w].run = worker[w].run
  /\ worker'[w].stage = worker[w].stage /\ worker'[w].seen = worker[w].seen
  /\ worker'[w].tally = worker[w].tally /\ worker'[w].title = worker[w].title
  /\ worker'[w].err = worker[w].err
NoLocals(w) ==
  /\ worker'[w].msg = worker[w].msg /\ worker'[w].run = 0 /\ worker'[w].stage = "ingest"

LEMMA MessageForms ==
  ASSUME NEW m \in Messages
  PROVE  /\ m.task = "process_video" =>
              m.video \in Videos /\ m.retries \in Nat /\ m = Process(m.video, m.retries)
         /\ m.task = "render_clip" =>
              /\ m.clip \in ClipIds /\ m.request \in Nat /\ m.retries \in Nat
              /\ m = Render(m.clip, m.request, m.retries)
         /\ m.task = "finalize_video" =>
              m.video \in Videos /\ m.run \in Nat /\ m = Finalize(<<m.video, m.run>>)
         /\ m.task \in TaskNames
<1>1. CASE m.task = "process_video"
  BY <1>1 DEF Messages, Process, TaskNames
<1>2. CASE m.task = "render_clip"
  BY <1>2 DEF Messages, Render, TaskNames
<1>3. CASE m.task = "finalize_video"
  BY <1>3 DEF Messages, Finalize, TaskNames
<1> QED
  BY <1>1, <1>2, <1>3 DEF Messages

LEMMA MessageFields ==
  /\ \A v, n : /\ Process(v, n).task = "process_video" /\ Process(v, n).video = v
               /\ Process(v, n).retries = n
  /\ \A c, q, n : /\ Render(c, q, n).task = "render_clip" /\ Render(c, q, n).clip = c
                  /\ Render(c, q, n).request = q /\ Render(c, q, n).retries = n
  /\ \A v, n : /\ Finalize(<<v, n>>).task = "finalize_video" /\ Finalize(<<v, n>>).video = v
               /\ Finalize(<<v, n>>).run = n
BY DEF Process, Render, Finalize

LEMMA BecomeSlot ==
  ASSUME TypeInv, NEW w \in Workers, NEW slot, Become(w, slot)
  PROVE  worker'[w] = slot /\ Others(w)
BY DEF Become, TypeInv, TypeOK, Others

LEMMA GotoSlot ==
  ASSUME TypeInv, NEW w \in Workers, NEW step, Goto(w, step)
  PROVE  worker'[w].pc = step /\ SameLocals(w) /\ Others(w)
<1>1. worker[w] \in WorkerState
  BY DEF TypeInv, TypeOK
<1>2. worker'[w] = [worker[w] EXCEPT !.pc = step] /\ Others(w)
  BY BecomeSlot DEF Goto
<1> QED
  BY <1>1, <1>2 DEF SameLocals, WorkerState

LEMMA ReturnSlot ==
  ASSUME TypeInv, NEW w \in Workers, NEW step, Return(w, step)
  PROVE  worker'[w].pc = step /\ NoLocals(w) /\ Others(w)
<1>1. worker'[w] = [Idle EXCEPT !.pc = step, !.msg = worker[w].msg] /\ Others(w)
  BY BecomeSlot DEF Return
<1> QED
  BY <1>1 DEF NoLocals, Idle

LEMMA PrepareSlots ==
  ASSUME TypeInv, NEW w \in Workers
  PROVE  /\ ReadVideo(w) =>
              /\ worker'[w].msg = worker[w].msg /\ Others(w)
              /\ \/ worker'[w].pc = "ack"
                 \/ /\ worker'[w].pc = "claim" /\ worker'[w].seen = video[Subject(w)]
                    /\ worker'[w].stage = worker[w].stage
                    /\ video[Subject(w)].status # "running"
         /\ ClaimVideo(w) =>
              /\ worker'[w].msg = worker[w].msg /\ Others(w) /\ worker'[w].pc = "open_job"
              /\ worker'[w].run = runs[Subject(w)] + 1 /\ worker'[w].stage = worker[w].stage
         /\ OpenJob(w) => worker'[w].pc = "stage" /\ SameLocals(w) /\ Others(w)
         /\ Ingest(w) \/ Transcribe(w) \/ Analyze(w) =>
              worker'[w].pc = "close_job" /\ SameLocals(w) /\ Others(w)
         /\ CloseJob(w) =>
              /\ worker'[w].msg = worker[w].msg /\ Others(w) /\ worker'[w].run = worker[w].run
              /\ \/ /\ worker[w].stage = "analyze" /\ worker'[w].pc = "dispatch"
                    /\ worker'[w].stage = "analyze"
                 \/ /\ worker[w].stage # "analyze" /\ worker'[w].pc = "open_job"
                    /\ worker'[w].stage = Following[worker[w].stage]
<1>1. worker[w] \in WorkerState
  BY DEF TypeInv, TypeOK
<1>2. ASSUME ReadVideo(w)
      PROVE  /\ worker'[w].msg = worker[w].msg /\ Others(w)
             /\ \/ worker'[w].pc = "ack"
                \/ /\ worker'[w].pc = "claim" /\ worker'[w].seen = video[Subject(w)]
                   /\ worker'[w].stage = worker[w].stage
                   /\ video[Subject(w)].status # "running"
  <2>1. CASE video[Subject(w)].status = "running"
    BY <1>2, <2>1, ReturnSlot DEF ReadVideo, NoLocals
  <2>2. CASE video[Subject(w)].status # "running"
    <3>1. worker'[w] = [worker[w] EXCEPT !.pc = "claim", !.seen = video[Subject(w)]] /\ Others(w)
      BY <1>2, <2>2, BecomeSlot DEF ReadVideo
    <3> QED
      BY <1>1, <2>2, <3>1 DEF WorkerState
  <2> QED
    BY <2>1, <2>2
<1>3. ASSUME ClaimVideo(w)
      PROVE  /\ worker'[w].msg = worker[w].msg /\ Others(w) /\ worker'[w].pc = "open_job"
             /\ worker'[w].run = runs[Subject(w)] + 1 /\ worker'[w].stage = worker[w].stage
  <2>1. /\ worker'[w] = [worker[w] EXCEPT !.pc = "open_job", !.seen = None,
                                          !.run = runs[Subject(w)] + 1]
        /\ Others(w)
    BY <1>3, BecomeSlot DEF ClaimVideo
  <2> QED
    BY <1>1, <2>1 DEF WorkerState
<1>4. OpenJob(w) => worker'[w].pc = "stage" /\ SameLocals(w) /\ Others(w)
  BY GotoSlot DEF OpenJob
<1>5. Ingest(w) \/ Transcribe(w) \/ Analyze(w) =>
        worker'[w].pc = "close_job" /\ SameLocals(w) /\ Others(w)
  BY GotoSlot DEF Ingest, Transcribe, Analyze
<1>6. ASSUME CloseJob(w)
      PROVE  /\ worker'[w].msg = worker[w].msg /\ Others(w) /\ worker'[w].run = worker[w].run
             /\ \/ /\ worker[w].stage = "analyze" /\ worker'[w].pc = "dispatch"
                   /\ worker'[w].stage = "analyze"
                \/ /\ worker[w].stage # "analyze" /\ worker'[w].pc = "open_job"
                   /\ worker'[w].stage = Following[worker[w].stage]
  <2>1. CASE worker[w].stage = "analyze"
    BY <1>6, <2>1, GotoSlot DEF CloseJob, SameLocals
  <2>2. CASE worker[w].stage # "analyze"
    <3>1. /\ worker'[w] = [worker[w] EXCEPT !.pc = "open_job", !.stage = Following[@]]
          /\ Others(w)
      BY <1>6, <2>2, BecomeSlot DEF CloseJob
    <3> QED
      BY <1>1, <2>2, <3>1 DEF WorkerState
  <2> QED
    BY <2>1, <2>2
<1> QED
  BY <1>2, <1>3, <1>4, <1>5, <1>6

LEMMA FinalizeSlots ==
  ASSUME TypeInv, NEW w \in Workers
  PROVE  /\ ReadClips(w) =>
              /\ worker'[w].msg = worker[w].msg /\ Others(w) /\ worker'[w].pc = "mark_finalized"
              /\ worker'[w].seen = video[Subject(w)] /\ worker'[w].tally = Tally(Subject(w))
         /\ MarkFinalized(w) => worker'[w].pc = "remove_workspace" /\ SameLocals(w) /\ Others(w)
         /\ RemoveWorkspace(w) \/ FinalizeFault(w) =>
              worker'[w].pc = "ack" /\ NoLocals(w) /\ Others(w)
<1>1. worker[w] \in WorkerState
  BY DEF TypeInv, TypeOK
<1>2. ASSUME ReadClips(w)
      PROVE  /\ worker'[w].msg = worker[w].msg /\ Others(w) /\ worker'[w].pc = "mark_finalized"
             /\ worker'[w].seen = video[Subject(w)] /\ worker'[w].tally = Tally(Subject(w))
  <2>1. /\ worker'[w] = [worker[w] EXCEPT !.pc = "mark_finalized", !.seen = video[Subject(w)],
                                          !.tally = Tally(Subject(w))]
        /\ Others(w)
    BY <1>2, BecomeSlot DEF ReadClips
  <2> QED
    BY <1>1, <2>1 DEF WorkerState
<1>3. MarkFinalized(w) => worker'[w].pc = "remove_workspace" /\ SameLocals(w) /\ Others(w)
  BY GotoSlot DEF MarkFinalized
<1>4. RemoveWorkspace(w) \/ FinalizeFault(w) => worker'[w].pc = "ack" /\ NoLocals(w) /\ Others(w)
  BY ReturnSlot DEF RemoveWorkspace, FinalizeFault, RemoveWorkspaceFails, FinalizeCommitFails
<1> QED
  BY <1>2, <1>3, <1>4

(* A render moves its own slot and leaves the videos' rows, the set of     *)
(* clips and the other tasks' messages alone.                              *)
LEMMA RenderFrame ==
  ASSUME TypeInv, NEW w \in Workers, RenderStep(w) \/ RenderFault(w)
  PROVE  /\ Doing(w, "render_clip") \/ Report(w) \/ ReportFailure(w)
         /\ worker'[w].msg = worker[w].msg /\ Others(w) /\ worker'[w].pc # "idle"
         /\ UNCHANGED <<video, job, runs, enqueuing>> /\ DOMAIN clip' = DOMAIN clip
<1>1. CASE Report(w) \/ ReportFailure(w)
  BY <1>1, ReturnSlot DEF Report, ReportFailure, NoLocals, tables
<1>2. CASE ~ (Report(w) \/ ReportFailure(w))
  <2>1. worker[w] \in WorkerState
    BY DEF TypeInv, TypeOK
  <2>2. Doing(w, "render_clip") /\ UNCHANGED <<video, job, runs, enqueuing>>
        /\ DOMAIN clip' = DOMAIN clip
    BY <1>2
       DEF RenderStep, RenderFault, ReadClip, MarkRendering, MakeDir, Cut, Reframe, Burn, Package,
           MarkCompleted, RemoveDir, RenderFails, HandleRenderError, CountRetry, RetryRender,
           MakeDirFails, RetryRenderFails, RenderCommitFails, CountRetryFails, Rendering, tables
  <2>3. PICK slot : Become(w, slot) /\ slot.msg = worker[w].msg /\ slot.pc # "idle"
    <3>1. CASE ReadClip(w) \/ HandleRenderError(w)
      <4> DEFINE row == Get(clip, Target(w))
      <4>1. PICK step : /\ step # "idle"
                        /\ \/ Become(w, [worker[w] EXCEPT !.pc = step, !.seen = row])
                           \/ Return(w, step)
        BY <3>1 DEF ReadClip, HandleRenderError
      <4>2. /\ [worker[w] EXCEPT !.pc = step, !.seen = row].msg = worker[w].msg
            /\ [worker[w] EXCEPT !.pc = step, !.seen = row].pc = step
        BY <2>1 DEF WorkerState
      <4>3. CASE Return(w, step)
        BY <2>2, <4>1, <4>3, NextSlot DEF Doing
      <4> QED
        BY <4>1, <4>2, <4>3
    <3>2. CASE Reframe(w)
      <4>1. PICK t \in Titles : Become(w, [worker[w] EXCEPT !.pc = "burn", !.title = t])
        BY <3>2 DEF Reframe
      <4>2. /\ [worker[w] EXCEPT !.pc = "burn", !.title = t].msg = worker[w].msg
            /\ [worker[w] EXCEPT !.pc = "burn", !.title = t].pc = "burn"
        BY <2>1 DEF WorkerState
      <4> QED
        BY <4>1, <4>2
    <3>3. ASSUME NEW e \in Errors, RenderFails(w, e)
          PROVE  \E slot : Become(w, slot) /\ slot.msg = worker[w].msg /\ slot.pc # "idle"
      <4> DEFINE failed == [worker[w] EXCEPT !.pc = "render_failed", !.err = e, !.seen = None,
                                             !.title = None]
      <4>1. failed.msg = worker[w].msg /\ failed.pc = "render_failed"
        BY <2>1 DEF WorkerState
      <4>2. Become(w, failed)
        BY <3>3 DEF RenderFails
      <4> QED
        BY <4>1, <4>2
    <3>4. CASE \/ MarkRendering(w) \/ MakeDir(w) \/ Cut(w) \/ Burn(w) \/ Package(w)
               \/ MarkCompleted(w) \/ RemoveDir(w) \/ CountRetry(w) \/ RetryRender(w)
               \/ RenderFault(w)
      <4>1. \E step : step # "idle" /\ (Goto(w, step) \/ Return(w, step))
        BY <3>4
           DEF MarkRendering, MakeDir, Cut, Burn, Package, MarkCompleted, RemoveDir, CountRetry,
               RetryRender, RenderFault, MakeDirFails, RetryRenderFails, RenderCommitFails,
               CountRetryFails
      <4> QED
        BY <2>2, <4>1, NextSlot DEF Doing
    <3> QED
      BY <1>2, <3>1, <3>2, <3>3, <3>4 DEF RenderStep
  <2> QED
    BY <2>2, <2>3, BecomeSlot
<1> QED
  BY <1>1, <1>2

----------------------------------------------------------------------------
(* What a step does not touch of a video, it leaves as it was.             *)

Untouched(v) ==
  /\ video'[v] = video[v] /\ runs'[v] = runs[v]
  /\ ClipsOf(v)' = ClipsOf(v)
  /\ v \in enqueuing' => v \in enqueuing
  /\ \A n \in Nat : Process(v, n) \in ready' => Process(v, n) \in ready
  /\ \A n \in Nat : InFlight(Finalize(<<v, n>>))' => InFlight(Finalize(<<v, n>>))
  /\ \A c \in awaited' : VideoOf(c) = v => c \in awaited
SameSlot(x) == worker'[x] = worker[x]
Ending(x) == Finalizing(x, "mark_finalized") \/ Finalizing(x, "remove_workspace")
Apart(v) ==
  /\ Untouched(v)
  /\ \A x \in Workers : ~ SameSlot(x) => ~ Preps(x, v)' /\ ~ (Ending(x)' /\ Subject(x)' = v)

LEMMA ApartOnce ==
  ASSUME NEW v \in Videos, Once(v), Apart(v)
  PROVE  Once(v)'
<1>0. Untouched(v)
  BY DEF Apart
<1>1. \A x \in Workers : Preps(x, v)' => Preps(x, v) /\ SameSlot(x)
  BY DEF Preps, SameSlot, Apart
<1>2. Queued(v)' => Queued(v)
  BY <1>0 DEF Queued, Untouched
<1>3. PartOut(v)' => PartOut(v)
  BY <1>0 DEF PartOut, Untouched
<1>4. BodyOut(v)' => BodyOut(v)
  BY <1>0 DEF BodyOut, Untouched
<1>5. OnePrepare(v)'
  BY <1>0, <1>1, <1>2, <1>3, <1>4 DEF Once, OnePrepare, Untouched, Free
<1>6. RowFits(v)'
  <2>1. \A c \in awaited' : VideoOf(c) = v => c \in DOMAIN clip'
    BY <1>0 DEF Once, RowFits, Untouched, ClipsOf
  <2> QED
    BY <1>0, <1>2, <2>1 DEF Once, RowFits, Untouched
<1>7. ASSUME NEW x \in Workers
      PROVE  PrepareFits(x, v)'
  BY <1>0, <1>1 DEF Once, PrepareFits, Untouched, SameSlot, ClipsOf
<1>8. ASSUME NEW x \in Workers
      PROVE  FinalizeFits(x, v)'
  BY <1>0 DEF Once, FinalizeFits, Untouched, SameSlot, Apart, Ending, Subject, Finalizing, Doing, At
<1> QED
  BY <1>5, <1>6, <1>7, <1>8 DEF Once

(* The steps that touch a video: those of its own tasks, what the API does *)
(* with it, the delivery of its request and the return of its last part.   *)
Own(w, v) ==
  /\ PrepareStep(w) \/ PrepareFault(w) \/ FinalizeStep(w) \/ FinalizeFault(w)
  /\ Subject(w) = v
Delivers(w, v) == Deliver(w) /\ worker'[w].msg.task = "process_video" /\ worker'[w].msg.video = v
Publishes(w, v) ==
  Report(w) /\ \E n \in Nat : Finalize(<<v, n>>) \in ready' /\ Finalize(<<v, n>>) \notin ready

LEMMA DeliverSlot ==
  ASSUME TypeInv, NEW w \in Workers, Deliver(w)
  PROVE  \E m \in ready : /\ m \in Messages /\ ready' = ready \ {m} /\ Others(w)
                          /\ worker'[w].msg = m /\ worker'[w].stage = "ingest" /\ worker'[w].run = 0
                          /\ worker'[w].pc = FirstStep[m.task]
<1>1. PICK m \in ready : /\ ready' = ready \ {m}
                         /\ Become(w, [Idle EXCEPT !.pc = FirstStep[m.task], !.msg = m])
  BY DEF Deliver
<1>2. worker'[w] = [Idle EXCEPT !.pc = FirstStep[m.task], !.msg = m] /\ Others(w)
  BY <1>1, BecomeSlot
<1>3. m \in Messages
  BY DEF TypeInv, TypeOK, BrokerOK
<1> QED
  BY <1>1, <1>2, <1>3 DEF Idle

(* One slot moves, and not into the tasks of the video.                    *)
LEMMA SlotsApart ==
  ASSUME NEW v \in Videos, Untouched(v), NEW w \in Workers, Others(w),
         \/ worker'[w].msg.video # v
         \/ worker'[w].pc \in {"idle", "ack"}
         \/ worker'[w].msg.task = "render_clip"
         \/ worker'[w].msg.task = "finalize_video" /\ worker'[w].pc = "read_clips"
  PROVE  Apart(v)
<1>1. \A x \in Workers : ~ SameSlot(x) => x = w
  BY DEF Others, SameSlot
<1>2. ~ Preps(w, v)'
  BY DEF Preps
<1>3. ~ (Ending(w)' /\ Subject(w)' = v)
  BY DEF Ending, Finalizing, Doing, At, Subject
<1> QED
  BY <1>1, <1>2, <1>3 DEF Apart

LEMMA PrepareDoes ==
  ASSUME TypeInv, NEW w \in Workers, PrepareStep(w) \/ PrepareFault(w)
  PROVE  /\ Doing(w, "process_video") /\ ~ At(w, "idle") /\ ~ At(w, "ack")
         /\ Subject(w) \in Videos /\ Preps(w, Subject(w))
<1>1. Doing(w, "process_video") /\ ~ At(w, "idle") /\ ~ At(w, "ack")
  BY DEF PrepareStep, PrepareFault, ReadVideo, ClaimVideo, OpenJob, Staging, Ingest, Transcribe,
         Analyze, CloseJob, StageFails, RetryProcess, Dispatch, RetryProcessFails, DispatchFails,
         PrepareCommitFails, Preparing, Doing, At
<1> QED
  BY <1>1, SubjectType, UnchangedTypes DEF Preps, Doing, Subject, At

(* It moves its own slot, which keeps its message, and touches no other    *)
(* video.                                                                  *)
LEMMA PrepareFrame ==
  ASSUME TypeInv, NEW w \in Workers, PrepareStep(w) \/ PrepareFault(w)
  PROVE  /\ worker'[w].msg = worker[w].msg /\ Others(w) /\ worker'[w].pc # "idle"
         /\ worker'[w].pc \notin {"mark_finalized", "remove_workspace"}
         /\ enqueuing' = enqueuing
<1>1. enqueuing' = enqueuing
  BY DEF PrepareStep, PrepareFault, ReadVideo, ClaimVideo, OpenJob, Ingest, Transcribe,
         Analyze, CloseJob, StageFails, RetryProcess, Dispatch, RetryProcessFails, DispatchFails,
         PrepareCommitFails
<1>2. CASE \/ ReadVideo(w) \/ ClaimVideo(w) \/ OpenJob(w)
           \/ Ingest(w) \/ Transcribe(w) \/ Analyze(w) \/ CloseJob(w)
  BY <1>1, <1>2, PrepareSlots DEF SameLocals
<1>3. CASE \/ \E e \in Errors : StageFails(w, e)
           \/ RetryProcess(w) \/ Dispatch(w) \/ PrepareFault(w)
  <2>1. PICK step \in {"retry_process", "read_clips", "ack"} : Return(w, step)
    BY <1>3 DEF StageFails, RetryProcess, Dispatch, PrepareFault, RetryProcessFails, DispatchFails,
                PrepareCommitFails
  <2> QED
    BY <1>1, <2>1, ReturnSlot DEF NoLocals
<1> QED
  BY <1>2, <1>3 DEF PrepareStep

LEMMA OwnClipsOf ==
  ASSUME NEW w \in Workers, NEW c \in OwnClips(w)
  PROVE  c \in DOMAIN clip /\ VideoOf(c) = Subject(w) /\ c[2] = worker[w].run
BY DEF OwnClips, ClipsOfRun, RunOf, VideoOf

LEMMA PrepareElsewhere ==
  ASSUME TypeInv, NEW w \in Workers, PrepareStep(w) \/ PrepareFault(w),
         NEW v \in Videos, v # Subject(w)
  PROVE  Apart(v)
<1>1. /\ worker'[w].msg = worker[w].msg /\ Others(w) /\ enqueuing' = enqueuing
      /\ ~ At(w, "idle") /\ Doing(w, "process_video")
  BY PrepareFrame, PrepareDoes
<1>2. Subject(w) \in Videos
  BY PrepareDoes
<1>3. video'[v] = video[v] /\ runs'[v] = runs[v]
  BY <1>2
     DEF PrepareStep, PrepareFault, ReadVideo, ClaimVideo, OpenJob, Ingest, Transcribe,
         Analyze, CloseJob, StageFails, RetryProcess, Dispatch, RetryProcessFails, DispatchFails,
         PrepareCommitFails, tables, TypeInv, TypeOK, TablesOK
<1>4. ClipsOf(v)' = ClipsOf(v)
  <2>1. CASE Analyze(w)
    <3>1. PICK n \in 0 .. MaxClips :
            clip' = Inserted(clip, {Subject(w)} \X {worker[w].run} \X (1 .. n), NewClip)
      BY <2>1 DEF Analyze
    <3>2. DOMAIN clip' = DOMAIN clip \cup {Subject(w)} \X {worker[w].run} \X (1 .. n)
      BY <3>1 DEF Inserted
    <3>3. \A c \in {Subject(w)} \X {worker[w].run} \X (1 .. n) : VideoOf(c) = Subject(w)
      BY DEF VideoOf
    <3> QED
      BY <3>2, <3>3 DEF ClipsOf
  <2>2. CASE ~ Analyze(w)
    BY <2>2
       DEF PrepareStep, PrepareFault, ReadVideo, ClaimVideo, OpenJob, Ingest, Transcribe,
           CloseJob, StageFails, RetryProcess, Dispatch, RetryProcessFails, DispatchFails,
           PrepareCommitFails, tables, ClipsOf
  <2> QED
    BY <2>1, <2>2
<1>5. \A n : Process(v, n) \in ready' => Process(v, n) \in ready
  BY MessageFields
     DEF PrepareStep, PrepareFault, ReadVideo, ClaimVideo, OpenJob, Ingest, Transcribe,
         Analyze, CloseJob, StageFails, RetryProcess, Dispatch, RetryProcessFails, DispatchFails,
         PrepareCommitFails, broker
<1>6. \A n : Finalize(<<v, n>>) \in ready' => Finalize(<<v, n>>) \in ready
  BY OtherMessages
     DEF PrepareStep, PrepareFault, ReadVideo, ClaimVideo, OpenJob, Ingest, Transcribe,
         Analyze, CloseJob, StageFails, RetryProcess, Dispatch, RetryProcessFails, DispatchFails,
         PrepareCommitFails, broker
<1>7. \A n \in Nat : InFlight(Finalize(<<v, n>>))' => InFlight(Finalize(<<v, n>>))
  BY <1>1, <1>6 DEF InFlight, Others, At
<1>8. \A c \in awaited' : VideoOf(c) = v => c \in awaited
  BY OwnClipsOf
     DEF PrepareStep, PrepareFault, ReadVideo, ClaimVideo, OpenJob, Ingest, Transcribe,
         Analyze, CloseJob, StageFails, RetryProcess, Dispatch, RetryProcessFails, DispatchFails,
         PrepareCommitFails, broker
<1>9. Untouched(v)
  BY <1>1, <1>3, <1>4, <1>5, <1>7, <1>8 DEF Untouched
<1> QED
  BY <1>1, <1>9, SlotsApart DEF Subject

(* A finalize moves its own slot and, at one step, the row of its video.   *)
LEMMA FinalizeFrame ==
  ASSUME TypeInv, NEW w \in Workers, FinalizeStep(w) \/ FinalizeFault(w)
  PROVE  /\ Doing(w, "finalize_video") \/ Doing(w, "process_video")
         /\ Subject(w) \in Videos /\ ~ At(w, "idle") /\ ~ At(w, "ack")
         /\ worker'[w].msg = worker[w].msg /\ Others(w) /\ worker'[w].pc # "idle"
         /\ UNCHANGED <<clip, job, runs, broker, enqueuing>>
         /\ \A v \in Videos \ {Subject(w)} : video'[v] = video[v]
         /\ worker'[w].pc \in {"mark_finalized", "remove_workspace", "ack"}
<1>1. /\ Doing(w, "finalize_video") \/ Doing(w, "process_video")
      /\ ~ At(w, "idle") /\ ~ At(w, "ack")
  BY DEF FinalizeStep, FinalizeFault, ReadClips, MarkFinalized, RemoveWorkspace,
         RemoveWorkspaceFails, FinalizeCommitFails, Finalizing, Doing, At
<1>2. Subject(w) \in Videos
  BY <1>1, SubjectType, UnchangedTypes
<1>3. UNCHANGED <<clip, job, runs, broker, enqueuing>>
  BY DEF FinalizeStep, FinalizeFault, ReadClips, MarkFinalized, RemoveWorkspace,
         RemoveWorkspaceFails, FinalizeCommitFails, tables
<1>4. \A v \in Videos \ {Subject(w)} : video'[v] = video[v]
  BY <1>2
     DEF FinalizeStep, FinalizeFault, ReadClips, MarkFinalized, RemoveWorkspace,
         RemoveWorkspaceFails, FinalizeCommitFails, tables, TypeInv, TypeOK, TablesOK
<1>5. /\ worker'[w].msg = worker[w].msg /\ Others(w) /\ worker'[w].pc # "idle"
      /\ worker'[w].pc \in {"mark_finalized", "remove_workspace", "ack"}
  BY FinalizeSlots DEF FinalizeStep, SameLocals, NoLocals
<1> QED
  BY <1>1, <1>2, <1>3, <1>4, <1>5

LEMMA FinalizeElsewhere ==
  ASSUME TypeInv, NEW w \in Workers, FinalizeStep(w) \/ FinalizeFault(w),
         NEW v \in Videos, v # Subject(w)
  PROVE  Apart(v)
<1>1. /\ ~ At(w, "idle") /\ worker'[w].msg = worker[w].msg /\ Others(w)
      /\ UNCHANGED <<clip, job, runs, broker, enqueuing>>
      /\ \A u \in Videos \ {Subject(w)} : video'[u] = video[u]
  BY FinalizeFrame
<1>2. \A r : InFlight(Finalize(r))' => InFlight(Finalize(r))
  BY <1>1 DEF InFlight, Others, At, broker
<1>3. Untouched(v)
  BY <1>1, <1>2 DEF Untouched, ClipsOf, broker
<1> QED
  BY <1>1, <1>3, SlotsApart DEF Subject

LEMMA DeliverElsewhere ==
  ASSUME TypeInv, NEW w \in Workers, Deliver(w), NEW v \in Videos, ~ Delivers(w, v)
  PROVE  Apart(v)
<1>1. PICK m \in ready : /\ m \in Messages /\ ready' = ready \ {m} /\ Others(w)
                         /\ worker'[w].msg = m /\ worker'[w].pc = FirstStep[m.task]
  BY DeliverSlot
<1>2. UNCHANGED <<tables, awaited, broken, enqueuing>>
  BY DEF Deliver
<1>3. \A r : InFlight(Finalize(r))' => InFlight(Finalize(r))
  BY <1>1 DEF InFlight, Others, At
<1>4. Untouched(v)
  BY <1>1, <1>2, <1>3 DEF Untouched, tables, ClipsOf
<1>5. m.task \in TaskNames
  BY <1>1, MessageForms
<1>6. m.task = "finalize_video" => worker'[w].pc = "read_clips"
  BY <1>1 DEF FirstStep
<1> QED
  BY <1>1, <1>4, <1>5, <1>6, SlotsApart DEF Delivers, TaskNames

LEMMA ReportElsewhere ==
  ASSUME TypeInv, NEW w \in Workers, Report(w), NEW v \in Videos, ~ Publishes(w, v)
  PROVE  Apart(v)
<1>1. /\ worker'[w].pc = "ack" /\ worker'[w].msg = worker[w].msg /\ Others(w) /\ ~ At(w, "idle")
      /\ UNCHANGED <<tables, enqueuing>> /\ awaited' \subseteq awaited
  BY ReturnSlot DEF Report, NoLocals, At
<1>2. \A n \in Nat : Process(v, n) \in ready' => Process(v, n) \in ready
  BY OtherMessages DEF Report
<1>3. \A n \in Nat : InFlight(Finalize(<<v, n>>))' => InFlight(Finalize(<<v, n>>))
  BY <1>1 DEF Publishes, InFlight, Others, At
<1>4. Untouched(v)
  BY <1>1, <1>2, <1>3 DEF Untouched, tables, ClipsOf
<1> QED
  BY <1>1, <1>4, SlotsApart

LEMMA BrokerElsewhere ==
  ASSUME PreparedOnce, TypeInv, NEW w \in Workers,
         ReportFailure(w) \/ Ack(w) \/ Crash(w) \/ Redeliver(w) \/ Kill(w), NEW v \in Videos
  PROVE  Apart(v)
<1>1. ~ Redeliver(w)
  BY DEF Redeliver, Happens, PreparedOnce
<1>2. /\ ~ At(w, "idle") /\ Others(w)
      /\ \/ worker'[w].pc = "idle"
         \/ worker'[w].pc = "ack" /\ worker'[w].msg = worker[w].msg
  BY <1>1, ReturnSlot, BecomeSlot DEF ReportFailure, Ack, Crash, Kill, NoLocals, Idle, At
<1>3. UNCHANGED <<tables, enqueuing>> /\ awaited' \subseteq awaited
  BY <1>1 DEF ReportFailure, Ack, Crash, Kill, LosePart, broker
<1>4. ready' = ready \/ (ready' = ready \cup {worker[w].msg} /\ worker[w].msg.task # "process_video")
  BY <1>1 DEF ReportFailure, Ack, Crash, Kill, broker, Happens, PreparedOnce
<1>5. \A n \in Nat : Process(v, n) \in ready' => Process(v, n) \in ready
  BY <1>4, MessageFields
<1>6. \A n \in Nat : InFlight(Finalize(<<v, n>>))' => InFlight(Finalize(<<v, n>>))
  BY <1>2, <1>4 DEF InFlight, Others, At
<1>7. Untouched(v)
  BY <1>3, <1>5, <1>6 DEF Untouched, tables, ClipsOf
<1> QED
  BY <1>2, <1>7, SlotsApart

LEMMA RenderElsewhere ==
  ASSUME PreparedOnce, TypeInv, NEW w \in Workers, RenderStep(w) \/ RenderFault(w),
         NEW v \in Videos, ~ Publishes(w, v)
  PROVE  Apart(v)
<1>1. CASE Report(w) \/ ReportFailure(w)
  BY <1>1, ReportElsewhere, BrokerElsewhere
<1>2. CASE ~ (Report(w) \/ ReportFailure(w))
  <2>1. /\ Doing(w, "render_clip") /\ worker'[w].msg = worker[w].msg /\ Others(w)
        /\ UNCHANGED <<video, job, runs, enqueuing>> /\ DOMAIN clip' = DOMAIN clip
    BY <1>2, RenderFrame
  <2>2. awaited' = awaited
    BY <1>2
       DEF RenderStep, RenderFault, ReadClip, MarkRendering, MakeDir, Cut, Reframe, Burn, Package,
           MarkCompleted, RemoveDir, RenderFails, HandleRenderError, CountRetry, RetryRender,
           MakeDirFails, RetryRenderFails, RenderCommitFails, CountRetryFails, broker
  <2>3. ready' = ready \/ \E c, q, n : ready' = ready \cup {Render(c, q, n)}
    BY <1>2
       DEF RenderStep, RenderFault, ReadClip, MarkRendering, MakeDir, Cut, Reframe, Burn,
           Package, MarkCompleted, RemoveDir, RenderFails, HandleRenderError, CountRetry,
           RetryRender, MakeDirFails, RetryRenderFails, RenderCommitFails, CountRetryFails, broker
  <2>4. \A n : /\ Process(v, n) \in ready' => Process(v, n) \in ready
               /\ Finalize(<<v, n>>) \in ready' => Finalize(<<v, n>>) \in ready
    BY <2>3, MessageFields, OtherMessages
  <2>5. \A n \in Nat : InFlight(Finalize(<<v, n>>))' => InFlight(Finalize(<<v, n>>))
    BY <2>1, <2>4, MessageFields DEF InFlight, Others, At, Doing
  <2>6. Untouched(v)
    BY <2>1, <2>2, <2>4, <2>5 DEF Untouched, ClipsOf
  <2> QED
    BY <2>1, <2>6, SlotsApart DEF Doing
<1> QED
  BY <1>1, <1>2

LEMMA StillElsewhere ==
  ASSUME NEW v \in Videos, UNCHANGED <<clip, runs, worker>>, video'[v] = video[v],
         awaited' \subseteq awaited, v \in enqueuing' => v \in enqueuing,
         \A n : Process(v, n) \in ready' => Process(v, n) \in ready,
         \A r : Finalize(r) \in ready' => Finalize(r) \in ready
  PROVE  Apart(v)
<1>1. \A r : InFlight(Finalize(r))' => InFlight(Finalize(r))
  BY DEF InFlight, At
<1> QED
  BY <1>1 DEF Apart, Untouched, SameSlot, ClipsOf

LEMMA ApiElsewhere ==
  ASSUME TypeInv, NEW u \in Videos, CreateVideo(u) \/ Enqueue(u) \/ EnqueueFails(u) \/ Purge(u),
         NEW v \in Videos, ~ CreateVideo(v), ~ Enqueue(v)
  PROVE  Apart(v)
BY StillElsewhere, OtherMessages, MessageFields
   DEF CreateVideo, Enqueue, EnqueueFails, Purge, tables, broker, TypeInv, TypeOK, TablesOK

(* Every other step leaves the video apart.                                *)
LEMMA Elsewhere ==
  ASSUME PreparedOnce, TypeInv, [Next]_vars, NEW v \in Videos, ~ CreateVideo(v), ~ Enqueue(v),
         \A w \in Workers : ~ Own(w, v) /\ ~ Delivers(w, v) /\ ~ Publishes(w, v)
  PROVE  Apart(v)
<1>1. ASSUME NEW u \in Videos, CreateVideo(u) \/ Enqueue(u) \/ EnqueueFails(u) \/ Purge(u)
      PROVE  Apart(v)
  BY <1>1, ApiElsewhere
<1>2. ASSUME NEW w \in Workers, Deliver(w) \/ WorkerStep(w) \/ WorkerFault(w)
      PROVE  Apart(v)
  BY <1>2, DeliverElsewhere, BrokerElsewhere, PrepareElsewhere, RenderElsewhere, FinalizeElsewhere
     DEF WorkerStep, WorkerFault, Own
<1>3. ASSUME NEW c \in DOMAIN clip, Rerender(c)
      PROVE  Apart(v)
  BY <1>3, StillElsewhere, MessageFields, OtherMessages DEF Rerender, tables
<1>4. CASE UNCHANGED vars
  BY <1>4, StillElsewhere DEF vars, broker, tables
<1> QED
  BY <1>1, <1>2, <1>3, <1>4 DEF Next

----------------------------------------------------------------------------
(* A prepare has its video for itself.                                     *)

LEMMA HeldOnce ==
  ASSUME NEW v \in Videos, Once(v), NEW w \in Workers, Preps(w, v)
  PROVE  /\ v \notin enqueuing /\ ~ Queued(v) /\ ~ PartOut(v) /\ ~ BodyOut(v)
         /\ \A x \in Workers : Preps(x, v) => x = w
BY DEF Once, OnePrepare, Free

(* A step of a prepare, or of a finalize inline, that publishes nothing of *)
(* its video.                                                              *)
LEMMA HeldStepOnce ==
  ASSUME TypeInv, NEW v \in Videos, Once(v), NEW w \in Workers, Preps(w, v),
         worker'[w].msg = worker[w].msg, Others(w), enqueuing' = enqueuing,
         \A n : Process(v, n) \in ready' => Process(v, n) \in ready,
         \A n : Finalize(<<v, n>>) \in ready' => Finalize(<<v, n>>) \in ready,
         \A c \in awaited' : VideoOf(c) = v => c \in awaited,
         video[v].status = "completed" => video'[v].status = "completed",
         video'[v].status \in {"absent", "pending", "failed"} => ClipsOf(v)' = {},
         \A c \in ClipsOf(v)' : c[2] = runs'[v],
         PrepareFits(w, v)', FinalizeFits(w, v)'
  PROVE  Once(v)'
<1>1. /\ v \notin enqueuing /\ ~ Queued(v) /\ ~ PartOut(v) /\ ~ BodyOut(v)
      /\ \A x \in Workers : Preps(x, v) => x = w
  BY HeldOnce
<1>2. ~ Queued(v)' /\ ~ PartOut(v)'
  BY <1>1 DEF Queued, PartOut
<1>3. ~ BodyOut(v)'
  BY <1>1 DEF BodyOut, InFlight, At, Others, Preps
<1>4. \A x \in Workers : Preps(x, v)' => x = w
  BY <1>1 DEF Preps, Others
<1>5. OnePrepare(v)'
  BY <1>1, <1>2, <1>3, <1>4 DEF OnePrepare, Queued
<1>6. RowFits(v)'
  BY <1>1, <1>2, <1>3 DEF RowFits, PartOut, BodyOut
<1>7. ASSUME NEW x \in Workers PROVE PrepareFits(x, v)'
  BY <1>4 DEF PrepareFits
<1>8. ASSUME NEW x \in Workers PROVE FinalizeFits(x, v)'
  <2>1. CASE x = w
    BY <2>1
  <2>2. CASE x # w
    BY <2>2 DEF Once, FinalizeFits, Others, Subject, Finalizing, Doing, At
  <2> QED
    BY <2>1, <2>2
<1> QED
  BY <1>5, <1>6, <1>7, <1>8 DEF Once

LEMMA PrepareOnce ==
  ASSUME TypeInv, NEW here \in Videos, Once(here),
         NEW w \in Workers, PrepareStep(w) \/ PrepareFault(w), Subject(w) = here
  PROVE  Once(here)'
<1>1. Doing(w, "process_video") /\ ~ At(w, "idle") /\ ~ At(w, "ack") /\ Preps(w, here)
  BY PrepareDoes
<1>2. /\ worker'[w].msg = worker[w].msg /\ Others(w) /\ worker'[w].pc # "idle"
      /\ worker'[w].pc \notin {"mark_finalized", "remove_workspace"} /\ enqueuing' = enqueuing
  BY PrepareFrame
<1>6. Subject(w) = here
  OBVIOUS
<1>7. here \in Videos /\ Once(here) /\ Preps(w, here) /\ FinalizeFits(w, here)'
  BY <1>1, <1>2 DEF FinalizeFits, Finalizing, At
<1>8. RowFits(here) /\ PrepareFits(w, here)
  BY <1>7 DEF Once
<1>9. /\ video \in [Videos -> VideoRow] /\ runs \in [Videos -> Nat] /\ video[here] \in VideoRow
      /\ worker[w] \in WorkerState
  BY <1>7 DEF TypeInv, TypeOK, TablesOK
<1>10. ASSUME ReadVideo(w) PROVE Once(here)'
  <2>1. UNCHANGED <<tables, broker>>
    BY <1>10 DEF ReadVideo
  <2>2. PrepareFits(w, here)'
    BY <1>6, <1>7, <1>8, <1>9, <1>10, <2>1, PrepareSlots
       DEF PrepareFits, Preps, FinalizeSteps, ReadVideo, Preparing, At, tables
  <2> QED
    BY <1>2, <1>7, <1>8, <2>1, <2>2, HeldStepOnce DEF RowFits, tables, broker, ClipsOf
<1>11. ASSUME ClaimVideo(w) PROVE Once(here)'
  <2>1. /\ video'[here].status = "running" /\ runs'[here] = runs[here] + 1
        /\ UNCHANGED <<clip, broker>>
    BY <1>6, <1>7, <1>9, <1>11 DEF ClaimVideo, VideoRow
  <2>2. video[here].status \in {"pending", "failed"}
    BY <1>7, <1>8, <1>11 DEF PrepareFits, ClaimVideo, Preparing, At
  <2>3. ClipsOf(here)' = {}
    BY <1>8, <2>1, <2>2 DEF RowFits, ClipsOf
  <2>4. worker'[w].pc = "open_job" /\ worker'[w].run = runs'[here]
    BY <1>6, <1>11, <2>1, PrepareSlots
  <2>5. PrepareFits(w, here)'
    BY <2>1, <2>3, <2>4 DEF PrepareFits
  <2> QED
    BY <1>2, <1>7, <2>1, <2>2, <2>3, <2>5, HeldStepOnce DEF broker
<1>12. ASSUME OpenJob(w) \/ Ingest(w) \/ Transcribe(w) PROVE Once(here)'
  <2>1. video'[here].status = video[here].status /\ UNCHANGED <<clip, runs, broker>>
    BY <1>6, <1>7, <1>9, <1>12 DEF OpenJob, Ingest, Transcribe, VideoRow
  <2>2. /\ worker[w].pc \in {"open_job", "stage"}
        /\ worker'[w].pc \in {"stage", "close_job"} /\ worker'[w].run = worker[w].run
    BY <1>12, PrepareSlots
       DEF OpenJob, Ingest, Transcribe, Staging, Preparing, At, SameLocals
  <2>3. PrepareFits(w, here)'
    BY <1>7, <1>8, <2>1, <2>2 DEF PrepareFits, FinalizeSteps, ClipsOf
  <2> QED
    BY <1>2, <1>7, <1>8, <2>1, <2>3, HeldStepOnce DEF RowFits, broker, ClipsOf
<1>13. ASSUME Analyze(w) PROVE Once(here)'
  <2>1. /\ UNCHANGED <<video, runs, broker>>
        /\ worker[w].pc = "stage" /\ worker[w].stage = "analyze"
    BY <1>13 DEF Analyze, Staging, Preparing, At
  <2>2. worker'[w].pc = "close_job" /\ worker'[w].run = worker[w].run /\ worker'[w].stage = "analyze"
    BY <1>13, <2>1, PrepareSlots DEF SameLocals
  <2>3. ClipsOf(here) = {} /\ video[here].status = "running" /\ worker[w].run = runs[here]
    BY <1>7, <1>8, <2>1 DEF PrepareFits
  <2>4. \A c \in ClipsOf(here)' : c[2] = runs'[here]
    <3>1. PICK n \in 0 .. MaxClips :
            clip' = Inserted(clip, {here} \X {worker[w].run} \X (1 .. n), NewClip)
      BY <1>6, <1>13 DEF Analyze
    <3>2. DOMAIN clip' = DOMAIN clip \cup {here} \X {worker[w].run} \X (1 .. n)
      BY <3>1 DEF Inserted
    <3>3. \A c \in {here} \X {worker[w].run} \X (1 .. n) : c[2] = worker[w].run
      OBVIOUS
    <3> QED
      BY <2>1, <2>3, <3>2, <3>3 DEF ClipsOf
  <2>5. PrepareFits(w, here)'
    BY <2>1, <2>2, <2>3 DEF PrepareFits, FinalizeSteps
  <2> QED
    BY <1>2, <1>7, <2>1, <2>3, <2>4, <2>5, HeldStepOnce DEF broker
<1>14. ASSUME CloseJob(w) PROVE Once(here)'
  <2>1. UNCHANGED <<video, clip, runs, broker>> /\ worker[w].pc = "close_job"
    BY <1>14 DEF CloseJob, Preparing, At
  <2>2. PrepareFits(w, here)'
    BY <1>7, <1>8, <1>14, <2>1, PrepareSlots DEF PrepareFits, FinalizeSteps, ClipsOf
  <2> QED
    BY <1>2, <1>7, <1>8, <2>1, <2>2, HeldStepOnce DEF RowFits, broker, ClipsOf
<1>15. ASSUME NEW e \in Errors, StageFails(w, e) PROVE Once(here)'
  <2>1. /\ video'[here].status = "failed" /\ UNCHANGED <<clip, runs, broker>>
        /\ worker[w].pc = "stage" /\ worker'[w].pc \in {"retry_process", "ack"}
    BY <1>6, <1>7, <1>9, <1>15, ReturnSlot DEF StageFails, VideoRow, Preparing, At
  <2>2. ClipsOf(here)' = {} /\ video[here].status = "running"
    BY <1>7, <1>8, <2>1 DEF PrepareFits, ClipsOf
  <2>3. PrepareFits(w, here)'
    BY <2>1, <2>2 DEF PrepareFits
  <2> QED
    BY <1>2, <1>7, <2>1, <2>2, <2>3, HeldStepOnce DEF broker
<1>16. ASSUME RetryProcess(w) PROVE Once(here)'
  <2> DEFINE k == worker[w].msg.retries + 1
  <2>1. /\ ready' = ready \cup {Process(here, k)} /\ UNCHANGED <<tables, awaited>>
        /\ worker[w].pc = "retry_process" /\ worker'[w].pc = "ack"
    BY <1>6, <1>16, ReturnSlot DEF RetryProcess, Preparing, At
  <2>2. /\ here \notin enqueuing /\ ~ Queued(here) /\ ~ PartOut(here) /\ ~ BodyOut(here)
        /\ \A x \in Workers : Preps(x, here) => x = w
    BY <1>7, HeldOnce
  <2>3. \A x \in Workers : ~ Preps(x, here)'
    BY <1>2, <2>1, <2>2 DEF Preps, Others
  <2>4. ~ PartOut(here)' /\ ~ BodyOut(here)'
    BY <1>1, <1>2, <2>1, <2>2, OtherMessages DEF PartOut, BodyOut, InFlight, At, Others
  <2>5. \A n, m \in Nat : Process(here, n) \in ready' /\ Process(here, m) \in ready' => n = m
    BY <2>1, <2>2, MessageFields DEF Queued
  <2>6. OnePrepare(here)'
    BY <1>2, <2>2, <2>3, <2>4, <2>5 DEF OnePrepare
  <2>7. video[here].status = "failed"
    BY <1>7, <1>8, <2>1 DEF PrepareFits
  <2>8. RowFits(here)'
    BY <1>8, <2>1, <2>4, <2>7 DEF RowFits, PartOut, BodyOut, tables, ClipsOf
  <2>9. ASSUME NEW x \in Workers PROVE PrepareFits(x, here)' /\ FinalizeFits(x, here)'
    BY <1>2, <1>7, <2>1, <2>3
       DEF PrepareFits, Once, FinalizeFits, Others, Subject, Finalizing, Doing, At, tables
  <2> QED
    BY <2>6, <2>8, <2>9 DEF Once
<1>17. ASSUME Dispatch(w) PROVE Once(here)'
  <2>1. /\ awaited' = awaited \cup OwnClips(w) /\ UNCHANGED tables
        /\ ready' = ready \cup {Render(c, 0, 0) : c \in OwnClips(w)}
        /\ worker[w].pc = "dispatch"
        /\ worker'[w].pc = IF OwnClips(w) = {} THEN "read_clips" ELSE "ack"
    BY <1>17, ReturnSlot DEF Dispatch, Preparing, At
  <2>2. /\ here \notin enqueuing /\ ~ Queued(here) /\ ~ PartOut(here) /\ ~ BodyOut(here)
        /\ \A x \in Workers : Preps(x, here) => x = w
    BY <1>7, HeldOnce
  <2>3. video[here].status = "running" /\ worker[w].run = runs[here]
    BY <1>7, <1>8, <2>1 DEF PrepareFits
  <2>4. ~ BodyOut(here)' /\ ~ Queued(here)'
    <3>1. \A n : /\ Process(here, n) \in ready' => Process(here, n) \in ready
                 /\ Finalize(<<here, n>>) \in ready' => Finalize(<<here, n>>) \in ready
      BY <2>1, OtherMessages, MessageFields
    <3>2. ~ BodyOut(here)'
      BY <1>1, <1>2, <2>2, <3>1 DEF BodyOut, InFlight, At, Others
    <3> QED
      BY <2>2, <3>1, <3>2 DEF Queued
  <2>5. \A x \in Workers : Preps(x, here)' => x = w
    BY <1>2, <2>2 DEF Preps, Others
  <2>6. \A c \in ClipsOf(here) : c \in OwnClips(w)
    BY <1>6, <1>8, <1>9, <2>3 DEF RowFits, OwnClips, ClipsOf, ClipsOfRun, RunOf, VideoOf
  <2>7. PartOut(here)' => Free(here)'
    BY <1>2, <1>6, <2>1, <2>2, <2>4, <2>5 DEF PartOut, Free, Preps
  <2>8. OnePrepare(here)'
    BY <1>2, <2>2, <2>4, <2>5, <2>7 DEF OnePrepare, Queued
  <2>9. RowFits(here)'
    BY <1>2, <1>8, <2>1, <2>2, <2>3, <2>4, OwnClipsOf
       DEF RowFits, BodyOut, PartOut, tables, ClipsOf
  <2>10. PrepareFits(w, here)'
    <3>1. CASE OwnClips(w) = {}
      <4>1. ClipsOf(here)' = {}
        BY <2>1, <2>6, <3>1 DEF tables, ClipsOf
      <4>2. worker'[w].pc = "read_clips" /\ video'[here].status = "running"
        BY <2>1, <2>3, <3>1 DEF tables
      <4> QED
        BY <4>1, <4>2 DEF PrepareFits
    <3>2. CASE OwnClips(w) # {}
      BY <2>1, <3>2 DEF PrepareFits, Preps
    <3> QED
      BY <3>1, <3>2
  <2>11. ASSUME NEW x \in Workers PROVE PrepareFits(x, here)'
    BY <2>5, <2>10 DEF PrepareFits
  <2>12. ASSUME NEW x \in Workers PROVE FinalizeFits(x, here)'
    <3>1. CASE x = w
      BY <1>7, <3>1
    <3>2. CASE x # w
      BY <1>2, <1>7, <2>1, <3>2
         DEF Once, FinalizeFits, Others, Subject, Finalizing, Doing, At, tables
    <3> QED
      BY <3>1, <3>2
  <2> QED
    BY <2>8, <2>9, <2>11, <2>12 DEF Once
<1>18. ASSUME PrepareFault(w) PROVE Once(here)'
  <2>1. UNCHANGED <<tables, awaited>> /\ worker'[w].pc = "ack"
    BY <1>18, ReturnSlot
       DEF PrepareFault, RetryProcessFails, DispatchFails, PrepareCommitFails, broker
  <2>2. \A n : /\ Process(here, n) \in ready' => Process(here, n) \in ready
               /\ Finalize(<<here, n>>) \in ready' => Finalize(<<here, n>>) \in ready
    BY <1>18, OtherMessages, MessageFields
       DEF PrepareFault, RetryProcessFails, DispatchFails, PrepareCommitFails, broker
  <2>3. PrepareFits(w, here)'
    BY <2>1 DEF PrepareFits, Preps
  <2> QED
    BY <1>2, <1>7, <1>8, <2>1, <2>2, <2>3, HeldStepOnce DEF RowFits, tables, ClipsOf
<1> QED
  BY <1>10, <1>11, <1>12, <1>13, <1>14, <1>15, <1>16, <1>17, <1>18 DEF PrepareStep

(* The delivery of its only request leaves the slot as its only preparer.  *)
LEMMA DeliverOnce ==
  ASSUME TypeInv, NEW v \in Videos, Once(v), NEW w \in Workers, Delivers(w, v)
  PROVE  Once(v)'
<1>1. Deliver(w)
  BY DEF Delivers
<1>2. PICK m \in ready : /\ m \in Messages /\ ready' = ready \ {m} /\ Others(w)
                         /\ worker'[w].msg = m /\ worker'[w].stage = "ingest"
                         /\ worker'[w].pc = FirstStep[m.task]
  BY <1>1, DeliverSlot
<1>3. At(w, "idle") /\ UNCHANGED <<tables, awaited, broken, enqueuing>>
  BY <1>1 DEF Deliver
<1>5. \A n \in Nat : InFlight(Finalize(<<v, n>>))' => InFlight(Finalize(<<v, n>>))
  BY <1>2 DEF InFlight, Others, At
<1>6. m.task = "process_video" /\ m.video = v
  BY <1>2 DEF Delivers
<1>7. m = Process(v, m.retries) /\ m.retries \in Nat /\ Queued(v)
  BY <1>2, <1>6, MessageForms DEF Queued
<1>8. v \notin enqueuing /\ \A x \in Workers : ~ Preps(x, v)
  BY <1>7 DEF Once, OnePrepare
<1>9. ~ PartOut(v) /\ ~ BodyOut(v)
  BY <1>7 DEF Once, OnePrepare, Free
<1>10. ~ Queued(v)'
  BY <1>2, <1>7 DEF Once, OnePrepare, Queued
<1>11. \A x \in Workers : Preps(x, v)' => x = w
  BY <1>2, <1>8 DEF Preps, Others
<1>12. ~ PartOut(v)' /\ ~ BodyOut(v)'
  BY <1>3, <1>5, <1>9 DEF PartOut, BodyOut
<1>13. OnePrepare(v)'
  BY <1>3, <1>8, <1>10, <1>11, <1>12 DEF OnePrepare, Queued
<1>14. RowFits(v)'
  BY <1>3, <1>8, <1>10, <1>12 DEF Once, RowFits, PartOut, BodyOut, tables, ClipsOf
<1>15. worker'[w].pc = "start" /\ video[v].status \in {"pending", "failed"}
  BY <1>2, <1>6, <1>7 DEF FirstStep, Once, RowFits
<1>16. ASSUME NEW x \in Workers PROVE PrepareFits(x, v)'
  BY <1>3, <1>11, <1>15 DEF PrepareFits, FinalizeSteps, tables
<1>17. ASSUME NEW x \in Workers PROVE FinalizeFits(x, v)'
  BY <1>2, <1>3, <1>15
     DEF Once, FinalizeFits, Others, Subject, Finalizing, Doing, At, tables
<1> QED
  BY <1>13, <1>14, <1>16, <1>17 DEF Once

(* Report publishes the body of the last run of a video that is running.   *)
LEMMA ReportOnce ==
  ASSUME TypeInv, NEW v \in Videos, Once(v), NEW w \in Workers, Publishes(w, v)
  PROVE  Once(v)'
<1> DEFINE m == worker[w].msg
<1>1. Report(w)
  BY DEF Publishes
<1>2. /\ worker'[w].pc = "ack" /\ worker'[w].msg = m /\ Others(w) /\ ~ At(w, "idle")
      /\ UNCHANGED <<tables, enqueuing>> /\ awaited' \subseteq awaited
  BY <1>1, ReturnSlot DEF Report, NoLocals, At
<1>3. \A x \in Workers : ~ SameSlot(x) => x = w
  BY <1>2 DEF Others, SameSlot
<1>4. ~ Preps(w, v)' /\ ~ Finalizing(w, "mark_finalized")' /\ ~ Finalizing(w, "remove_workspace")'
  BY <1>2 DEF Preps, Finalizing, At
<1>5. \A f : \A x \in Workers : ~ At(x, "idle")' /\ worker'[x].msg = f => InFlight(f)
  BY <1>2 DEF InFlight, Others, At
<1>6. \A n \in Nat : Process(v, n) \in ready' => Process(v, n) \in ready
  BY <1>1, OtherMessages DEF Report
<1>8. PICK n \in Nat : Finalize(<<v, n>>) \in ready' /\ Finalize(<<v, n>>) \notin ready
  BY DEF Publishes
<1>9. /\ m.clip \in awaited /\ ready' = ready \cup {Finalize(RunOf(m.clip))}
      /\ Finalize(<<v, n>>) = Finalize(RunOf(m.clip))
      /\ \A c \in awaited' : RunOf(c) # RunOf(m.clip)
  BY <1>1, <1>8 DEF Report
<1>10. RunOf(m.clip) = <<v, n>> /\ m.clip[1] = v /\ m.clip[2] = n
  <2>1. RunOf(m.clip) \in Runs /\ <<v, n>> \in Runs
    BY <1>9, AwaitedRuns DEF Runs
  <2> QED
    BY <1>9, <2>1, FinalizeInjective DEF RunOf
<1>11. PartOut(v) /\ m.clip \in ClipsOf(v) /\ video[v].status = "running" /\ n = runs[v]
  BY <1>1, <1>9, <1>10 DEF PartOut, VideoOf, Once, RowFits, ClipsOf
<1>12. Free(v) /\ Free(v)'
  BY <1>1, <1>2, <1>4, <1>6, <1>11 DEF Once, OnePrepare, Free, Queued, Preps, Others
<1>13. OnePrepare(v)'
  BY <1>12 DEF OnePrepare, Free, Queued
<1>14. \A k \in Nat : InFlight(Finalize(<<v, k>>))' => k = n \/ InFlight(Finalize(<<v, k>>))
  BY <1>5, <1>9, <1>10, MessageFields DEF InFlight
<1>15. RowFits(v)'
  BY <1>1, <1>2, <1>11, <1>12, <1>14 DEF Once, RowFits, Free, tables, ClipsOf
<1>16. ASSUME NEW x \in Workers PROVE PrepareFits(x, v)'
  BY <1>12 DEF PrepareFits, Free
<1>17. ASSUME NEW x \in Workers PROVE FinalizeFits(x, v)'
  BY <1>1, <1>2, <1>3, <1>4
     DEF Once, FinalizeFits, SameSlot, Subject, Finalizing, Doing, At, tables
<1> QED
  BY <1>13, <1>15, <1>16, <1>17 DEF Once

(* What the step writes to the row.                                        *)
LEMMA FinalizeRow ==
  ASSUME TypeInv, NEW w \in Workers, FinalizeStep(w) \/ FinalizeFault(w)
  PROVE  IF MarkFinalized(w)
           THEN video'[Subject(w)].status =
                  Flushed(video[Subject(w)].status, worker[w].seen.status, "completed")
           ELSE video' = video
<1>1. video \in [Videos -> VideoRow] /\ Subject(w) \in Videos
  BY FinalizeFrame DEF TypeInv, TypeOK, TablesOK
<1>2. CASE MarkFinalized(w)
  <2>1. PICK status, error :
          /\ video' = [video EXCEPT ![Subject(w)] = [@ EXCEPT !.status = status, !.error = error]]
          /\ status = Flushed(video[Subject(w)].status, worker[w].seen.status, "completed")
    BY <1>2 DEF MarkFinalized
  <2> QED
    BY <1>1, <1>2, <2>1 DEF VideoRow
<1>3. CASE ~ MarkFinalized(w)
  BY <1>3 DEF FinalizeStep, FinalizeFault, ReadClips, RemoveWorkspace, RemoveWorkspaceFails,
              FinalizeCommitFails, tables
<1> QED
  BY <1>2, <1>3

(* Marking finalized leaves the row completed: a session that already      *)
(* loaded it so finds it so.                                               *)
LEMMA MarksCompleted ==
  ASSUME TypeInv, NEW w \in Workers, FinalizeFits(w, Subject(w)), MarkFinalized(w)
  PROVE  video'[Subject(w)].status = "completed"
BY FinalizeRow DEF FinalizeFits, FinalizeStep, MarkFinalized, Flushed

LEMMA FinalizeOnce ==
  ASSUME TypeInv, ChordInv, NEW here \in Videos, Once(here),
         NEW w \in Workers, FinalizeStep(w) \/ FinalizeFault(w), Subject(w) = here
  PROVE  Once(here)'
<1>1. /\ Doing(w, "finalize_video") \/ Doing(w, "process_video")
      /\ ~ At(w, "idle") /\ ~ At(w, "ack")
      /\ worker'[w].msg = worker[w].msg /\ Others(w) /\ worker'[w].pc # "idle"
      /\ UNCHANGED <<clip, job, runs, broker, enqueuing>>
      /\ worker'[w].pc \in {"mark_finalized", "remove_workspace", "ack"}
  BY FinalizeFrame
<1>2. \A r : InFlight(Finalize(r))' => InFlight(Finalize(r))
  BY <1>1 DEF InFlight, Others, At, broker
<1>6. RowFits(here) /\ PrepareFits(w, here) /\ FinalizeFits(w, here) /\ OnePrepare(here)
  BY DEF Once
<1>7. IF MarkFinalized(w) THEN video'[here].status = "completed" ELSE video' = video
  BY <1>6, MarksCompleted, FinalizeRow
<1>8. video[here].status = "completed" => video'[here].status = "completed"
  BY <1>7
<1>9. FinalizeFits(w, here)'
  <2>1. CASE ReadClips(w)
    BY <1>7, <2>1, FinalizeSlots
       DEF FinalizeFits, ReadClips, MarkFinalized, Finalizing, At, Subject
  <2>2. CASE MarkFinalized(w)
    BY <1>7, <2>2 DEF FinalizeFits
  <2>3. CASE RemoveWorkspace(w) \/ FinalizeFault(w)
    BY <2>3, FinalizeSlots DEF FinalizeFits, Finalizing, At
  <2> QED
    BY <2>1, <2>2, <2>3 DEF FinalizeStep
<1>10. CASE Doing(w, "process_video")
  <2>1. Preps(w, here)
    BY <1>1, <1>10 DEF Preps, Doing, Subject, At
  <2>2. worker[w].pc \in FinalizeSteps /\ (MarkFinalized(w) => worker[w].pc = "mark_finalized")
    BY DEF FinalizeStep, FinalizeFault, ReadClips, MarkFinalized, RemoveWorkspace,
           RemoveWorkspaceFails, FinalizeCommitFails, Finalizing, At, FinalizeSteps
  <2>3. ClipsOf(here) = {} /\ ClipsOf(here)' = {}
    BY <1>1, <1>6, <2>1, <2>2 DEF PrepareFits, ClipsOf
  <2>4. PrepareFits(w, here)'
    <3>1. CASE ReadClips(w)
      <4>1. video'[here].status = "running"
        BY <1>6, <1>7, <2>1, <3>1 DEF ReadClips, MarkFinalized, Finalizing, At, PrepareFits
      <4>2. worker'[w].pc = "mark_finalized"
        BY <3>1, FinalizeSlots
      <4> QED
        BY <2>3, <4>1, <4>2 DEF PrepareFits
    <3>2. CASE ~ ReadClips(w)
      <4>1. video'[here].status # "absent"
        BY <1>6, <1>7, <2>1 DEF PrepareFits
      <4>2. worker'[w].pc \in {"remove_workspace", "ack"}
        BY <3>2, FinalizeSlots DEF FinalizeStep
      <4> QED
        BY <2>3, <4>1, <4>2 DEF PrepareFits, Preps
    <3> QED
      BY <3>1, <3>2
  <2> QED
    BY <1>1, <1>8, <1>9, <2>1, <2>3, <2>4, HeldStepOnce DEF broker
<1>11. CASE Doing(w, "finalize_video")
  <2>1. PICK n \in Nat : worker[w].msg = Finalize(<<here, n>>)
    <3>1. worker[w].msg \in Messages
      BY <1>1, BusyType, UnchangedTypes
    <3> QED
      BY <1>11, <3>1, MessageForms DEF Doing, Subject
  <2>2. InFlight(Finalize(<<here, n>>))
    BY <1>1, <2>1 DEF InFlight
  <2>3. BodyOut(here) /\ n = runs[here] /\ video[here].status \in {"running", "completed"}
    BY <1>6, <2>2 DEF BodyOut, RowFits
  <2>4. Free(here)
    BY <1>6, <2>3 DEF OnePrepare
  <2>5. ~ PartOut(here)
    <3> SUFFICES ASSUME NEW c \in awaited, VideoOf(c) = here PROVE FALSE
      BY DEF PartOut
    <3>1. c[2] = runs[here]
      BY <1>6 DEF RowFits, ClipsOf
    <3> QED
      BY <2>2, <2>3, <3>1 DEF ChordInv, FinalizeAfterAll, RunOf, VideoOf
  <2>6. video'[here].status \in {"running", "completed"}
    BY <1>7, <2>3
  <2>7. \A x \in Workers : Preps(x, here)' => Preps(x, here)
    BY <1>1, <1>11 DEF Preps, Others, Doing
  <2>8. OnePrepare(here)'
    BY <1>1, <1>6, <2>4, <2>7 DEF OnePrepare, Free, Queued, broker
  <2>9. RowFits(here)'
    BY <1>1, <1>2, <1>6, <2>4, <2>5, <2>6 DEF RowFits, Free, Queued, PartOut, broker, ClipsOf
  <2>10. ASSUME NEW x \in Workers PROVE PrepareFits(x, here)'
    BY <2>4, <2>7 DEF PrepareFits, Free
  <2>11. ASSUME NEW x \in Workers PROVE FinalizeFits(x, here)'
    <3>1. CASE x = w
      BY <1>9, <3>1
    <3>2. CASE x # w
      BY <1>1, <1>8, <3>2 DEF Once, FinalizeFits, Others, Subject, Finalizing, Doing, At
    <3> QED
      BY <3>1, <3>2
  <2> QED
    BY <2>8, <2>9, <2>10, <2>11 DEF Once
<1> QED
  BY <1>1, <1>10, <1>11

(* The API: a row is created once, and its first message published once.   *)
LEMMA ApiOnce ==
  ASSUME TypeInv, NEW v \in Videos, Once(v), CreateVideo(v) \/ Enqueue(v)
  PROVE  Once(v)'
<1>1. /\ UNCHANGED <<clip, job, runs, awaited, worker>>
      /\ \A r : Finalize(r) \in ready' => Finalize(r) \in ready
  BY OtherMessages DEF CreateVideo, Enqueue, tables, broker
<1>2. \A r : InFlight(Finalize(r))' => InFlight(Finalize(r))
  BY <1>1 DEF InFlight, At
<1>7. OnePrepare(v) /\ RowFits(v)
  BY DEF Once
<1>8. CASE Enqueue(v)
  <2>1. /\ v \in enqueuing /\ enqueuing' = enqueuing \ {v} /\ video' = video
        /\ ready' = ready \cup {Process(v, 0)}
    BY <1>8 DEF Enqueue, tables
  <2>2. /\ ~ Queued(v) /\ ~ PartOut(v) /\ ~ BodyOut(v) /\ \A x \in Workers : ~ Preps(x, v)
        /\ video[v].status \in {"pending", "failed"}
    BY <1>7, <2>1 DEF OnePrepare, RowFits, Free
  <2>3. ~ PartOut(v)' /\ ~ BodyOut(v)' /\ \A x \in Workers : ~ Preps(x, v)'
    BY <1>1, <1>2, <2>2 DEF PartOut, BodyOut, Preps
  <2>4. \A n, k \in Nat : Process(v, n) \in ready' /\ Process(v, k) \in ready' => n = k
    BY <2>1, <2>2, MessageFields DEF Queued
  <2>5. OnePrepare(v)'
    BY <2>1, <2>3, <2>4 DEF OnePrepare
  <2>6. RowFits(v)'
    BY <1>1, <1>7, <2>1, <2>2, <2>3 DEF RowFits, PartOut, BodyOut, ClipsOf
  <2>7. ASSUME NEW x \in Workers PROVE PrepareFits(x, v)' /\ FinalizeFits(x, v)'
    BY <1>1, <2>1, <2>3
       DEF PrepareFits, Once, FinalizeFits, Subject, Finalizing, Doing, At
  <2> QED
    BY <2>5, <2>6, <2>7 DEF Once
<1>9. CASE CreateVideo(v)
  <2>1. /\ video[v].status = "absent" /\ video'[v].status = "pending"
        /\ enqueuing' = enqueuing \cup {v} /\ ready' = ready
    BY <1>9 DEF CreateVideo, NewVideo, broker, TypeInv, TypeOK, TablesOK
  <2>2. v \notin enqueuing /\ ~ Queued(v) /\ ~ PartOut(v) /\ ~ BodyOut(v) /\ ClipsOf(v) = {}
    BY <1>7, <2>1 DEF RowFits, PartOut, BodyOut
  <2>3. ~ Queued(v)' /\ ~ PartOut(v)' /\ ~ BodyOut(v)' /\ ClipsOf(v)' = {}
    BY <1>1, <1>2, <2>1, <2>2 DEF Queued, PartOut, BodyOut, ClipsOf
  <2>4. \A x \in Workers : ~ Preps(x, v)'
    BY <1>1, <2>1 DEF Once, PrepareFits, Preps
  <2>5. OnePrepare(v)'
    BY <2>3, <2>4 DEF OnePrepare, Queued
  <2>6. RowFits(v)'
    BY <2>1, <2>3 DEF RowFits, PartOut, BodyOut
  <2>7. ASSUME NEW x \in Workers PROVE PrepareFits(x, v)' /\ FinalizeFits(x, v)'
    BY <1>1, <2>1, <2>4
       DEF PrepareFits, Once, FinalizeFits, Subject, Finalizing, Doing, At
  <2> QED
    BY <2>5, <2>6, <2>7 DEF Once
<1> QED
  BY <1>8, <1>9

LEMMA OnceKept ==
  ASSUME PreparedOnce, TypeInv, ChordInv, OnceInv, [Next]_vars
  PROVE  OnceInv'
<1> SUFFICES ASSUME NEW v \in Videos PROVE Once(v)'
  BY DEF OnceInv
<1>1. Once(v)
  BY DEF OnceInv
<1>2. CASE CreateVideo(v) \/ Enqueue(v)
  BY <1>1, <1>2, ApiOnce
<1>3. ASSUME NEW w \in Workers, Own(w, v) \/ Delivers(w, v) \/ Publishes(w, v)
      PROVE  Once(v)'
  BY <1>1, <1>3, PrepareOnce, FinalizeOnce, DeliverOnce, ReportOnce DEF Own
<1> QED
  BY <1>1, <1>2, <1>3, Elsewhere, ApartOnce

LEMMA OnceHolds == PreparedOnce => (Spec => []OnceInv)
<1> SUFFICES ASSUME PreparedOnce PROVE Spec => []OnceInv
  OBVIOUS
<1>1. Init => OnceInv
  <2> SUFFICES ASSUME Init, NEW v \in Videos PROVE Once(v)
    BY DEF OnceInv
  <2>1. /\ enqueuing = {} /\ ready = {} /\ awaited = {} /\ DOMAIN clip = {}
        /\ \A w \in Workers : worker[w].pc = "idle"
    BY DEF Init, Idle
  <2>2. ~ Queued(v) /\ ~ PartOut(v) /\ ~ BodyOut(v) /\ \A w \in Workers : ~ Preps(w, v)
    BY <2>1 DEF Queued, PartOut, BodyOut, InFlight, At, Preps
  <2> QED
    BY <2>1, <2>2 DEF Once, OnePrepare, RowFits, PrepareFits, FinalizeFits, Finalizing, At, ClipsOf,
                      PartOut, BodyOut
<1>2. TypeInv /\ ChordInv /\ OnceInv /\ [Next]_vars => OnceInv'
  BY OnceKept
<1> QED
  BY <1>1, <1>2, TypesHold, ChordHolds, PTL DEF Spec

(* A part that returns last was outstanding, and a finalize_video slot is  *)
(* a body in flight.                                                       *)
LEMMA PublishesPart ==
  ASSUME TypeInv, NEW v \in Videos, NEW w \in Workers, Publishes(w, v)
  PROVE  LET c == worker[w].msg.clip
         IN /\ c \in awaited /\ VideoOf(c) = v /\ IsPart(worker[w].msg) /\ RunOf(c) \notin broken
            /\ \A d \in awaited \ {c} : RunOf(d) # RunOf(c)
            /\ ready' = ready \cup {Finalize(RunOf(c))} /\ At(w, "report")
<1> DEFINE m == worker[w].msg
<1>1. PICK n \in Nat : Finalize(<<v, n>>) \in ready' /\ Finalize(<<v, n>>) \notin ready /\ Report(w)
  BY DEF Publishes
<1>2. /\ m.clip \in awaited /\ ready' = ready \cup {Finalize(RunOf(m.clip))}
      /\ Finalize(<<v, n>>) = Finalize(RunOf(m.clip)) /\ IsPart(m) /\ RunOf(m.clip) \notin broken
      /\ \A d \in awaited \ {m.clip} : RunOf(d) # RunOf(m.clip)
      /\ At(w, "report")
  BY <1>1 DEF Report
<1>3. RunOf(m.clip) \in Runs /\ <<v, n>> \in Runs
  BY <1>2, AwaitedRuns DEF Runs
<1>4. RunOf(m.clip) = <<v, n>>
  BY <1>2, <1>3, FinalizeInjective
<1>5. VideoOf(m.clip) = v
  BY <1>4 DEF RunOf, VideoOf
<1> QED
  BY <1>2, <1>5

LEMMA FinalizesBody ==
  ASSUME TypeInv, NEW w \in Workers, Doing(w, "finalize_video")
  PROVE  BodyOut(Subject(w))
<1>1. worker[w].msg \in Messages /\ ~ At(w, "idle")
  BY BusyType, UnchangedTypes DEF Doing
<1>2. PICK n \in Nat : worker[w].msg = Finalize(<<Subject(w), n>>)
  BY <1>1, MessageForms DEF Doing, Subject
<1> QED
  BY <1>1, <1>2 DEF BodyOut, InFlight

LEMMA Finalizer ==
  ASSUME TypeInv, NEW w \in Workers, FinalizeStep(w) \/ FinalizeFault(w)
  PROVE  /\ worker[w].pc \in FinalizeSteps
         /\ Preps(w, Subject(w)) \/ BodyOut(Subject(w))
<1>1. worker[w].pc \in FinalizeSteps
  BY DEF FinalizeStep, FinalizeFault, ReadClips, MarkFinalized, RemoveWorkspace,
         RemoveWorkspaceFails, FinalizeCommitFails, Finalizing, At, FinalizeSteps
<1>2. CASE Doing(w, "finalize_video")
  BY <1>1, <1>2, FinalizesBody
<1>3. CASE Doing(w, "process_video")
  BY <1>1, <1>3 DEF Preps, Doing, Subject, FinalizeSteps
<1> QED
  BY <1>1, <1>2, <1>3, FinalizeFrame

----------------------------------------------------------------------------
(* A video completes once.                                                 *)

LEMMA CompletedStays ==
  ASSUME PreparedOnce, TypeInv, OnceInv, [Next]_vars,
         NEW v \in Videos, video[v].status = "completed"
  PROVE  video'[v].status = "completed"
<1>1. Once(v) /\ video \in [Videos -> VideoRow]
  BY DEF OnceInv, TypeInv, TypeOK, TablesOK
<1>2. CASE CreateVideo(v) \/ Enqueue(v)
  BY <1>2 DEF CreateVideo, Enqueue, tables
<1>3. ASSUME NEW w \in Workers, Delivers(w, v) \/ Publishes(w, v)
      PROVE  video'[v].status = "completed"
  BY <1>3 DEF Delivers, Publishes, Deliver, Report, tables
<1>4. ASSUME NEW w \in Workers, PrepareStep(w) \/ PrepareFault(w), Subject(w) = v
      PROVE  video'[v].status = "completed"
  <2>1. Preps(w, v) /\ PrepareFits(w, v)
    BY <1>1, <1>4, PrepareDoes DEF Once
  <2>2. worker[w].pc \notin {"claim", "stage"}
    BY <2>1 DEF PrepareFits
  <2>3. video' = video
    BY <1>4, <2>2
       DEF PrepareStep, PrepareFault, ReadVideo, ClaimVideo, OpenJob, Staging, Ingest, Transcribe,
           Analyze, CloseJob, StageFails, RetryProcess, Dispatch, RetryProcessFails, DispatchFails,
           PrepareCommitFails, Preparing, At, tables
  <2> QED
    BY <2>3
<1>5. ASSUME NEW w \in Workers, FinalizeStep(w) \/ FinalizeFault(w), Subject(w) = v
      PROVE  video'[v].status = "completed"
  BY <1>1, <1>5, MarksCompleted, FinalizeRow DEF Once
<1>6. CASE Apart(v)
  BY <1>6 DEF Apart, Untouched
<1> QED
  BY <1>2, <1>3, <1>4, <1>5, <1>6, Elsewhere DEF Own

(* The docstring of finalize_video, "the video is marked complete exactly  *)
(* once": when process_video runs once per publication, and whatever else  *)
(* is redelivered, killed, rerendered or fails, no step moves a completed  *)
(* video out of that status again.                                         *)
THEOREM CompletesOnce == PreparedOnce => (Spec => CompletedOnce)
<1> SUFFICES ASSUME PreparedOnce PROVE Spec => CompletedOnce
  OBVIOUS
<1>1. TypeInv /\ OnceInv /\ [Next]_vars
        => [\A v \in Videos :
              video[v].status = "completed" => video'[v].status = "completed"]_vars
  BY CompletedStays
<1> QED
  BY <1>1, TypesHold, OnceHolds, PTL DEF Spec, CompletedOnce

----------------------------------------------------------------------------
(* The job rows.  A row says "running" only while its prepare is in the    *)
(* stage, or has left it without the commit that closes it; the video then *)
(* says "running" too, and nothing is on its way that could end it.        *)

JobFits(j) ==
  job[j] = "running" =>
    /\ video[j[1]].status = "running"
    /\ j[1] \notin enqueuing /\ ~ Queued(j[1]) /\ ~ PartOut(j[1]) /\ ~ BodyOut(j[1])
    /\ \A w \in Workers : Preps(w, j[1]) => worker[w].pc \in {"stage", "close_job"} /\ JobOf(w) = j
JobInv == \A j \in DOMAIN job : JobFits(j)

LEMMA JobRows ==
  ASSUME TypeInv, [Next]_vars, NEW j \in DOMAIN job', job'[j] = "running"
  PROVE  \/ j \in DOMAIN job /\ job[j] = "running"
         \/ \E w \in Workers : OpenJob(w) /\ j = JobOf(w)
<1>1. ASSUME NEW w \in Workers, PrepareStep(w) \/ PrepareFault(w)
      PROVE  \/ j \in DOMAIN job /\ job[j] = "running"
             \/ OpenJob(w) /\ j = JobOf(w)
  <2>1. CASE OpenJob(w)
    BY <2>1 DEF OpenJob, Inserted
  <2>2. CASE CloseJob(w) \/ \E e \in Errors : StageFails(w, e)
    BY <2>2 DEF CloseJob, StageFails
  <2>3. CASE ~ (OpenJob(w) \/ CloseJob(w) \/ \E e \in Errors : StageFails(w, e))
    BY <1>1, <2>3
       DEF PrepareStep, PrepareFault, ReadVideo, ClaimVideo, Ingest, Transcribe, Analyze,
           RetryProcess, Dispatch, RetryProcessFails, DispatchFails, PrepareCommitFails, tables
  <2> QED
    BY <2>1, <2>2, <2>3
<1>2. ASSUME NEW w \in Workers, RenderStep(w) \/ RenderFault(w)
      PROVE  job' = job
  BY <1>2, RenderFrame
<1>3. ASSUME NEW w \in Workers, FinalizeStep(w) \/ FinalizeFault(w)
      PROVE  job' = job
  BY <1>3, FinalizeFrame
<1>4. ASSUME NEW w \in Workers,
             Deliver(w) \/ Ack(w) \/ Crash(w) \/ Redeliver(w) \/ Kill(w)
      PROVE  job' = job
  BY <1>4 DEF Deliver, Ack, Crash, Redeliver, Kill, tables
<1>5. ASSUME NEW v \in Videos, CreateVideo(v) \/ Enqueue(v) \/ EnqueueFails(v) \/ Purge(v)
      PROVE  job' = job
  BY <1>5 DEF CreateVideo, Enqueue, EnqueueFails, Purge, tables
<1>6. ASSUME NEW c \in DOMAIN clip, Rerender(c) PROVE job' = job
  BY <1>6 DEF Rerender, tables
<1>7. CASE UNCHANGED vars
  BY <1>7 DEF vars, tables
<1> QED
  BY <1>1, <1>2, <1>3, <1>4, <1>5, <1>6, <1>7 DEF Next, WorkerStep, WorkerFault

LEMMA JobsKept ==
  ASSUME PreparedOnce, TypeInv, OnceInv, OnceInv', JobInv, [Next]_vars
  PROVE  JobInv'
<1> SUFFICES ASSUME NEW j \in DOMAIN job', job'[j] = "running" PROVE JobFits(j)'
  BY DEF JobInv, JobFits
<1>1. CASE \E w \in Workers : OpenJob(w) /\ j = JobOf(w)
  <2>1. PICK w \in Workers : OpenJob(w) /\ j = JobOf(w)
    BY <1>1
  <2>2. PICK v : v = Subject(w)
    OBVIOUS
  <2>3. v \in Videos /\ Preps(w, v) /\ j[1] = v /\ worker[w].pc = "open_job"
    BY <2>1, <2>2, PrepareDoes DEF PrepareStep, JobOf, OpenJob, Preparing, At
  <2>4. Once(v) /\ Once(v)'
    BY <2>3 DEF OnceInv
  <2>5. worker'[w].pc = "stage" /\ SameLocals(w) /\ Others(w) /\ video' = video
    BY <2>1, PrepareSlots DEF OpenJob
  <2>6. Preps(w, v)' /\ JobOf(w)' = j
    BY <2>1, <2>3, <2>5 DEF Preps, SameLocals, JobOf, Subject
  <2>7. video'[v].status = "running"
    BY <2>3, <2>4, <2>5 DEF Once, PrepareFits
  <2>8. \A x \in Workers : Preps(x, v)' => x = w
    BY <2>4, <2>6 DEF Once, OnePrepare
  <2>9. v \notin enqueuing' /\ ~ Queued(v)' /\ ~ PartOut(v)' /\ ~ BodyOut(v)'
    BY <2>4, <2>6 DEF Once, OnePrepare, Free
  <2> QED
    BY <2>3, <2>5, <2>6, <2>7, <2>8, <2>9 DEF JobFits
<1>2. CASE j \in DOMAIN job /\ job[j] = "running"
  <2>1. PICK v : v = j[1]
    OBVIOUS
  <2>2. /\ v \in Videos /\ video[v].status = "running"
        /\ v \notin enqueuing /\ ~ Queued(v) /\ ~ PartOut(v) /\ ~ BodyOut(v)
        /\ \A w \in Workers : Preps(w, v) => worker[w].pc \in {"stage", "close_job"} /\ JobOf(w) = j
    BY <1>2, <2>1 DEF JobInv, JobFits, TypeInv, TypeOK, TablesOK, JobIds
  <2>3. ~ CreateVideo(v) /\ ~ Enqueue(v)
    BY <2>2 DEF CreateVideo, Enqueue
  <2>4. \A w \in Workers : ~ Publishes(w, v)
    BY <2>2, PublishesPart DEF PartOut
  <2>5. ASSUME NEW w \in Workers PROVE ~ Delivers(w, v)
    <3> SUFFICES ASSUME Delivers(w, v) PROVE FALSE
      OBVIOUS
    <3>1. PICK m \in ready : m \in Messages /\ worker'[w].msg = m
      BY DeliverSlot DEF Delivers
    <3> QED
      BY <2>2, <3>1, MessageForms DEF Delivers, Queued
  <2>6. ASSUME NEW w \in Workers, Own(w, v)
        PROVE  JobFits(j)'
    <3>1. PrepareStep(w) \/ PrepareFault(w)
      BY <2>2, <2>6, Finalizer DEF Own, FinalizeSteps
    <3>2. Preps(w, v) /\ worker[w].pc \in {"stage", "close_job"} /\ JobOf(w) = j
      BY <2>2, <2>6, <3>1, PrepareDoes DEF Own
    <3>3. ~ CloseJob(w) /\ ~ \E e \in Errors : StageFails(w, e)
      BY <3>2, <1>2 DEF CloseJob, StageFails
    <3>4. Ingest(w) \/ Transcribe(w) \/ Analyze(w) \/ PrepareCommitFails(w)
      BY <3>1, <3>2, <3>3
         DEF PrepareStep, PrepareFault, ReadVideo, ClaimVideo, OpenJob, RetryProcess, Dispatch,
             RetryProcessFails, DispatchFails, Preparing, At
    <3>5. video'[v].status = "running" /\ UNCHANGED <<ready, awaited, enqueuing>>
      BY <2>2, <2>6, <3>4
         DEF Own, Ingest, Transcribe, Analyze, PrepareCommitFails, tables, broker, TypeInv, TypeOK,
             TablesOK, VideoRow
    <3>6. Others(w) /\ worker'[w].msg = worker[w].msg /\ worker'[w].pc # "idle"
      BY <3>1, PrepareFrame
    <3>7. Preps(w, v)' => worker'[w].pc \in {"stage", "close_job"} /\ JobOf(w)' = j
      BY <3>2, <3>4, PrepareSlots, ReturnSlot
         DEF PrepareCommitFails, Preps, SameLocals, JobOf, Subject
    <3>8. ~ Queued(v)' /\ ~ PartOut(v)'
      BY <2>2, <3>5 DEF Queued, PartOut
    <3>9. ~ BodyOut(v)'
      BY <2>2, <3>2, <3>5, <3>6 DEF BodyOut, InFlight, Others, At, Preps
    <3>10. \A x \in Workers \ {w} : Preps(x, v)' =>
             worker'[x].pc \in {"stage", "close_job"} /\ JobOf(x)' = j
      BY <2>2, <3>6 DEF Others, Preps, JobOf, Subject
    <3> QED
      BY <2>1, <2>2, <3>5, <3>7, <3>8, <3>9, <3>10 DEF JobFits
  <2>7. CASE Apart(v)
    <3>1. Untouched(v) /\ \A x \in Workers : Preps(x, v)' => Preps(x, v) /\ worker'[x] = worker[x]
      BY <2>7 DEF Apart, Preps, SameSlot
    <3>2. v \notin enqueuing' /\ ~ Queued(v)' /\ ~ PartOut(v)' /\ ~ BodyOut(v)'
      BY <2>2, <3>1 DEF Untouched, Queued, PartOut, BodyOut
    <3> QED
      BY <2>1, <2>2, <3>1, <3>2 DEF JobFits, Untouched, JobOf, Subject
  <2> QED
    BY <2>2, <2>3, <2>4, <2>5, <2>6, <2>7, Elsewhere
<1> QED
  BY <1>1, <1>2, JobRows

(* _fail_open_job and _finish of the orchestrator: a stage that fails      *)
(* closes its job row in the commit that fails the video, so that a failed *)
(* or completed video has no job row that still says "running"; also when  *)
(* the process is killed between the stage and the commit.                 *)
THEOREM JobsClosed == PreparedOnce => (Spec => []JobsSettled)
<1> SUFFICES ASSUME PreparedOnce PROVE Spec => []JobsSettled
  OBVIOUS
<1>1. Init => JobInv
  BY DEF Init, JobInv
<1>2. TypeInv /\ OnceInv /\ OnceInv' /\ JobInv /\ [Next]_vars => JobInv'
  BY JobsKept
<1>3. JobInv => JobsSettled
  BY DEF JobInv, JobFits, JobsSettled
<1> QED
  BY <1>1, <1>2, <1>3, TypesHold, OnceHolds, PTL DEF Spec

----------------------------------------------------------------------------
(* The source file.  A prepare that is past its ingest has it on disk, and *)
(* only the finalize of its video removes it.                              *)

PastIngest(slot) ==
  \/ slot.pc \in {"close_job", "dispatch"}
  \/ slot.pc \in {"start", "claim", "open_job", "stage"} /\ slot.stage # "ingest"
SourceInv ==
  /\ SourceOutlivesChord
  /\ \A w \in Workers, v \in Videos : Preps(w, v) /\ PastIngest(worker[w]) => v \in source

(* The removal of a finalize, or the part of it before an OSError.         *)
Empties(w) ==
  /\ RemoveWorkspace(w) \/ RemoveWorkspaceFails(w)
  /\ source \ {Subject(w)} \subseteq source' /\ files \ DirsOf(Subject(w)) \subseteq files'

(* What a step removes from the disk when nothing is purged by age.        *)
LEMMA DiskMoves ==
  ASSUME "purge" \notin Events, [Next]_vars
  PROVE  \/ source \subseteq source' /\ files \subseteq files'
         \/ \E w \in Workers : Empties(w)
         \/ \E w \in Workers : /\ RemoveDir(w) \/ (HandleRenderError(w) /\ ~ KeepOnFailure)
                               /\ source' = source /\ files' = files \ DirOf(Target(w))
<1> DEFINE Stays == source \subseteq source' /\ files \subseteq files'
<1>1. ASSUME NEW w \in Workers, FinalizeStep(w) \/ FinalizeFault(w)
      PROVE  Stays \/ Empties(w)
  <2>1. CASE RemoveWorkspaceFails(w)
    <3>1. source \ {Subject(w)} \subseteq source'  BY <2>1 DEF RemoveWorkspaceFails
    <3>2. PICK gone \in SUBSET DirsOf(Subject(w)) : files' = files \ gone
      BY <2>1 DEF RemoveWorkspaceFails
    <3> QED
      BY <2>1, <3>1, <3>2 DEF Empties
  <2>2. CASE RemoveWorkspace(w)
    BY <2>2 DEF RemoveWorkspace, DropWorkspace, Empties, disk
  <2> QED
    BY <1>1, <2>1, <2>2 DEF FinalizeStep, FinalizeFault, ReadClips, MarkFinalized,
              FinalizeCommitFails, disk
<1>2. ASSUME NEW w \in Workers, PrepareStep(w) \/ PrepareFault(w)
      PROVE  Stays
  BY <1>2
     DEF PrepareStep, PrepareFault, ReadVideo, ClaimVideo, OpenJob, Ingest, Transcribe, Analyze,
         CloseJob, StageFails, RetryProcess, Dispatch, RetryProcessFails, DispatchFails,
         PrepareCommitFails, disk
<1>3. ASSUME NEW w \in Workers, RenderStep(w) \/ RenderFault(w),
             ~ RemoveDir(w), ~ HandleRenderError(w)
      PROVE  Stays
  BY <1>3
     DEF RenderStep, RenderFault, ReadClip, MarkRendering, MakeDir, Cut, Reframe, Burn, Package,
         MarkCompleted, RenderFails, CountRetry, RetryRender, Report,
         ReportFailure, MakeDirFails, RetryRenderFails, RenderCommitFails, CountRetryFails, disk
<1>4. ASSUME NEW w \in Workers, RemoveDir(w) \/ HandleRenderError(w)
      PROVE  \/ Stays
             \/ /\ RemoveDir(w) \/ (HandleRenderError(w) /\ ~ KeepOnFailure)
                /\ source' = source /\ files' = files \ DirOf(Target(w))
  BY <1>4 DEF RemoveDir, HandleRenderError
<1>5. ASSUME NEW w \in Workers, Deliver(w) \/ Ack(w) \/ Crash(w) \/ Redeliver(w) \/ Kill(w)
      PROVE  Stays
  BY <1>5 DEF Deliver, Ack, Crash, Redeliver, Kill, disk
<1>6. ASSUME NEW u \in Videos, CreateVideo(u) \/ Enqueue(u) \/ EnqueueFails(u) \/ Purge(u)
      PROVE  Stays
  BY <1>6 DEF CreateVideo, Enqueue, EnqueueFails, Purge, Happens, disk
<1>7. ASSUME NEW c \in DOMAIN clip, Rerender(c) PROVE Stays
  BY <1>7 DEF Rerender, disk
<1>8. CASE UNCHANGED vars
  BY <1>8 DEF vars, disk
<1> QED
  BY <1>1, <1>2, <1>3, <1>4, <1>5, <1>6, <1>7, <1>8 DEF Next, WorkerStep, WorkerFault

LEMMA SourceStays ==
  ASSUME "purge" \notin Events, PreparedOnce, TypeInv, OnceInv, SourceInv, [Next]_vars,
         NEW v \in source
  PROVE  \/ v \in source'
         \/ ~ PartOut(v) /\ \A w \in Workers : Preps(w, v) => worker[w].pc = "remove_workspace"
<1>1. v \in Videos /\ Once(v)
  BY DEF OnceInv, TypeInv, TypeOK, DiskOK
<1>2. ASSUME NEW w \in Workers, Empties(w), v = Subject(w)
      PROVE  ~ PartOut(v) /\ \A x \in Workers : Preps(x, v) => worker[x].pc = "remove_workspace"
  <2>1. Finalizing(w, "remove_workspace")
    BY <1>2 DEF Empties, RemoveWorkspace, RemoveWorkspaceFails
  <2>2. video[v].status = "completed"
    BY <1>1, <1>2, <2>1 DEF Once, FinalizeFits
  <2>3. ~ PartOut(v)
    BY <1>1, <2>2 DEF Once, RowFits, PartOut
  <2>4. BodyOut(v) \/ Preps(w, v)
    BY <1>2, Finalizer DEF Empties, FinalizeStep, FinalizeFault
  <2>5. \A x \in Workers : Preps(x, v) => x = w
    BY <1>1, <2>4 DEF Once, OnePrepare, Free
  <2> QED
    BY <2>1, <2>3, <2>5 DEF Finalizing, At
<1>3. ASSUME NEW w \in Workers, Empties(w), v # Subject(w)
      PROVE  v \in source'
  BY <1>3 DEF Empties
<1> QED
  BY <1>2, <1>3, DiskMoves

LEMMA SourceKept ==
  ASSUME "purge" \notin Events, PreparedOnce, TypeInv, TypeInv', OnceInv, SourceInv, [Next]_vars
  PROVE  SourceInv'
<1> SUFFICES ASSUME NEW v \in Videos,
                    PartOut(v)' \/ \E w \in Workers : Preps(w, v)' /\ PastIngest(worker'[w])
             PROVE  v \in source'
  <2>1. \A c \in awaited' : VideoOf(c) \in Videos /\ PartOut(VideoOf(c))'
    BY ClipIdParts DEF TypeInv, TypeOK, BrokerOK, PartOut
  <2> QED
    BY <2>1 DEF SourceInv, SourceOutlivesChord
<1>1. Once(v)
  BY DEF OnceInv
<1>2. ASSUME PartOut(v)
      PROVE  v \in source'
  <2>1. v \in source
    BY <1>2 DEF PartOut, SourceInv, SourceOutlivesChord
  <2> QED
    BY <1>2, <2>1, SourceStays
<1>3. ASSUME NEW w \in Workers, Preps(w, v), PastIngest(worker[w])
      PROVE  v \in source'
  <2>1. v \in source /\ worker[w].pc # "remove_workspace"
    BY <1>3 DEF PastIngest, SourceInv
  <2> QED
    BY <1>3, <2>1, SourceStays
<1>4. CASE Apart(v)
  <2>1. Untouched(v) /\ \A x \in Workers : Preps(x, v)' => Preps(x, v) /\ worker'[x] = worker[x]
    BY <1>4 DEF Apart, Preps, SameSlot
  <2>2. PartOut(v)' => PartOut(v)
    BY <2>1 DEF PartOut, Untouched
  <2>3. \A x \in Workers : Preps(x, v)' /\ PastIngest(worker'[x]) => PastIngest(worker[x])
    BY <2>1
  <2> QED
    BY <1>2, <1>3, <2>1, <2>2, <2>3
<1>5. ASSUME UNCHANGED <<awaited, worker>> PROVE v \in source'
  BY <1>2, <1>3, <1>5 DEF PartOut, Preps
<1>6. CASE CreateVideo(v) \/ Enqueue(v)
  BY <1>5, <1>6 DEF CreateVideo, Enqueue, broker
<1>7. ASSUME NEW w \in Workers, Others(w), awaited' \subseteq awaited,
             Preps(w, v)' => ~ PastIngest(worker'[w])
      PROVE  v \in source'
  <2>1. \A x \in Workers : Preps(x, v)' /\ PastIngest(worker'[x]) =>
          Preps(x, v) /\ PastIngest(worker[x])
    BY <1>7 DEF Others, Preps
  <2>2. PartOut(v)' => PartOut(v)
    BY <1>7 DEF PartOut
  <2> QED
    BY <1>2, <1>3, <2>1, <2>2
<1>8. ASSUME NEW w \in Workers, Delivers(w, v) \/ Publishes(w, v)
      PROVE  v \in source'
  <2>1. CASE Delivers(w, v)
    <3>1. /\ Others(w) /\ awaited' = awaited
          /\ worker'[w].pc = FirstStep["process_video"] /\ worker'[w].stage = "ingest"
      BY <2>1, DeliverSlot DEF Delivers, Deliver
    <3>2. worker'[w].pc = "start"
      BY <3>1 DEF FirstStep
    <3> QED
      BY <1>7, <3>1, <3>2 DEF PastIngest
  <2>2. CASE Publishes(w, v)
    <3>1. Others(w) /\ awaited' \subseteq awaited /\ worker'[w].pc = "ack"
      BY <2>2, ReturnSlot DEF Publishes, Report
    <3> QED
      BY <1>7, <3>1 DEF PastIngest
  <2> QED
    BY <1>8, <2>1, <2>2
<1>9. ASSUME NEW w \in Workers, FinalizeStep(w) \/ FinalizeFault(w), Subject(w) = v
      PROVE  v \in source'
  BY <1>7, <1>9, FinalizeFrame DEF PastIngest, broker
<1>10. ASSUME NEW w \in Workers, PrepareStep(w) \/ PrepareFault(w), Subject(w) = v
       PROVE  v \in source'
  <2>1. Preps(w, v) /\ Others(w) /\ worker'[w].msg = worker[w].msg
    BY <1>10, PrepareDoes, PrepareFrame
  <2>2. CASE PastIngest(worker[w])
    BY <1>3, <2>1, <2>2
  <2>3. CASE ~ PastIngest(worker[w])
    <3>1. CASE Ingest(w)
      BY <1>10, <3>1 DEF Ingest
    <3>2. CASE Transcribe(w) \/ Analyze(w) \/ CloseJob(w) \/ Dispatch(w) \/ DispatchFails(w)
      BY <2>3, <3>2
         DEF Transcribe, Analyze, CloseJob, Dispatch, DispatchFails, Staging, Preparing, At,
             PastIngest
    <3>3. CASE ClaimVideo(w) \/ OpenJob(w)
      <4>1. worker[w].stage = "ingest"
        BY <2>3, <3>3 DEF OpenJob, ClaimVideo, Preparing, At, PastIngest
      <4> QED
        BY <1>7, <2>1, <3>3, <4>1, PrepareSlots
           DEF PastIngest, SameLocals, ClaimVideo, OpenJob, broker
    <3>4. CASE ReadVideo(w)
      BY <1>7, <2>1, <2>3, <3>4, PrepareSlots
         DEF PastIngest, ReadVideo, Preparing, At, broker
    <3>5. CASE \/ \E e \in Errors : StageFails(w, e)
               \/ RetryProcess(w) \/ RetryProcessFails(w) \/ PrepareCommitFails(w)
      BY <1>7, <2>1, <3>5, ReturnSlot
         DEF PastIngest, StageFails, RetryProcess, RetryProcessFails, PrepareCommitFails, broker
    <3> QED
      BY <1>10, <3>1, <3>2, <3>3, <3>4, <3>5 DEF PrepareStep, PrepareFault
  <2> QED
    BY <2>2, <2>3
<1> QED
  BY <1>4, <1>6, <1>8, <1>9, <1>10, Elsewhere DEF Own

LEMMA SourceHolds == PreparedOnce /\ "purge" \notin Events => (Spec => []SourceInv)
<1> SUFFICES ASSUME PreparedOnce, "purge" \notin Events PROVE Spec => []SourceInv
  OBVIOUS
<1>1. Init => SourceInv
  BY DEF Init, SourceInv, SourceOutlivesChord, Preps, Idle
<1>2. TypeInv /\ TypeInv' /\ OnceInv /\ SourceInv /\ [Next]_vars => SourceInv'
  BY SourceKept
<1> QED
  BY <1>1, <1>2, TypesHold, OnceHolds, PTL DEF Spec

(* core/cleanup.py and PERFORMANCE.md: the workspace of a video is removed *)
(* only after each of its clips was attempted.  When nothing is purged by  *)
(* age, the source of a video is on disk for as long as a part of its      *)
(* chord is outstanding, whatever is killed, rerendered or fails.          *)
THEOREM SourceKeptForChord ==
  PreparedOnce /\ "purge" \notin Events => (Spec => []SourceOutlivesChord)
<1>1. SourceInv => SourceOutlivesChord
  BY DEF SourceInv
<1> QED
  BY <1>1, SourceHolds, PTL

----------------------------------------------------------------------------
(* The renders.  Each is of a clip that exists: rows are never deleted.    *)

KnownClips ==
  /\ \A m \in ready : m.task = "render_clip" => m.clip \in DOMAIN clip
  /\ \A w \in Workers : Doing(w, "render_clip") => Target(w) \in DOMAIN clip

LEMMA ClipsStay ==
  ASSUME TypeInv, [Next]_vars
  PROVE  DOMAIN clip \subseteq DOMAIN clip'
<1>1. ASSUME NEW w \in Workers, PrepareStep(w) \/ PrepareFault(w)
      PROVE  DOMAIN clip \subseteq DOMAIN clip'
  BY <1>1
     DEF PrepareStep, PrepareFault, ReadVideo, ClaimVideo, OpenJob, Ingest, Transcribe, Analyze,
         CloseJob, StageFails, RetryProcess, Dispatch, RetryProcessFails, DispatchFails,
         PrepareCommitFails, tables, Inserted
<1>2. ASSUME NEW w \in Workers,
             \/ Deliver(w) \/ Ack(w) \/ Crash(w) \/ Redeliver(w) \/ Kill(w)
             \/ RenderStep(w) \/ RenderFault(w) \/ FinalizeStep(w) \/ FinalizeFault(w)
      PROVE  DOMAIN clip' = DOMAIN clip
  BY <1>2, RenderFrame, FinalizeFrame DEF Deliver, Ack, Crash, Redeliver, Kill, tables
<1>3. ASSUME NEW v \in Videos, CreateVideo(v) \/ Enqueue(v) \/ EnqueueFails(v) \/ Purge(v)
      PROVE  clip' = clip
  BY <1>3 DEF CreateVideo, Enqueue, EnqueueFails, Purge, tables
<1>4. ASSUME NEW c \in DOMAIN clip, Rerender(c) PROVE clip' = clip
  BY <1>4 DEF Rerender, tables
<1>5. CASE UNCHANGED vars
  BY <1>5 DEF vars, tables
<1> QED
  BY <1>1, <1>2, <1>3, <1>4, <1>5 DEF Next, WorkerStep, WorkerFault

LEMMA SlotMoves ==
  ASSUME TypeInv, NEW w \in Workers, Deliver(w) \/ WorkerStep(w) \/ WorkerFault(w)
  PROVE  Others(w)
<1>1. CASE Deliver(w)
  BY <1>1, DeliverSlot
<1>2. CASE Ack(w) \/ Crash(w) \/ Redeliver(w) \/ Kill(w)
  BY <1>2, BecomeSlot DEF Ack, Crash, Redeliver, Kill, Others
<1>3. CASE \/ PrepareStep(w) \/ PrepareFault(w) \/ RenderStep(w) \/ RenderFault(w)
           \/ FinalizeStep(w) \/ FinalizeFault(w)
  BY <1>3, PrepareFrame, RenderFrame, FinalizeFrame
<1> QED
  BY <1>1, <1>2, <1>3 DEF WorkerStep, WorkerFault

(* What a slot does next with a render.                                    *)
LEMMA RenderMoves ==
  ASSUME TypeInv, [Next]_vars, NEW w \in Workers, Doing(w, "render_clip")'
  PROVE  \/ worker'[w] = worker[w]
         \/ Doing(w, "render_clip") /\ (RenderStep(w) \/ RenderFault(w))
              /\ worker'[w].msg = worker[w].msg
         \/ \E m \in ready : Deliver(w) /\ worker'[w].msg = m /\ worker'[w].pc = "start"
<1>1. CASE Deliver(w)
  BY <1>1, DeliverSlot DEF Doing, FirstStep
<1>2. CASE RenderStep(w) \/ RenderFault(w)
  <2>1. worker'[w].msg = worker[w].msg /\ ~ At(w, "idle")
    BY <1>2, RenderFrame DEF Doing, Report, ReportFailure, At
  <2> QED
    BY <1>2, <2>1 DEF Doing
<1>3. CASE PrepareStep(w) \/ PrepareFault(w)
  BY <1>3, PrepareFrame, PrepareDoes DEF Doing
<1>4. CASE FinalizeStep(w) \/ FinalizeFault(w)
  BY <1>4, FinalizeFrame DEF Doing
<1>5. CASE Ack(w) \/ Crash(w) \/ Kill(w)
  BY <1>5, BecomeSlot DEF Ack, Crash, Kill, Doing, At, Idle
<1>6. CASE Redeliver(w)
  BY <1>6 DEF Redeliver
<1>7. ASSUME NEW x \in Workers, x # w, Deliver(x) \/ WorkerStep(x) \/ WorkerFault(x)
      PROVE  worker'[w] = worker[w]
  BY <1>7, SlotMoves DEF Others
<1>8. ASSUME NEW v \in Videos, CreateVideo(v) \/ Enqueue(v) \/ EnqueueFails(v) \/ Purge(v)
      PROVE  worker' = worker
  BY <1>8 DEF CreateVideo, Enqueue, EnqueueFails, Purge
<1>9. ASSUME NEW c \in DOMAIN clip, Rerender(c) PROVE worker' = worker
  BY <1>9 DEF Rerender
<1>10. CASE UNCHANGED vars
  BY <1>10 DEF vars
<1> QED
  BY <1>1, <1>2, <1>3, <1>4, <1>5, <1>6, <1>7, <1>8, <1>9, <1>10 DEF Next, WorkerStep, WorkerFault

(* What a step publishes.                                                  *)
LEMMA NewRenders ==
  ASSUME TypeInv, [Next]_vars, NEW m \in ready' \ ready, m.task = "render_clip"
  PROVE  \/ \E w \in Workers : /\ Dispatch(w) \/ DispatchFails(w)
                               /\ m.clip \in OwnClips(w) /\ m = Render(m.clip, 0, 0)
         \/ \E w \in Workers : /\ Doing(w, "render_clip")
                               /\ \/ m = worker[w].msg /\ (Crash(w) \/ Redeliver(w))
                                  \/ /\ RetryRender(w) /\ m.clip = Target(w)
                                     /\ m.request = worker[w].msg.request
         \/ \E c \in DOMAIN clip : Rerender(c) /\ m.clip = c
<1>1. ASSUME NEW w \in Workers, PrepareStep(w) \/ PrepareFault(w)
      PROVE  /\ Dispatch(w) \/ DispatchFails(w)
             /\ m.clip \in OwnClips(w) /\ m = Render(m.clip, 0, 0)
  <2>1. \/ ready' = ready
        \/ ready' = ready \cup {Process(Subject(w), worker[w].msg.retries + 1)}
        \/ /\ Dispatch(w) \/ DispatchFails(w)
           /\ \E sent \in SUBSET OwnClips(w) : ready' = ready \cup {Render(c, 0, 0) : c \in sent}
    BY <1>1
       DEF PrepareStep, PrepareFault, ReadVideo, ClaimVideo, OpenJob, Ingest, Transcribe, Analyze,
           CloseJob, StageFails, RetryProcess, Dispatch, RetryProcessFails, DispatchFails,
           PrepareCommitFails, broker
  <2> QED
    BY <2>1, MessageFields
<1>2. ASSUME NEW w \in Workers, RenderStep(w) \/ RenderFault(w)
      PROVE  /\ RetryRender(w) /\ m.clip = Target(w) /\ m.request = worker[w].msg.request
             /\ Doing(w, "render_clip")
  <2>1. \/ ready' = ready
        \/ \E r : ready' = ready \cup {Finalize(r)}
        \/ /\ RetryRender(w)
           /\ \E n : ready' = ready \cup {Render(Target(w), worker[w].msg.request, n)}
    BY <1>2
       DEF RenderStep, RenderFault, ReadClip, MarkRendering, MakeDir, Cut, Reframe, Burn,
           Package, MarkCompleted, RemoveDir, RenderFails, HandleRenderError, CountRetry,
           RetryRender, Report, ReportFailure, MakeDirFails, RetryRenderFails, RenderCommitFails,
           CountRetryFails, broker, Target
  <2>2. \A r : Finalize(r).task = "finalize_video"
    BY DEF Finalize
  <2> QED
    BY <2>1, <2>2, MessageFields DEF RetryRender, Rendering
<1>3. ASSUME NEW w \in Workers, Deliver(w) \/ Ack(w) \/ Crash(w) \/ Redeliver(w) \/ Kill(w)
      PROVE  m = worker[w].msg /\ (Crash(w) \/ Redeliver(w)) /\ Doing(w, "render_clip")
  BY <1>3 DEF Deliver, Ack, Crash, Redeliver, Kill, broker, Doing
<1>4. ASSUME NEW w \in Workers, FinalizeStep(w) \/ FinalizeFault(w)
      PROVE  FALSE
  BY <1>4, FinalizeFrame DEF broker
<1>5. ASSUME NEW v \in Videos, CreateVideo(v) \/ Enqueue(v) \/ EnqueueFails(v) \/ Purge(v)
      PROVE  FALSE
  BY <1>5, MessageFields DEF CreateVideo, Enqueue, EnqueueFails, Purge, broker
<1>6. ASSUME NEW c \in DOMAIN clip, Rerender(c)
      PROVE  m.clip = c
  BY <1>6, MessageFields DEF Rerender
<1>7. CASE UNCHANGED vars
  BY <1>7 DEF vars, broker
<1> QED
  BY <1>1, <1>2, <1>3, <1>4, <1>5, <1>6, <1>7 DEF Next, WorkerStep, WorkerFault

LEMMA ClipsKnown == Spec => []KnownClips
<1>1. Init => KnownClips
  BY DEF Init, KnownClips, Doing, At, Idle
<1>2. TypeInv /\ KnownClips /\ [Next]_vars => KnownClips'
  <2> SUFFICES ASSUME TypeInv, KnownClips, [Next]_vars PROVE KnownClips'
    OBVIOUS
  <2>1. ASSUME NEW m \in ready', m.task = "render_clip" PROVE m.clip \in DOMAIN clip
    BY <2>1, NewRenders, OwnClipsOf DEF KnownClips, Target
  <2>2. ASSUME NEW w \in Workers, Doing(w, "render_clip")' PROVE Target(w)' \in DOMAIN clip
    BY <2>2, RenderMoves DEF KnownClips, Doing, Target, At
  <2> QED
    BY <2>1, <2>2, ClipsStay DEF KnownClips
<1> QED
  BY <1>1, <1>2, TypesHold, PTL DEF Spec

(* The rows of the clips: who writes them, and what.                       *)
WritesRow(w) ==
  MarkRendering(w) \/ MarkCompleted(w) \/ CountRetry(w) \/ \E e \in Errors : RenderFails(w, e)

LEMMA RowChanges ==
  ASSUME TypeInv, OnceInv, [Next]_vars, NEW c \in DOMAIN clip'
  PROVE  \/ c \in DOMAIN clip /\ clip'[c] = clip[c]
         \/ \E w \in Workers : /\ Analyze(w) /\ c \notin DOMAIN clip
                               /\ VideoOf(c) = Subject(w) /\ clip'[c] = NewClip
         \/ c \in DOMAIN clip /\ \E w \in Workers : WritesRow(w) /\ Target(w) = c
<1>1. ASSUME NEW w \in Workers, Analyze(w)
      PROVE  \/ c \in DOMAIN clip /\ clip'[c] = clip[c]
             \/ c \notin DOMAIN clip /\ VideoOf(c) = Subject(w) /\ clip'[c] = NewClip
  <2>1. PICK n \in 0 .. MaxClips :
          clip' = Inserted(clip, {Subject(w)} \X {worker[w].run} \X (1 .. n), NewClip)
    BY <1>1 DEF Analyze
  <2>2. CASE c \in {Subject(w)} \X {worker[w].run} \X (1 .. n)
    <3>1. PICK v : v = Subject(w)
      OBVIOUS
    <3>2. v \in Videos /\ Preps(w, v) /\ worker[w].pc = "stage" /\ VideoOf(c) = v
      BY <1>1, <2>2, <3>1, PrepareDoes DEF PrepareStep, Analyze, Staging, Preparing, At, VideoOf
    <3>3. ClipsOf(v) = {}
      BY <3>2 DEF OnceInv, Once, PrepareFits
    <3>4. c \notin DOMAIN clip
      BY <3>2, <3>3 DEF ClipsOf
    <3> QED
      BY <2>1, <2>2, <3>1, <3>2, <3>4 DEF Inserted
  <2>3. CASE c \notin {Subject(w)} \X {worker[w].run} \X (1 .. n)
    BY <2>1, <2>3 DEF Inserted
  <2> QED
    BY <2>2, <2>3
<1>2. ASSUME NEW w \in Workers, PrepareStep(w) \/ PrepareFault(w), ~ Analyze(w)
      PROVE  clip' = clip
  BY <1>2
     DEF PrepareStep, PrepareFault, ReadVideo, ClaimVideo, OpenJob, Ingest, Transcribe, CloseJob,
         StageFails, RetryProcess, Dispatch, RetryProcessFails, DispatchFails, PrepareCommitFails,
         tables
<1>3. ASSUME NEW w \in Workers, WritesRow(w)
      PROVE  c \in DOMAIN clip /\ (clip'[c] = clip[c] \/ Target(w) = c)
  BY <1>3 DEF WritesRow, MarkRendering, MarkCompleted, CountRetry, RenderFails
<1>4. ASSUME NEW w \in Workers, RenderStep(w) \/ RenderFault(w), ~ WritesRow(w)
      PROVE  clip' = clip
  BY <1>4
     DEF RenderStep, RenderFault, WritesRow, ReadClip, MakeDir, Cut, Reframe, Burn, Package,
         RemoveDir, HandleRenderError, RetryRender, Report, ReportFailure, MakeDirFails,
         RetryRenderFails, RenderCommitFails, CountRetryFails, tables
<1>5. ASSUME NEW w \in Workers,
             \/ Deliver(w) \/ Ack(w) \/ Crash(w) \/ Redeliver(w) \/ Kill(w)
             \/ FinalizeStep(w) \/ FinalizeFault(w)
      PROVE  clip' = clip
  BY <1>5, FinalizeFrame DEF Deliver, Ack, Crash, Redeliver, Kill, tables
<1>6. ASSUME NEW v \in Videos, CreateVideo(v) \/ Enqueue(v) \/ EnqueueFails(v) \/ Purge(v)
      PROVE  clip' = clip
  BY <1>6 DEF CreateVideo, Enqueue, EnqueueFails, Purge, tables
<1>7. ASSUME NEW d \in DOMAIN clip, Rerender(d) PROVE clip' = clip
  BY <1>7 DEF Rerender, tables
<1>8. CASE UNCHANGED vars
  BY <1>8 DEF vars, tables
<1> QED
  BY <1>1, <1>2, <1>3, <1>4, <1>5, <1>6, <1>7, <1>8 DEF Next, WorkerStep, WorkerFault

LEMMA RowWritten ==
  ASSUME TypeInv, NEW w \in Workers, NEW c \in DOMAIN clip, Target(w) = c
  PROVE  /\ MarkRendering(w) =>
              /\ clip'[c].status = Flushed(clip[c].status, worker[w].seen.status, "rendering")
              /\ clip'[c].output = clip[c].output
         /\ MarkCompleted(w) =>
              /\ clip'[c].status = "completed"
              /\ clip'[c].output = Flushed(clip[c].output, worker[w].seen.output, worker[w].title)
         /\ CountRetry(w) =>
              clip'[c].status = clip[c].status /\ clip'[c].output = clip[c].output
         /\ \A e \in Errors : RenderFails(w, e) =>
              clip'[c].status = "failed" /\ clip'[c].output = clip[c].output
<1>1. clip[c] \in ClipRow
  BY DEF TypeInv, TypeOK, TablesOK
<1>2. ASSUME MarkRendering(w)
      PROVE  /\ clip'[c].status = Flushed(clip[c].status, worker[w].seen.status, "rendering")
             /\ clip'[c].output = clip[c].output
  <2>1. PICK s, e : /\ clip' = [clip EXCEPT ![c] = [@ EXCEPT !.status = s, !.error = e]]
                    /\ s = Flushed(clip[c].status, worker[w].seen.status, "rendering")
    BY <1>2 DEF MarkRendering
  <2> QED
    BY <1>1, <2>1 DEF ClipRow
<1>3. ASSUME MarkCompleted(w)
      PROVE  /\ clip'[c].status = "completed"
             /\ clip'[c].output = Flushed(clip[c].output, worker[w].seen.output, worker[w].title)
  <2>1. PICK o : /\ clip' = [clip EXCEPT ![c] = [@ EXCEPT !.status = "completed", !.output = o]]
                 /\ o = Flushed(clip[c].output, worker[w].seen.output, worker[w].title)
    BY <1>3 DEF MarkCompleted
  <2> QED
    BY <1>1, <2>1 DEF ClipRow
<1>4. CountRetry(w) => clip'[c].status = clip[c].status /\ clip'[c].output = clip[c].output
  BY <1>1 DEF CountRetry, ClipRow
<1>5. \A e \in Errors : RenderFails(w, e) =>
        clip'[c].status = "failed" /\ clip'[c].output = clip[c].output
  BY <1>1 DEF RenderFails, ClipRow
<1> QED
  BY <1>2, <1>3, <1>4, <1>5

(* How a part leaves a chord.                                              *)
LEMMA PartGone ==
  ASSUME [Next]_vars, NEW c \in awaited \ awaited'
  PROVE  \/ RunOf(c) \in broken'
         \/ \E w \in Workers : Report(w) /\ CarriedBy(c, worker[w].msg)
<1>1. ASSUME NEW w \in Workers, Report(w) PROVE CarriedBy(c, worker[w].msg)
  BY <1>1 DEF Report, CarriedBy
<1>2. ASSUME NEW w \in Workers, ReportFailure(w) \/ Kill(w) PROVE RunOf(c) \in broken'
  BY <1>2 DEF ReportFailure, Kill, LosePart
<1>3. ASSUME NEW w \in Workers, PrepareStep(w) \/ PrepareFault(w) PROVE FALSE
  BY <1>3
     DEF PrepareStep, PrepareFault, ReadVideo, ClaimVideo, OpenJob, Ingest, Transcribe, Analyze,
         CloseJob, StageFails, RetryProcess, Dispatch, RetryProcessFails, DispatchFails,
         PrepareCommitFails, broker
<1>4. ASSUME NEW w \in Workers, RenderStep(w) \/ RenderFault(w), ~ Report(w), ~ ReportFailure(w)
      PROVE  FALSE
  BY <1>4
     DEF RenderStep, RenderFault, ReadClip, MarkRendering, MakeDir, Cut, Reframe, Burn, Package,
         MarkCompleted, RemoveDir, RenderFails, HandleRenderError, CountRetry, RetryRender,
         MakeDirFails, RetryRenderFails, RenderCommitFails, CountRetryFails, broker
<1>5. ASSUME NEW w \in Workers, FinalizeStep(w) \/ FinalizeFault(w) PROVE FALSE
  BY <1>5 DEF FinalizeStep, FinalizeFault, ReadClips, MarkFinalized, RemoveWorkspace,
              RemoveWorkspaceFails, FinalizeCommitFails, broker
<1>6. ASSUME NEW w \in Workers, Deliver(w) \/ Ack(w) \/ Crash(w) \/ Redeliver(w) PROVE FALSE
  BY <1>6 DEF Deliver, Ack, Crash, Redeliver, broker
<1>7. ASSUME NEW v \in Videos, CreateVideo(v) \/ Enqueue(v) \/ EnqueueFails(v) \/ Purge(v)
      PROVE  FALSE
  BY <1>7 DEF CreateVideo, Enqueue, EnqueueFails, Purge, broker
<1>8. ASSUME NEW d \in DOMAIN clip, Rerender(d) PROVE FALSE
  BY <1>8 DEF Rerender
<1>9. CASE UNCHANGED vars
  BY <1>9 DEF vars, broker
<1> QED
  BY <1>1, <1>2, <1>3, <1>4, <1>5, <1>6, <1>7, <1>8, <1>9 DEF Next, WorkerStep, WorkerFault

LEMMA BrokenStays ==
  ASSUME [Next]_vars
  PROVE  broken \subseteq broken'
<1>1. ASSUME NEW w \in Workers, Deliver(w) \/ WorkerStep(w) \/ WorkerFault(w)
      PROVE  broken \subseteq broken'
  BY <1>1
     DEF WorkerStep, WorkerFault, Deliver, Ack, Crash, Redeliver, Kill, LosePart,
         PrepareStep, PrepareFault, ReadVideo, ClaimVideo, OpenJob, Ingest, Transcribe, Analyze,
         CloseJob, StageFails, RetryProcess, Dispatch, RetryProcessFails, DispatchFails,
         PrepareCommitFails, FinalizeStep, FinalizeFault, ReadClips, MarkFinalized,
         RemoveWorkspace, RemoveWorkspaceFails, FinalizeCommitFails,
         RenderStep, RenderFault, ReadClip, MarkRendering, MakeDir, Cut, Reframe, Burn, Package,
         MarkCompleted, RemoveDir, RenderFails, HandleRenderError, CountRetry, RetryRender,
         Report, ReportFailure, MakeDirFails, RetryRenderFails, RenderCommitFails,
         CountRetryFails, broker
<1>2. ASSUME NEW v \in Videos, CreateVideo(v) \/ Enqueue(v) \/ EnqueueFails(v) \/ Purge(v)
      PROVE  broken' = broken
  BY <1>2 DEF CreateVideo, Enqueue, EnqueueFails, Purge, broker
<1>3. ASSUME NEW d \in DOMAIN clip, Rerender(d) PROVE broken' = broken
  BY <1>3 DEF Rerender
<1>4. CASE UNCHANGED vars
  BY <1>4 DEF vars, broker
<1> QED
  BY <1>1, <1>2, <1>3, <1>4 DEF Next

----------------------------------------------------------------------------
(* A clip whose part has not returned keeps the body of its chord away.    *)

Pending(c) ==
  /\ PartOut(VideoOf(c)) => c \in awaited \/ RunOf(c) \in broken
  /\ ~ BodyOut(VideoOf(c)) /\ video[VideoOf(c)].status # "completed"

LEMMA PrepareWithClips ==
  ASSUME TypeInv, NEW v \in Videos, Once(v), NEW c \in ClipsOf(v),
         NEW w \in Workers, PrepareStep(w) \/ PrepareFault(w), Subject(w) = v
  PROVE  /\ video' = video /\ ~ BodyOut(v)'
         /\ PartOut(v)' => c \in awaited'
<1>1. /\ Preps(w, v) /\ PrepareFits(w, v) /\ RowFits(v) /\ Doing(w, "process_video")
      /\ worker'[w].msg = worker[w].msg /\ Others(w) /\ ~ At(w, "idle")
  BY PrepareDoes, PrepareFrame DEF Once
<1>2. ~ PartOut(v) /\ ~ BodyOut(v)
  BY <1>1, HeldOnce
<1>3. /\ worker[w].pc \notin {"start", "claim", "open_job", "stage", "retry_process"}
      /\ worker[w].run = runs[v] \/ worker[w].pc # "dispatch"
  BY <1>1 DEF PrepareFits, RowFits
<1>4. /\ CloseJob(w) \/ Dispatch(w) \/ DispatchFails(w) \/ PrepareCommitFails(w)
      /\ video' = video
  BY <1>3
     DEF PrepareStep, PrepareFault, ReadVideo, ClaimVideo, OpenJob, Staging, Ingest, Transcribe,
         Analyze, CloseJob, StageFails, RetryProcess, Dispatch, RetryProcessFails, DispatchFails,
         PrepareCommitFails, Preparing, At, tables
<1>5. \A n : Finalize(<<v, n>>) \in ready' => Finalize(<<v, n>>) \in ready
  BY <1>4, OtherMessages DEF CloseJob, Dispatch, DispatchFails, PrepareCommitFails, broker
<1>6. ~ BodyOut(v)'
  BY <1>1, <1>2, <1>5 DEF BodyOut, InFlight, At, Others
<1>7. CASE Dispatch(w)
  <2>1. c \in DOMAIN clip /\ c[1] = v /\ c[2] = worker[w].run
    BY <1>1, <1>3, <1>7 DEF ClipsOf, VideoOf, RowFits, Dispatch, Preparing, At
  <2>2. c \in OwnClips(w)
    BY <2>1 DEF OwnClips, ClipsOfRun, RunOf
  <2> QED
    BY <1>4, <1>6, <1>7, <2>2 DEF Dispatch
<1>8. CASE ~ Dispatch(w)
  BY <1>2, <1>4, <1>6, <1>8 DEF CloseJob, DispatchFails, PrepareCommitFails, broker, PartOut
<1> QED
  BY <1>7, <1>8

LEMMA PendingKept ==
  ASSUME PreparedOnce, TypeInv, OnceInv, [Next]_vars, NEW c \in DOMAIN clip, Pending(c),
         \A w \in Workers : Report(w) => ~ CarriedBy(c, worker[w].msg)
  PROVE  Pending(c)'
<1>1. PICK v : v = VideoOf(c)
  OBVIOUS
<1>2. v \in Videos /\ Once(v) /\ RowFits(v) /\ c \in ClipsOf(v) /\ c[2] = runs[v]
  BY <1>1, ClipIdParts DEF OnceInv, Once, TypeInv, TypeOK, TablesOK, ClipsOf, RowFits
<1>3. ~ CreateVideo(v) /\ ~ Enqueue(v)
  BY <1>2 DEF RowFits, CreateVideo, Enqueue
<1>4. ASSUME NEW w \in Workers PROVE ~ Delivers(w, v)
  <2> SUFFICES ASSUME Delivers(w, v) PROVE FALSE
    OBVIOUS
  <2>1. PICK m \in ready : m \in Messages /\ worker'[w].msg = m
    BY DeliverSlot DEF Delivers
  <2> QED
    BY <1>2, <2>1, MessageForms DEF Delivers, Queued, RowFits
<1>5. ASSUME NEW w \in Workers PROVE ~ Publishes(w, v)
  <2> SUFFICES ASSUME Publishes(w, v) PROVE FALSE
    OBVIOUS
  <2>1. PICK d : d = worker[w].msg.clip
    OBVIOUS
  <2>2. /\ d \in awaited /\ VideoOf(d) = v /\ IsPart(worker[w].msg) /\ RunOf(d) \notin broken
        /\ \A e \in awaited \ {d} : RunOf(e) # RunOf(d)
    BY <1>2, <2>1, PublishesPart
  <2>3. PartOut(v) /\ RunOf(c) = RunOf(d)
    BY <1>1, <1>2, <2>2 DEF PartOut, RowFits, ClipsOf, RunOf, VideoOf
  <2>4. c \in awaited
    BY <1>1, <2>2, <2>3 DEF Pending
  <2> QED
    BY <2>1, <2>2, <2>3, <2>4 DEF Publishes, CarriedBy
<1>6. ASSUME NEW w \in Workers, PrepareStep(w) \/ PrepareFault(w), Subject(w) = v
      PROVE  Pending(c)'
  <2>1. video' = video /\ ~ BodyOut(v)' /\ (PartOut(v)' => c \in awaited')
    BY <1>2, <1>6, PrepareWithClips
  <2> QED
    BY <1>1, <2>1 DEF Pending
<1>7. ASSUME NEW w \in Workers, FinalizeStep(w) \/ FinalizeFault(w), Subject(w) = v
      PROVE  FALSE
  <2>1. worker[w].pc \in FinalizeSteps /\ Preps(w, v)
    BY <1>1, <1>7, Finalizer DEF Pending
  <2> QED
    BY <1>2, <2>1 DEF Once, PrepareFits
<1>8. CASE Apart(v)
  <2>1. Untouched(v)
    BY <1>8 DEF Apart
  <2>2. (BodyOut(v)' => BodyOut(v)) /\ (PartOut(v)' => PartOut(v))
    BY <2>1 DEF Untouched, BodyOut, PartOut
  <2>3. c \in awaited => c \in awaited' \/ RunOf(c) \in broken'
    BY PartGone
  <2> QED
    BY <1>1, <2>1, <2>2, <2>3, BrokenStays DEF Pending, Untouched
<1> QED
  BY <1>2, <1>3, <1>4, <1>5, <1>6, <1>7, <1>8, Elsewhere DEF Own

(* A row that Analyze has just inserted has no chord yet.                  *)
LEMMA NewPending ==
  ASSUME TypeInv, OnceInv, OnceInv', NEW w \in Workers, Analyze(w), NEW c, VideoOf(c) = Subject(w)
  PROVE  Pending(c)'
<1>1. PICK v : v = Subject(w)
  OBVIOUS
<1>2. /\ v \in Videos /\ Preps(w, v) /\ worker[w].pc = "stage"
      /\ worker'[w].msg = worker[w].msg /\ worker'[w].pc = "close_job" /\ video' = video
  BY <1>1, PrepareDoes, PrepareFrame, PrepareSlots
     DEF PrepareStep, Analyze, Staging, Preparing, At
<1>3. Preps(w, v)' /\ Once(v)'
  BY <1>2 DEF Preps, OnceInv
<1>4. ~ PartOut(v)' /\ ~ BodyOut(v)'
  BY <1>3 DEF Once, OnePrepare, Free
<1>5. video'[v].status = "running"
  BY <1>2, <1>3 DEF Once, PrepareFits
<1> QED
  BY <1>1, <1>4, <1>5 DEF Pending

----------------------------------------------------------------------------
(* Every clip is attempted.  A clip is "selected" until a render of it has *)
(* written its row, and a render writes the row before it returns.         *)

Rend(w, c) == worker[w].pc \notin {"idle", "ack"} /\ Doing(w, "render_clip") /\ Target(w) = c

Attempts(w, c) ==
  Rend(w, c) /\ clip[c].status = "selected" =>
    /\ worker[w].pc \in {"start", "mark_rendering"}
    /\ worker[w].pc = "mark_rendering" => worker[w].seen.status = "selected"
AttemptInv ==
  \A c \in DOMAIN clip :
    /\ clip[c].status = "selected" => Pending(c)
    /\ \A w \in Workers : Attempts(w, c)

LEMMA ReadSlot ==
  ASSUME TypeInv, ClipHasTranscript, NEW w \in Workers, ReadClip(w), Target(w) \in DOMAIN clip
  PROVE  /\ worker'[w].pc = "mark_rendering" /\ worker'[w].seen = clip[Target(w)]
         /\ worker'[w].msg = worker[w].msg
<1>1. Get(clip, Target(w)) = clip[Target(w)] /\ clip[Target(w)] # None
  BY NoRowAssumption DEF Get, TypeInv, TypeOK, TablesOK
<1>2. Become(w, [worker[w] EXCEPT !.pc = "mark_rendering", !.seen = clip[Target(w)]])
  BY <1>1 DEF ReadClip, ClipHasTranscript
<1>3. worker[w] \in WorkerState
  BY DEF TypeInv, TypeOK
<1>4. worker'[w] = [worker[w] EXCEPT !.pc = "mark_rendering", !.seen = clip[Target(w)]]
  BY <1>2, BecomeSlot
<1> QED
  BY <1>3, <1>4 DEF WorkerState

LEMMA AttemptsKept ==
  ASSUME "db" \notin Events, PreparedOnce, TypeInv, OnceInv, OnceInv', ClipHasTranscript,
         KnownClips, AttemptInv, [Next]_vars
  PROVE  AttemptInv'
<1> SUFFICES ASSUME NEW c \in DOMAIN clip', clip'[c].status = "selected"
             PROVE  Pending(c)' /\ \A w \in Workers : Attempts(w, c)'
  BY DEF AttemptInv, Attempts
<1>1. \/ c \in DOMAIN clip /\ clip[c].status = "selected" /\ clip'[c] = clip[c]
      \/ \E w \in Workers : Analyze(w) /\ c \notin DOMAIN clip /\ VideoOf(c) = Subject(w)
      \/ \E w \in Workers : /\ c \in DOMAIN clip /\ clip[c].status = "selected"
                            /\ CountRetry(w) /\ Target(w) = c
  <2> SUFFICES ASSUME NEW w \in Workers, c \in DOMAIN clip, WritesRow(w), Target(w) = c
               PROVE  CountRetry(w) /\ clip[c].status = "selected"
    BY RowChanges
  <2>1. CASE MarkRendering(w)
    <3>1. Rend(w, c) /\ worker[w].pc = "mark_rendering"
      BY <2>1 DEF MarkRendering, Rendering, Rend, At
    <3>2. clip'[c].status = Flushed(clip[c].status, worker[w].seen.status, "rendering")
      BY <2>1, RowWritten
    <3> QED
      BY <3>1, <3>2 DEF AttemptInv, Attempts, Flushed
  <2> QED
    BY <2>1, RowWritten DEF WritesRow
<1>2. ASSUME NEW w \in Workers, Analyze(w), c \notin DOMAIN clip, VideoOf(c) = Subject(w)
      PROVE  Pending(c)' /\ \A x \in Workers : Attempts(x, c)'
  <2>1. Pending(c)'
    BY <1>2, NewPending
  <2>2. ASSUME NEW x \in Workers, Rend(x, c)' PROVE FALSE
    BY <1>2, <2>2, RenderMoves DEF Rend, KnownClips, Doing, Target, At
  <2> QED
    BY <2>1, <2>2 DEF Attempts
<1>3. ASSUME c \in DOMAIN clip, clip[c].status = "selected"
      PROVE  Pending(c)' /\ \A w \in Workers : Attempts(w, c)'
  <2>1. Pending(c) /\ \A w \in Workers : Attempts(w, c)
    BY <1>3 DEF AttemptInv
  <2>2. ASSUME NEW w \in Workers, Report(w) PROVE ~ CarriedBy(c, worker[w].msg)
    BY <1>3, <2>1, <2>2 DEF Report, CarriedBy, IsPart, Attempts, Rend, Doing, Target, At
  <2>3. Pending(c)'
    BY <1>3, <2>1, <2>2, PendingKept
  <2>4. ASSUME NEW w \in Workers, Rend(w, c)' PROVE Attempts(w, c)'
    <3>1. CASE worker'[w] = worker[w]
      BY <1>3, <2>1, <2>4, <3>1 DEF Attempts, Rend, Doing, Target, At
    <3>2. CASE worker'[w].pc = "start"
      BY <3>2 DEF Attempts
    <3>3. ASSUME Doing(w, "render_clip"), RenderStep(w) \/ RenderFault(w),
                 worker'[w].msg = worker[w].msg
          PROVE  Attempts(w, c)'
      <4>1. Target(w) = c /\ worker[w].pc # "idle"
        BY <2>4, <3>3 DEF Rend, Target, Doing, At
      <4>2. worker[w].pc # "ack"
        BY <3>3
           DEF RenderStep, RenderFault, ReadClip, MarkRendering, MakeDir, Cut, Reframe, Burn,
               Package, MarkCompleted, RemoveDir, RenderFails, HandleRenderError, CountRetry,
               RetryRender, Report, ReportFailure, MakeDirFails, RetryRenderFails,
               RenderCommitFails, CountRetryFails, Rendering, At
      <4>3. worker[w].pc \in {"start", "mark_rendering"}
            /\ (worker[w].pc = "mark_rendering" => worker[w].seen.status = "selected")
        BY <1>3, <2>1, <3>3, <4>1, <4>2 DEF Attempts, Rend
      <4>4. ReadClip(w) \/ MarkRendering(w)
        BY <3>3, <4>3
           DEF RenderStep, RenderFault, MakeDir, Cut, Reframe, Burn,
               Package, MarkCompleted, RemoveDir, RenderFails, HandleRenderError, CountRetry,
               RetryRender, Report, ReportFailure, MakeDirFails, RetryRenderFails,
               RenderCommitFails, CountRetryFails, Rendering, At, Happens
      <4>5. CASE ReadClip(w)
        BY <1>3, <4>1, <4>5, ReadSlot DEF Attempts
      <4>6. CASE MarkRendering(w)
        <5>1. clip'[c].status = "rendering"
          <6>1. worker[w].pc = "mark_rendering"
            BY <4>6 DEF MarkRendering, Rendering, At
          <6>2. clip'[c].status = Flushed(clip[c].status, worker[w].seen.status, "rendering")
            BY <1>3, <4>1, <4>6, RowWritten
          <6> QED
            BY <1>3, <4>3, <6>1, <6>2 DEF Flushed
        <5> QED
          BY <5>1
      <4> QED
        BY <4>4, <4>5, <4>6
    <3> QED
      BY <2>4, <3>1, <3>2, <3>3, RenderMoves DEF Rend
  <2> QED
    BY <2>3, <2>4 DEF Attempts
<1> QED
  BY <1>1, <1>2, <1>3

(* chord() in workers/tasks.py, "runs finalize_video only after every clip *)
(* finishes": when no commit fails and process_video runs once per         *)
(* publication, a completed video has no clip that was never attempted,    *)
(* however often its renders are redelivered, killed or retried.           *)
THEOREM EveryClipAttempted ==
  PreparedOnce /\ "db" \notin Events => (Spec => []AllAttempted)
<1> SUFFICES ASSUME PreparedOnce, "db" \notin Events PROVE Spec => []AllAttempted
  OBVIOUS
<1>1. Init => AttemptInv
  BY DEF Init, AttemptInv
<1>2. TypeInv /\ OnceInv /\ OnceInv' /\ ClipHasTranscript /\ KnownClips /\ AttemptInv
        /\ [Next]_vars => AttemptInv'
  BY AttemptsKept
<1>3. AttemptInv => AllAttempted
  BY DEF AttemptInv, AllAttempted, Pending
<1> QED
  BY <1>1, <1>2, <1>3, TypesHold, OnceHolds, ClipsKnown, RenderInputsCommitted, PTL DEF Spec

----------------------------------------------------------------------------
(* What a step does to one slot, to one message and to one row.            *)

LEMMA SlotKept ==
  ASSUME TypeInv, [Next]_vars, NEW w \in Workers
  PROVE  \/ worker'[w] = worker[w]
         \/ Deliver(w) \/ Ack(w) \/ Crash(w) \/ Kill(w)
         \/ PrepareStep(w) \/ PrepareFault(w) \/ RenderStep(w) \/ RenderFault(w)
         \/ FinalizeStep(w) \/ FinalizeFault(w)
<1>1. CASE Redeliver(w)
  BY <1>1 DEF Redeliver
<1>2. ASSUME NEW x \in Workers, x # w, Deliver(x) \/ WorkerStep(x) \/ WorkerFault(x)
      PROVE  worker'[w] = worker[w]
  BY <1>2, SlotMoves DEF Others
<1>3. ASSUME NEW v \in Videos, CreateVideo(v) \/ Enqueue(v) \/ EnqueueFails(v) \/ Purge(v)
      PROVE  worker' = worker
  BY <1>3 DEF CreateVideo, Enqueue, EnqueueFails, Purge
<1>4. ASSUME NEW c \in DOMAIN clip, Rerender(c) PROVE worker' = worker
  BY <1>4 DEF Rerender
<1>5. CASE UNCHANGED vars
  BY <1>5 DEF vars
<1> QED
  BY <1>1, <1>2, <1>3, <1>4, <1>5 DEF Next, WorkerStep, WorkerFault

LEMMA MessageStays ==
  ASSUME TypeInv, [Next]_vars, NEW m \in ready \ ready'
  PROVE  \E w \in Workers : /\ Deliver(w) /\ worker'[w].msg = m
                            /\ worker'[w].pc = FirstStep[m.task]
<1>1. ASSUME NEW w \in Workers, Deliver(w)
      PROVE  worker'[w].msg = m /\ worker'[w].pc = FirstStep[m.task]
  BY <1>1, DeliverSlot
<1>2. ASSUME NEW w \in Workers, PrepareStep(w) \/ PrepareFault(w) PROVE FALSE
  BY <1>2
     DEF PrepareStep, PrepareFault, ReadVideo, ClaimVideo, OpenJob, Ingest, Transcribe, Analyze,
         CloseJob, StageFails, RetryProcess, Dispatch, RetryProcessFails, DispatchFails,
         PrepareCommitFails, broker
<1>3. ASSUME NEW w \in Workers, RenderStep(w) \/ RenderFault(w) PROVE FALSE
  BY <1>3
     DEF RenderStep, RenderFault, ReadClip, MarkRendering, MakeDir, Cut, Reframe, Burn, Package,
         MarkCompleted, RemoveDir, RenderFails, HandleRenderError, CountRetry, RetryRender,
         Report, ReportFailure, MakeDirFails, RetryRenderFails, RenderCommitFails,
         CountRetryFails, broker
<1>4. ASSUME NEW w \in Workers, FinalizeStep(w) \/ FinalizeFault(w) PROVE FALSE
  BY <1>4, FinalizeFrame DEF broker
<1>5. ASSUME NEW w \in Workers, Ack(w) \/ Crash(w) \/ Redeliver(w) \/ Kill(w) PROVE FALSE
  BY <1>5 DEF Ack, Crash, Redeliver, Kill, broker
<1>6. ASSUME NEW v \in Videos, CreateVideo(v) \/ Enqueue(v) \/ EnqueueFails(v) \/ Purge(v)
      PROVE  FALSE
  BY <1>6 DEF CreateVideo, Enqueue, EnqueueFails, Purge, broker
<1>7. ASSUME NEW d \in DOMAIN clip, Rerender(d) PROVE FALSE
  BY <1>7 DEF Rerender
<1>8. CASE UNCHANGED vars
  BY <1>8 DEF vars, broker
<1> QED
  BY <1>1, <1>2, <1>3, <1>4, <1>5, <1>6, <1>7, <1>8 DEF Next, WorkerStep, WorkerFault

LEMMA RowMoves ==
  ASSUME TypeInv, [Next]_vars, NEW v \in Videos
  PROVE  \/ video'[v].status = video[v].status /\ runs'[v] = runs[v]
         \/ /\ CreateVideo(v) /\ runs'[v] = runs[v]
            /\ video[v].status = "absent" /\ video'[v].status = "pending"
         \/ \E w \in Workers :
              /\ Subject(w) = v
              /\ \/ /\ ClaimVideo(w) /\ runs'[v] = runs[v] + 1
                    /\ video'[v].status = "running"
                 \/ /\ \E e \in Errors : StageFails(w, e)
                    /\ video'[v].status = "failed" /\ runs'[v] = runs[v]
                 \/ /\ MarkFinalized(w) /\ runs'[v] = runs[v]
                    /\ video'[v].status =
                         Flushed(video[v].status, worker[w].seen.status, "completed")
<1>1. video \in [Videos -> VideoRow] /\ video[v] \in VideoRow /\ runs \in [Videos -> Nat]
  BY DEF TypeInv, TypeOK, TablesOK
<1> DEFINE Same == video'[v].status = video[v].status /\ runs'[v] = runs[v]
<1>2. ASSUME NEW w \in Workers, PrepareStep(w) \/ PrepareFault(w)
      PROVE  \/ Same
             \/ /\ Subject(w) = v
                /\ \/ ClaimVideo(w) /\ runs'[v] = runs[v] + 1 /\ video'[v].status = "running"
                   \/ /\ \E e \in Errors : StageFails(w, e)
                      /\ video'[v].status = "failed" /\ runs'[v] = runs[v]
  <2>1. CASE Subject(w) # v
    BY <1>2, <2>1, PrepareElsewhere DEF Apart, Untouched
  <2>2. CASE Subject(w) = v /\ ClaimVideo(w)
    BY <1>1, <2>2 DEF ClaimVideo, VideoRow
  <2>3. ASSUME Subject(w) = v, NEW e \in Errors, StageFails(w, e)
        PROVE  video'[v].status = "failed" /\ runs'[v] = runs[v]
    BY <1>1, <2>3 DEF StageFails, VideoRow
  <2>4. CASE /\ Subject(w) = v /\ ~ ClaimVideo(w) /\ ~ \E e \in Errors : StageFails(w, e)
    <3>1. Same
      BY <1>1, <1>2, <2>4
         DEF PrepareStep, PrepareFault, ReadVideo, OpenJob, Ingest, Transcribe, Analyze,
             CloseJob, RetryProcess, Dispatch, RetryProcessFails, DispatchFails,
             PrepareCommitFails, tables, VideoRow
    <3> QED
      BY <3>1
  <2> QED
    BY <2>1, <2>2, <2>3, <2>4
<1>3. ASSUME NEW w \in Workers, RenderStep(w) \/ RenderFault(w) PROVE Same
  BY <1>3, RenderFrame
<1>4. ASSUME NEW w \in Workers, FinalizeStep(w) \/ FinalizeFault(w)
      PROVE  \/ Same
             \/ /\ Subject(w) = v /\ MarkFinalized(w) /\ runs'[v] = runs[v]
                /\ video'[v].status =
                     Flushed(video[v].status, worker[w].seen.status, "completed")
  <2>1. CASE Subject(w) # v
    BY <1>4, <2>1, FinalizeElsewhere DEF Apart, Untouched
  <2>2. CASE Subject(w) = v /\ MarkFinalized(w)
    BY <1>4, <2>2, FinalizeRow, FinalizeFrame
  <2>3. CASE Subject(w) = v /\ ~ MarkFinalized(w)
    BY <1>4, <2>3, FinalizeRow, FinalizeFrame
  <2> QED
    BY <2>1, <2>2, <2>3
<1>5. ASSUME NEW w \in Workers, Deliver(w) \/ Ack(w) \/ Crash(w) \/ Redeliver(w) \/ Kill(w)
      PROVE  Same
  BY <1>5 DEF Deliver, Ack, Crash, Redeliver, Kill, tables
<1>6. ASSUME NEW u \in Videos, CreateVideo(u) \/ Enqueue(u) \/ EnqueueFails(u) \/ Purge(u)
      PROVE  \/ Same
             \/ /\ CreateVideo(v) /\ runs'[v] = runs[v]
                /\ video[v].status = "absent" /\ video'[v].status = "pending"
  BY <1>1, <1>6 DEF CreateVideo, Enqueue, EnqueueFails, Purge, tables, NewVideo
<1>7. ASSUME NEW d \in DOMAIN clip, Rerender(d) PROVE Same
  BY <1>7 DEF Rerender, tables
<1>8. CASE UNCHANGED vars
  BY <1>8 DEF vars, tables
<1> QED
  BY <1>2, <1>3, <1>4, <1>5, <1>6, <1>7, <1>8 DEF Next, WorkerStep, WorkerFault

(* What OnceInv adds: a video that is marked finalized is completed.       *)
LEMMA StatusMoves ==
  ASSUME TypeInv, OnceInv, [Next]_vars, NEW v \in Videos
  PROVE  \/ video'[v].status = video[v].status /\ runs'[v] = runs[v]
         \/ /\ CreateVideo(v) /\ runs'[v] = runs[v]
            /\ video[v].status = "absent" /\ video'[v].status = "pending"
         \/ \E w \in Workers :
              /\ Subject(w) = v
              /\ \/ /\ ClaimVideo(w) /\ runs'[v] = runs[v] + 1
                    /\ video'[v].status = "running"
                 \/ /\ \E e \in Errors : StageFails(w, e)
                    /\ video'[v].status = "failed" /\ runs'[v] = runs[v]
                 \/ /\ MarkFinalized(w) /\ runs'[v] = runs[v]
                    /\ video'[v].status = "completed"
<1>1. Once(v)
  BY DEF OnceInv
<1>2. ASSUME NEW w \in Workers, MarkFinalized(w), Subject(w) = v
      PROVE  video'[v].status = "completed"
  BY <1>1, <1>2, MarksCompleted DEF Once
<1> QED
  BY <1>2, RowMoves

----------------------------------------------------------------------------
(* Nobody abandons a video.  The steps that do are faults: a prepare that  *)
(* dies, a task killed at its time limit, a commit or a publication that   *)
(* fails.  Redelivery is none of them: a video may have two prepares, two  *)
(* chords and two bodies, and statuses then say nothing of who is where.   *)

NothingAbandoned ==
  /\ {"kill", "db", "broker"} \cap Events = {}
  /\ "crash" \in Events => "process_video" \notin CrashTasks
Unbroken == broken = {} /\ \A w \in Workers : ~ At(w, "report_failure")

(* Who will certainly write the row of a video that says "running".  Not a *)
(* finalize that loaded the row as "completed": its session writes nothing *)
(* then, though another prepare may have claimed the video since.          *)
AtWork(w, v) ==
  /\ Subject(w) = v
  /\ \/ /\ Doing(w, "process_video")
        /\ worker[w].pc \in {"open_job", "stage", "close_job", "dispatch"}
     \/ Finalizing(w, "read_clips")
     \/ Finalizing(w, "mark_finalized") /\ worker[w].seen.status # "completed"
MovesOn(v) ==
  \/ \E w \in Workers : AtWork(w, v)
  \/ \E c \in awaited : VideoOf(c) = v
  \/ \E r \in {v} \X (0 .. runs[v]) : Finalize(r) \in ready
OwnerInv == \A v \in Videos : video[v].status = "running" => MovesOn(v)

LEMMA NothingBroken == NothingAbandoned => (Spec => []Unbroken)
<1> SUFFICES ASSUME NothingAbandoned PROVE Spec => []Unbroken
  OBVIOUS
<1>1. Init => Unbroken
  BY DEF Init, Unbroken, At, Idle
<1>2. ASSUME TypeInv, Unbroken, [Next]_vars PROVE Unbroken'
  <2>1. ASSUME NEW w \in Workers, Deliver(w) \/ WorkerStep(w) \/ WorkerFault(w)
        PROVE  broken' = broken
    BY <1>2, <2>1
       DEF NothingAbandoned, Happens, Unbroken,
           WorkerStep, WorkerFault, Deliver, Ack, Crash, Redeliver, Kill, LosePart,
           PrepareStep, PrepareFault, ReadVideo, ClaimVideo, OpenJob, Ingest, Transcribe, Analyze,
           CloseJob, StageFails, RetryProcess, Dispatch, RetryProcessFails, DispatchFails,
           PrepareCommitFails, FinalizeStep, FinalizeFault, ReadClips, MarkFinalized,
           RemoveWorkspace, RemoveWorkspaceFails, FinalizeCommitFails,
           RenderStep, RenderFault, ReadClip, MarkRendering, MakeDir, Cut, Reframe, Burn, Package,
           MarkCompleted, RemoveDir, RenderFails, HandleRenderError, CountRetry, RetryRender,
           Report, ReportFailure, MakeDirFails, RetryRenderFails, RenderCommitFails,
           CountRetryFails, broker
  <2>2. ASSUME NEW w \in Workers, At(w, "report_failure")' PROVE FALSE
    <3>1. CASE worker'[w] = worker[w]
      BY <1>2, <2>2, <3>1 DEF Unbroken, At
    <3>2. CASE Deliver(w)
      <4>1. PICK m \in ready : m \in Messages /\ worker'[w].pc = FirstStep[m.task]
        BY <1>2, <3>2, DeliverSlot
      <4>2. m.task \in TaskNames
        BY <4>1, MessageForms
      <4> QED
        BY <2>2, <4>1, <4>2 DEF At, FirstStep, TaskNames
    <3>3. CASE Ack(w) \/ Crash(w) \/ Kill(w)
      BY <1>2, <2>2, <3>3, BecomeSlot DEF At, Ack, Crash, Kill, Idle
    <3>4. CASE PrepareStep(w) \/ PrepareFault(w)
      <4>1. CASE \/ ReadVideo(w) \/ ClaimVideo(w) \/ OpenJob(w)
                 \/ Ingest(w) \/ Transcribe(w) \/ Analyze(w) \/ CloseJob(w)
        BY <1>2, <2>2, <4>1, PrepareSlots DEF At
      <4>2. CASE \/ \E e \in Errors : StageFails(w, e)
                 \/ RetryProcess(w) \/ Dispatch(w) \/ PrepareFault(w)
        BY <1>2, <2>2, <4>2, ReturnSlot
           DEF At, StageFails, RetryProcess, Dispatch, PrepareFault, RetryProcessFails,
               DispatchFails, PrepareCommitFails
      <4> QED
        BY <3>4, <4>1, <4>2 DEF PrepareStep
    <3>5. CASE FinalizeStep(w) \/ FinalizeFault(w)
      BY <1>2, <2>2, <3>5, FinalizeFrame DEF At
    <3>6. CASE RenderStep(w) \/ RenderFault(w)
      <4>1. worker[w] \in WorkerState
        BY <1>2 DEF TypeInv, TypeOK
      <4>2. CASE Reframe(w)
        <5>1. PICK t \in Titles : Become(w, [worker[w] EXCEPT !.pc = "burn", !.title = t])
          BY <4>2 DEF Reframe
        <5>2. worker'[w] = [worker[w] EXCEPT !.pc = "burn", !.title = t]
          BY <1>2, <5>1, BecomeSlot
        <5> QED
          BY <2>2, <4>1, <5>2 DEF At, WorkerState
      <4>3. ASSUME NEW e \in Errors, RenderFails(w, e) PROVE FALSE
        <5>1. worker'[w] = [worker[w] EXCEPT !.pc = "render_failed", !.err = e, !.seen = None,
                                             !.title = None]
          BY <1>2, <4>3, BecomeSlot DEF RenderFails
        <5> QED
          BY <2>2, <4>1, <5>1 DEF At, WorkerState
      <4>4. CASE ReadClip(w) \/ HandleRenderError(w)
        <5> DEFINE row == Get(clip, Target(w))
        <5>1. PICK step \in {"mark_rendering", "count_retry", "report"} :
                \/ Become(w, [worker[w] EXCEPT !.pc = step, !.seen = row])
                \/ Return(w, step)
          BY <4>4 DEF ReadClip, HandleRenderError
        <5>2. \/ worker'[w] = [worker[w] EXCEPT !.pc = step, !.seen = row]
              \/ worker'[w].pc = step
          BY <1>2, <5>1, BecomeSlot, ReturnSlot
        <5> QED
          BY <2>2, <4>1, <5>1, <5>2 DEF At, WorkerState
      <4>5. CASE \/ MarkRendering(w) \/ MakeDir(w) \/ Cut(w) \/ Burn(w) \/ Package(w)
                 \/ MarkCompleted(w) \/ RemoveDir(w) \/ CountRetry(w) \/ RetryRender(w)
                 \/ Report(w) \/ ReportFailure(w) \/ MakeDirFails(w) \/ RenderCommitFails(w)
        <5>1. \E step \in Steps \ {"report_failure"} : Goto(w, step) \/ Return(w, step)
          BY <4>5
             DEF MarkRendering, MakeDir, Cut, Burn, Package, MarkCompleted, RemoveDir, CountRetry,
                 RetryRender, Report, ReportFailure, MakeDirFails, RenderCommitFails, Steps,
                 RenderSteps
        <5> QED
          BY <1>2, <2>2, <5>1, GotoSlot, ReturnSlot DEF At
      <4>6. ~ RetryRenderFails(w) /\ ~ CountRetryFails(w)
        BY DEF RetryRenderFails, CountRetryFails, Happens, NothingAbandoned
      <4> QED
        BY <3>6, <4>2, <4>3, <4>4, <4>5, <4>6 DEF RenderStep, RenderFault
    <3> QED
      BY <1>2, <3>1, <3>2, <3>3, <3>4, <3>5, <3>6, SlotKept
  <2>3. ASSUME NEW v \in Videos, CreateVideo(v) \/ Enqueue(v) \/ EnqueueFails(v) \/ Purge(v)
        PROVE  broken' = broken
    BY <2>3 DEF CreateVideo, Enqueue, EnqueueFails, Purge, broker
  <2>4. ASSUME NEW d \in DOMAIN clip, Rerender(d) PROVE broken' = broken
    BY <2>4 DEF Rerender
  <2>5. ASSUME UNCHANGED vars PROVE broken' = broken
    BY <2>5 DEF vars, broker
  <2>6. broken' = broken
    BY <1>2, <2>1, <2>3, <2>4, <2>5 DEF Next
  <2> QED
    BY <1>2, <2>2, <2>6 DEF Unbroken
<1> QED
  BY <1>1, <1>2, TypesHold, PTL DEF Spec

LEMMA RunsGrow ==
  ASSUME TypeInv, [Next]_vars, NEW v \in Videos
  PROVE  runs[v] \in Nat /\ runs'[v] \in Nat /\ runs[v] <= runs'[v]
<1>1. runs[v] \in Nat
  BY DEF TypeInv, TypeOK, TablesOK
<1>2. runs'[v] = runs[v] \/ runs'[v] = runs[v] + 1
  BY RowMoves
<1> QED
  BY <1>1, <1>2

(* A prepare goes on with its video until it fails, hands it to a chord or *)
(* finalizes it.                                                           *)
LEMMA PrepareMovesOn ==
  ASSUME NothingAbandoned, TypeInv, [Next]_vars, NEW v \in Videos, video'[v].status = "running",
         NEW w \in Workers, AtWork(w, v), PrepareStep(w) \/ PrepareFault(w)
  PROVE  MovesOn(v)'
<1>1. /\ worker'[w].msg = worker[w].msg /\ worker'[w].pc # "idle" /\ Subject(w) = v
      /\ Doing(w, "process_video") /\ video \in [Videos -> VideoRow] /\ video[v] \in VideoRow
  BY PrepareFrame, PrepareDoes DEF AtWork, TypeInv, TypeOK, TablesOK
<1>2. worker[w].pc \notin {"start", "claim", "retry_process"}
  BY DEF AtWork, Finalizing, At
<1>3. ASSUME worker'[w].pc \in {"open_job", "stage", "close_job", "dispatch", "read_clips"}
      PROVE  MovesOn(v)'
  <2>1. AtWork(w, v)'
    BY <1>1, <1>3 DEF AtWork, Doing, Subject, At, Finalizing
  <2> QED
    BY <2>1 DEF MovesOn
<1>4. CASE \/ OpenJob(w) \/ Ingest(w) \/ Transcribe(w) \/ Analyze(w) \/ CloseJob(w)
  BY <1>3, <1>4, PrepareSlots
<1>5. ~ ReadVideo(w) /\ ~ ClaimVideo(w) /\ ~ RetryProcess(w)
  BY <1>2 DEF ReadVideo, ClaimVideo, RetryProcess, Preparing, At
<1>6. ASSUME NEW e \in Errors, StageFails(w, e) PROVE FALSE
  BY <1>1, <1>6 DEF StageFails, VideoRow
<1>7. CASE Dispatch(w)
  <2>1. CASE OwnClips(w) = {}
    BY <1>3, <1>7, <2>1, ReturnSlot DEF Dispatch
  <2>2. ASSUME NEW c \in OwnClips(w) PROVE \E d \in awaited' : VideoOf(d) = v
    BY <1>1, <1>7, <2>2, OwnClipsOf DEF Dispatch
  <2> QED
    BY <2>1, <2>2 DEF MovesOn
<1>8. ~ PrepareFault(w)
  BY DEF PrepareFault, RetryProcessFails, DispatchFails, PrepareCommitFails, Happens,
         NothingAbandoned
<1> QED
  BY <1>4, <1>5, <1>6, <1>7, <1>8 DEF PrepareStep

(* A body that reads a running video completes it.                         *)
LEMMA BodyMovesOn ==
  ASSUME NothingAbandoned, TypeInv, [Next]_vars, NEW v \in Videos, video'[v].status = "running",
         NEW w \in Workers, AtWork(w, v), FinalizeStep(w) \/ FinalizeFault(w)
  PROVE  MovesOn(v)'
<1>1. /\ worker'[w].msg = worker[w].msg /\ worker'[w].pc # "idle" /\ Subject(w) = v
      /\ Doing(w, "finalize_video") \/ Doing(w, "process_video")
  BY FinalizeFrame DEF AtWork
<1>2. CASE ReadClips(w)
  <2>1. worker'[w].pc = "mark_finalized" /\ worker'[w].seen = video[v] /\ video' = video
    BY <1>1, <1>2, FinalizeSlots DEF ReadClips, tables
  <2>2. worker'[w].seen.status # "completed"
    BY <2>1
  <2>3. AtWork(w, v)'
    BY <1>1, <2>1, <2>2 DEF AtWork, Doing, Subject, At, Finalizing
  <2> QED
    BY <2>3 DEF MovesOn
<1>3. CASE MarkFinalized(w)
  <2>1. worker[w].seen.status # "completed"
    BY <1>3 DEF AtWork, MarkFinalized, Finalizing, At
  <2>2. video'[v].status = "completed"
    BY <1>1, <1>3, <2>1, FinalizeRow DEF Flushed
  <2> QED
    BY <2>2
<1>4. ~ RemoveWorkspace(w) /\ ~ RemoveWorkspaceFails(w)
  BY DEF AtWork, RemoveWorkspace, RemoveWorkspaceFails, Finalizing, At
<1>5. ~ FinalizeCommitFails(w)
  BY DEF FinalizeCommitFails, Happens, NothingAbandoned
<1> QED
  BY <1>2, <1>3, <1>4, <1>5 DEF FinalizeStep, FinalizeFault

LEMMA AtWorkKept ==
  ASSUME NothingAbandoned, TypeInv, ChordInv, [Next]_vars,
         NEW v \in Videos, NEW w \in Workers, AtWork(w, v), video'[v].status = "running"
  PROVE  MovesOn(v)'
<1>1. /\ Doing(w, "finalize_video") \/ Doing(w, "process_video")
      /\ Subject(w) = v /\ worker[w].pc \notin {"idle", "ack", "report", "report_failure"}
  BY DEF AtWork, Doing, At, Finalizing
<1>2. CASE worker'[w] = worker[w]
  <2>1. AtWork(w, v)'
    BY <1>2 DEF AtWork, Doing, Subject, At, Finalizing
  <2> QED
    BY <2>1 DEF MovesOn
<1>3. CASE PrepareStep(w) \/ PrepareFault(w)
  BY <1>3, PrepareMovesOn
<1>4. CASE FinalizeStep(w) \/ FinalizeFault(w)
  BY <1>4, BodyMovesOn
<1>5. CASE Crash(w)
  <2>1. Doing(w, "finalize_video")
    BY <1>1, <1>5 DEF Crash, Happens, NothingAbandoned, Doing
  <2>2. PICK n \in Nat : worker[w].msg = Finalize(<<v, n>>)
    <3>1. worker[w].msg \in Messages
      BY <1>1, BusyType, UnchangedTypes DEF At
    <3> QED
      BY <1>1, <2>1, <3>1, MessageForms DEF Doing, Subject
  <2>3. <<v, n>> \in Runs /\ Dispatched(<<v, n>>)
    BY <1>1, <2>2 DEF Dispatched, InFlight, At, Runs
  <2>4. n <= runs[v]
    BY <2>3 DEF ChordInv, Begun
  <2>5. <<v, n>> \in {v} \X (0 .. runs'[v]) /\ Finalize(<<v, n>>) \in ready'
    BY <1>5, <2>2, <2>4, RunsGrow DEF Crash
  <2> QED
    BY <2>5 DEF MovesOn
<1>6. ~ Deliver(w) /\ ~ Ack(w) /\ ~ Kill(w)
  BY <1>1 DEF Deliver, Ack, Kill, At, Happens, NothingAbandoned
<1>7. ~ RenderStep(w) /\ ~ RenderFault(w)
  <2>1. ~ Report(w) /\ ~ ReportFailure(w)
    BY <1>1 DEF Report, ReportFailure, At
  <2>2. ~ Doing(w, "render_clip")
    BY <1>1 DEF Doing
  <2> QED
    BY <2>1, <2>2, RenderFrame
<1> QED
  BY <1>2, <1>3, <1>4, <1>5, <1>6, <1>7, SlotKept

(* The last part to return hands the video to the body.                    *)
LEMMA PartsKept ==
  ASSUME TypeInv, ChordInv, Unbroken, Unbroken', [Next]_vars,
         NEW v \in Videos, NEW c \in awaited, VideoOf(c) = v
  PROVE  MovesOn(v)'
<1>1. CASE \E d \in awaited' : VideoOf(d) = v
  BY <1>1 DEF MovesOn
<1>2. ASSUME ~ \E d \in awaited' : VideoOf(d) = v PROVE MovesOn(v)'
  <2>1. PICK w \in Workers : Report(w) /\ CarriedBy(c, worker[w].msg)
    BY <1>2, PartGone DEF Unbroken
  <2>2. \A d \in awaited' : RunOf(d) # RunOf(c)
    BY <1>2 DEF RunOf, VideoOf
  <2>3. Finalize(RunOf(c)) \in ready'
    BY <2>1, <2>2 DEF Report, CarriedBy, Unbroken
  <2>4. RunOf(c) \in Runs /\ Begun(RunOf(c))
    BY AwaitedRuns DEF ChordInv, Dispatched
  <2>5. RunOf(c) \in {v} \X (0 .. runs'[v])
    BY <2>4, RunsGrow DEF Runs, Begun, RunOf, VideoOf
  <2> QED
    BY <2>3, <2>5 DEF MovesOn
<1> QED
  BY <1>1, <1>2

LEMMA BodyKept ==
  ASSUME TypeInv, [Next]_vars,
         NEW v \in Videos, NEW r \in {v} \X (0 .. runs[v]), Finalize(r) \in ready
  PROVE  MovesOn(v)'
<1>1. r \in {v} \X (0 .. runs'[v])
  BY RunsGrow
<1>2. CASE Finalize(r) \in ready'
  BY <1>1, <1>2 DEF MovesOn
<1>3. CASE Finalize(r) \notin ready'
  <2>1. PICK w \in Workers : /\ Deliver(w) /\ worker'[w].msg = Finalize(r)
                             /\ worker'[w].pc = FirstStep[Finalize(r).task]
    BY <1>3, MessageStays
  <2>2. Finalize(r).task = "finalize_video" /\ Finalize(r).video = v
    BY DEF Finalize
  <2>3. AtWork(w, v)'
    BY <2>1, <2>2 DEF AtWork, Doing, At, Subject, FirstStep, Finalizing
  <2> QED
    BY <2>3 DEF MovesOn
<1> QED
  BY <1>2, <1>3

(* The duplicate guard of prepare_video skips a video that says "running". *)
(* While nothing is abandoned (no prepare dies, no task is killed, no      *)
(* commit and no publication fails) such a video has an owner at every     *)
(* moment, through every handover from the prepare to the chord and to its *)
(* body, also when any message is redelivered, its task running or dead.   *)
THEOREM RunningHasOwner == NothingAbandoned => (Spec => []RunningIsOwned)
<1> SUFFICES ASSUME NothingAbandoned PROVE Spec => []RunningIsOwned
  OBVIOUS
<1>1. Init => OwnerInv
  BY DEF Init, OwnerInv, NewVideo
<1>2. ASSUME TypeInv, ChordInv, Unbroken, Unbroken', OwnerInv, [Next]_vars
      PROVE  OwnerInv'
  <2> SUFFICES ASSUME NEW v \in Videos, video'[v].status = "running" PROVE MovesOn(v)'
    BY DEF OwnerInv
  <2>1. CASE video[v].status = "running"
    <3>1. MovesOn(v)
      BY <1>2, <2>1 DEF OwnerInv
    <3> QED
      <4>1. ASSUME NEW w \in Workers, AtWork(w, v) PROVE MovesOn(v)'
        BY <1>2, <4>1, AtWorkKept
      <4>2. ASSUME NEW c \in awaited, VideoOf(c) = v PROVE MovesOn(v)'
        BY <1>2, <4>2, PartsKept
      <4>3. ASSUME NEW r \in {v} \X (0 .. runs[v]), Finalize(r) \in ready PROVE MovesOn(v)'
        BY <1>2, <4>3, BodyKept
      <4> QED
        BY <3>1, <4>1, <4>2, <4>3 DEF MovesOn
  <2>2. CASE video[v].status # "running"
    <3>1. PICK w \in Workers : Subject(w) = v /\ ClaimVideo(w)
      BY <1>2, <2>2, RowMoves DEF Flushed
    <3>2. worker'[w].pc = "open_job" /\ worker'[w].msg = worker[w].msg
      BY <1>2, <3>1, PrepareSlots
    <3>3. AtWork(w, v)'
      BY <3>1, <3>2 DEF AtWork, ClaimVideo, Preparing, Doing, At, Subject
    <3> QED
      BY <3>3 DEF MovesOn
  <2> QED
    BY <2>1, <2>2
<1>3. OwnerInv => RunningIsOwned
  <2> SUFFICES ASSUME NEW v \in Videos, MovesOn(v) PROVE Owned(v)
    BY DEF OwnerInv, RunningIsOwned
  <2>1. ASSUME NEW w \in Workers, AtWork(w, v) PROVE Owned(v)
    BY <2>1 DEF AtWork, Owned, Finalizing, At, PrepareSteps, FinalizeSteps
  <2> QED
    BY <2>1 DEF MovesOn, Owned
<1> QED
  BY <1>1, <1>2, <1>3, TypesHold, ChordHolds, NothingBroken, PTL DEF Spec

----------------------------------------------------------------------------
(* The runs of a video are numbered by the retries of its request: one is  *)
(* begun for the first publication and at most one for each retry.         *)

RunsFit(v) ==
  /\ video[v].status = "absent" \/ v \in enqueuing => runs[v] = 0
  /\ \A n \in Nat : Process(v, n) \in ready => runs[v] <= n /\ n <= ProcessRetries
  /\ \A w \in Workers : Preps(w, v) =>
       /\ worker[w].msg.retries <= ProcessRetries /\ runs[v] <= worker[w].msg.retries + 1
       /\ worker[w].pc \in {"start", "claim"} => runs[v] <= worker[w].msg.retries
       /\ worker[w].pc = "retry_process" => worker[w].msg.retries < ProcessRetries
RunsInv == \A v \in Videos : RunsFit(v)

LEMMA RetriesType ==
  ASSUME TypeInv, NEW v, NEW w \in Workers, Preps(w, v)
  PROVE  worker[w].msg.retries \in Nat
<1>1. worker[w] \in WorkerState /\ ~ At(w, "idle")
  BY DEF TypeInv, TypeOK, Preps, At
<1>2. worker[w].msg \in Messages
  BY <1>1, UnchangedTypes, BusyType
<1> QED
  BY <1>2, MessageForms DEF Preps

(* What a step of a prepare does to the count and to its place.            *)
LEMMA PrepareRuns ==
  ASSUME TypeInv, NEW w \in Workers, PrepareStep(w) \/ PrepareFault(w)
  PROVE  LET v == Subject(w)
             slot == worker'[w]
         IN /\ slot.msg = worker[w].msg
            /\ ClaimVideo(w) =>
                 worker[w].pc = "claim" /\ runs'[v] = runs[v] + 1 /\ slot.pc = "open_job"
            /\ ~ ClaimVideo(w) => runs' = runs
            /\ slot.pc # "start"
            /\ slot.pc = "claim" => worker[w].pc = "start"
            /\ slot.pc = "retry_process" => worker[w].msg.retries < ProcessRetries
            /\ \A n : Process(v, n) \in ready' =>
                 \/ Process(v, n) \in ready
                 \/ worker[w].pc = "retry_process" /\ n = worker[w].msg.retries + 1
<1>1. PICK v : v = Subject(w)
  OBVIOUS
<1>2. worker'[w].msg = worker[w].msg /\ v \in Videos
  BY <1>1, PrepareFrame, PrepareDoes
<1>3. CASE ClaimVideo(w)
  <2>1. worker[w].pc = "claim" /\ ready' = ready
    BY <1>3 DEF ClaimVideo, Preparing, At, broker
  <2>2. runs'[v] = runs[v] + 1
    BY <1>1, <1>2, <1>3 DEF ClaimVideo, TypeInv, TypeOK, TablesOK
  <2> QED
    BY <1>1, <1>2, <1>3, <2>1, <2>2, PrepareSlots
<1>4. CASE ReadVideo(w)
  <2>1. worker[w].pc = "start" /\ ready' = ready /\ runs' = runs /\ worker[w].pc # "claim"
    BY <1>4 DEF ReadVideo, Preparing, At, broker, tables
  <2>2. ~ ClaimVideo(w) /\ worker'[w].pc \in {"ack", "claim"}
    BY <1>4, <2>1, PrepareSlots DEF ClaimVideo, Preparing, At
  <2> QED
    BY <1>2, <2>1, <2>2
<1>5. CASE OpenJob(w) \/ Ingest(w) \/ Transcribe(w) \/ Analyze(w) \/ CloseJob(w)
  <2>1. ready' = ready /\ runs' = runs /\ worker[w].pc # "claim"
    BY <1>5 DEF OpenJob, Ingest, Transcribe, Analyze, CloseJob, Staging, Preparing, At, broker
  <2>2. ~ ClaimVideo(w) /\ worker'[w].pc \in {"stage", "close_job", "open_job", "dispatch"}
    BY <1>5, <2>1, PrepareSlots DEF ClaimVideo, Preparing, At
  <2> QED
    BY <1>2, <2>1, <2>2
<1>6. ASSUME NEW e \in Errors, StageFails(w, e)
      PROVE  /\ runs' = runs /\ ready' = ready /\ worker[w].pc = "stage"
             /\ \/ worker'[w].pc = "ack"
                \/ /\ worker'[w].pc = "retry_process"
                   /\ worker[w].msg.retries < ProcessRetries
  BY <1>6, ReturnSlot DEF StageFails, Preparing, At, broker
<1>7. CASE RetryProcess(w)
  <2>1. /\ worker[w].pc = "retry_process" /\ runs' = runs /\ worker'[w].pc = "ack"
        /\ ready' = ready \cup {Process(v, worker[w].msg.retries + 1)}
    BY <1>1, <1>7, ReturnSlot DEF RetryProcess, Preparing, At, tables
  <2>2. \A n : Process(v, n) \in ready' =>
          Process(v, n) \in ready \/ n = worker[w].msg.retries + 1
    BY <2>1, MessageFields
  <2>3. ~ ClaimVideo(w)
    BY <2>1 DEF ClaimVideo, Preparing, At
  <2> QED
    BY <1>1, <1>2, <2>1, <2>2, <2>3
<1>8. CASE Dispatch(w) \/ PrepareFault(w)
  <2>1. runs' = runs /\ worker'[w].pc \in {"read_clips", "ack"}
    BY <1>8, ReturnSlot
       DEF Dispatch, PrepareFault, RetryProcessFails, DispatchFails, PrepareCommitFails, tables
  <2>2. \A n : Process(v, n) \in ready' => Process(v, n) \in ready
    BY <1>8, MessageFields
       DEF Dispatch, PrepareFault, RetryProcessFails, DispatchFails, PrepareCommitFails, broker
  <2>3. ~ ClaimVideo(w)
    BY <2>1, PrepareSlots
  <2> QED
    BY <1>1, <1>2, <2>1, <2>2, <2>3
<1>9. ASSUME NEW e \in Errors, StageFails(w, e) PROVE ~ ClaimVideo(w)
  BY <1>9 DEF StageFails, ClaimVideo, Preparing, At
<1> QED
  BY <1>2, <1>3, <1>4, <1>5, <1>6, <1>7, <1>8, <1>9 DEF PrepareStep

LEMMA RunsKept ==
  ASSUME PreparedOnce, TypeInv, OnceInv, RunsInv, [Next]_vars, NEW v \in Videos
  PROVE  RunsFit(v)'
<1>1. Once(v) /\ RunsFit(v) /\ runs[v] \in Nat /\ ProcessRetries \in Nat
  BY FarmAssumption DEF OnceInv, RunsInv, TypeInv, TypeOK, TablesOK
<1>2. CASE CreateVideo(v)
  BY <1>1, <1>2 DEF CreateVideo, RunsFit, Preps, broker
<1>3. CASE Enqueue(v)
  <2>1. /\ v \in enqueuing /\ v \notin enqueuing' /\ UNCHANGED <<video, runs, worker>>
        /\ ready' = ready \cup {Process(v, 0)} /\ runs[v] = 0
    BY <1>1, <1>3 DEF Enqueue, RunsFit, tables
  <2>2. \A n : Process(v, n) \in ready' => Process(v, n) \in ready \/ n = 0
    BY <2>1, MessageFields
  <2> QED
    BY <1>1, <2>1, <2>2 DEF RunsFit, Preps
<1>4. ASSUME NEW w \in Workers, Delivers(w, v) PROVE RunsFit(v)'
  <2>1. PICK m \in ready : /\ m \in Messages /\ ready' = ready \ {m} /\ Others(w)
                           /\ worker'[w].msg = m /\ worker'[w].pc = FirstStep[m.task]
    BY <1>4, DeliverSlot DEF Delivers
  <2>2. m.task = "process_video" /\ m = Process(v, m.retries) /\ m.retries \in Nat
    BY <1>4, <2>1, MessageForms DEF Delivers
  <2>3. worker'[w].pc = "start" /\ UNCHANGED <<video, runs, enqueuing>>
    BY <1>4, <2>1, <2>2 DEF FirstStep, Delivers, Deliver, tables
  <2>4. runs[v] <= m.retries /\ m.retries <= ProcessRetries
    BY <1>1, <2>2 DEF RunsFit
  <2>5. ASSUME NEW x \in Workers, x # w, Preps(x, v)' PROVE Preps(x, v) /\ worker'[x] = worker[x]
    BY <2>1, <2>5 DEF Others, Preps
  <2> QED
    BY <1>1, <2>1, <2>2, <2>3, <2>4, <2>5 DEF RunsFit
<1>5. ASSUME NEW w \in Workers, Publishes(w, v) PROVE RunsFit(v)'
  <2>1. ready' = ready \cup {Finalize(RunOf(worker[w].msg.clip))}
    BY <1>5, PublishesPart
  <2>2. /\ UNCHANGED <<video, runs, enqueuing>> /\ worker'[w].pc = "ack" /\ Others(w)
    BY <1>5, ReturnSlot DEF Publishes, Report, tables
  <2>3. \A n : Process(v, n) \in ready' => Process(v, n) \in ready
    BY <2>1 DEF Process, Finalize
  <2>4. ASSUME NEW x \in Workers, Preps(x, v)' PROVE Preps(x, v) /\ worker'[x] = worker[x]
    BY <2>2, <2>4 DEF Others, Preps
  <2> QED
    BY <1>1, <2>2, <2>3, <2>4 DEF RunsFit
<1>6. ASSUME NEW w \in Workers, FinalizeStep(w) \/ FinalizeFault(w), Subject(w) = v
      PROVE  RunsFit(v)'
  <2>1. /\ UNCHANGED <<runs, ready, enqueuing>> /\ Others(w) /\ worker'[w].msg = worker[w].msg
        /\ worker'[w].pc \in {"mark_finalized", "remove_workspace", "ack"}
    BY <1>6, FinalizeFrame DEF broker
  <2>2. worker[w].pc \notin {"idle", "ack"}
    BY <1>6, Finalizer DEF FinalizeSteps
  <2>3. video'[v].status = "absent" => video[v].status = "absent"
    BY <1>6, StatusMoves
  <2>4. ASSUME NEW x \in Workers, Preps(x, v)'
        PROVE  Preps(x, v) /\ worker'[x].msg = worker[x].msg
               /\ (worker'[x] = worker[x] \/ worker'[x].pc \in {"mark_finalized", "remove_workspace"})
    BY <2>1, <2>2, <2>4 DEF Others, Preps
  <2> QED
    BY <1>1, <2>1, <2>3, <2>4 DEF RunsFit
<1>7. ASSUME NEW w \in Workers, PrepareStep(w) \/ PrepareFault(w), Subject(w) = v
      PROVE  RunsFit(v)'
  <2>1. /\ Preps(w, v) /\ v \notin enqueuing /\ ~ Queued(v) /\ enqueuing' = enqueuing
        /\ Others(w) /\ worker[w].msg.retries \in Nat
        /\ \A x \in Workers : Preps(x, v) => x = w
    BY <1>1, <1>7, PrepareDoes, PrepareFrame, HeldOnce, RetriesType
  <2>2. /\ worker[w].msg.retries <= ProcessRetries /\ runs[v] <= worker[w].msg.retries + 1
        /\ worker[w].pc \in {"start", "claim"} => runs[v] <= worker[w].msg.retries
        /\ worker[w].pc = "retry_process" => worker[w].msg.retries < ProcessRetries
    BY <1>1, <2>1 DEF RunsFit
  <2>3. /\ worker'[w].msg = worker[w].msg
        /\ ClaimVideo(w) =>
             worker[w].pc = "claim" /\ runs'[v] = runs[v] + 1 /\ worker'[w].pc = "open_job"
        /\ ~ ClaimVideo(w) => runs' = runs
        /\ worker'[w].pc # "start"
        /\ worker'[w].pc = "claim" => worker[w].pc = "start"
        /\ worker'[w].pc = "retry_process" => worker[w].msg.retries < ProcessRetries
        /\ \A n : Process(v, n) \in ready' =>
             \/ Process(v, n) \in ready
             \/ worker[w].pc = "retry_process" /\ n = worker[w].msg.retries + 1
    BY <1>7, PrepareRuns
  <2>4. video'[v].status # "absent"
    BY <1>1, <1>7, <2>1, StatusMoves DEF Once, PrepareFits
  <2>5. ASSUME NEW n \in Nat, Process(v, n) \in ready'
        PROVE  runs'[v] <= n /\ n <= ProcessRetries
    <3>1. worker[w].pc = "retry_process" /\ n = worker[w].msg.retries + 1
      BY <2>1, <2>3, <2>5 DEF Queued
    <3>2. runs' = runs
      BY <2>3, <3>1
    <3> QED
      BY <1>1, <2>1, <2>2, <3>1, <3>2
  <2>6. ASSUME NEW x \in Workers, Preps(x, v)' PROVE x = w
    BY <2>1, <2>6 DEF Others, Preps
  <2>7. runs'[v] <= worker[w].msg.retries + 1
        /\ (worker'[w].pc = "claim" => runs'[v] <= worker[w].msg.retries)
    BY <1>1, <2>1, <2>2, <2>3
  <2> QED
    BY <2>1, <2>2, <2>3, <2>4, <2>5, <2>6, <2>7 DEF RunsFit
<1>8. CASE Apart(v)
  <2>1. Untouched(v)
    BY <1>8 DEF Apart
  <2>2. \A x \in Workers : Preps(x, v)' => Preps(x, v) /\ SameSlot(x)
    BY <1>8 DEF Preps, SameSlot, Apart
  <2> QED
    BY <1>1, <2>1, <2>2 DEF RunsFit, Untouched, SameSlot
<1> QED
  BY <1>2, <1>3, <1>4, <1>5, <1>6, <1>7, <1>8, Elsewhere DEF Own

LEMMA RunsHold == PreparedOnce => (Spec => []RunsInv)
<1> SUFFICES ASSUME PreparedOnce PROVE Spec => []RunsInv
  OBVIOUS
<1>1. Init => RunsInv
  BY DEF Init, RunsInv, RunsFit, Preps, Idle
<1>2. TypeInv /\ OnceInv /\ RunsInv /\ [Next]_vars => RunsInv'
  BY RunsKept DEF RunsInv
<1> QED
  BY <1>1, <1>2, TypesHold, OnceHolds, PTL DEF Spec
=============================================================================
