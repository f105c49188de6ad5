--------------------------- MODULE DeliveryProofs ---------------------------
(***************************************************************************)
(* What holds of the clips and their files when each render is delivered   *)
(* once for each time it is published.                                     *)
(***************************************************************************)
EXTENDS OnceProofs

(* No worker dies, no task outlasts the visibility timeout and             *)
(* nobody uses the rerender endpoint.  Tasks are killed, commits, disks    *)
(* and publications fail, workspaces are purged and renders retried.       *)
DeliveredOnce == {"crash", "redeliver", "rerender"} \cap Events = {}

Renders(m, c) == m.task = "render_clip" /\ m.clip = c
InQueue(c) == \E m \in ready : Renders(m, c)
Carried(c) == InQueue(c) \/ \E w \in Workers : Rend(w, c)

(* A render of a clip is in the queue once or in one slot, and it is a     *)
(* part of the chord.  Until it returns the video is left to the renders.  *)
Single(c) ==
  /\ \A m, k \in ready : Renders(m, c) /\ Renders(k, c) => m = k /\ m.request = 0
  /\ InQueue(c) => \A w \in Workers : ~ Rend(w, c)
  /\ \A w, u \in Workers : Rend(w, c) /\ Rend(u, c) => w = u /\ worker[w].msg.request = 0
Outstanding(c) ==
  /\ c \in DOMAIN clip /\ video[VideoOf(c)].status = "running" /\ Free(VideoOf(c))
  /\ c \in awaited \/ RunOf(c) \in broken
OneRender(c) == Single(c) /\ (Carried(c) => Outstanding(c))
BrokenIsOver == \A r \in broken : ~ InFlight(Finalize(r))
RenderInv == BrokenIsOver /\ \A c \in ClipIds : OneRender(c)

LEMMA OnceToo == DeliveredOnce => PreparedOnce
BY DEF DeliveredOnce, PreparedOnce

(* Where a render in a slot, and one in the queue, come from.              *)
LEMMA SlotFrom ==
  ASSUME TypeInv, [Next]_vars, NEW w \in Workers, NEW c, Rend(w, c)'
  PROVE  \/ /\ Rend(w, c) /\ worker'[w].msg = worker[w].msg
            /\ worker'[w] = worker[w] \/ RenderStep(w) \/ RenderFault(w)
         \/ /\ Deliver(w) /\ worker'[w].msg \in ready /\ Renders(worker'[w].msg, c)
            /\ worker'[w].pc = "start"
<1>1. Doing(w, "render_clip")' /\ worker'[w].msg.clip = c /\ worker'[w].pc \notin {"idle", "ack"}
  BY DEF Rend, Target
<1>2. CASE worker'[w] = worker[w]
  BY <1>1, <1>2 DEF Rend, Doing, Target, At
<1>3. ASSUME Doing(w, "render_clip"), RenderStep(w) \/ RenderFault(w),
             worker'[w].msg = worker[w].msg
      PROVE  Rend(w, c)
  <2>1. worker[w].pc # "ack" /\ worker[w].pc # "idle"
    BY <1>3
       DEF RenderStep, RenderFault, ReadClip, MarkRendering, MakeDir, Cut, Reframe, Burn,
           Package, MarkCompleted, RemoveDir, RenderFails, HandleRenderError, CountRetry,
           RetryRender, Report, ReportFailure, MakeDirFails, RetryRenderFails,
           RenderCommitFails, CountRetryFails, Rendering, At
  <2> QED
    BY <1>1, <1>3, <2>1 DEF Rend, Target
<1>4. ASSUME NEW m \in ready, Deliver(w), worker'[w].msg = m, worker'[w].pc = "start"
      PROVE  Renders(m, c)
  BY <1>1, <1>4 DEF Renders, Doing
<1> QED
  BY <1>1, <1>2, <1>3, <1>4, RenderMoves

LEMMA QueueFrom ==
  ASSUME DeliveredOnce, TypeInv, [Next]_vars, NEW m \in ready' \ ready, NEW c, Renders(m, c)
  PROVE  \/ \E w \in Workers : /\ Dispatch(w) \/ DispatchFails(w)
                               /\ c \in OwnClips(w) /\ m = Render(c, 0, 0)
         \/ \E w \in Workers : /\ RetryRender(w) /\ Rend(w, c)
                               /\ m = Render(c, worker[w].msg.request, worker[w].msg.retries + 1)
<1>1. \A w \in Workers : ~ Crash(w) /\ ~ Redeliver(w)
  BY DEF Crash, Redeliver, Happens, DeliveredOnce
<1>2. \A d \in DOMAIN clip : ~ Rerender(d)
  BY DEF Rerender, Happens, DeliveredOnce
<1>3. ASSUME NEW w \in Workers, Doing(w, "render_clip"), RetryRender(w), m.clip = Target(w)
      PROVE  /\ Rend(w, c)
             /\ m = Render(c, worker[w].msg.request, worker[w].msg.retries + 1)
  BY <1>3 DEF RetryRender, Rendering, Rend, Renders, Target, At
<1> QED
  BY <1>1, <1>2, <1>3, NewRenders DEF Renders

LEMMA EndsAtAck ==
  ASSUME TypeInv, NEW w \in Workers, Report(w) \/ RetryRender(w), NEW c, Rend(w, c)
  PROVE  ~ Rend(w, c)'
<1>1. worker'[w].pc = "ack"
  BY ReturnSlot DEF Report, RetryRender
<1> QED
  BY <1>1 DEF Rend

(* A render that was not carried anywhere is dispatched.                   *)
LEMMA CarriedFrom ==
  ASSUME DeliveredOnce, TypeInv, [Next]_vars, NEW c, Carried(c)', ~ Carried(c)
  PROVE  \E w \in Workers : (Dispatch(w) \/ DispatchFails(w)) /\ c \in OwnClips(w)
<1>1. ASSUME NEW w \in Workers, Rend(w, c)' PROVE FALSE
  BY <1>1, SlotFrom DEF Carried, InQueue
<1>2. PICK m \in ready' : Renders(m, c)
  BY <1>1 DEF Carried, InQueue
<1>3. m \notin ready
  BY <1>2 DEF Carried, InQueue
<1> QED
  BY <1>2, <1>3, QueueFrom DEF Carried

LEMMA SingleKept ==
  ASSUME DeliveredOnce, TypeInv, OnceInv, [Next]_vars, NEW c \in ClipIds, OneRender(c)
  PROVE  Single(c)'
<1>0. Single(c)
  BY DEF OneRender
<1>1. CASE Carried(c)
  <2>1. ASSUME NEW w \in Workers, Dispatch(w) \/ DispatchFails(w), c \in OwnClips(w)
        PROVE  FALSE
    <3>1. PICK v : v = Subject(w)
      OBVIOUS
    <3>2. VideoOf(c) = v /\ Preps(w, v)
      BY <2>1, <3>1, OwnClipsOf, PrepareDoes DEF PrepareStep, PrepareFault
    <3> QED
      BY <1>1, <3>2 DEF OneRender, Outstanding, Free
  <2>2. ASSUME NEW m \in ready' \ ready, Renders(m, c)
        PROVE  \E w \in Workers : /\ RetryRender(w) /\ Rend(w, c)
                                  /\ m = Render(c, worker[w].msg.request, worker[w].msg.retries + 1)
    BY <2>1, <2>2, QueueFrom
  <2>3. ASSUME NEW m \in ready', NEW k \in ready', Renders(m, c), Renders(k, c)
        PROVE  m = k /\ m.request = 0
    <3>1. CASE m \in ready /\ k \in ready
      BY <1>0, <2>3, <3>1 DEF Single
    <3>2. ASSUME \E x \in {m, k} : x \notin ready
          PROVE  m \notin ready /\ k \notin ready /\ \E w \in Workers : Rend(w, c)
      BY <1>0, <2>2, <2>3, <3>2 DEF Single, InQueue
    <3>3. CASE m \notin ready /\ k \notin ready
      <4>1. PICK w \in Workers : /\ Rend(w, c)
              /\ m = Render(c, worker[w].msg.request, worker[w].msg.retries + 1)
        BY <2>2, <2>3, <3>3
      <4>2. PICK u \in Workers : /\ Rend(u, c)
              /\ k = Render(c, worker[u].msg.request, worker[u].msg.retries + 1)
        BY <2>2, <2>3, <3>3
      <4>3. w = u /\ worker[w].msg.request = 0
        BY <1>0, <4>1, <4>2 DEF Single
      <4> QED
        BY <4>1, <4>2, <4>3, MessageFields
    <3> QED
      BY <3>1, <3>2, <3>3
  <2>4. ASSUME NEW m \in ready', Renders(m, c), NEW w \in Workers, Rend(w, c)'
        PROVE  FALSE
    <3>1. CASE m \in ready
      <4>1. /\ Deliver(w) /\ worker'[w].msg \in ready /\ Renders(worker'[w].msg, c)
        BY <1>0, <2>4, <3>1, SlotFrom DEF Single, InQueue
      <4>2. worker'[w].msg = m
        BY <1>0, <2>4, <3>1, <4>1 DEF Single
      <4> QED
        BY <2>4, <4>1, <4>2, DeliverSlot
    <3>2. CASE m \notin ready
      <4>1. PICK u \in Workers : RetryRender(u) /\ Rend(u, c)
        BY <2>2, <2>4, <3>2
      <4>2. Rend(w, c)
        BY <1>0, <2>4, <4>1, SlotFrom DEF Single, InQueue
      <4>3. w = u
        BY <1>0, <4>1, <4>2 DEF Single
      <4> QED
        BY <2>4, <4>1, <4>3, EndsAtAck
    <3> QED
      BY <3>1, <3>2
  <2>5. ASSUME NEW w \in Workers, NEW u \in Workers, Rend(w, c)', Rend(u, c)'
        PROVE  w = u /\ worker'[w].msg.request = 0
    <3>1. CASE InQueue(c)
      <4>1. /\ Deliver(w) /\ Deliver(u) /\ worker'[w].msg \in ready /\ Renders(worker'[w].msg, c)
        BY <1>0, <2>5, <3>1, SlotFrom DEF Single
      <4>2. worker'[w].msg.request = 0
        BY <1>0, <4>1 DEF Single
      <4>3. w = u
        BY <2>5, <4>1, DeliverSlot DEF Deliver, Others, At, Rend
      <4> QED
        BY <4>2, <4>3
    <3>2. CASE ~ InQueue(c)
      <4>1. Rend(w, c) /\ Rend(u, c) /\ worker'[w].msg = worker[w].msg
        BY <2>5, <3>2, SlotFrom DEF InQueue
      <4> QED
        BY <1>0, <4>1 DEF Single
    <3> QED
      BY <3>1, <3>2
  <2> QED
    BY <2>3, <2>4, <2>5 DEF Single, InQueue
<1>2. CASE ~ Carried(c)
  <2>1. ASSUME NEW w \in Workers, Rend(w, c)' PROVE FALSE
    BY <1>2, <2>1, SlotFrom DEF Carried, InQueue
  <2>2. ASSUME NEW m \in ready', Renders(m, c) PROVE m = Render(c, 0, 0)
    BY <1>2, <2>2, QueueFrom DEF Carried, InQueue
  <2> QED
    BY <2>1, <2>2, MessageFields DEF Single
<1> QED
  BY <1>1, <1>2

(* While a render is out, no body of its chord runs and no prepare.        *)
LEMMA NoFinalizer ==
  ASSUME TypeInv, ChordInv, OnceInv, BrokenIsOver, NEW c \in ClipIds, Outstanding(c)
  PROVE  /\ ~ BodyOut(VideoOf(c)) /\ Once(VideoOf(c)) /\ VideoOf(c) \in Videos
         /\ c[2] = runs[VideoOf(c)]
         /\ \A w \in Workers : Subject(w) = VideoOf(c) =>
              /\ ~ PrepareStep(w) /\ ~ PrepareFault(w)
              /\ ~ FinalizeStep(w) /\ ~ FinalizeFault(w)
<1>1. PICK v : v = VideoOf(c)
  OBVIOUS
<1>2. v \in Videos /\ Once(v) /\ RowFits(v)
  BY <1>1, ClipIdParts DEF OnceInv, Once
<1>3. c[2] = runs[v] /\ RunOf(c) = <<v, runs[v]>>
  BY <1>1, <1>2 DEF Outstanding, RowFits, ClipsOf, RunOf, VideoOf
<1>4. ~ InFlight(Finalize(RunOf(c)))
  BY DEF Outstanding, ChordInv, FinalizeAfterAll, BrokenIsOver
<1>5. ~ BodyOut(v)
  BY <1>2, <1>3, <1>4 DEF BodyOut, RowFits
<1>6. \A w \in Workers : ~ Preps(w, v)
  BY <1>1 DEF Outstanding, Free
<1>7. ASSUME NEW w \in Workers, Subject(w) = v
      PROVE  /\ ~ PrepareStep(w) /\ ~ PrepareFault(w)
             /\ ~ FinalizeStep(w) /\ ~ FinalizeFault(w)
  BY <1>5, <1>6, <1>7, PrepareDoes, Finalizer
<1> QED
  BY <1>1, <1>2, <1>3, <1>5, <1>7

(* A render that returns is gone.                                          *)
LEMMA ReportEnds ==
  ASSUME DeliveredOnce, TypeInv, OnceInv, [Next]_vars, NEW c \in ClipIds, OneRender(c),
         NEW w \in Workers, Report(w), Rend(w, c)
  PROVE  ~ Carried(c)'
<1>1. Single(c) /\ Carried(c) /\ ~ InQueue(c)
  BY DEF OneRender, Single, Carried
<1>2. ASSUME NEW x \in Workers, Rend(x, c)' PROVE FALSE
  <2>1. Rend(x, c)
    BY <1>1, <1>2, SlotFrom DEF InQueue
  <2>2. x = w
    BY <1>1, <2>1 DEF Single
  <2> QED
    BY <1>2, <2>2, EndsAtAck
<1>3. ASSUME NEW m \in ready', Renders(m, c) PROVE FALSE
  <2>1. m \notin ready
    BY <1>1, <1>3 DEF InQueue
  <2>2. ready' = ready \/ \E r : ready' = ready \cup {Finalize(r)}
    BY DEF Report
  <2> QED
    BY <1>3, <2>1, <2>2 DEF Finalize, Renders
<1> QED
  BY <1>2, <1>3 DEF Carried, InQueue

LEMMA OutstandingKept ==
  ASSUME DeliveredOnce, TypeInv, ChordInv, OnceInv, BrokenIsOver, [Next]_vars,
         NEW c \in ClipIds, OneRender(c), Carried(c), Carried(c)'
  PROVE  Outstanding(c)'
<1>1. PICK v : v = VideoOf(c)
  OBVIOUS
<1>2. Outstanding(c) /\ PreparedOnce
  BY OnceToo DEF OneRender
<1>3. /\ ~ BodyOut(v) /\ Once(v) /\ v \in Videos /\ c[2] = runs[v] /\ RowFits(v)
      /\ video[v].status = "running" /\ Free(v)
      /\ \A w \in Workers : Subject(w) = v =>
           ~ PrepareStep(w) /\ ~ PrepareFault(w) /\ ~ FinalizeStep(w) /\ ~ FinalizeFault(w)
  BY <1>1, <1>2, NoFinalizer DEF Outstanding, Once
<1>4. ASSUME NEW w \in Workers, Report(w), CarriedBy(c, worker[w].msg) PROVE FALSE
  <2>1. Rend(w, c)
    BY <1>4 DEF Report, CarriedBy, IsPart, Rend, Doing, Target, At
  <2> QED
    BY <1>4, <2>1, ReportEnds
<1>5. ~ CreateVideo(v) /\ ~ Enqueue(v)
  BY <1>3 DEF CreateVideo, Enqueue, Free
<1>6. ASSUME NEW w \in Workers PROVE ~ Delivers(w, v)
  <2> SUFFICES ASSUME Delivers(w, v) PROVE FALSE
    OBVIOUS
  <2>1. PICK m \in ready : m \in Messages /\ worker'[w].msg = m
    BY DeliverSlot DEF Delivers
  <2> QED
    BY <1>3, <2>1, MessageForms DEF Delivers, Queued, Free
<1>7. ASSUME NEW w \in Workers PROVE ~ Publishes(w, v)
  <2> SUFFICES ASSUME Publishes(w, v) PROVE FALSE
    OBVIOUS
  <2>1. PICK d : d = worker[w].msg.clip
    OBVIOUS
  <2>2. /\ d \in awaited /\ VideoOf(d) = v /\ IsPart(worker[w].msg) /\ RunOf(d) \notin broken
        /\ \A e \in awaited \ {d} : RunOf(e) # RunOf(d)
    BY <1>3, <2>1, PublishesPart
  <2>3. d[2] = runs[v] /\ RunOf(c) = RunOf(d)
    BY <1>1, <1>3, <2>2 DEF RowFits, ClipsOf, RunOf, VideoOf
  <2>4. c = d
    BY <1>2, <2>2, <2>3 DEF Outstanding
  <2> QED
    BY <1>4, <2>1, <2>2, <2>4 DEF Publishes, CarriedBy
<1>8. Apart(v)
  BY <1>2, <1>3, <1>5, <1>6, <1>7, Elsewhere DEF Own
<1>9. Free(v)' /\ video'[v].status = "running"
  BY <1>3, <1>8 DEF Apart, Untouched, Free, Queued, Preps, SameSlot
<1>10. c \in DOMAIN clip'
  BY <1>2, ClipsStay DEF Outstanding
<1>11. c \in awaited' \/ RunOf(c) \in broken'
  BY <1>2, <1>4, PartGone, BrokenStays DEF Outstanding
<1> QED
  BY <1>1, <1>9, <1>10, <1>11 DEF Outstanding

LEMMA DispatchedOutstanding ==
  ASSUME TypeInv, OnceInv, OnceInv', NEW w \in Workers, Dispatch(w) \/ DispatchFails(w),
         NEW c \in OwnClips(w)
  PROVE  Outstanding(c)'
<1>1. PICK v : v = Subject(w)
  OBVIOUS
<1>2. /\ Preps(w, v) /\ v \in Videos /\ VideoOf(c) = v /\ c \in DOMAIN clip
      /\ RunOf(c) = <<v, worker[w].run>>
  BY <1>1, PrepareDoes, OwnClipsOf DEF PrepareStep, PrepareFault, OwnClips, ClipsOfRun
<1>3. /\ worker[w].pc = "dispatch" /\ worker'[w].pc = "ack" /\ Others(w)
      /\ UNCHANGED <<tables, enqueuing>>
      /\ c \in awaited' \/ RunOf(c) \in broken'
  BY <1>1, <1>2, ReturnSlot DEF Dispatch, DispatchFails, Preparing, At
<1>4. video[v].status = "running" /\ Once(v)
  BY <1>2, <1>3 DEF OnceInv, Once, PrepareFits
<1>5. v \notin enqueuing' /\ ~ Queued(v) /\ \A x \in Workers : Preps(x, v) => x = w
  BY <1>2, <1>3, <1>4, HeldOnce
<1>6. ~ Queued(v)'
  BY <1>5, MessageFields DEF Queued, Dispatch, DispatchFails
<1>7. \A x \in Workers : ~ Preps(x, v)'
  BY <1>3, <1>5 DEF Preps, Others
<1> QED
  BY <1>2, <1>3, <1>4, <1>5, <1>6, <1>7 DEF Outstanding, Free, tables

(* Where a body in flight, and a broken chord, come from.                  *)
LEMMA BodyFrom ==
  ASSUME DeliveredOnce, TypeInv, [Next]_vars, NEW r \in Runs, InFlight(Finalize(r))',
         ~ InFlight(Finalize(r))
  PROVE  r \notin broken /\ broken' = broken
<1>1. ASSUME NEW w \in Workers, ~ At(w, "idle")', worker'[w].msg = Finalize(r) PROVE FALSE
  <2>1. CASE worker'[w] = worker[w]
    BY <1>1, <2>1 DEF InFlight, At
  <2>2. CASE Deliver(w)
    BY <1>1, <2>2, DeliverSlot DEF InFlight
  <2>3. CASE Ack(w) \/ Crash(w) \/ Kill(w)
    BY <1>1, <2>3, BecomeSlot DEF Ack, Crash, Kill, At, Idle
  <2>4. CASE \/ PrepareStep(w) \/ PrepareFault(w) \/ RenderStep(w) \/ RenderFault(w)
             \/ FinalizeStep(w) \/ FinalizeFault(w)
    <3>1. worker'[w].msg = worker[w].msg /\ ~ At(w, "idle")
      BY <2>4, PrepareDoes, PrepareFrame, RenderFrame, FinalizeFrame
         DEF Doing, Report, ReportFailure, At
    <3> QED
      BY <1>1, <3>1 DEF InFlight
  <2> QED
    BY <2>1, <2>2, <2>3, <2>4, SlotKept
<1>2. Finalize(r) \in ready' \ ready
  BY <1>1 DEF InFlight
<1>3. ASSUME NEW w \in Workers, Report(w) PROVE r \notin broken /\ broken' = broken
  <2>1. PICK c \in awaited : Finalize(r) = Finalize(RunOf(c)) /\ RunOf(c) \notin broken
    BY <1>2, <1>3 DEF Report
  <2>2. r = RunOf(c)
    BY <2>1, AwaitedRuns, FinalizeInjective
  <2> QED
    BY <1>3, <2>1, <2>2 DEF Report
<1>4. ASSUME NEW w \in Workers, PrepareStep(w) \/ PrepareFault(w) PROVE FALSE
  BY <1>2, <1>4, OtherMessages
     DEF PrepareStep, PrepareFault, ReadVideo, ClaimVideo, OpenJob, Ingest, Transcribe, Analyze,
         CloseJob, StageFails, RetryProcess, Dispatch, RetryProcessFails, DispatchFails,
         PrepareCommitFails, broker
<1>5. ASSUME NEW w \in Workers, RenderStep(w) \/ RenderFault(w), ~ Report(w) PROVE FALSE
  <2>1. ready' = ready \/ \E c, q, n : ready' = ready \cup {Render(c, q, n)}
    BY <1>5
       DEF RenderStep, RenderFault, ReadClip, MarkRendering, MakeDir, Cut, Reframe, Burn,
           Package, MarkCompleted, RemoveDir, RenderFails, HandleRenderError, CountRetry,
           RetryRender, ReportFailure, MakeDirFails, RetryRenderFails, RenderCommitFails,
           CountRetryFails, broker
  <2> QED
    BY <1>2, <2>1, OtherMessages
<1>6. ASSUME NEW w \in Workers, FinalizeStep(w) \/ FinalizeFault(w) PROVE FALSE
  BY <1>2, <1>6, FinalizeFrame DEF broker
<1>7. ASSUME NEW w \in Workers, Deliver(w) \/ Ack(w) \/ Crash(w) \/ Redeliver(w) \/ Kill(w)
      PROVE  FALSE
  BY <1>2, <1>7 DEF Deliver, Ack, Crash, Redeliver, Kill, Happens, DeliveredOnce, broker
<1>8. ASSUME NEW v \in Videos, CreateVideo(v) \/ Enqueue(v) \/ EnqueueFails(v) \/ Purge(v)
      PROVE  FALSE
  BY <1>2, <1>8, OtherMessages DEF CreateVideo, Enqueue, EnqueueFails, Purge, broker
<1>9. ASSUME NEW d \in DOMAIN clip, Rerender(d) PROVE FALSE
  BY <1>9 DEF Rerender, Happens, DeliveredOnce
<1>10. ASSUME UNCHANGED vars PROVE FALSE
  BY <1>2, <1>10 DEF vars, broker
<1> QED
  BY <1>3, <1>4, <1>5, <1>6, <1>7, <1>8, <1>9, <1>10 DEF Next, WorkerStep, WorkerFault

LEMMA BrokenFrom ==
  ASSUME [Next]_vars, NEW r \in broken' \ broken
  PROVE  \/ \E w \in Workers : /\ IsPart(worker[w].msg) /\ r = RunOf(Target(w))
                               /\ worker[w].pc \notin {"idle", "ack"}
         \/ \E w \in Workers : DispatchFails(w) /\ r = <<Subject(w), worker[w].run>>
<1>1. ASSUME NEW w \in Workers, ReportFailure(w) \/ Kill(w)
      PROVE  IsPart(worker[w].msg) /\ r = RunOf(Target(w)) /\ worker[w].pc \notin {"idle", "ack"}
  BY <1>1 DEF ReportFailure, Kill, LosePart, Target, At
<1>2. ASSUME NEW w \in Workers, PrepareStep(w) \/ PrepareFault(w)
      PROVE  DispatchFails(w) /\ r = <<Subject(w), worker[w].run>>
  BY <1>2
     DEF PrepareStep, PrepareFault, ReadVideo, ClaimVideo, OpenJob, Ingest, Transcribe, Analyze,
         CloseJob, StageFails, RetryProcess, Dispatch, RetryProcessFails, DispatchFails,
         PrepareCommitFails, broker
<1>3. ASSUME NEW w \in Workers, RenderStep(w) \/ RenderFault(w), ~ ReportFailure(w) PROVE FALSE
  BY <1>3
     DEF RenderStep, RenderFault, ReadClip, MarkRendering, MakeDir, Cut, Reframe, Burn,
         Package, MarkCompleted, RemoveDir, RenderFails, HandleRenderError, CountRetry,
         RetryRender, Report, MakeDirFails, RetryRenderFails, RenderCommitFails,
         CountRetryFails, broker
<1>4. ASSUME NEW w \in Workers, FinalizeStep(w) \/ FinalizeFault(w) PROVE FALSE
  BY <1>4 DEF FinalizeStep, FinalizeFault, ReadClips, MarkFinalized, RemoveWorkspace,
              RemoveWorkspaceFails, FinalizeCommitFails, broker
<1>5. ASSUME NEW w \in Workers, Deliver(w) \/ Ack(w) \/ Crash(w) \/ Redeliver(w) PROVE FALSE
  BY <1>5 DEF Deliver, Ack, Crash, Redeliver, broker
<1>6. ASSUME NEW v \in Videos, CreateVideo(v) \/ Enqueue(v) \/ EnqueueFails(v) \/ Purge(v)
      PROVE  FALSE
  BY <1>6 DEF CreateVideo, Enqueue, EnqueueFails, Purge, broker
<1>7. ASSUME NEW d \in DOMAIN clip, Rerender(d) PROVE FALSE
  BY <1>7 DEF Rerender
<1>8. ASSUME UNCHANGED vars PROVE FALSE
  BY <1>8 DEF vars, broker
<1> QED
  BY <1>1, <1>2, <1>3, <1>4, <1>5, <1>6, <1>7, <1>8 DEF Next, WorkerStep, WorkerFault

LEMMA BrokenKept ==
  ASSUME DeliveredOnce, TypeInv, TypeInv', ChordInv, OnceInv, RenderInv, [Next]_vars
  PROVE  BrokenIsOver'
<1> SUFFICES ASSUME NEW r \in broken', InFlight(Finalize(r))' PROVE FALSE
  BY DEF BrokenIsOver
<1>1. r \in Runs
  BY DEF TypeInv, TypeOK, BrokerOK
<1>2. InFlight(Finalize(r)) /\ r \notin broken
  BY <1>1, BodyFrom DEF RenderInv, BrokenIsOver
<1>3. ASSUME NEW w \in Workers, IsPart(worker[w].msg), r = RunOf(Target(w)),
             worker[w].pc \notin {"idle", "ack"}
      PROVE  FALSE
  <2>1. PICK c : c = Target(w)
    OBVIOUS
  <2>2. worker[w].msg \in Messages
    BY <1>3, BusyType, UnchangedTypes DEF At
  <2>3. c \in ClipIds /\ Rend(w, c)
    BY <1>3, <2>1, <2>2, MessageForms DEF Rend, Doing, IsPart, Target, At
  <2>4. c \in awaited
    BY <1>2, <1>3, <2>1, <2>3 DEF RenderInv, OneRender, Carried, Outstanding
  <2> QED
    BY <1>2, <1>3, <2>1, <2>4 DEF ChordInv, FinalizeAfterAll
<1>4. ASSUME NEW w \in Workers, DispatchFails(w), r = <<Subject(w), worker[w].run>>
      PROVE  FALSE
  <2>1. PICK v, n : v = Subject(w) /\ n = worker[w].run
    OBVIOUS
  <2>2. v \in Videos /\ Preps(w, v) /\ n \in Nat /\ r = <<v, n>>
    BY <1>4, <2>1, PrepareDoes DEF PrepareFault, TypeInv, TypeOK, WorkerState
  <2>3. ~ BodyOut(v)
    BY <2>2, HeldOnce DEF OnceInv
  <2> QED
    BY <1>2, <2>2, <2>3 DEF BodyOut
<1> QED
  BY <1>2, <1>3, <1>4, BrokenFrom

LEMMA RendersHold == DeliveredOnce => (Spec => []RenderInv)
<1> SUFFICES ASSUME DeliveredOnce PROVE Spec => []RenderInv
  OBVIOUS
<1>1. Init => RenderInv
  BY DEF Init, RenderInv, BrokenIsOver, OneRender, Single, Carried, InQueue, Rend, Idle
<1>2. ASSUME TypeInv, TypeInv', ChordInv, OnceInv, OnceInv', RenderInv, [Next]_vars
      PROVE  RenderInv'
  <2>1. BrokenIsOver'
    BY <1>2, BrokenKept
  <2>2. ASSUME NEW c \in ClipIds PROVE OneRender(c)'
    <3>1. Single(c)'
      BY <1>2, SingleKept DEF RenderInv
    <3>2. ASSUME Carried(c)', Carried(c) PROVE Outstanding(c)'
      BY <1>2, <3>2, OutstandingKept DEF RenderInv
    <3>3. ASSUME Carried(c)', ~ Carried(c) PROVE Outstanding(c)'
      BY <1>2, <3>3, CarriedFrom, DispatchedOutstanding
    <3> QED
      BY <3>1, <3>2, <3>3 DEF OneRender
  <2> QED
    BY <2>1, <2>2 DEF RenderInv
<1>3. DeliveredOnce => PreparedOnce
  BY OnceToo
<1> QED
  BY <1>1, <1>2, <1>3, TypesHold, ChordHolds, OnceHolds, PTL DEF Spec

----------------------------------------------------------------------------
(* "A video/clip is already being processed -- refuse to double-enqueue"   *)
(* (core/exceptions.py).  When each message is delivered once for each     *)
(* time it is published, a video is prepared and a clip is rendered by one *)
(* worker at a time, through every retry, kill and failed publication.     *)
THEOREM OneWorkerAtATime == DeliveredOnce => (Spec => []OneAtATime)
<1> SUFFICES ASSUME DeliveredOnce PROVE Spec => []OneAtATime
  OBVIOUS
<1>1. ASSUME TypeInv, OnceInv, RenderInv PROVE OneAtATime
  <2> SUFFICES ASSUME NEW w \in Workers, NEW u \in Workers, w # u
               PROVE  /\ \A v \in Videos : ~ (Claimed(w, v) /\ Claimed(u, v))
                      /\ \A c \in DOMAIN clip : ~ (Holds(w, c) /\ Holds(u, c))
    BY DEF OneAtATime
  <2>1. ASSUME NEW v \in Videos, Claimed(w, v), Claimed(u, v) PROVE FALSE
    <3>1. Preps(w, v) /\ Preps(u, v)
      BY <2>1 DEF Claimed, Preps, Doing, Subject, At
    <3> QED
      BY <1>1, <3>1 DEF OnceInv, Once, OnePrepare
  <2>2. ASSUME NEW c \in DOMAIN clip, Holds(w, c), Holds(u, c) PROVE FALSE
    <3>1. Rend(w, c) /\ Rend(u, c) /\ c \in ClipIds
      BY <1>1, <2>2 DEF Holds, Rend, Doing, At, TypeInv, TypeOK, TablesOK
    <3> QED
      BY <1>1, <3>1 DEF RenderInv, OneRender, Single
  <2> QED
    BY <2>1, <2>2
<1>2. DeliveredOnce => PreparedOnce
  BY OnceToo
<1> QED
  BY <1>1, <1>2, TypesHold, OnceHolds, RendersHold, PTL

----------------------------------------------------------------------------
(* The row and the files of a clip that is being rendered.                 *)

LEMMA RenderSlots ==
  ASSUME TypeInv, NEW w \in Workers
  PROVE  /\ ReadClip(w) => worker'[w].pc \in {"mark_rendering", "report"}
         /\ MarkRendering(w) =>
              worker'[w].pc = "mkdir" /\ worker'[w].seen = worker[w].seen
         /\ MakeDir(w) => worker'[w].pc = "cut" /\ worker'[w].seen = worker[w].seen
         /\ Cut(w) => worker'[w].pc = "reframe" /\ worker'[w].seen = worker[w].seen
         /\ Reframe(w) => worker'[w].pc = "burn" /\ worker'[w].seen = worker[w].seen
         /\ Burn(w) => /\ worker'[w].pc = "package" /\ worker'[w].seen = worker[w].seen
                       /\ worker'[w].title = worker[w].title
         /\ Package(w) => /\ worker'[w].pc = "mark_completed" /\ worker'[w].seen = worker[w].seen
                          /\ worker'[w].title = worker[w].title
         /\ MarkCompleted(w) => worker'[w].pc = "remove_dir"
         /\ RemoveDir(w) => worker'[w].pc = "report"
         /\ \A e \in Errors : RenderFails(w, e) => worker'[w].pc = "render_failed"
         /\ HandleRenderError(w) =>
              \/ worker'[w].pc = "report"
              \/ worker'[w].pc = "count_retry" /\ worker'[w].seen = Get(clip, Target(w))
         /\ CountRetry(w) => worker'[w].pc = "retry_render"
         /\ RetryRender(w) \/ Report(w) \/ ReportFailure(w) => worker'[w].pc = "ack"
         /\ RenderFault(w) => worker'[w].pc \in {"report", "report_failure"}
<1>1. worker[w] \in WorkerState
  BY DEF TypeInv, TypeOK
<1>2. ReadClip(w) => worker'[w].pc \in {"mark_rendering", "report"}
  <2> SUFFICES ASSUME ReadClip(w) PROVE worker'[w].pc \in {"mark_rendering", "report"}
    OBVIOUS
  <2> DEFINE row == Get(clip, Target(w))
  <2>1. \/ Become(w, [worker[w] EXCEPT !.pc = "mark_rendering", !.seen = row])
        \/ Return(w, "report")
    BY DEF ReadClip
  <2>2. \/ worker'[w] = [worker[w] EXCEPT !.pc = "mark_rendering", !.seen = row]
        \/ worker'[w].pc = "report"
    BY <2>1, BecomeSlot, ReturnSlot
  <2> QED
    BY <1>1, <2>2 DEF WorkerState
<1>3. HandleRenderError(w) =>
        \/ worker'[w].pc = "report"
        \/ worker'[w].pc = "count_retry" /\ worker'[w].seen = Get(clip, Target(w))
  <2> SUFFICES ASSUME HandleRenderError(w)
               PROVE  \/ worker'[w].pc = "report"
                      \/ worker'[w].pc = "count_retry" /\ worker'[w].seen = Get(clip, Target(w))
    OBVIOUS
  <2> DEFINE row == Get(clip, Target(w))
  <2>1. \/ Become(w, [worker[w] EXCEPT !.pc = "count_retry", !.seen = row])
        \/ Return(w, "report")
    BY DEF HandleRenderError
  <2>2. \/ worker'[w] = [worker[w] EXCEPT !.pc = "count_retry", !.seen = row]
        \/ worker'[w].pc = "report"
    BY <2>1, BecomeSlot, ReturnSlot
  <2> QED
    BY <1>1, <2>2 DEF WorkerState
<1>4. Reframe(w) => worker'[w].pc = "burn" /\ worker'[w].seen = worker[w].seen
  <2> SUFFICES ASSUME Reframe(w)
               PROVE  worker'[w].pc = "burn" /\ worker'[w].seen = worker[w].seen
    OBVIOUS
  <2>1. PICK t \in Titles : Become(w, [worker[w] EXCEPT !.pc = "burn", !.title = t])
    BY DEF Reframe
  <2>2. worker'[w] = [worker[w] EXCEPT !.pc = "burn", !.title = t]
    BY <2>1, BecomeSlot
  <2> QED
    BY <1>1, <2>2 DEF WorkerState
<1>5. \A e \in Errors : RenderFails(w, e) => worker'[w].pc = "render_failed"
  <2> SUFFICES ASSUME NEW e \in Errors, RenderFails(w, e)
               PROVE  worker'[w].pc = "render_failed"
    OBVIOUS
  <2>1. worker'[w] = [worker[w] EXCEPT !.pc = "render_failed", !.err = e, !.seen = None,
                                       !.title = None]
    BY BecomeSlot DEF RenderFails
  <2> QED
    BY <1>1, <2>1 DEF WorkerState
<1>6. /\ MarkRendering(w) =>
           worker'[w].pc = "mkdir" /\ worker'[w].seen = worker[w].seen
      /\ MakeDir(w) => worker'[w].pc = "cut" /\ worker'[w].seen = worker[w].seen
      /\ Cut(w) => worker'[w].pc = "reframe" /\ worker'[w].seen = worker[w].seen
      /\ Burn(w) => /\ worker'[w].pc = "package" /\ worker'[w].seen = worker[w].seen
                    /\ worker'[w].title = worker[w].title
      /\ Package(w) => /\ worker'[w].pc = "mark_completed" /\ worker'[w].seen = worker[w].seen
                       /\ worker'[w].title = worker[w].title
      /\ MarkCompleted(w) => worker'[w].pc = "remove_dir"
  BY GotoSlot DEF MarkRendering, MakeDir, Cut, Burn, Package, MarkCompleted, SameLocals
<1>7. /\ RemoveDir(w) => worker'[w].pc = "report"
      /\ CountRetry(w) => worker'[w].pc = "retry_render"
      /\ RetryRender(w) \/ Report(w) \/ ReportFailure(w) => worker'[w].pc = "ack"
      /\ RenderFault(w) => worker'[w].pc \in {"report", "report_failure"}
  BY ReturnSlot
     DEF RemoveDir, CountRetry, RetryRender, Report, ReportFailure, RenderFault, MakeDirFails,
         RetryRenderFails, RenderCommitFails, CountRetryFails
<1> QED
  BY <1>2, <1>3, <1>4, <1>5, <1>6, <1>7

(* Who truncates a finished output file.                                   *)
LEMMA WholeMoves ==
  ASSUME [Next]_vars
  PROVE  whole \subseteq whole' \/ \E w \in Workers : Burn(w) /\ whole' = whole \ {Final(w)}
<1>1. ASSUME NEW w \in Workers, Deliver(w) \/ WorkerStep(w) \/ WorkerFault(w), ~ Burn(w)
      PROVE  whole \subseteq whole'
  BY <1>1
     DEF WorkerStep, WorkerFault, Deliver, Ack, Crash, Redeliver, Kill,
         PrepareStep, PrepareFault, ReadVideo, ClaimVideo, OpenJob, Ingest, Transcribe, Analyze,
         CloseJob, StageFails, RetryProcess, Dispatch, RetryProcessFails, DispatchFails,
         PrepareCommitFails, FinalizeStep, FinalizeFault, ReadClips, MarkFinalized,
         RemoveWorkspace, RemoveWorkspaceFails, FinalizeCommitFails, DropWorkspace,
         RenderStep, RenderFault, ReadClip, MarkRendering, MakeDir, Cut, Reframe, Package,
         MarkCompleted, RemoveDir, RenderFails, HandleRenderError, CountRetry, RetryRender,
         Report, ReportFailure, MakeDirFails, RetryRenderFails, RenderCommitFails,
         CountRetryFails, disk
<1>2. ASSUME NEW w \in Workers, Burn(w) PROVE whole' = whole \ {Final(w)}
  BY <1>2 DEF Burn
<1>3. ASSUME NEW v \in Videos, CreateVideo(v) \/ Enqueue(v) \/ EnqueueFails(v) \/ Purge(v)
      PROVE  whole' = whole
  BY <1>3 DEF CreateVideo, Enqueue, EnqueueFails, Purge, DropWorkspace, disk
<1>4. ASSUME NEW d \in DOMAIN clip, Rerender(d) PROVE whole' = whole
  BY <1>4 DEF Rerender, disk
<1>5. ASSUME UNCHANGED vars PROVE whole' = whole
  BY <1>5 DEF vars, disk
<1> QED
  BY <1>1, <1>2, <1>3, <1>4, <1>5 DEF Next

Encoding == {"mkdir", "cut", "reframe", "burn", "package", "mark_completed"}
RowKept(w, c) ==
  Rend(w, c) =>
    /\ worker[w].pc \in {"mark_rendering", "count_retry"} => worker[w].seen = clip[c]
    /\ worker[w].pc \in Encoding =>
         clip[c].status = "rendering" /\ worker[w].seen.output = clip[c].output
    /\ worker[w].pc = "mark_completed" => OutputOf(c, worker[w].title) \in whole
    /\ worker[w].pc = "remove_dir" => clip[c].status = "completed"
    /\ worker[w].pc \in {"render_failed", "count_retry", "retry_render"} =>
         clip[c].status = "failed"
RowsInv == CompletedHasOutput /\ \A c \in DOMAIN clip : \A w \in Workers : RowKept(w, c)

(* Only the slot that renders a clip writes its row and its output.        *)
LEMMA OwnRow ==
  ASSUME TypeInv, OnceInv, RenderInv, [Next]_vars, NEW c \in DOMAIN clip
  PROVE  \/ clip'[c] = clip[c]
         \/ \E w \in Workers : WritesRow(w) /\ Target(w) = c /\ Rend(w, c)
<1>1. ASSUME NEW w \in Workers, WritesRow(w), Target(w) = c PROVE Rend(w, c)
  BY <1>1 DEF WritesRow, MarkRendering, MarkCompleted, CountRetry, RenderFails, Rendering, Rend, At
<1>2. c \in DOMAIN clip'
  BY ClipsStay
<1> QED
  BY <1>1, <1>2, RowChanges

LEMMA OwnOutput ==
  ASSUME TypeInv, OnceInv, RenderInv, [Next]_vars, NEW c \in DOMAIN clip, NEW t,
         OutputOf(c, t) \in whole, OutputOf(c, t) \notin whole'
  PROVE  \E w \in Workers : Rend(w, c) /\ Burn(w)
<1>1. PICK w \in Workers : Burn(w) /\ whole' = whole \ {Final(w)}
  BY WholeMoves
<1>2. PICK d : d = Target(w)
  OBVIOUS
<1>3. Rend(w, d) /\ OutputOf(c, t) = OutputOf(d, worker[w].title)
  BY <1>1, <1>2 DEF Final, Burn, Rendering, Rend, At
<1>4. c[1] = d[1] /\ c[3] = d[3]
  BY <1>3 DEF OutputOf
<1>5. d \in ClipIds
  BY <1>2, <1>3, TargetType, UnchangedTypes DEF Rend, Target
<1>6. d \in DOMAIN clip
  BY <1>3, <1>5 DEF RenderInv, OneRender, Carried, Outstanding
<1>7. c \in ClipIds /\ VideoOf(c) = VideoOf(d) /\ VideoOf(c) \in Videos
  BY <1>4, ClipIdParts DEF VideoOf, TypeInv, TypeOK, TablesOK
<1>8. c[2] = runs[VideoOf(c)] /\ d[2] = runs[VideoOf(c)]
  BY <1>6, <1>7 DEF OnceInv, Once, RowFits, ClipsOf
<1>9. c = d
  BY <1>4, <1>5, <1>7, <1>8 DEF ClipIds
<1> QED
  BY <1>1, <1>3, <1>9

LEMMA RowsKept ==
  ASSUME DeliveredOnce, TypeInv, OnceInv, RenderInv, KnownClips, ClipHasTranscript, RowsInv,
         [Next]_vars
  PROVE  RowsInv'
<1>1. \A c \in DOMAIN clip : clip[c] \in ClipRow /\ c \in ClipIds /\ Single(c)
  BY DEF TypeInv, TypeOK, TablesOK, RenderInv, OneRender
<1>2. ASSUME NEW c \in DOMAIN clip', c \notin DOMAIN clip
      PROVE  clip'[c].status = "selected" /\ \A w \in Workers : ~ Rend(w, c)'
  <2>1. clip'[c].status = "selected"
    BY <1>2, RowChanges DEF NewClip
  <2>2. ASSUME NEW w \in Workers, Rend(w, c)' PROVE FALSE
    BY <1>2, <2>2, SlotFrom DEF Rend, KnownClips, Renders
  <2> QED
    BY <2>1, <2>2
<1>3. ASSUME NEW c \in DOMAIN clip, clip'[c].status = "completed"
      PROVE  OutputOf(c, clip'[c].output) \in whole'
  <2>1. ASSUME clip'[c].output = clip[c].output, clip[c].status = "completed"
        PROVE  OutputOf(c, clip'[c].output) \in whole'
    <3>1. OutputOf(c, clip[c].output) \in whole
      BY <2>1 DEF RowsInv, CompletedHasOutput
    <3>2. ASSUME NEW w \in Workers, Rend(w, c), Burn(w) PROVE FALSE
      BY <2>1, <3>2 DEF RowsInv, RowKept, Encoding, Burn, Rendering, At
    <3> QED
      BY <2>1, <3>1, <3>2, OwnOutput
  <2>2. CASE clip'[c] = clip[c]
    BY <1>3, <2>1, <2>2
  <2>3. ASSUME NEW w \in Workers, WritesRow(w), Target(w) = c, Rend(w, c)
        PROVE  OutputOf(c, clip'[c].output) \in whole'
    <3>1. CASE MarkRendering(w)
      <4>1. worker[w].pc = "mark_rendering"
        BY <3>1 DEF MarkRendering, Rendering, At
      <4>2. worker[w].seen = clip[c]
        BY <2>3, <4>1 DEF RowsInv, RowKept
      <4>3. /\ clip'[c].status = Flushed(clip[c].status, worker[w].seen.status, "rendering")
            /\ clip'[c].output = clip[c].output
        BY <2>3, <3>1, RowWritten
      <4> QED
        BY <1>3, <2>1, <4>2, <4>3 DEF Flushed
    <3>2. CASE MarkCompleted(w)
      <4>1. /\ clip'[c].output = Flushed(clip[c].output, worker[w].seen.output, worker[w].title)
            /\ worker[w].seen.output = clip[c].output /\ OutputOf(c, worker[w].title) \in whole
        BY <2>3, <3>2, RowWritten
           DEF RowsInv, RowKept, MarkCompleted, Rendering, At, Encoding
      <4>2. clip'[c].output = worker[w].title /\ whole' = whole
        BY <3>2, <4>1 DEF Flushed, MarkCompleted, disk
      <4> QED
        BY <4>1, <4>2
    <3>3. CASE CountRetry(w)
      BY <1>3, <2>1, <2>3, <3>3, RowWritten
    <3>4. ASSUME NEW e \in Errors, RenderFails(w, e) PROVE FALSE
      BY <1>3, <2>3, <3>4, RowWritten
    <3> QED
      BY <2>3, <3>1, <3>2, <3>3, <3>4 DEF WritesRow
  <2> QED
    BY <2>2, <2>3, OwnRow
<1>4. ASSUME NEW c \in DOMAIN clip, NEW w \in Workers, Rend(w, c)' PROVE RowKept(w, c)'
  <2>1. CASE worker'[w].pc \in {"start", "report", "report_failure"}
    BY <2>1 DEF RowKept, Encoding
  <2>2. ASSUME Rend(w, c), ~ (RenderStep(w) \/ RenderFault(w)), worker'[w] = worker[w]
        PROVE  RowKept(w, c)'
    <3>1. ASSUME NEW x \in Workers, WritesRow(x), Rend(x, c) PROVE FALSE
      <4>1. x = w
        BY <1>1, <2>2, <3>1 DEF Single
      <4> QED
        BY <2>2, <3>1, <4>1 DEF WritesRow, RenderStep
    <3>2. clip'[c] = clip[c]
      BY <3>1, OwnRow
    <3>3. ASSUME NEW x \in Workers, Rend(x, c), Burn(x) PROVE FALSE
      <4>1. x = w
        BY <1>1, <2>2, <3>3 DEF Single
      <4> QED
        BY <2>2, <3>3, <4>1 DEF RenderStep
    <3>4. OutputOf(c, worker[w].title) \in whole => OutputOf(c, worker[w].title) \in whole'
      BY <3>3, OwnOutput
    <3>5. RowKept(w, c)
      BY DEF RowsInv
    <3> QED
      BY <2>2, <3>2, <3>4, <3>5 DEF RowKept, Rend
  <2>3. ASSUME Rend(w, c), RenderStep(w) \/ RenderFault(w),
               worker'[w].pc \notin {"start", "report", "report_failure", "ack"}
        PROVE  RowKept(w, c)'
    <3>1. Target(w) = c /\ RowKept(w, c) /\ worker[w].pc # "ack"
      BY <2>3 DEF Rend, RowsInv
    <3>2. ASSUME clip'[c] = clip[c], worker[w].pc \in Encoding, worker'[w].pc \in Encoding,
                 worker'[w].seen = worker[w].seen,
                 worker'[w].pc = "mark_completed" => OutputOf(c, worker'[w].title) \in whole'
          PROVE  RowKept(w, c)'
      BY <2>3, <3>1, <3>2 DEF RowKept, Encoding
    <3>3. CASE ReadClip(w)
      <4>1. worker'[w].pc = "mark_rendering" /\ worker'[w].seen = clip[c] /\ clip' = clip
        BY <3>1, <3>3, ReadSlot DEF ReadClip, tables
      <4> QED
        BY <4>1 DEF RowKept, Encoding
    <3>4. CASE MarkRendering(w)
      <4>1. worker[w].pc = "mark_rendering"
        BY <3>4 DEF MarkRendering, Rendering, At
      <4>2. worker[w].seen = clip[c]
        BY <2>3, <3>1, <4>1 DEF RowKept
      <4>3. /\ clip'[c].status = Flushed(clip[c].status, worker[w].seen.status, "rendering")
            /\ clip'[c].output = clip[c].output
        BY <3>1, <3>4, RowWritten
      <4>4. clip'[c].status = "rendering"
        BY <4>2, <4>3 DEF Flushed
      <4>5. worker'[w].pc = "mkdir" /\ worker'[w].seen = worker[w].seen
        BY <3>4, RenderSlots
      <4> QED
        BY <4>2, <4>3, <4>4, <4>5 DEF RowKept, Encoding
    <3>5. CASE MakeDir(w) \/ Cut(w) \/ Reframe(w) \/ Burn(w)
      <4>1. /\ clip' = clip /\ worker[w].pc \in Encoding
        BY <3>5 DEF MakeDir, Cut, Reframe, Burn, Rendering, At, Encoding, tables
      <4>2. /\ worker'[w].pc \in Encoding \ {"mark_completed"}
            /\ worker'[w].seen = worker[w].seen
        BY <3>5, RenderSlots DEF Encoding
      <4> QED
        BY <3>2, <4>1, <4>2
    <3>6. CASE Package(w)
      <4>1. clip' = clip /\ worker[w].pc \in Encoding /\ OutputOf(c, worker[w].title) \in whole'
        BY <3>1, <3>6 DEF Package, Rendering, At, Encoding, tables, Final
      <4>2. /\ worker'[w].pc \in Encoding /\ worker'[w].seen = worker[w].seen
            /\ worker'[w].title = worker[w].title
        BY <3>6, RenderSlots DEF Encoding
      <4> QED
        BY <3>2, <4>1, <4>2
    <3>7. CASE MarkCompleted(w)
      <4>1. clip'[c].status = "completed" /\ worker'[w].pc = "remove_dir"
        BY <3>1, <3>7, RowWritten, RenderSlots
      <4> QED
        BY <4>1 DEF RowKept, Encoding
    <3>8. ASSUME NEW e \in Errors, RenderFails(w, e) PROVE RowKept(w, c)'
      <4>1. clip'[c].status = "failed" /\ worker'[w].pc = "render_failed"
        BY <3>1, <3>8, RowWritten, RenderSlots
      <4> QED
        BY <4>1 DEF RowKept, Encoding
    <3>9. CASE HandleRenderError(w)
      <4>1. worker'[w].pc = "count_retry" /\ worker'[w].seen = clip[c]
            /\ clip' = clip /\ clip[c].status = "failed"
        BY <2>3, <3>1, <3>9, RenderSlots
           DEF RowKept, HandleRenderError, Rendering, At, tables, Get
      <4> QED
        BY <4>1 DEF RowKept, Encoding
    <3>10. CASE CountRetry(w)
      <4>1. clip'[c].status = "failed" /\ worker'[w].pc = "retry_render"
        BY <2>3, <3>1, <3>10, RowWritten, RenderSlots
           DEF RowKept, CountRetry, Rendering, At
      <4> QED
        BY <4>1 DEF RowKept, Encoding
    <3>11. /\ ~ RemoveDir(w) /\ ~ RetryRender(w) /\ ~ Report(w) /\ ~ ReportFailure(w)
           /\ ~ RenderFault(w)
      BY <2>3, RenderSlots
    <3> QED
      BY <2>3, <3>3, <3>4, <3>5, <3>6, <3>7, <3>8, <3>9, <3>10, <3>11 DEF RenderStep
  <2> QED
    BY <1>4, <2>1, <2>2, <2>3, SlotFrom DEF Rend
<1> QED
  BY <1>2, <1>3, <1>4 DEF RowsInv, CompletedHasOutput, RowKept

LEMMA RowsHold == DeliveredOnce => (Spec => []RowsInv)
<1> SUFFICES ASSUME DeliveredOnce PROVE Spec => []RowsInv
  OBVIOUS
<1>1. Init => RowsInv
  BY DEF Init, RowsInv, CompletedHasOutput
<1>2. TypeInv /\ OnceInv /\ RenderInv /\ KnownClips /\ ClipHasTranscript /\ RowsInv /\ [Next]_vars
        => RowsInv'
  BY RowsKept
<1>3. DeliveredOnce => PreparedOnce
  BY OnceToo
<1> QED
  BY <1>1, <1>2, <1>3, TypesHold, OnceHolds, RendersHold, ClipsKnown, RenderInputsCommitted, PTL
     DEF Spec

(* The download endpoint serves the output of a clip that says "completed":*)
(* the file it names is complete.  render_clip commits the row only after  *)
(* the encoder has closed the file, and while nothing is delivered twice   *)
(* no other execution truncates it again, whatever is retried or killed.   *)
THEOREM CompletedIsDownloadable == DeliveredOnce => (Spec => []CompletedHasOutput)
<1>1. RowsInv => CompletedHasOutput
  BY DEF RowsInv
<1> QED
  BY <1>1, RowsHold, PTL

----------------------------------------------------------------------------
(* The summary.  The error column of a row that says "running" is clear,   *)
(* and what finalize_video counted is still so when it writes the row.     *)

SumFits(v) ==
  /\ video[v].status = "completed" => video[v].error = Tally(v)
  /\ video[v].status = "running" => video[v].error = "none"
CountFits(w) ==
  /\ Preparing(w, "claim") => worker[w].seen.error = video[Subject(w)].error
  /\ Finalizing(w, "mark_finalized") =>
       /\ worker[w].tally = Tally(Subject(w))
       /\ worker[w].seen.status \in {"running", "completed"}
       /\ worker[w].seen.status = "running" => worker[w].seen.error = "none"
SumInv == (\A v \in Videos : SumFits(v)) /\ \A w \in Workers : CountFits(w)

LEMMA SameTally ==
  ASSUME NEW v, ClipsOf(v)' = ClipsOf(v),
         \A c \in ClipsOf(v) : clip'[c].status = clip[c].status
  PROVE  Tally(v)' = Tally(v)
<1>1. {c \in ClipsOf(v)' : clip'[c].status = "failed"} = {c \in ClipsOf(v) : clip[c].status = "failed"}
  OBVIOUS
<1> QED
  BY <1>1 DEF Tally

(* Once the renders are over no clip of the video changes.                 *)
LEMMA TallyKept ==
  ASSUME TypeInv, ChordInv, OnceInv, RenderInv, [Next]_vars, NEW v \in Videos,
         video[v].status = "completed" \/ BodyOut(v)
  PROVE  Tally(v)' = Tally(v)
<1>1. Once(v)
  BY DEF OnceInv
<1>2. ASSUME NEW c \in DOMAIN clip, VideoOf(c) = v PROVE clip'[c] = clip[c]
  <2>1. c \in ClipIds
    BY <1>2 DEF TypeInv, TypeOK, TablesOK
  <2>2. ASSUME NEW w \in Workers, Rend(w, c) PROVE FALSE
    <3>1. Outstanding(c) /\ BrokenIsOver
      BY <2>1, <2>2 DEF RenderInv, OneRender, Carried
    <3>2. ~ BodyOut(v)
      BY <1>2, <2>1, <3>1, NoFinalizer
    <3>3. video[v].status = "running"
      BY <1>2, <3>1 DEF Outstanding
    <3> QED
      BY <3>2, <3>3
  <2> QED
    BY <1>2, <2>2, OwnRow
<1>3. ASSUME NEW c \in DOMAIN clip', VideoOf(c) = v PROVE c \in DOMAIN clip
  <2>1. ASSUME NEW w \in Workers, Analyze(w), Subject(w) = v PROVE FALSE
    <3>1. Preps(w, v)
      BY <2>1, PrepareDoes DEF PrepareStep
    <3>2. worker[w].pc = "stage"
      BY <2>1 DEF Analyze, Staging, Preparing, At
    <3>3. video[v].status = "running" /\ ~ BodyOut(v)
      BY <1>1, <3>1, <3>2, HeldOnce DEF Once, PrepareFits
    <3> QED
      BY <3>3
  <2> QED
    BY <1>3, <2>1, RowChanges
<1>4. ClipsOf(v)' = ClipsOf(v)
  BY <1>3, ClipsStay DEF ClipsOf
<1> QED
  BY <1>2, <1>4, SameTally DEF ClipsOf

(* Who writes the error of a video.                                        *)
LEMMA ErrorMoves ==
  ASSUME TypeInv, [Next]_vars, NEW v \in Videos
  PROVE  \/ video'[v].error = video[v].error
         \/ CreateVideo(v)
         \/ \E w \in Workers :
              /\ Subject(w) = v
              /\ ClaimVideo(w) \/ MarkFinalized(w) \/ \E e \in Errors : StageFails(w, e)
<1>1. video \in [Videos -> VideoRow] /\ video[v] \in VideoRow
  BY DEF TypeInv, TypeOK, TablesOK
<1> DEFINE Same == video'[v].error = video[v].error
<1>2. ASSUME NEW w \in Workers, PrepareStep(w) \/ PrepareFault(w)
      PROVE  \/ Same
             \/ Subject(w) = v /\ (ClaimVideo(w) \/ \E e \in Errors : StageFails(w, e))
  <2>1. CASE Subject(w) # v
    BY <1>2, <2>1, PrepareElsewhere DEF Apart, Untouched
  <2>2. CASE /\ Subject(w) = v /\ ~ ClaimVideo(w) /\ ~ \E e \in Errors : StageFails(w, e)
    BY <1>1, <1>2, <2>2
       DEF PrepareStep, PrepareFault, ReadVideo, OpenJob, Ingest, Transcribe, Analyze,
           CloseJob, RetryProcess, Dispatch, RetryProcessFails, DispatchFails,
           PrepareCommitFails, tables, VideoRow
  <2> QED
    BY <2>1, <2>2
<1>3. ASSUME NEW w \in Workers, RenderStep(w) \/ RenderFault(w) PROVE Same
  BY <1>3, RenderFrame
<1>4. ASSUME NEW w \in Workers, FinalizeStep(w) \/ FinalizeFault(w)
      PROVE  Same \/ (Subject(w) = v /\ MarkFinalized(w))
  <2>1. CASE Subject(w) # v
    BY <1>4, <2>1, FinalizeElsewhere DEF Apart, Untouched
  <2>2. CASE ~ MarkFinalized(w)
    BY <1>4, <2>2, FinalizeRow
  <2> QED
    BY <2>1, <2>2
<1>5. ASSUME NEW w \in Workers, Deliver(w) \/ Ack(w) \/ Crash(w) \/ Redeliver(w) \/ Kill(w)
      PROVE  Same
  BY <1>5 DEF Deliver, Ack, Crash, Redeliver, Kill, tables
<1>6. ASSUME NEW u \in Videos, CreateVideo(u) \/ Enqueue(u) \/ EnqueueFails(u) \/ Purge(u)
      PROVE  Same \/ CreateVideo(v)
  BY <1>1, <1>6 DEF CreateVideo, Enqueue, EnqueueFails, Purge, tables
<1>7. ASSUME NEW d \in DOMAIN clip, Rerender(d) PROVE Same
  BY <1>7 DEF Rerender, tables
<1>8. CASE UNCHANGED vars
  BY <1>8 DEF vars, tables
<1> QED
  BY <1>2, <1>3, <1>4, <1>5, <1>6, <1>7, <1>8 DEF Next, WorkerStep, WorkerFault

(* What they write to it.                                                  *)
LEMMA ErrorWritten ==
  ASSUME TypeInv, NEW w \in Workers, Subject(w) \in Videos
  PROVE  /\ ClaimVideo(w) =>
              video'[Subject(w)].error =
                Flushed(video[Subject(w)].error, worker[w].seen.error, "none")
         /\ MarkFinalized(w) =>
              /\ clip' = clip
              /\ video'[Subject(w)].error =
                   IF worker[w].tally = "none"
                     THEN video[Subject(w)].error
                     ELSE Flushed(video[Subject(w)].error, worker[w].seen.error, worker[w].tally)
<1>1. video \in [Videos -> VideoRow] /\ video[Subject(w)] \in VideoRow
  BY DEF TypeInv, TypeOK, TablesOK
<1>2. ASSUME ClaimVideo(w)
      PROVE  video'[Subject(w)].error =
               Flushed(video[Subject(w)].error, worker[w].seen.error, "none")
  <2>1. PICK error :
          /\ video' = [video EXCEPT ![Subject(w)] =
                         [@ EXCEPT !.status = "running", !.error = error]]
          /\ error = Flushed(video[Subject(w)].error, worker[w].seen.error, "none")
    BY <1>2 DEF ClaimVideo
  <2> QED
    BY <1>1, <2>1 DEF VideoRow
<1>3. ASSUME MarkFinalized(w)
      PROVE  video'[Subject(w)].error =
               IF worker[w].tally = "none"
                 THEN video[Subject(w)].error
                 ELSE Flushed(video[Subject(w)].error, worker[w].seen.error, worker[w].tally)
  <2>1. PICK status, error :
          /\ video' = [video EXCEPT ![Subject(w)] = [@ EXCEPT !.status = status, !.error = error]]
          /\ error = IF worker[w].tally = "none"
                       THEN video[Subject(w)].error
                       ELSE Flushed(video[Subject(w)].error, worker[w].seen.error,
                                    worker[w].tally)
    BY <1>3 DEF MarkFinalized
  <2> QED
    BY <1>1, <2>1 DEF VideoRow
<1>4. MarkFinalized(w) => clip' = clip
  BY DEF MarkFinalized
<1> QED
  BY <1>2, <1>3, <1>4

LEMMA SumFitsKept ==
  ASSUME DeliveredOnce, TypeInv, ChordInv, OnceInv, RenderInv, SumInv, [Next]_vars,
         NEW v \in Videos
  PROVE  SumFits(v)'
<1>1. SumFits(v) /\ Once(v)
  BY DEF SumInv, OnceInv
<1>2. ASSUME video'[v].status = video[v].status, video'[v].error = video[v].error
      PROVE  SumFits(v)'
  BY <1>1, <1>2, TallyKept DEF SumFits
<1>3. CASE CreateVideo(v)
  <2>1. video'[v].status = "pending"
    BY <1>3 DEF CreateVideo, NewVideo, TypeInv, TypeOK, TablesOK
  <2> QED
    BY <2>1 DEF SumFits
<1>4. ASSUME NEW w \in Workers, Subject(w) = v, ClaimVideo(w) PROVE SumFits(v)'
  <2>1. worker[w].seen.error = video[v].error
    BY <1>4 DEF SumInv, CountFits, ClaimVideo
  <2>2. video'[v].error = "none"
    BY <1>4, <2>1, ErrorWritten DEF Flushed
  <2>3. video'[v].status = "running"
    <3>1. video \in [Videos -> VideoRow]
      BY DEF TypeInv, TypeOK, TablesOK
    <3> QED
      BY <1>4, <3>1 DEF ClaimVideo, VideoRow
  <2> QED
    BY <2>2, <2>3 DEF SumFits
<1>5. ASSUME NEW w \in Workers, Subject(w) = v, NEW e \in Errors, StageFails(w, e)
      PROVE  SumFits(v)'
  <2>1. video'[v].status = "failed"
    BY <1>5 DEF StageFails, TypeInv, TypeOK, TablesOK, VideoRow
  <2> QED
    BY <2>1 DEF SumFits
<1>6. ASSUME NEW w \in Workers, Subject(w) = v, MarkFinalized(w) PROVE SumFits(v)'
  <2>1. Finalizing(w, "mark_finalized") /\ FinalizeFits(w, v) /\ CountFits(w)
    BY <1>1, <1>6 DEF MarkFinalized, Once, SumInv
  <2>2. /\ worker[w].tally = Tally(v) /\ worker[w].seen.status \in {"running", "completed"}
        /\ worker[w].seen.status = "running" => worker[w].seen.error = "none"
    BY <1>6, <2>1 DEF CountFits
  <2>3. video'[v].status = "completed" /\ video[v].status \in {"running", "completed"}
    <3>1. video'[v].status = "completed"
      BY <1>6, <2>1, MarksCompleted
    <3>2. Preps(w, v) \/ BodyOut(v)
      BY <1>6, Finalizer DEF FinalizeStep
    <3>3. worker[w].pc = "mark_finalized"
      BY <2>1 DEF Finalizing, At
    <3> QED
      BY <1>1, <3>1, <3>2, <3>3 DEF Once, PrepareFits, RowFits, BodyOut
  <2>4. clip' = clip /\ video'[v].error = IF Tally(v) = "none" THEN video[v].error
                             ELSE Flushed(video[v].error, worker[w].seen.error, Tally(v))
    BY <1>6, <2>2, ErrorWritten
  <2>5. Tally(v)' = Tally(v)
    BY <2>4, SameTally DEF ClipsOf
  <2>6. worker[w].seen.status = "completed" => video[v].error = Tally(v)
    BY <1>1, <1>6, <2>1 DEF FinalizeFits, SumFits
  <2>7. video'[v].error = Tally(v)
    BY <1>1, <2>2, <2>3, <2>4, <2>6 DEF SumFits, Flushed
  <2> QED
    BY <2>3, <2>5, <2>7 DEF SumFits
<1> QED
  BY <1>2, <1>3, <1>4, <1>5, <1>6, StatusMoves, ErrorMoves

LEMMA DeliverStarts ==
  ASSUME TypeInv, NEW w \in Workers, Deliver(w)
  PROVE  worker'[w].pc \in {"start", "read_clips"}
<1>1. PICK m \in ready : m \in Messages /\ worker'[w].pc = FirstStep[m.task]
  BY DeliverSlot
<1>2. m.task \in TaskNames
  BY <1>1, MessageForms
<1> QED
  BY <1>1, <1>2 DEF FirstStep, TaskNames

LEMMA CountFitsKept ==
  ASSUME DeliveredOnce, TypeInv, ChordInv, OnceInv, OnceInv', RenderInv, SumInv, [Next]_vars,
         NEW w \in Workers
  PROVE  CountFits(w)'
<1>0. PreparedOnce
  BY OnceToo
<1>1. ASSUME NEW v \in Videos, Preps(w, v), Subject(w) = v, worker[w].pc = "claim",
             worker'[w] = worker[w]
      PROVE  video'[v].error = video[v].error
  <2>1. Once(v) /\ video[v].status \in {"pending", "failed"} /\ ~ BodyOut(v)
        /\ \A x \in Workers : Preps(x, v) => x = w
    BY <1>1, HeldOnce DEF OnceInv, Once, PrepareFits
  <2>2. ASSUME NEW x \in Workers, Subject(x) = v,
               ClaimVideo(x) \/ \E e \in Errors : StageFails(x, e)
        PROVE  FALSE
    <3>1. x = w
      BY <2>1, <2>2, PrepareDoes DEF PrepareStep
    <3>2. ClaimVideo(w)
      BY <1>1, <2>2, <3>1 DEF StageFails, Preparing, At
    <3>3. worker'[w].pc = "open_job"
      BY <3>2, PrepareSlots
    <3> QED
      BY <1>1, <3>3
  <2>3. ASSUME NEW x \in Workers, Subject(x) = v, MarkFinalized(x) PROVE FALSE
    <3>1. worker[x].pc \in FinalizeSteps /\ (Preps(x, v) \/ BodyOut(v))
      BY <2>3, Finalizer DEF FinalizeStep
    <3> QED
      BY <1>1, <2>1, <3>1 DEF FinalizeSteps
  <2> QED
    BY <2>1, <2>2, <2>3, ErrorMoves DEF CreateVideo
<1>2. ASSUME Preparing(w, "claim")' PROVE worker'[w].seen.error = video'[Subject(w)'].error
  <2>1. CASE worker'[w] = worker[w]
    <3>1. PICK v : v = Subject(w)
      OBVIOUS
    <3>2. Preparing(w, "claim") /\ Subject(w)' = v
      BY <1>2, <2>1, <3>1 DEF Preparing, At, Doing, Subject
    <3>3. v \in Videos /\ Preps(w, v) /\ worker[w].pc = "claim"
      BY <3>1, <3>2, SubjectType, UnchangedTypes DEF Preparing, At, Doing, Preps, Subject
    <3>4. worker[w].seen.error = video[v].error
      BY <3>1, <3>2 DEF SumInv, CountFits
    <3> QED
      BY <1>1, <2>1, <3>1, <3>2, <3>3, <3>4
  <2>2. CASE PrepareStep(w) \/ PrepareFault(w)
    <3>1. ReadVideo(w)
      <4>1. worker'[w].pc = "claim"
        BY <1>2 DEF Preparing, At
      <4> QED
        BY <2>2, <4>1, PrepareSlots, ReturnSlot
           DEF PrepareStep, PrepareFault, StageFails, RetryProcess, Dispatch, RetryProcessFails,
               DispatchFails, PrepareCommitFails
    <3>2. worker'[w].pc = "claim" /\ worker'[w].seen = video[Subject(w)]
          /\ worker'[w].msg = worker[w].msg
      BY <1>2, <3>1, PrepareSlots DEF Preparing, At
    <3> QED
      BY <3>1, <3>2 DEF ReadVideo, tables, Subject
  <2>3. CASE FinalizeStep(w) \/ FinalizeFault(w)
    BY <1>2, <2>3, FinalizeFrame DEF Preparing, At
  <2>4. CASE RenderStep(w) \/ RenderFault(w)
    <3>1. CASE Doing(w, "render_clip")
      BY <1>2, <2>4, <3>1, RenderFrame DEF Preparing, Doing
    <3>2. CASE Report(w) \/ ReportFailure(w)
      BY <1>2, <3>2, ReturnSlot DEF Report, ReportFailure, Preparing, At
    <3> QED
      BY <2>4, <3>1, <3>2, RenderFrame
  <2>5. CASE Deliver(w)
    BY <1>2, <2>5, DeliverStarts DEF Preparing, At
  <2>6. CASE Ack(w) \/ Crash(w) \/ Kill(w)
    BY <1>2, <2>6, BecomeSlot DEF Ack, Crash, Kill, Preparing, At, Idle
  <2> QED
    BY <2>1, <2>2, <2>3, <2>4, <2>5, <2>6, SlotKept
<1>3. ASSUME Finalizing(w, "mark_finalized")'
      PROVE  /\ worker'[w].tally = Tally(Subject(w))'
             /\ worker'[w].seen.status \in {"running", "completed"}
             /\ worker'[w].seen.status = "running" => worker'[w].seen.error = "none"
  <2>0. PICK v : v = Subject(w)
    OBVIOUS
  <2>1. CASE worker'[w] = worker[w]
    <3>1. Finalizing(w, "mark_finalized") /\ Subject(w)' = v
      BY <1>3, <2>0, <2>1 DEF Finalizing, At, Doing, Subject
    <3>2. v \in Videos /\ CountFits(w)
      BY <2>0, <3>1, SubjectType, UnchangedTypes DEF Finalizing, SumInv
    <3>3. Tally(v)' = Tally(v)
      <4>1. CASE Doing(w, "finalize_video")
        BY <2>0, <3>2, <4>1, FinalizesBody, TallyKept
      <4>2. CASE Doing(w, "process_video")
        <5>1. Preps(w, v) /\ Preps(w, v)' /\ worker[w].pc = "mark_finalized"
          BY <2>0, <2>1, <3>1, <4>2 DEF Finalizing, At, Doing, Preps, Subject
        <5>2. PrepareFits(w, v) /\ PrepareFits(w, v)'
          BY <3>2 DEF OnceInv, Once
        <5>3. ClipsOf(v) = {} /\ ClipsOf(v)' = {}
          BY <2>1, <5>1, <5>2 DEF PrepareFits, FinalizeSteps
        <5> QED
          BY <5>3, SameTally
      <4> QED
        BY <3>1, <4>1, <4>2 DEF Finalizing
    <3>4. Tally(Subject(w))' = Tally(v)'
      BY <3>1
    <3> QED
      BY <2>0, <2>1, <3>1, <3>2, <3>3, <3>4 DEF CountFits
  <2>2. CASE FinalizeStep(w) \/ FinalizeFault(w)
    <3>1. ReadClips(w)
      BY <1>3, <2>2, FinalizeSlots DEF FinalizeStep, Finalizing, At
    <3>2. /\ worker'[w].msg = worker[w].msg /\ worker'[w].seen = video[v]
          /\ worker'[w].tally = Tally(v) /\ v \in Videos
      BY <2>0, <2>2, <3>1, FinalizeSlots, FinalizeFrame
    <3>3. clip' = clip /\ Subject(w)' = v
      BY <2>0, <3>1, <3>2 DEF ReadClips, tables, Subject
    <3>4. Tally(v)' = Tally(v)
      BY <3>3, SameTally DEF ClipsOf
    <3>5. Tally(Subject(w))' = Tally(v)'
      BY <3>3
    <3>6. Once(v) /\ SumFits(v) /\ (Preps(w, v) \/ BodyOut(v)) /\ worker[w].pc = "read_clips"
      BY <2>0, <2>2, <3>1, <3>2, Finalizer DEF OnceInv, SumInv, ReadClips, Finalizing, At
    <3>7. video[v].status \in {"running", "completed"}
      BY <3>6 DEF Once, PrepareFits, RowFits, BodyOut
    <3> QED
      BY <3>2, <3>4, <3>5, <3>6, <3>7 DEF SumFits
  <2>3. CASE PrepareStep(w) \/ PrepareFault(w)
    BY <1>3, <2>3, PrepareFrame DEF Finalizing, At
  <2>4. CASE RenderStep(w) \/ RenderFault(w)
    <3>1. CASE Doing(w, "render_clip")
      BY <1>3, <2>4, <3>1, RenderFrame DEF Finalizing, Doing
    <3>2. CASE Report(w) \/ ReportFailure(w)
      BY <1>3, <3>2, ReturnSlot DEF Report, ReportFailure, Finalizing, At
    <3> QED
      BY <2>4, <3>1, <3>2, RenderFrame
  <2>5. CASE Deliver(w)
    BY <1>3, <2>5, DeliverStarts DEF Finalizing, At
  <2>6. CASE Ack(w) \/ Crash(w) \/ Kill(w)
    BY <1>3, <2>6, BecomeSlot DEF Ack, Crash, Kill, Finalizing, At, Idle
  <2> QED
    BY <2>1, <2>2, <2>3, <2>4, <2>5, <2>6, SlotKept
<1> QED
  BY <1>2, <1>3 DEF CountFits

(* orchestrator.finalize_video counts the failed clips and writes what it  *)
(* counted to video.error: the error of a completed video says whether     *)
(* none, some or all of its clips failed, and nothing of the attempts      *)
(* before.  No clip changes between the count and the commit or after it,  *)
(* and the claim clears what an earlier attempt left.                      *)
THEOREM SummaryTrue == DeliveredOnce => (Spec => []SummaryMatches)
<1> SUFFICES ASSUME DeliveredOnce PROVE Spec => []SummaryMatches
  OBVIOUS
<1>1. Init => SumInv
  BY DEF Init, SumInv, SumFits, CountFits, NewVideo, Preparing, Finalizing, At, Idle
<1>2. ASSUME TypeInv, ChordInv, OnceInv, OnceInv', RenderInv, SumInv, [Next]_vars PROVE SumInv'
  BY <1>2, SumFitsKept, CountFitsKept DEF SumInv
<1>3. SumInv => SummaryMatches
  BY DEF SumInv, SumFits, SummaryMatches
<1>4. DeliveredOnce => PreparedOnce
  BY OnceToo
<1> QED
  BY <1>1, <1>2, <1>3, <1>4, TypesHold, ChordHolds, OnceHolds, RendersHold, PTL DEF Spec

----------------------------------------------------------------------------
(* The intermediates.  When nothing is purged by age, a render has its     *)
(* video's source, and finds in its directory what the stage before wrote. *)

SourceFits(c) == Carried(c) => VideoOf(c) \in source
DirFits(w, c) ==
  Rend(w, c) =>
    /\ worker[w].pc \in {"cut", "reframe", "burn", "package"} => <<c, "dir">> \in files
    /\ worker[w].pc = "reframe" => <<c, "cut">> \in files
    /\ worker[w].pc = "burn" => <<c, "framed">> \in files
FilesInv ==
  \A c \in ClipIds : SourceFits(c) /\ \A w \in Workers : DirFits(w, c)

(* While a render of a clip is out only that render removes its files.     *)
LEMMA FilesStay ==
  ASSUME DeliveredOnce, "purge" \notin Events, TypeInv, ChordInv, OnceInv, RenderInv,
         [Next]_vars, NEW c \in ClipIds, Carried(c)
  PROVE  /\ VideoOf(c) \in source => VideoOf(c) \in source'
         /\ \/ \A k : <<c, k>> \in files => <<c, k>> \in files'
            \/ \E w \in Workers : Rend(w, c) /\ (RemoveDir(w) \/ HandleRenderError(w))
<1>1. Outstanding(c) /\ BrokenIsOver
  BY DEF RenderInv, OneRender
<1>2. ASSUME NEW w \in Workers, Empties(w), Subject(w) = VideoOf(c) PROVE FALSE
  BY <1>1, <1>2, NoFinalizer DEF Empties, FinalizeStep, FinalizeFault
<1>3. ASSUME NEW w \in Workers, Empties(w), Subject(w) # VideoOf(c)
      PROVE  /\ VideoOf(c) \in source => VideoOf(c) \in source'
             /\ \A k : <<c, k>> \in files => <<c, k>> \in files'
  BY <1>3 DEF Empties, DirsOf
<1>4. ASSUME NEW w \in Workers, RemoveDir(w) \/ HandleRenderError(w), Target(w) = c
      PROVE  Rend(w, c)
  BY <1>4 DEF RemoveDir, HandleRenderError, Rendering, Rend, At
<1>5. ASSUME NEW w \in Workers, files' = files \ DirOf(Target(w)), Target(w) # c
      PROVE  \A k : <<c, k>> \in files => <<c, k>> \in files'
  BY <1>5 DEF DirOf
<1> QED
  BY <1>2, <1>3, <1>4, <1>5, DiskMoves

LEMMA SourceFitsKept ==
  ASSUME DeliveredOnce, "purge" \notin Events, TypeInv, ChordInv, OnceInv, RenderInv, SourceInv,
         FilesInv, [Next]_vars, NEW c \in ClipIds
  PROVE  SourceFits(c)'
<1>1. ASSUME Carried(c) PROVE SourceFits(c)'
  BY <1>1, FilesStay DEF FilesInv, SourceFits
<1>2. ASSUME NEW w \in Workers, Dispatch(w) \/ DispatchFails(w), c \in OwnClips(w)
      PROVE  VideoOf(c) \in source'
  <2>1. PICK v : v = Subject(w)
    OBVIOUS
  <2>2. Preps(w, v) /\ v \in Videos /\ VideoOf(c) = v
    BY <1>2, <2>1, PrepareDoes, OwnClipsOf DEF PrepareStep, PrepareFault
  <2>3. worker[w].pc = "dispatch" /\ source' = source
    BY <1>2 DEF Dispatch, DispatchFails, Preparing, At, disk
  <2> QED
    BY <2>2, <2>3 DEF SourceInv, PastIngest
<1> QED
  BY <1>1, <1>2, CarriedFrom DEF SourceFits

LEMMA DirFitsKept ==
  ASSUME DeliveredOnce, "purge" \notin Events, TypeInv, ChordInv, OnceInv, RenderInv, FilesInv,
         [Next]_vars, NEW c \in ClipIds, NEW w \in Workers, Rend(w, c)'
  PROVE  DirFits(w, c)'
<1> DEFINE Busy == {"cut", "reframe", "burn", "package"}
<1>1. CASE worker'[w].pc \notin Busy
  BY <1>1 DEF DirFits
<1>2. ASSUME Rend(w, c), ~ RemoveDir(w), ~ HandleRenderError(w)
      PROVE  \A k : <<c, k>> \in files => <<c, k>> \in files'
  <2>1. Carried(c) /\ Single(c)
    BY <1>2 DEF Carried, RenderInv, OneRender
  <2> QED
    BY <1>2, <2>1, FilesStay DEF Single
<1>3. ASSUME Rend(w, c), worker'[w] = worker[w], ~ RemoveDir(w), ~ HandleRenderError(w)
      PROVE  DirFits(w, c)'
  BY <1>2, <1>3 DEF FilesInv, DirFits
<1>4. ASSUME Rend(w, c), RenderStep(w) \/ RenderFault(w), worker'[w].pc \in Busy
      PROVE  DirFits(w, c)'
  <2>1. Target(w) = c /\ DirFits(w, c) /\ worker[w].pc # "ack"
    BY <1>4 DEF Rend, FilesInv
  <2>2. CASE MakeDir(w)
    <3>1. worker'[w].pc = "cut" /\ <<c, "dir">> \in files'
      BY <2>1, <2>2, RenderSlots DEF MakeDir
    <3> QED
      BY <3>1 DEF DirFits
  <2>3. CASE Cut(w)
    <3>1. worker'[w].pc = "reframe" /\ <<c, "cut">> \in files' /\ <<c, "dir">> \in files'
      BY <2>1, <2>3, RenderSlots DEF Cut
    <3> QED
      BY <3>1 DEF DirFits
  <2>4. CASE Reframe(w)
    <3>1. worker[w].pc = "reframe" /\ files \subseteq files'
      BY <2>4 DEF Reframe, Rendering, At
    <3>2. worker'[w].pc = "burn" /\ <<c, "framed">> \in files'
      BY <2>1, <2>4, RenderSlots DEF Reframe
    <3>3. <<c, "dir">> \in files
      BY <1>4, <2>1, <3>1 DEF DirFits
    <3> QED
      BY <3>1, <3>2, <3>3 DEF DirFits
  <2>5. CASE Burn(w)
    <3>1. worker[w].pc = "burn" /\ files' = files
      BY <2>5 DEF Burn, Rendering, At
    <3>2. worker'[w].pc = "package" /\ <<c, "dir">> \in files
      BY <1>4, <2>1, <2>5, <3>1, RenderSlots DEF DirFits
    <3> QED
      BY <3>1, <3>2 DEF DirFits
  <2>6. /\ ~ ReadClip(w) /\ ~ MarkRendering(w) /\ ~ Package(w) /\ ~ MarkCompleted(w)
        /\ ~ RemoveDir(w) /\ ~ HandleRenderError(w) /\ ~ CountRetry(w) /\ ~ RetryRender(w)
        /\ ~ Report(w) /\ ~ ReportFailure(w) /\ ~ RenderFault(w)
        /\ \A e \in Errors : ~ RenderFails(w, e)
    BY <1>4, RenderSlots
  <2> QED
    BY <1>4, <2>2, <2>3, <2>4, <2>5, <2>6 DEF RenderStep
<1>5. ASSUME RemoveDir(w) \/ HandleRenderError(w) PROVE worker'[w].pc \notin Busy
  BY <1>5, RenderSlots
<1> QED
  BY <1>1, <1>3, <1>4, <1>5, SlotFrom

LEMMA FilesHold == DeliveredOnce /\ "purge" \notin Events => (Spec => []FilesInv)
<1> SUFFICES ASSUME DeliveredOnce, "purge" \notin Events PROVE Spec => []FilesInv
  OBVIOUS
<1>1. Init => FilesInv
  BY DEF Init, FilesInv, SourceFits, DirFits, Carried, InQueue, Rend, Idle
<1>2. ASSUME TypeInv, ChordInv, OnceInv, RenderInv, SourceInv, FilesInv, [Next]_vars
      PROVE  FilesInv'
  <2>1. ASSUME NEW c \in ClipIds, NEW w \in Workers PROVE DirFits(w, c)'
    BY <1>2, DirFitsKept DEF DirFits
  <2> QED
    BY <1>2, <2>1, SourceFitsKept DEF FilesInv
<1>3. DeliveredOnce => PreparedOnce
  BY OnceToo
<1> QED
  BY <1>1, <1>2, <1>3, TypesHold, ChordHolds, OnceHolds, RendersHold, SourceHolds, PTL DEF Spec

(* Each stage of a render finds the file that the stage before it wrote,   *)
(* and the cut its source: neither the cleanup of another clip nor that of *)
(* a finalized video takes them away under a render.                       *)
THEOREM StagesFindInputs ==
  DeliveredOnce /\ "purge" \notin Events => (Spec => []StageInputsExist)
<1>1. ASSUME TypeInv, FilesInv PROVE StageInputsExist
  <2> SUFFICES ASSUME NEW w \in Workers, Doing(w, "render_clip"), worker[w].pc \notin {"idle", "ack"}
               PROVE  /\ Rendering(w, "cut") =>
                           VideoOf(Target(w)) \in source /\ <<Target(w), "dir">> \in files
                      /\ Rendering(w, "reframe") => <<Target(w), "cut">> \in files
                      /\ Rendering(w, "burn") => <<Target(w), "framed">> \in files
    BY DEF StageInputsExist, Rendering, At
  <2>1. PICK c : c = Target(w)
    OBVIOUS
  <2>2. Rend(w, c) /\ c \in ClipIds
    BY <1>1, <2>1, TargetType, UnchangedTypes DEF Rend
  <2>3. SourceFits(c) /\ DirFits(w, c) /\ Carried(c)
    BY <1>1, <2>2 DEF FilesInv, Carried
  <2> QED
    BY <2>1, <2>2, <2>3 DEF SourceFits, DirFits, Rendering, At
<1> QED
  BY <1>1, TypesHold, FilesHold, PTL

(* "unless the operator opted to keep failures around for debugging":      *)
(* with KeepOnFailure the directory of a failed clip is on disk until its  *)
(* video is finalized.                                                     *)
THEOREM FailedDirStays ==
  DeliveredOnce /\ "purge" \notin Events => (Spec => []FailedDirKept)
<1> SUFFICES ASSUME DeliveredOnce, "purge" \notin Events PROVE Spec => []FailedDirKept
  OBVIOUS
<1>1. Init => FailedDirKept
  BY DEF Init, FailedDirKept
<1>2. ASSUME TypeInv, ChordInv, OnceInv, RenderInv, RowsInv, FilesInv, FailedDirKept, [Next]_vars
      PROVE  FailedDirKept'
  <2> SUFFICES ASSUME KeepOnFailure, NEW c \in DOMAIN clip', clip'[c].status = "failed",
                      video'[VideoOf(c)].status = "running"
               PROVE  <<c, "dir">> \in files'
    BY DEF FailedDirKept
  <2>1. c \in DOMAIN clip
    BY <1>2, RowChanges DEF NewClip
  <2>2. PICK v : v = VideoOf(c)
    OBVIOUS
  <2>3. c \in ClipIds /\ v \in Videos /\ Once(v) /\ c \in ClipsOf(v)
    BY <1>2, <2>1, <2>2, ClipIdParts DEF TypeInv, TypeOK, TablesOK, OnceInv, ClipsOf
  <2>4. video[v].status = "running"
    <3>1. ASSUME NEW w \in Workers, Subject(w) = v, ClaimVideo(w) PROVE FALSE
      <4>1. Preps(w, v) /\ worker[w].pc = "claim"
        BY <1>2, <3>1, PrepareDoes DEF PrepareStep, ClaimVideo, Preparing, At
      <4> QED
        BY <2>3, <4>1 DEF Once, PrepareFits, RowFits
    <3> QED
      BY <1>2, <2>2, <2>3, <3>1, StatusMoves
  <2>5. ASSUME clip[c].status = "failed" PROVE <<c, "dir">> \in files'
    <3>1. <<c, "dir">> \in files
      BY <1>2, <2>1, <2>2, <2>4, <2>5 DEF FailedDirKept
    <3>2. ASSUME NEW w \in Workers, Empties(w)
          PROVE  <<c, "dir">> \in files'
      <4>1. Finalizing(w, "remove_workspace")
        BY <3>2 DEF Empties, RemoveWorkspace, RemoveWorkspaceFails
      <4>2. Subject(w) # v
        BY <2>3, <2>4, <4>1 DEF Once, FinalizeFits
      <4> QED
        BY <2>2, <3>1, <3>2, <4>2 DEF Empties, DirsOf
    <3>3. ASSUME NEW w \in Workers, RemoveDir(w), files' = files \ DirOf(Target(w))
          PROVE  <<c, "dir">> \in files'
      <4>1. ASSUME Target(w) = c PROVE FALSE
        <5>1. Rend(w, c) /\ worker[w].pc = "remove_dir"
          BY <3>3, <4>1 DEF RemoveDir, Rendering, Rend, At
        <5> QED
          BY <1>2, <2>1, <2>5, <5>1 DEF RowsInv, RowKept
      <4> QED
        BY <3>1, <3>3, <4>1 DEF DirOf
    <3> QED
      BY <1>2, <3>1, <3>2, <3>3, DiskMoves
  <2>6. ASSUME NEW w \in Workers, WritesRow(w), Target(w) = c, Rend(w, c)
        PROVE  <<c, "dir">> \in files'
    <3>1. CASE MarkRendering(w)
      <4>1. worker[w].pc = "mark_rendering"
        BY <3>1 DEF MarkRendering, Rendering, At
      <4>2. worker[w].seen = clip[c]
        BY <1>2, <2>1, <2>6, <4>1 DEF RowsInv, RowKept
      <4>3. clip'[c].status = Flushed(clip[c].status, worker[w].seen.status, "rendering")
        BY <1>2, <2>1, <2>6, <3>1, RowWritten
      <4> QED
        BY <4>2, <4>3 DEF Flushed
    <3>2. CASE MarkCompleted(w)
      BY <1>2, <2>1, <2>6, <3>2, RowWritten
    <3>3. CASE CountRetry(w)
      BY <1>2, <2>1, <2>5, <2>6, <3>3, RowWritten
    <3>4. ASSUME NEW e \in Errors, RenderFails(w, e) PROVE <<c, "dir">> \in files'
      <4>1. worker[w].pc \in {"cut", "reframe", "burn", "package"} /\ files' = files
        BY <3>4 DEF RenderFails, Rendering, At, disk
      <4> QED
        BY <1>2, <2>3, <2>6, <4>1 DEF FilesInv, DirFits
    <3> QED
      BY <2>6, <3>1, <3>2, <3>3, <3>4 DEF WritesRow
  <2> QED
    BY <1>2, <2>1, <2>5, <2>6, OwnRow
<1>3. DeliveredOnce => PreparedOnce
  BY OnceToo
<1> QED
  BY <1>1, <1>2, <1>3, TypesHold, ChordHolds, OnceHolds, RendersHold, RowsHold, FilesHold, PTL
     DEF Spec

----------------------------------------------------------------------------
(* The lifecycle.  What a render has begun it brings to an end, when       *)
(* no commit fails and no directory is refused.                            *)

Undisturbed == Events \subseteq {"broker", "kill", "purge"}

DoneFits(c) ==
  /\ clip[c].status \in {"selected", "rendering"} => Pending(c)
  /\ \A w \in Workers : Preps(w, VideoOf(c)) => clip[c].status = "selected"
  /\ InQueue(c) => clip[c].status \in {"selected", "failed"}
  /\ \A w \in Workers : Rend(w, c) =>
       /\ worker[w].pc \in {"start", "mark_rendering"} =>
            clip[c].status \in {"selected", "failed"}
       /\ worker[w].pc \in {"report", "report_failure"} =>
            clip[c].status \in {"completed", "failed"}
DoneInv == \A c \in DOMAIN clip : DoneFits(c)

LEMMA PrepsFrom ==
  ASSUME TypeInv, [Next]_vars, NEW w \in Workers, NEW v, Preps(w, v)', worker'[w].pc # "start"
  PROVE  Preps(w, v)
<1>1. worker'[w].msg.task = "process_video" /\ worker'[w].pc \notin {"idle", "ack", "start"}
  BY DEF Preps
<1>2. CASE PrepareStep(w) \/ PrepareFault(w)
  BY <1>2, PrepareDoes, PrepareFrame DEF Preps, Subject
<1>3. CASE FinalizeStep(w) \/ FinalizeFault(w)
  BY <1>3, FinalizeFrame DEF Preps, At
<1>4. CASE RenderStep(w) \/ RenderFault(w)
  <2>1. CASE Doing(w, "render_clip")
    BY <1>1, <1>4, <2>1, RenderFrame DEF Doing
  <2>2. CASE Report(w) \/ ReportFailure(w)
    BY <1>1, <2>2, ReturnSlot DEF Report, ReportFailure
  <2> QED
    BY <1>4, <2>1, <2>2, RenderFrame
<1>5. CASE Deliver(w)
  <2>1. PICK m \in ready : worker'[w].msg = m /\ worker'[w].pc = FirstStep[m.task]
    BY <1>5, DeliverSlot
  <2> QED
    BY <1>1, <2>1 DEF FirstStep
<1>6. CASE Ack(w) \/ Crash(w) \/ Kill(w)
  BY <1>1, <1>6, BecomeSlot DEF Ack, Crash, Kill, Idle
<1>7. CASE worker'[w] = worker[w]
  BY <1>7 DEF Preps
<1> QED
  BY <1>2, <1>3, <1>4, <1>5, <1>6, <1>7, SlotKept

(* A clip that has a render is pending.                                    *)
LEMMA CarriedPending ==
  ASSUME TypeInv, ChordInv, OnceInv, RenderInv, NEW c \in ClipIds, Carried(c)
  PROVE  Pending(c) /\ \A w \in Workers : ~ Preps(w, VideoOf(c))
<1>1. Outstanding(c) /\ BrokenIsOver
  BY DEF RenderInv, OneRender
<1> QED
  BY <1>1, NoFinalizer DEF Pending, Outstanding, Free

(* A row that no render writes in a step stays; a new one has no render.   *)
LEMMA NewUnrendered ==
  ASSUME DeliveredOnce, TypeInv, KnownClips, [Next]_vars, NEW c, c \notin DOMAIN clip
  PROVE  ~ InQueue(c)' /\ \A w \in Workers : ~ Rend(w, c)'
<1>1. ASSUME NEW w \in Workers, Rend(w, c) PROVE FALSE
  BY <1>1 DEF Rend, KnownClips, Doing, Target, At
<1>2. ASSUME NEW m \in ready, Renders(m, c) PROVE FALSE
  BY <1>2 DEF Renders, KnownClips
<1>3. ASSUME NEW w \in Workers, Rend(w, c)' PROVE FALSE
  BY <1>1, <1>2, <1>3, SlotFrom
<1>4. ASSUME NEW m \in ready', Renders(m, c) PROVE FALSE
  BY <1>1, <1>2, <1>4, QueueFrom, OwnClipsOf
<1> QED
  BY <1>3, <1>4 DEF InQueue

LEMMA DoneStatusKept ==
  ASSUME Undisturbed, DeliveredOnce, TypeInv, ChordInv, OnceInv, RenderInv, RowsInv, DoneInv,
         [Next]_vars, NEW c \in DOMAIN clip, clip'[c].status \in {"selected", "rendering"}
  PROVE  Pending(c)'
<1>1. c \in ClipIds /\ Single(c) /\ DoneFits(c) /\ PreparedOnce
  BY OnceToo DEF TypeInv, TypeOK, TablesOK, RenderInv, OneRender, DoneInv
<1>2. ASSUME NEW w \in Workers, Report(w), CarriedBy(c, worker[w].msg)
      PROVE  Rend(w, c) /\ worker[w].pc = "report" /\ clip[c].status \in {"completed", "failed"}
  <2>1. Rend(w, c) /\ worker[w].pc = "report"
    BY <1>2 DEF Report, CarriedBy, IsPart, Rend, Doing, Target, At
  <2> QED
    BY <1>1, <2>1 DEF DoneFits
<1>3. CASE clip[c].status \in {"selected", "rendering"}
  BY <1>1, <1>2, <1>3, PendingKept DEF DoneFits
<1>4. CASE clip'[c].status # clip[c].status
  <2>1. PICK w \in Workers : WritesRow(w) /\ Target(w) = c /\ Rend(w, c)
    BY <1>4, OwnRow
  <2>2. Pending(c)
    BY <1>1, <2>1, CarriedPending DEF Carried
  <2>3. ASSUME NEW x \in Workers, Report(x), CarriedBy(c, worker[x].msg) PROVE FALSE
    <3>1. x = w /\ worker[w].pc = "report"
      BY <1>1, <1>2, <2>1, <2>3 DEF Single
    <3> QED
      BY <2>1, <3>1 DEF WritesRow, MarkRendering, MarkCompleted, CountRetry, RenderFails,
                        Rendering, At
  <2> QED
    BY <1>1, <2>2, <2>3, PendingKept
<1>5. clip[c] \in ClipRow
  BY DEF TypeInv, TypeOK, TablesOK
<1> QED
  BY <1>3, <1>4

LEMMA DoneKept ==
  ASSUME Undisturbed, DeliveredOnce, TypeInv, ChordInv, OnceInv, OnceInv', RenderInv, KnownClips,
         ClipHasTranscript, RowsInv, DoneInv, [Next]_vars, NEW c \in DOMAIN clip'
  PROVE  DoneFits(c)'
<1>1. CASE c \notin DOMAIN clip
  <2>1. PICK w \in Workers : Analyze(w) /\ VideoOf(c) = Subject(w) /\ clip'[c] = NewClip
    BY <1>1, RowChanges
  <2>2. Pending(c)'
    BY <2>1, NewPending
  <2>3. clip'[c].status = "selected"
    BY <2>1 DEF NewClip
  <2> QED
    BY <1>1, <2>2, <2>3, NewUnrendered DEF DoneFits
<1>2. CASE c \in DOMAIN clip
  <2>1. /\ c \in ClipIds /\ Single(c) /\ DoneFits(c) /\ VideoOf(c) \in Videos
        /\ c \in DOMAIN clip'
    BY <1>2, ClipIdParts DEF TypeInv, TypeOK, TablesOK, RenderInv, OneRender, DoneInv
  <2>2. clip'[c].status \in {"selected", "rendering"} => Pending(c)'
    BY <1>2, DoneStatusKept
  <2>3. ASSUME \A w \in Workers : Rend(w, c) => ~ WritesRow(w) PROVE clip'[c] = clip[c]
    BY <1>2, <2>3, OwnRow
  <2>4. ASSUME NEW w \in Workers, Preps(w, VideoOf(c))' PROVE clip'[c].status = "selected"
    <3>1. PICK v : v = VideoOf(c)
      OBVIOUS
    <3>2. c \in ClipsOf(v)' /\ Once(v)' /\ v \in Videos
      BY <2>1, <3>1 DEF ClipsOf, OnceInv
    <3>3. worker'[w].pc # "start"
      BY <2>4, <3>1, <3>2 DEF Once, PrepareFits, RowFits
    <3>4. Preps(w, v)
      BY <2>4, <3>1, <3>3, PrepsFrom
    <3>5. clip[c].status = "selected"
      BY <2>1, <3>1, <3>4 DEF DoneFits
    <3>6. ASSUME NEW x \in Workers, Rend(x, c) PROVE FALSE
      BY <2>1, <3>1, <3>4, <3>6, CarriedPending DEF Carried
    <3> QED
      BY <2>3, <3>5, <3>6
  <2>5. ASSUME InQueue(c)' PROVE clip'[c].status \in {"selected", "failed"}
    <3>1. PICK m \in ready' : Renders(m, c)
      BY <2>5 DEF InQueue
    <3>2. CASE m \in ready
      BY <2>1, <2>3, <3>1, <3>2 DEF InQueue, Single, DoneFits
    <3>3. ASSUME NEW w \in Workers, Dispatch(w) \/ DispatchFails(w), c \in OwnClips(w)
          PROVE  clip'[c].status \in {"selected", "failed"}
      <4>1. Preps(w, VideoOf(c))
        BY <3>3, PrepareDoes, OwnClipsOf DEF PrepareStep, PrepareFault
      <4>2. clip' = clip
        BY <3>3 DEF Dispatch, DispatchFails, tables
      <4> QED
        BY <2>1, <4>1, <4>2 DEF DoneFits
    <3>4. ASSUME NEW w \in Workers, RetryRender(w), Rend(w, c)
          PROVE  clip'[c].status \in {"selected", "failed"}
      <4>1. worker[w].pc = "retry_render" /\ clip' = clip
        BY <3>4 DEF RetryRender, Rendering, At, tables
      <4> QED
        BY <1>2, <3>4, <4>1 DEF RowsInv, RowKept
    <3> QED
      BY <3>1, <3>2, <3>3, <3>4, QueueFrom
  <2>6. ASSUME NEW w \in Workers, Rend(w, c)'
        PROVE  /\ worker'[w].pc \in {"start", "mark_rendering"} =>
                    clip'[c].status \in {"selected", "failed"}
               /\ worker'[w].pc \in {"report", "report_failure"} =>
                    clip'[c].status \in {"completed", "failed"}
    <3>1. CASE Deliver(w) /\ worker'[w].msg \in ready /\ Renders(worker'[w].msg, c)
                 /\ worker'[w].pc = "start"
      <4>1. InQueue(c) /\ clip' = clip
        BY <3>1 DEF InQueue, Deliver, tables
      <4> QED
        BY <2>1, <3>1, <4>1 DEF DoneFits
    <3>2. ASSUME Rend(w, c), worker'[w] = worker[w],
                 worker[w].pc \in {"start", "mark_rendering", "report", "report_failure"}
          PROVE  clip'[c] = clip[c]
      <4>1. ~ WritesRow(w)
        <5>1. ~ MarkRendering(w)
          BY <3>2, RenderSlots
        <5> QED
          BY <3>2, <5>1 DEF WritesRow, MarkCompleted, CountRetry, RenderFails, Rendering, At
      <4> QED
        BY <2>1, <2>3, <3>2, <4>1 DEF Single
    <3>3. CASE Rend(w, c) /\ worker'[w] = worker[w]
      BY <2>1, <3>2, <3>3 DEF DoneFits
    <3>4. ASSUME Rend(w, c), RenderStep(w) \/ RenderFault(w)
          PROVE  /\ worker'[w].pc \in {"start", "mark_rendering"} =>
                      clip'[c].status \in {"selected", "failed"}
                 /\ worker'[w].pc \in {"report", "report_failure"} =>
                      clip'[c].status \in {"completed", "failed"}
      <4>1. Target(w) = c /\ RowKept(w, c)
        BY <1>2, <3>4 DEF Rend, RowsInv
      <4>2. CASE ReadClip(w)
        <5>1. worker[w].pc = "start" /\ clip' = clip /\ worker'[w].pc = "mark_rendering"
          BY <1>2, <4>1, <4>2, ReadSlot DEF ReadClip, Rendering, At, tables
        <5> QED
          BY <2>1, <3>4, <5>1 DEF DoneFits
      <4>3. CASE RemoveDir(w)
        <5>1. worker[w].pc = "remove_dir" /\ clip' = clip /\ worker'[w].pc = "report"
          BY <4>3, RenderSlots DEF RemoveDir, Rendering, At, tables
        <5> QED
          BY <3>4, <4>1, <5>1 DEF RowKept
      <4>4. CASE HandleRenderError(w)
        <5>1. worker[w].pc = "render_failed" /\ clip' = clip
          BY <4>4 DEF HandleRenderError, Rendering, At, tables
        <5>2. worker'[w].pc \in {"report", "count_retry"}
          BY <4>4, RenderSlots
        <5> QED
          BY <3>4, <4>1, <5>1, <5>2 DEF RowKept
      <4>5. CASE RenderFault(w)
        <5>1. RetryRenderFails(w)
          BY <4>5 DEF RenderFault, MakeDirFails, RenderCommitFails, CountRetryFails, Happens,
                      Undisturbed
        <5>2. worker[w].pc = "retry_render" /\ clip' = clip
          BY <5>1 DEF RetryRenderFails, Rendering, At, tables
        <5>3. worker'[w].pc \in {"report", "report_failure"}
          BY <4>5, RenderSlots
        <5> QED
          BY <3>4, <4>1, <5>2, <5>3 DEF RowKept
      <4>6. ASSUME ~ ReadClip(w), ~ RemoveDir(w), ~ HandleRenderError(w), RenderStep(w)
            PROVE  worker'[w].pc \notin {"start", "mark_rendering", "report", "report_failure"}
        BY <4>6, RenderSlots DEF RenderStep
      <4> QED
        BY <3>4, <4>2, <4>3, <4>4, <4>5, <4>6
    <3> QED
      BY <2>6, <3>1, <3>3, <3>4, SlotFrom
  <2> QED
    BY <2>2, <2>4, <2>5, <2>6 DEF DoneFits
<1> QED
  BY <1>1, <1>2

LEMMA DoneHolds == Undisturbed => (Spec => []DoneInv)
<1> SUFFICES ASSUME Undisturbed PROVE Spec => []DoneInv
  OBVIOUS
<1>1. Init => DoneInv
  BY DEF Init, DoneInv
<1>2. DeliveredOnce /\ PreparedOnce
  BY OnceToo DEF Undisturbed, DeliveredOnce
<1>3. ASSUME TypeInv, ChordInv, OnceInv, OnceInv', RenderInv, KnownClips, ClipHasTranscript,
             RowsInv, DoneInv, [Next]_vars
      PROVE  DoneInv'
  BY <1>2, <1>3, DoneKept DEF DoneInv
<1> QED
  BY <1>1, <1>2, <1>3, TypesHold, ChordHolds, OnceHolds, RendersHold, ClipsKnown,
     RenderInputsCommitted, RowsHold, PTL DEF Spec

----------------------------------------------------------------------------
(* Each step of the farm is a step of the lifecycle or hidden from it.     *)

VStat == [v \in Videos |-> video[v].status]
CStat == [c \in DOMAIN clip |-> clip[c].status]
VideosStill == \A v \in Videos : video'[v].status = video[v].status
ClipsStill == DOMAIN clip' = DOMAIN clip /\ \A c \in DOMAIN clip : clip'[c].status = clip[c].status
Hidden == VStat' = VStat /\ CStat' = CStat

LEMMA StillHidden ==
  /\ VideosStill => VStat' = VStat
  /\ ClipsStill => CStat' = CStat
BY DEF VideosStill, ClipsStill, VStat, CStat

LEMMA VideoMoves ==
  ASSUME NEW v \in Videos, \A u \in Videos \ {v} : video'[u] = video[u]
  PROVE  VStat' = [VStat EXCEPT ![v] = video'[v].status]
BY DEF VStat

LEMMA ClipMoves ==
  ASSUME NEW c \in DOMAIN clip, DOMAIN clip' = DOMAIN clip,
         \A d \in DOMAIN clip \ {c} : clip'[d] = clip[d]
  PROVE  CStat' = [CStat EXCEPT ![c] = clip'[c].status]
BY DEF CStat

(* The lifecycle's steps, on the mapped state.                             *)
LEMMA LifecycleSteps ==
  ASSUME NEW v \in Videos
  PROVE  /\ VStat[v] = video[v].status
         /\ {c \in DOMAIN CStat : c[1] = v} = ClipsOf(v)
         /\ \A c \in ClipsOf(v) : CStat[c] = clip[c].status
BY DEF VStat, CStat, ClipsOf, VideoOf

LEMMA VideoStepRefines ==
  ASSUME TypeInv, OnceInv, DoneInv, [Next]_vars, ClipsStill
  PROVE  Lifecycle!Next \/ Hidden
<1>1. CStat' = CStat
  BY StillHidden
<1> USE DEF Lifecycle!Next, Lifecycle!Move, Lifecycle!Of
<1>2. ASSUME NEW v \in Videos, CreateVideo(v) PROVE Lifecycle!Submit(v)
  <2>1. /\ video[v].status = "absent" /\ video'[v].status = "pending"
        /\ \A u \in Videos \ {v} : video'[u] = video[u]
    BY <1>2 DEF CreateVideo, NewVideo, TypeInv, TypeOK, TablesOK
  <2>2. VStat' = [VStat EXCEPT ![v] = "pending"] /\ VStat[v] = "absent"
    BY <2>1, VideoMoves, LifecycleSteps
  <2> QED
    BY <1>1, <2>2 DEF Lifecycle!Submit, VStat, CStat
<1>3. ASSUME NEW w \in Workers, NEW v \in Videos, Subject(w) = v,
             PrepareStep(w) \/ FinalizeStep(w)
      PROVE  VStat' = [VStat EXCEPT ![v] = video'[v].status]
  <2>1. ASSUME NEW u \in Videos \ {v} PROVE video'[u] = video[u]
    BY <1>3, <2>1, PrepareElsewhere, FinalizeFrame DEF Apart, Untouched
  <2> QED
    BY <2>1, VideoMoves
<1>4. ASSUME NEW w \in Workers, NEW v \in Videos, Subject(w) = v, ClaimVideo(w),
             video'[v].status = "running"
      PROVE  Lifecycle!Start(v)
  <2>1. Preps(w, v) /\ worker[w].pc = "claim"
    BY <1>4, PrepareDoes DEF PrepareStep, ClaimVideo, Preparing, At
  <2>2. video[v].status \in {"pending", "failed"}
    BY <2>1 DEF OnceInv, Once, PrepareFits
  <2>3. VStat' = [VStat EXCEPT ![v] = "running"] /\ VStat[v] \in {"pending", "failed"}
    BY <1>3, <1>4, <2>2, LifecycleSteps DEF PrepareStep
  <2> QED
    BY <1>1, <2>3 DEF Lifecycle!Start, VStat, CStat
<1>5. ASSUME NEW w \in Workers, NEW v \in Videos, Subject(w) = v,
             \E e \in Errors : StageFails(w, e), video'[v].status = "failed"
      PROVE  Lifecycle!Abort(v)
  <2>1. PrepareStep(w) /\ Preps(w, v) /\ worker[w].pc = "stage"
    BY <1>5, PrepareDoes DEF PrepareStep, StageFails, Preparing, At
  <2>2. video[v].status = "running" /\ ClipsOf(v) = {}
    BY <2>1 DEF OnceInv, Once, PrepareFits
  <2>3. VStat' = [VStat EXCEPT ![v] = "failed"] /\ VStat[v] = "running"
        /\ {c \in DOMAIN CStat : c[1] = v} = {}
    BY <1>3, <1>5, <2>1, <2>2, LifecycleSteps
  <2> QED
    BY <1>1, <2>3 DEF Lifecycle!Abort, VStat, CStat
<1>6. ASSUME NEW w \in Workers, NEW v \in Videos, Subject(w) = v, MarkFinalized(w),
             video'[v].status = "completed", video[v].status # "completed"
      PROVE  Lifecycle!Complete(v)
  <2>1. worker[w].pc = "mark_finalized" /\ (Preps(w, v) \/ BodyOut(v))
    BY <1>6, Finalizer DEF FinalizeStep, MarkFinalized, Finalizing, At
  <2>2. video[v].status = "running"
    BY <1>6, <2>1 DEF OnceInv, Once, PrepareFits, RowFits, BodyOut
  <2>3. ASSUME NEW c \in ClipsOf(v) PROVE clip[c].status \in {"completed", "failed"}
    <3>1. c \in DOMAIN clip /\ VideoOf(c) = v /\ clip[c] \in ClipRow
      BY <2>3 DEF ClipsOf, TypeInv, TypeOK, TablesOK
    <3>2. BodyOut(v)
      BY <2>1, <2>3 DEF OnceInv, Once, PrepareFits, FinalizeSteps
    <3>3. clip[c].status \notin {"selected", "rendering"}
      BY <3>1, <3>2 DEF DoneInv, DoneFits, Pending
    <3> QED
      BY <3>1, <3>3 DEF ClipRow, ClipStatus
  <2>4. /\ VStat' = [VStat EXCEPT ![v] = "completed"] /\ VStat[v] = "running"
        /\ \A c \in {d \in DOMAIN CStat : d[1] = v} : CStat[c] \in {"completed", "failed"}
    BY <1>3, <1>6, <2>2, <2>3, LifecycleSteps DEF FinalizeStep
  <2> QED
    BY <1>1, <2>4 DEF Lifecycle!Complete, VStat, CStat
<1>7. CASE VideosStill
  BY <1>1, <1>7, StillHidden DEF Hidden
<1>8. ASSUME NEW v \in Videos, video'[v].status # video[v].status PROVE Lifecycle!Next
  BY <1>2, <1>4, <1>5, <1>6, <1>8, StatusMoves
<1> QED
  BY <1>7, <1>8 DEF VideosStill

LEMMA SelectRefines ==
  ASSUME TypeInv, OnceInv, RunsInv, NEW w \in Workers, Analyze(w)
  PROVE  Lifecycle!Next
<1>1. PICK v \in Videos : v = Subject(w)
  BY PrepareDoes DEF PrepareStep
<1>2. Preps(w, v) /\ worker[w].pc = "stage" /\ video' = video
  BY <1>1, PrepareDoes DEF PrepareStep, Analyze, Staging, Preparing, At
<1>3. video[v].status = "running" /\ ClipsOf(v) = {} /\ worker[w].run = runs[v]
  BY <1>2 DEF OnceInv, Once, PrepareFits
<1>4. worker[w].run \in 0 .. ProcessRetries + 1
  <2>1. /\ worker[w].msg.retries <= ProcessRetries /\ runs[v] <= worker[w].msg.retries + 1
        /\ worker[w].msg.retries \in Nat /\ runs[v] \in Nat /\ ProcessRetries \in Nat
    BY <1>2, RetriesType, FarmAssumption DEF RunsInv, RunsFit, TypeInv, TypeOK, TablesOK
  <2> QED
    BY <1>3, <2>1
<1>5. PICK n \in 0 .. MaxClips :
        clip' = Inserted(clip, {v} \X {worker[w].run} \X (1 .. n), NewClip)
  BY <1>1 DEF Analyze
<1>6. CStat' = [c \in DOMAIN CStat \cup ({v} \X {worker[w].run} \X (1 .. n)) |->
                  IF c \in DOMAIN CStat THEN CStat[c] ELSE "selected"]
  <2>1. \A c \in {v} \X {worker[w].run} \X (1 .. n) : c \notin DOMAIN clip
    BY <1>3 DEF ClipsOf, VideoOf
  <2> QED
    BY <1>5, <2>1 DEF CStat, Inserted, NewClip
<1>7. VStat' = VStat /\ VStat[v] = "running" /\ {c \in DOMAIN CStat : c[1] = v} = {}
  BY <1>2, <1>3, LifecycleSteps DEF VStat
<1> QED
  BY <1>4, <1>6, <1>7 DEF Lifecycle!Next, Lifecycle!Select, Lifecycle!Of, VStat, CStat

(* A write of one clip's row leaves everything else that shows.            *)
LEMMA RowAlone ==
  ASSUME TypeInv, NEW w \in Workers, NEW c \in DOMAIN clip, WritesRow(w), Target(w) = c
  PROVE  /\ DOMAIN clip' = DOMAIN clip /\ video' = video
         /\ \A d \in DOMAIN clip \ {c} : clip'[d] = clip[d]
<1>1. CASE MarkRendering(w) \/ MarkCompleted(w) \/ \E e \in Errors : RenderFails(w, e)
  BY <1>1 DEF MarkRendering, MarkCompleted, RenderFails
<1>2. CASE CountRetry(w)
  BY <1>2 DEF CountRetry
<1> QED
  BY <1>1, <1>2 DEF WritesRow

LEMMA ClipStepRefines ==
  ASSUME TypeInv, ChordInv, OnceInv, RenderInv, RowsInv, DoneInv, [Next]_vars,
         NEW w \in Workers, NEW c \in DOMAIN clip, WritesRow(w), Target(w) = c
  PROVE  Lifecycle!Next \/ Hidden
<1>1. /\ c \in ClipIds /\ DoneFits(c) /\ clip[c] \in ClipRow
      /\ VideoOf(c) \in Videos /\ VideoOf(c) = c[1]
  BY ClipIdParts DEF TypeInv, TypeOK, TablesOK, DoneInv, VideoOf
<1>2. Rend(w, c) /\ RowKept(w, c)
  BY DEF WritesRow, MarkRendering, MarkCompleted, CountRetry, RenderFails, Rendering, Rend, At,
         RowsInv
<1>3. video[VideoOf(c)].status = "running"
  BY <1>1, <1>2 DEF RenderInv, OneRender, Carried, Outstanding
<1>4. /\ VStat' = VStat /\ VStat[c[1]] = "running" /\ CStat[c] = clip[c].status
      /\ CStat' = [CStat EXCEPT ![c] = clip'[c].status] /\ c \in DOMAIN CStat
  BY <1>1, <1>3, RowAlone, ClipMoves DEF VStat, CStat
<1> USE DEF Lifecycle!Next, Lifecycle!MoveClip
<1>5. CASE MarkRendering(w)
  <2>1. worker[w].pc = "mark_rendering"
    BY <1>5 DEF MarkRendering, Rendering, At
  <2>2. worker[w].seen = clip[c] /\ clip[c].status \in {"selected", "failed"}
    BY <1>1, <1>2, <2>1 DEF RowKept, DoneFits
  <2>3. clip'[c].status = Flushed(clip[c].status, worker[w].seen.status, "rendering")
    BY <1>5, RowWritten
  <2>4. clip'[c].status = "rendering"
    BY <2>2, <2>3 DEF Flushed
  <2>5. Lifecycle!StartRender(c)
    BY <1>4, <2>2, <2>4 DEF Lifecycle!StartRender, VStat, CStat
  <2> QED
    BY <1>4, <2>5 DEF CStat
<1>6. CASE MarkCompleted(w) \/ \E e \in Errors : RenderFails(w, e)
  <2>1. worker[w].pc \in Encoding
    BY <1>6 DEF MarkCompleted, RenderFails, Rendering, At, Encoding
  <2>2. clip[c].status = "rendering"
    BY <1>2, <2>1 DEF RowKept
  <2>3. clip'[c].status \in {"completed", "failed"}
    BY <1>6, RowWritten
  <2>4. Lifecycle!EndRender(c)
    BY <1>4, <2>2, <2>3 DEF Lifecycle!EndRender, VStat, CStat
  <2> QED
    BY <1>4, <2>4 DEF CStat
<1>7. CASE CountRetry(w)
  <2>1. clip'[c].status = clip[c].status
    BY <1>7, RowWritten
  <2> QED
    BY <1>4, <2>1 DEF Hidden, CStat
<1> QED
  BY <1>5, <1>6, <1>7 DEF WritesRow

(* docs/ARCHITECTURE.md draws the life of a video and of its clips: a      *)
(* video is pending, running, then failed, to be retried, or completed for *)
(* good; its clips appear at once while it is running, are rendered only   *)
(* while it is, and all have ended when it completes.  While no worker     *)
(* dies, no commit or directory fails and nobody rerenders, that is all a  *)
(* client of the API ever sees, whatever is killed, purged, retried or not *)
(* published.                                                              *)
THEOREM FarmShowsLifecycle == Undisturbed => (Spec => LifecycleSpec)
<1> SUFFICES ASSUME Undisturbed PROVE Spec => LifecycleSpec
  OBVIOUS
<1>1. DeliveredOnce /\ PreparedOnce
  BY OnceToo DEF Undisturbed, DeliveredOnce
<1>2. Init => Lifecycle!Init
  <2> SUFFICES ASSUME Init PROVE VStat = [v \in Videos |-> "absent"] /\ CStat = << >>
    BY DEF Lifecycle!Init, VStat, CStat
  <2>1. VStat = [v \in Videos |-> "absent"]
    BY DEF Init, VStat, NewVideo
  <2>2. CStat = << >>
    BY DEF Init, CStat
  <2> QED
    BY <2>1, <2>2
<1>3. ASSUME TypeInv, ChordInv, OnceInv, RunsInv, RenderInv, RowsInv, DoneInv, [Next]_vars
      PROVE  [Lifecycle!Next]_(Lifecycle!vars)
  <2>1. CASE \E w \in Workers : Analyze(w)
    BY <1>3, <2>1, SelectRefines
  <2>2. CASE \E w \in Workers, c \in DOMAIN clip : WritesRow(w) /\ Target(w) = c
    BY <1>3, <2>2, ClipStepRefines DEF Hidden, VStat, CStat, Lifecycle!vars
  <2>3. CASE /\ ~ \E w \in Workers : Analyze(w)
             /\ ~ \E w \in Workers, c \in DOMAIN clip : WritesRow(w) /\ Target(w) = c
    <3>1. ClipsStill
      BY <1>3, <2>3, RowChanges, ClipsStay DEF ClipsStill
    <3> QED
      BY <1>3, <3>1, VideoStepRefines DEF Hidden, VStat, CStat, Lifecycle!vars
  <2> QED
    BY <2>1, <2>2, <2>3
<1> QED
  BY <1>1, <1>2, <1>3, TypesHold, ChordHolds, OnceHolds, RunsHold, RendersHold, RowsHold,
     DoneHolds, PTL DEF Spec, LifecycleSpec, Lifecycle!Spec
=============================================================================
