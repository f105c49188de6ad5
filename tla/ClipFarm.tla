------------------------------ MODULE ClipFarm ------------------------------
(***************************************************************************)
(* The whole farm: the API, the broker and the workers running the three   *)
(* tasks of workers/tasks.py, under the environment events that Events   *)
(* allows; the specification and its properties.                           *)
(***************************************************************************)
EXTENDS Api

Init ==
  /\ video = [v \in Videos |-> [NewVideo EXCEPT !.status = "absent"]]
  /\ clip = << >>
  /\ job = << >>
  /\ runs = [v \in Videos |-> 0]
  /\ ready = {}
  /\ awaited = {}
  /\ broken = {}
  /\ enqueuing = {}
  /\ worker = [w \in Workers |-> Idle]
  /\ source = {}
  /\ files = {}
  /\ whole = {}
  /\ used = 0

WorkerStep(w) == PrepareStep(w) \/ RenderStep(w) \/ FinalizeStep(w) \/ Ack(w)
WorkerFault(w) ==
  \/ PrepareFault(w) \/ RenderFault(w) \/ FinalizeFault(w)
  \/ Crash(w) \/ Redeliver(w) \/ Kill(w)

Next ==
  \/ \E v \in Videos : CreateVideo(v) \/ Enqueue(v) \/ EnqueueFails(v) \/ Purge(v)
  \/ \E w \in Workers : Deliver(w) \/ WorkerStep(w) \/ WorkerFault(w)
  \/ \E c \in DOMAIN clip : Rerender(c)

(* The API process finishes the requests it began, a free slot takes a     *)
(* message when there is one, and a task that runs goes on.                *)
Fairness ==
  /\ \A v \in Videos : WF_vars(Enqueue(v))
  /\ \A w \in Workers : WF_vars(Deliver(w)) /\ WF_vars(WorkerStep(w))

Spec == Init /\ [][Next]_vars
FairSpec == Spec /\ Fairness

----------------------------------------------------------------------------
(* Safety.                                                                 *)

TablesOK ==
  /\ video \in [Videos -> VideoRow]
  /\ DOMAIN clip \subseteq ClipIds /\ \A c \in DOMAIN clip : clip[c] \in ClipRow
  /\ DOMAIN job \subseteq JobIds /\ \A j \in DOMAIN job : job[j] \in JobStatus
  /\ runs \in [Videos -> Nat]
BrokerOK == ready \subseteq Messages /\ awaited \subseteq ClipIds /\ broken \subseteq Runs
DiskOK ==
  /\ source \subseteq Videos
  /\ files \subseteq Files
  /\ whole \subseteq Videos \X Nat \X (Titles \cup {None})

(* Every variable has its type; the clip and job tables hold only rows of  *)
(* known kinds under well-formed names, and the broker only messages that  *)
(* a task accepts.                                                         *)
TypeOK ==
  /\ TablesOK /\ BrokerOK /\ DiskOK
  /\ enqueuing \subseteq Videos
  /\ worker \in [Workers -> WorkerState]
  /\ used \in Nat

InFlight(m) == m \in ready \/ \E w \in Workers : ~ At(w, "idle") /\ worker[w].msg = m
CarriedBy(c, m) == IsPart(m) /\ m.clip = c

(* task_acks_late, chord() of workers/tasks.py: whatever crashes, expires, *)
(* fails or is killed, a chord part that has not returned is still waiting *)
(* to be delivered or being executed by a worker that has not finished     *)
(* with it, on some attempt.                                               *)
NoLostRender ==
  \A c \in awaited :
    \/ \E m \in ready : CarriedBy(c, m)
    \/ \E w \in Workers : /\ worker[w].pc \notin {"idle", "ack"}
                          /\ CarriedBy(c, worker[w].msg)

(* "runs finalize_video only after every clip finishes": while the chord's *)
(* body waits or runs, no part of that chord is outstanding.               *)
FinalizeAfterAll ==
  \A r \in {RunOf(c) : c \in awaited} : ~ InFlight(Finalize(r))

(* The comment in render_clip: a clip row exists only when its video has   *)
(* a source and a transcript, so neither ValueError can be raised.         *)
ClipHasTranscript ==
  \A c \in DOMAIN clip : video[VideoOf(c)].ingested /\ video[VideoOf(c)].transcript

(* A video that says "running" is being worked on: prepare_video is under  *)
(* way, a part of its chord is outstanding, or its finalize_video is in    *)
(* flight.  Otherwise nothing would ever move it on, and the duplicate     *)
(* guard of prepare_video would refuse to.                                 *)
Owned(v) ==
  \/ \E w \in Workers : /\ Doing(w, "process_video") /\ Subject(w) = v
                        /\ worker[w].pc \in (PrepareSteps \ {"claim"}) \cup FinalizeSteps
  \/ \E c \in awaited : VideoOf(c) = v
  \/ \E r \in {v} \X (0 .. runs[v]) : Finalize(r) \in ready
  \/ \E w \in Workers : /\ Doing(w, "finalize_video") /\ Subject(w) = v
                        /\ worker[w].pc \in FinalizeSteps
RunningIsOwned == \A v \in Videos : video[v].status = "running" => Owned(v)

(* The chord: a video completes only when each of its clips was attempted, *)
(* also when a worker died on the way.                                     *)
AllAttempted ==
  \A c \in DOMAIN clip :
    video[VideoOf(c)].status = "completed" => clip[c].status # "selected"

(* cleanup.py, PERFORMANCE.md: the workspace goes only after every clip    *)
(* was attempted.  While a part is outstanding its source is on disk.      *)
SourceOutlivesChord == \A c \in awaited : VideoOf(c) \in source

(* A clip the API offers for download has an output file that is complete. *)
CompletedHasOutput ==
  \A c \in DOMAIN clip :
    clip[c].status = "completed" => OutputOf(c, clip[c].output) \in whole

(* Each stage of a render finds the file the stage before it wrote.        *)
StageInputsExist ==
  \A w \in Workers :
    /\ Rendering(w, "cut") =>
         VideoOf(Target(w)) \in source /\ <<Target(w), "dir">> \in files
    /\ Rendering(w, "reframe") => <<Target(w), "cut">> \in files
    /\ Rendering(w, "burn") => <<Target(w), "framed">> \in files

(* A video is prepared, and a clip rendered, by one worker at a time: a    *)
(* failed task that retries itself is not two tasks.                       *)
Claimed(w, v) == Doing(w, "process_video") /\ Subject(w) = v /\ worker[w].run > 0
                   /\ worker[w].pc # "ack"
Holds(w, c) == /\ Doing(w, "render_clip") /\ Target(w) = c
               /\ worker[w].pc \notin {"start", "mark_rendering", "report", "ack"}
OneAtATime ==
  \A w1, w2 \in Workers : w1 # w2 =>
    /\ \A v \in Videos : ~ (Claimed(w1, v) /\ Claimed(w2, v))
    /\ \A c \in DOMAIN clip : ~ (Holds(w1, c) /\ Holds(w2, c))

(* finalize_video's summary: the error of a completed video says whether   *)
(* some, all or none of its clips failed, and nothing of earlier attempts. *)
SummaryMatches ==
  \A v \in Videos : video[v].status = "completed" => video[v].error = Tally(v)

(* _fail_open_job, _finish: once a video is failed or completed, none of   *)
(* its job rows still says "running".                                      *)
JobsSettled ==
  \A j \in DOMAIN job :
    job[j] = "running" => video[j[1]].status \notin {"failed", "completed"}

(* "unless the operator opted to keep failures around for debugging": with *)
(* KeepOnFailure the directory of a clip that failed stays for as long as  *)
(* its video is not finalized.                                             *)
FailedDirKept ==
  KeepOnFailure =>
    \A c \in DOMAIN clip :
      clip[c].status = "failed" /\ video[VideoOf(c)].status = "running" => <<c, "dir">> \in files

----------------------------------------------------------------------------
(* Steps.                                                                  *)

(* "the video is marked complete exactly once": a completed video stays    *)
(* completed.                                                              *)
CompletedOnce ==
  [][\A v \in Videos : video[v].status = "completed" => video'[v].status = "completed"]_vars

----------------------------------------------------------------------------
(* Liveness.                                                               *)

(* A video that was accepted reaches failed or completed and stays there.  *)
Settled(v) == video[v].status \in {"failed", "completed"}
Settles == \A v \in Videos : video[v].status = "pending" ~> []Settled(v)

----------------------------------------------------------------------------
(* What the API shows of the farm, as the abstract lifecycle promises it.  *)
Lifecycle == INSTANCE VideoLifecycle WITH
  RunIds <- 0 .. ProcessRetries + 1,
  vstat <- [v \in Videos |-> video[v].status],
  cstat <- [c \in DOMAIN clip |-> clip[c].status]
LifecycleSpec == Lifecycle!Spec
=============================================================================
