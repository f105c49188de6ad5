------------------------------ MODULE Maintenance ------------------------------
(***************************************************************************)
(* The housekeeping of celery_app.py: Beat publishes the hourly purge and  *)
(* the daily failure report to the queue maintenance, a worker that        *)
(* consumes it walks WORK_DIR by age and reports the rows that failed, and *)
(* the pipeline works in the same directories meanwhile.  Of the pipeline  *)
(* only what creates, changes and leaves WORK_DIR/<video> is here; the     *)
(* module ClipFarm has the rest.  Time passes in ticks of an hour, which a *)
(* housekeeping task does not outlast.                                     *)
(***************************************************************************)
EXTENDS Integers, Sequences

CONSTANTS
  Videos,
  Workers,
  Consumes,      \* the queues each worker consumes (its -Q)
  PurgeEvery,    \* beat_schedule, in ticks
  ReportEvery,
  Retention,     \* settings.work_dir_retention_hours
  Window,        \* hours that failed_job_report looks back
  ProcessRetries,
  Old,           \* videos that ended before and left their directory
  Locked,        \* videos whose files cannot all be deleted
  MaxFaults      \* bound: lost workers and restarts of Beat

Queues == {"pipeline", "maintenance"}

ASSUME MaintenanceAssumption ==
  /\ Consumes \in [Workers -> SUBSET Queues]
  /\ {PurgeEvery, ReportEvery} \subseteq Nat \ {0}
  /\ {Retention, Window, ProcessRetries, MaxFaults} \subseteq Nat
  /\ Old \cup Locked \subseteq Videos

VARIABLES
  due,       \* Beat: ticks until each task is published
  queue,     \* the queue maintenance; bound: one message of each task waits
  worker,    \* what each worker executes
  stage,     \* what the pipeline has to do next for each video
  tries,     \* retries of its process_video
  work,      \* entries of WORK_DIR/<video>, "dir" for itself; {} if absent
  age,       \* ticks since that directory was last modified
  life,      \* ticks since its first task began, or Never (history)
  failed,    \* ticks since the first of its failed rows that no report has
             \* shown was written, or Never
  since,     \* ticks since the last report was made (history)
  late,      \* did two reports lie further apart than Window? (history)
  faults

beatVars == <<due, queue>>
videoVars == <<stage, tries, work, age, life>>
reportVars == <<failed, since, late>>
vars == <<beatVars, worker, videoVars, reportVars, faults>>

Never == -1
Every == [purge |-> PurgeEvery, report |-> ReportEvery]
Tasks == DOMAIN Every
Later(n, bound) == IF n < bound THEN n + 1 ELSE bound

(* step: where the task stands; left: entries of the listing not yet       *)
(* visited; a video of "remove" was found old enough.                      *)
Slot == [step : {"idle", "report", "visit"}, left : SUBSET Videos]
          \cup [step : {"ingest", "transcribe", "analyze", "render", "remove"},
                left : SUBSET Videos, video : Videos]
Idle == [step |-> "idle", left |-> {}]
Working(s, v) == [step |-> s, left |-> {}, video |-> v]

TypeOK ==
  /\ due \in [Tasks -> 0 .. PurgeEvery + ReportEvery]
  /\ queue \in Seq(Tasks)
  /\ worker \in [Workers -> Slot]
  /\ stage \in [Videos -> {"prepare", "render", "finalize", "over"}]
  /\ tries \in [Videos -> 0 .. ProcessRetries]
  /\ work \in [Videos -> SUBSET {"dir", "source", "audio", "clips"}]
  /\ age \in [Videos -> 0 .. Retention + 1] /\ life \in [Videos -> Never .. Retention + 1]
  /\ failed \in [Videos -> Never .. Window + 1]
  /\ since \in 0 .. Window + 1 /\ late \in BOOLEAN
  /\ faults \in 0 .. MaxFaults

Init ==
  /\ due = Every /\ queue = <<>>
  /\ worker = [w \in Workers |-> Idle]
  /\ stage = [v \in Videos |-> IF v \in Old THEN "over" ELSE "prepare"]
  /\ tries = [v \in Videos |-> 0]
  /\ work = [v \in Videos |-> IF v \in Old THEN {"dir", "source"} ELSE {}]
  /\ age = [v \in Videos |-> 0]
  /\ life = [v \in Videos |-> IF v \in Old THEN Retention + 1 ELSE Never]
  /\ failed = [v \in Videos |-> Never]
  /\ since = 0 /\ late = FALSE
  /\ faults = 0

-----------------------------------------------------------------------------
(* Time, Beat and the queues.                                              *)

Housekeeping(w) == worker[w].step \in {"report", "visit", "remove"}
Older(n, bound) == IF n = Never THEN Never ELSE Later(n, bound)

(* Beat publishes what is due before the next tick.                        *)
Tick ==
  /\ \A t \in Tasks : due[t] > 0
  /\ \A w \in Workers : ~Housekeeping(w)
  /\ due' = [t \in Tasks |-> due[t] - 1]
  /\ age' = [v \in Videos |-> IF work[v] = {} THEN 0 ELSE Later(age[v], Retention + 1)]
  /\ life' = [v \in Videos |-> Older(life[v], Retention + 1)]
  /\ failed' = [v \in Videos |-> Older(failed[v], Window + 1)]
  /\ since' = Later(since, Window + 1)
  /\ UNCHANGED <<queue, worker, stage, tries, work, late, faults>>

Waiting == {queue[i] : i \in DOMAIN queue}
Publish(t) ==
  /\ due[t] = 0
  /\ due' = [due EXCEPT ![t] = Every[t]]
  /\ queue' = IF t \in Waiting THEN queue ELSE Append(queue, t)
  /\ UNCHANGED <<worker, videoVars, reportVars, faults>>

(* Beat comes back without its schedule file and waits a whole interval.   *)
RestartBeat ==
  /\ faults < MaxFaults /\ faults' = faults + 1
  /\ due' = Every
  /\ UNCHANGED <<queue, worker, videoVars, reportVars>>

Start(w, q, slot) ==
  /\ worker[w] = Idle /\ q \in Consumes[w]
  /\ worker' = [worker EXCEPT ![w] = slot]

TakeHousekeeping(w) ==
  /\ queue # <<>> /\ queue' = Tail(queue)
  /\ Start(w, "maintenance",
       IF Head(queue) = "report" THEN [step |-> "report", left |-> {}]
       ELSE [step |-> "visit", left |-> {v \in Videos : work[v] # {}}])
  /\ UNCHANGED <<due, videoVars, reportVars, faults>>

(* A housekeeping worker dies: its message was not acknowledged.           *)
LoseWorker(w) ==
  /\ Housekeeping(w)
  /\ faults < MaxFaults /\ faults' = faults + 1
  /\ worker' = [worker EXCEPT ![w] = Idle]
  /\ LET t == IF worker[w].step = "report" THEN "report" ELSE "purge" IN
     queue' = IF t \in Waiting THEN queue ELSE <<t>> \o queue
  /\ UNCHANGED <<due, videoVars, reportVars>>

-----------------------------------------------------------------------------
(* purge_stale_work_dirs.                                                  *)

(* Mutant: an entry is stale once it has reached the retention window.     *)
StaleAtOnce(v) == age[v] >= Retention
(* entry.stat().st_mtime < cutoff                                          *)
Stale(v) == age[v] > Retention

(* The next entry of the listing; one that is gone is an OSError, and the  *)
(* loop goes on.                                                           *)
Visit(w, v) ==
  /\ worker[w].step = "visit" /\ v \in worker[w].left
  /\ LET left == worker[w].left \ {v} IN
     worker' = [worker EXCEPT ![w] =
       IF work[v] # {} /\ Stale(v) THEN [step |-> "remove", left |-> left, video |-> v]
       ELSE [step |-> "visit", left |-> left]]
  /\ UNCHANGED <<beatVars, videoVars, reportVars, faults>>

(* Mutant: one handler around the whole loop.                              *)
LoopOnStop(w) == [step |-> "visit", left |-> {}]
(* The handler is inside the loop.                                         *)
LoopOn(w) == [step |-> "visit", left |-> worker[w].left]

(* rmtree, of whatever the directory holds by now.                         *)
Remove(w, v) ==
  /\ worker[w].step = "remove" /\ worker[w].video = v /\ v \notin Locked
  /\ work' = [work EXCEPT ![v] = {}] /\ age' = [age EXCEPT ![v] = 0]
  /\ worker' = [worker EXCEPT ![w] = [step |-> "visit", left |-> worker[w].left]]
  /\ UNCHANGED <<beatVars, stage, tries, life, reportVars, faults>>
(* It raises at a file it cannot delete; what it deleted before makes the  *)
(* directory a young one.                                                  *)
RemoveFails(w, v) ==
  /\ worker[w].step = "remove" /\ worker[w].video = v /\ v \in Locked
  /\ \E rest \in SUBSET work[v] :
       /\ "dir" \in rest
       /\ work' = [work EXCEPT ![v] = rest]
       /\ age' = [age EXCEPT ![v] = IF rest = work[v] THEN @ ELSE 0]
  /\ worker' = [worker EXCEPT ![w] = LoopOn(w)]
  /\ UNCHANGED <<beatVars, stage, tries, life, reportVars, faults>>

PurgeEnds(w) ==
  /\ worker[w] = [step |-> "visit", left |-> {}]
  /\ worker' = [worker EXCEPT ![w] = Idle]
  /\ UNCHANGED <<beatVars, videoVars, reportVars, faults>>

-----------------------------------------------------------------------------
(* failed_job_report.                                                      *)

(* Mutant: the cutoff itself is outside.                                   *)
RecentAfter(v) == failed[v] \in 0 .. Window - 1
(* status = failed and updated_at >= cutoff.  Where the first row that was *)
(* not shown is recent, the later ones are.                                *)
Recent(v) == failed[v] \in 0 .. Window

Report(w) ==
  /\ worker[w].step = "report"
  /\ failed' = [v \in Videos |-> IF Recent(v) THEN Never ELSE failed[v]]
  /\ late' = (late \/ since > Window) /\ since' = 0
  /\ worker' = [worker EXCEPT ![w] = Idle]
  /\ UNCHANGED <<beatVars, videoVars, faults>>

-----------------------------------------------------------------------------
(* The pipeline's use of the directories.                                  *)

(* A name is created in the directory; one that is there is overwritten,   *)
(* which does not modify the directory.                                    *)
Create(v, name) ==
  /\ work' = [work EXCEPT ![v] = @ \cup {"dir", name}]
  /\ age' = [age EXCEPT ![v] = IF {"dir", name} \subseteq work[v] THEN @ ELSE 0]

(* The job row of the stage, or the clip's, stays failed whatever a retry  *)
(* does: it opens job rows of its own.                                     *)
Fail(v) == failed' = [failed EXCEPT ![v] = IF @ = Never THEN 0 ELSE @]
InPipeline(w, v, s) == worker[w].step = s /\ worker[w].video = v
Executing(v) == \E w \in Workers, s \in {"ingest", "transcribe", "analyze", "render"} :
                  InPipeline(w, v, s)
Step(w, v, s) == worker' = [worker EXCEPT ![w] = Working(s, v)]
Finish(w) == worker' = [worker EXCEPT ![w] = Idle]

(* process_video: the directory is made.                                   *)
StartPrepare(w, v) ==
  /\ stage[v] = "prepare" /\ ~Executing(v)
  /\ Start(w, "pipeline", Working("ingest", v))
  /\ life' = [life EXCEPT ![v] = IF @ = Never THEN 0 ELSE @]
  /\ Create(v, "dir")
  /\ UNCHANGED <<beatVars, stage, tries, reportVars, faults>>

Ingest(w, v) ==
  /\ InPipeline(w, v, "ingest") /\ "dir" \in work[v]
  /\ Create(v, "source") /\ Step(w, v, "transcribe")
  /\ UNCHANGED <<beatVars, stage, tries, life, reportVars, faults>>

Transcribe(w, v) ==
  /\ InPipeline(w, v, "transcribe") /\ "source" \in work[v]
  /\ Create(v, "audio") /\ Step(w, v, "analyze")
  /\ UNCHANGED <<beatVars, stage, tries, life, reportVars, faults>>

Analyze(w, v) ==
  /\ InPipeline(w, v, "analyze")
  /\ stage' = [stage EXCEPT ![v] = "render"] /\ Finish(w)
  /\ UNCHANGED <<beatVars, tries, work, age, life, reportVars, faults>>

(* Nothing is removed when a prepare fails; the task may be retried.       *)
PrepareFails(w, v) ==
  /\ \E s \in {"ingest", "transcribe", "analyze"} : InPipeline(w, v, s)
  /\ Fail(v) /\ Finish(w)
  /\ \/ tries[v] < ProcessRetries
        /\ tries' = [tries EXCEPT ![v] = @ + 1] /\ UNCHANGED stage
     \/ stage' = [stage EXCEPT ![v] = "over"] /\ UNCHANGED tries
  /\ UNCHANGED <<beatVars, work, age, life, since, late, faults>>

(* The renders of the chord, here as one: clips/<id> is made with its      *)
(* parents, so a directory that was purged comes back empty.               *)
StartRender(w, v) ==
  /\ stage[v] = "render" /\ ~Executing(v)
  /\ Start(w, "pipeline", Working("render", v))
  /\ Create(v, "clips")
  /\ UNCHANGED <<beatVars, stage, tries, life, reportVars, faults>>

RenderEnds(w, v) ==
  /\ InPipeline(w, v, "render")
  /\ stage' = [stage EXCEPT ![v] = "finalize"] /\ Finish(w)
  /\ \/ {"source", "clips"} \subseteq work[v] /\ UNCHANGED failed
     \/ Fail(v)
  /\ UNCHANGED <<beatVars, tries, work, age, life, since, late, faults>>

(* finalize_video; the cleanup may be switched off, or fail before or      *)
(* after it deleted something, and what is left is no longer of interest.  *)
FinalizeVideo(w, v) ==
  /\ stage[v] = "finalize"
  /\ worker[w] = Idle /\ "pipeline" \in Consumes[w]
  /\ stage' = [stage EXCEPT ![v] = "over"]
  /\ \/ work' = [work EXCEPT ![v] = {}] /\ age' = [age EXCEPT ![v] = 0] /\ v \notin Locked
     \/ UNCHANGED <<work, age>>
     \/ work[v] # {} /\ work' = [work EXCEPT ![v] = {"dir"}] /\ age' = [age EXCEPT ![v] = 0]
  /\ UNCHANGED <<beatVars, worker, tries, life, reportVars, faults>>

-----------------------------------------------------------------------------
Purge(w) ==
  \/ \E v \in Videos : Visit(w, v) \/ Remove(w, v) \/ RemoveFails(w, v)
  \/ PurgeEnds(w)

Prepare(w) ==
  \E v \in Videos :
    \/ StartPrepare(w, v) \/ Ingest(w, v) \/ Transcribe(w, v) \/ Analyze(w, v) \/ PrepareFails(w, v)

Render(w) ==
  \E v \in Videos : StartRender(w, v) \/ RenderEnds(w, v) \/ FinalizeVideo(w, v)

Next ==
  \/ Tick \/ RestartBeat
  \/ \E t \in Tasks : Publish(t)
  \/ \E w \in Workers :
       \/ Prepare(w) \/ Render(w)
       \/ TakeHousekeeping(w) \/ Purge(w) \/ Report(w) \/ LoseWorker(w)

(* Hours pass, Beat publishes what is due, and a worker that is idle takes *)
(* what its queues hold and executes it.                                   *)
Spec ==
  /\ Init /\ [][Next]_vars
  /\ WF_vars(Tick) /\ \A t \in Tasks : WF_vars(Publish(t))
  /\ \A w \in Workers :
       /\ WF_vars(TakeHousekeeping(w))
       /\ WF_vars(Purge(w)) /\ WF_vars(Report(w))

-----------------------------------------------------------------------------
(* The purge never costs a video its workspace within the retention window *)
(* from its first task on, however often it was retried, wherever its      *)
(* tasks wait, and whenever the purge runs: who is through within the      *)
(* window never meets it.                                                  *)
UnfinishedKept ==
  [][\A v \in Videos :
       work[v] # {} /\ work'[v] = {} /\ stage'[v] # "over" => life[v] > Retention]_vars

(* What a finished video leaves behind, by a failed prepare, a failed      *)
(* cleanup or with the cleanup switched off, is removed in the end, also   *)
(* while another entry of WORK_DIR cannot be removed.                      *)
LeftoversGo ==
  \A v \in Videos \ Locked : stage[v] = "over" /\ work[v] # {} ~> work[v] = {}

(* A failure that no report has shown is younger than the last report,     *)
(* unless two reports were made further apart than the window: a message   *)
(* that waited, a lost worker, a Beat that forgot its schedule.            *)
ReportedUnlessLate ==
  \A v \in Videos : failed[v] > since => late
=============================================================================
