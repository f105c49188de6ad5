----------------------------- MODULE FarmState -----------------------------
(***************************************************************************)
(* The state that the API process, the Celery workers, Redis, the database *)
(* and the disk share, and the vocabulary of the modules that act on it.   *)
(*                                                                         *)
(*   models/schema.py     the videos, clips and jobs tables                *)
(*   core/exceptions.py   the error classes and their retryable flag       *)
(*   core/database.py     what a SQLAlchemy session writes at a commit     *)
(***************************************************************************)
EXTENDS Naturals, FiniteSets

CONSTANTS
  Videos,            \* rows the API may create
  Workers,           \* Celery worker slots (prefetch 1: one task each)
  Titles,            \* titles Claude may generate for a clip
  None,              \* "no message", "no title", a NULL column
  MaxClips,          \* most candidates an analysis may return
  ProcessRetries,    \* max_retries of process_video (3 in the code)
  RenderRetries,     \* max_retries of render_clip (2 in the code)
  CleanupOnSuccess,  \* settings.cleanup_work_dir_on_success
  KeepOnFailure,     \* settings.keep_work_dir_on_failure
  CrashTasks,        \* tasks during which a worker may die
  Events,            \* kinds of environment events that may happen
  MaxEvents          \* and how many of them in a behaviour

EventKinds == {"crash", "redeliver", "kill", "db", "disk", "broker", "purge", "rerender"}
TaskNames == {"process_video", "render_clip", "finalize_video"}

ASSUME FarmAssumption ==
  /\ MaxClips \in Nat
  /\ ProcessRetries \in Nat
  /\ RenderRetries \in Nat
  /\ CleanupOnSuccess \in BOOLEAN
  /\ KeepOnFailure \in BOOLEAN
  /\ CrashTasks \subseteq TaskNames
  /\ Events \subseteq EventKinds
  /\ MaxEvents \in Nat
  /\ None \notin Titles

----------------------------------------------------------------------------
(* Rows.  A clip is named by its video, the prepare run that created it    *)
(* and its rank; a job by its video, its run and its stage.                *)

JobStatus == {"pending", "running", "completed", "failed"}
ClipStatus == {"selected", "rendering", "completed", "failed"}
Stages == {"ingest", "transcribe", "analyze"}
Tallies == {"none", "some", "all"}

VideoRow == [status : JobStatus \cup {"absent"}, ingested : BOOLEAN, transcript : BOOLEAN,
             error : Tallies \cup {"prepare"}]
ClipRow == [status : ClipStatus, error : BOOLEAN, output : Titles \cup {None}, retries : Nat]
(* A query that finds no row returns nothing that looks like one.          *)
ASSUME NoRowAssumption == None \notin ClipRow
NewVideo == [status |-> "pending", ingested |-> FALSE, transcript |-> FALSE, error |-> "none"]
NewClip == [status |-> "selected", error |-> FALSE, output |-> None, retries |-> 0]

Runs == Videos \X Nat
ClipIds == Videos \X Nat \X Nat
JobIds == Videos \X Nat \X Stages
VideoOf(c) == c[1]
RunOf(c) == <<c[1], c[2]>>
OutputOf(c, t) == <<c[1], c[3], t>>      \* <title of the video>/<rank>_<title of the clip>/clip.mp4
Files == ClipIds \X {"dir", "cut", "framed"}

(* "schema" is the AnalysisError that claude_client.parse raises for a     *)
(* reply that does not match the schema; "permanent" stands for the errors *)
(* with retryable = False and for exceptions that are not ClipFarmErrors,  *)
(* which the tasks never retry.                                            *)
Errors == {"transient", "schema", "permanent"}
Retryable == {"transient", "schema"}

(* The session keeps the attribute values it loaded (expire_on_commit is   *)
(* off) and a commit writes only those that differ from them.              *)
Flushed(current, loaded, new) == IF new = loaded THEN current ELSE new

----------------------------------------------------------------------------
(* Messages.  A render message with request 0 is a part of a chord, the    *)
(* others come from the rerender endpoint.                                 *)

Process(v, n) == [task |-> "process_video", video |-> v, retries |-> n]
Render(c, q, n) == [task |-> "render_clip", clip |-> c, request |-> q, retries |-> n]
Finalize(r) == [task |-> "finalize_video", video |-> r[1], run |-> r[2]]

Messages ==
  [task : {"process_video"}, video : Videos, retries : Nat]
    \cup [task : {"render_clip"}, clip : ClipIds, request : Nat, retries : Nat]
    \cup [task : {"finalize_video"}, video : Videos, run : Nat]
IsPart(m) == m.task = "render_clip" /\ m.request = 0

----------------------------------------------------------------------------
VARIABLES
  video,      \* table videos
  clip,       \* table clips
  job,        \* table jobs
  runs,       \* prepare runs begun for each video: names the rows they create
  ready,      \* messages the broker may deliver
  awaited,    \* chord parts that have not returned
  broken,     \* chords one of whose parts raised: their body never runs
  enqueuing,  \* rows the API committed and has not published yet
  worker,     \* what each worker slot is doing
  source,     \* videos with a WORK_DIR/<video>/source file
  files,      \* per-clip work directories and the intermediates in them
  whole,      \* output files that are completely written
  used        \* environment events so far

tables == <<video, clip, job, runs>>
broker == <<ready, awaited, broken>>
disk == <<source, files, whole>>
vars == <<tables, broker, enqueuing, worker, disk, used>>

PrepareSteps == {"claim", "open_job", "stage", "close_job", "dispatch", "retry_process"}
RenderSteps == {"mark_rendering", "mkdir", "cut", "reframe", "burn", "package", "mark_completed",
                "remove_dir", "render_failed", "count_retry", "retry_render", "report",
                "report_failure"}
FinalizeSteps == {"read_clips", "mark_finalized", "remove_workspace"}
Steps == {"idle", "start", "ack"} \cup PrepareSteps \cup RenderSteps \cup FinalizeSteps

(* msg: the task's message; run and stage: how far a prepare is; seen: the *)
(* row as the session loaded it; tally, err, title: locals of finalize,    *)
(* of an exception handler and of render_clip.                             *)
WorkerState ==
  [pc : Steps, msg : Messages \cup {None}, run : Nat, stage : Stages,
   seen : VideoRow \cup ClipRow \cup {None}, tally : Tallies,
   err : Errors \cup {"none"}, title : Titles \cup {None}]
Idle == [pc |-> "idle", msg |-> None, run |-> 0, stage |-> "ingest", seen |-> None,
         tally |-> "none", err |-> "none", title |-> None]

----------------------------------------------------------------------------
(* Helpers of the actions.                                                 *)

At(w, step) == worker[w].pc = step
Become(w, slot) == worker' = [worker EXCEPT ![w] = slot]
Goto(w, step) == Become(w, [worker[w] EXCEPT !.pc = step])
(* The task function returns or raises: its locals are gone.               *)
Return(w, step) == Become(w, [Idle EXCEPT !.pc = step, !.msg = worker[w].msg])
Doing(w, task) == ~ At(w, "idle") /\ worker[w].msg.task = task
Happens(kind) ==
  /\ kind \in Events
  /\ used < MaxEvents
  /\ used' = used + 1
Inserted(table, ids, row) ==
  [i \in DOMAIN table \cup ids |-> IF i \in ids THEN row ELSE table[i]]
Get(table, id) == IF id \in DOMAIN table THEN table[id] ELSE None
ClipsOf(v) == {c \in DOMAIN clip : VideoOf(c) = v}
ClipsOfRun(r) == {c \in DOMAIN clip : RunOf(c) = r}
DirOf(c) == {c} \X {"dir", "cut", "framed"}
DirsOf(v) == {f \in files : VideoOf(f[1]) = v}
=============================================================================
