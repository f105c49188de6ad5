# AI Clip Farm in TLA+

AI Clip Farm turns a long video into short vertical clips: a FastAPI process
accepts videos, Celery workers prepare each one (ingest, transcribe, analyze)
and render its clips, and a last task completes the video. The project in this
directory models that pipeline, checks it with TLC on small instances, and
proves some of its properties with TLAPS for every instance.

Sections: the system, the modules, what is abstracted, the runs, where the code
and its documentation disagree, the proofs, what is left out, the plan.

## 1. The system

| component | code (under `src/app`) | state it keeps | operations |
|---|---|---|---|
| API | `api/routes.py` | none of its own | create, upload, re-render, read |
| database | `models/schema.py`, `core/database.py` | rows of videos, clips, jobs | commits of short sessions |
| broker | `workers/celery_app.py`, Redis | messages, the chord's counter | deliver, acknowledge, redeliver |
| tasks | `workers/tasks.py` | the message in hand, its retry count | `process_video`, `render_clip`, `finalize_video`, `purge_stale_work_dirs`, `failed_job_report` |
| Beat | `workers/celery_app.py` | when each housekeeping task is due | publish to the queue `maintenance` |
| orchestrator | `pipeline/orchestrator.py` | ORM objects as loaded, loop position | `prepare_video`, `render_clip`, `finalize_video` |
| stages | `pipeline/*.py` | files, per-process model caches | ingest, transcribe, analyze, cut, reframe, subtitles, metadata |
| workspace | `core/cleanup.py` | `WORK_DIR/<video>`, `OUTPUT_DIR` | cleanup on success and failure, hourly purge |
| errors | `core/exceptions.py` | the `retryable` flag of each class | |
| clients | `web/app.js`, `n8n/` | | poll the API |

How they interact. The API commits a row and then publishes `process_video`.
That task runs the three stages, each with a job row of its own and a commit
after what it produced, then publishes a chord: one `render_clip` per clip, and
`finalize_video` when all have returned. Everything the tasks tell each other
goes through the tables, the disk and the broker, and each step from one commit,
file or message to the next may interleave with the steps of every other worker.

What is hard here, and what makes each part correct:

* **Late acknowledgement.** A worker that dies gives its message back at
  whatever point it had reached, the one after its last commit included. Correct
  means: no render is lost, nothing is done twice that must be done once, and
  no video is left without an owner.
* **The chord.** `finalize_video` removes the source. It may start only when no
  part is outstanding, on any attempt, and it must start in the end.
* **The duplicate guard.** It reads a status that another process commits, and
  the same status outlives a worker that died.
* **Retries.** Decided from the class of the error and from a counter that
  travels in the message; the failed attempt has left rows and files behind.
* **Commits that fail.** The exception handlers commit on the same session.
* **Files.** Each stage reads what an earlier one wrote, while three other
  places delete directories.
* **Housekeeping.** The purge judges a directory by its age, which says nothing of
  whether a task still needs it. The report looks back a fixed time and not to
  the last report. Both run only where a worker consumes their queue.
* **Nested retries.** A render has a fallback inside each encode, attempts inside
  its request and retries of the whole around both, and releases what it
  opened on every way out.

`PROJECT.json` lists every hazard at its line, with the properties that watch it.

## 2. The modules

```
FarmState   the tables, the broker, the disk, the workers; errors and messages
  Broker    deliver, acknowledge, report to the chord, die, redeliver, time limit
    Prepare   process_video and prepare_video
      Render    render_clip, task and orchestrator
        Finalize  finalize_video, cleanup, purge
          Api       create_video, rerender_clip
            ClipFarm  Init, Next, fairness, properties, refinement mapping
              MCClipFarm      instances for TLC
              ClipFarmProofs  types, no render lost, stages in order, finalize after all renders
                OnceProofs      what holds when process_video runs once per publication
                  DeliveryProofs  what holds when no render is delivered twice; the refinement
VideoLifecycle  the abstract specification ClipFarm implements

Encoder, Reframe, ClaudeClient   the encodes, the two passes, the request
  RenderTask          one message of render_clip: stages, retries, lost processes
    MCRenderTask      a small instance for TLC
    RenderTaskProofs  calls, refusals, fallback, crop, camera, handles; steps are attempts
TaskAttempts   the abstract task RenderTask implements

Maintenance    Beat, its queue, the purge, the report, the pipeline's directories
  MCMaintenance       workers per queue, and those of docker-compose.yml
  MaintenanceProofs   what the purge spares, what reports can miss

Upload         upload_video, INPUT_DIR and the ingest of what was saved
  UploadProofs        the cap, refusals, whole uploads
Transcribe     the transcribe stage in a process that runs many tasks
  TranscribeProofs    whole transcripts, full progress, how tasks end
Enumerations   sorting and filtering, as the order of the indices
  Analyze      _post_process: snapping, lengths, ranking, the cap
  Subtitles    the words of a clip, caption lines, karaoke tags
    ClipCaptions        analyze and, for each clip it chose, build_ass (an instance of Subtitles)
      ClipCaptionsProofs  both stages and what one leaves the other
```

The modules of the first group extend one another because they act on the same
variables, as the processes do. Each holds the operations of one component. In
them a stage of the pipeline is one action that succeeds or fails. A stage module
(`Encoder`, `Reframe`, `ClaudeClient`, `Upload`, `Transcribe`, `Analyze`,
`Subtitles`) opens one stage: it starts where the action of
`Prepare` or `Render` begins and ends where that action ends, with the error
class the action chooses from. What the stages share, the video's rows and its
directory, they touch only in the steps the first group has. `ClipCaptions`
composes two of them, because captions are built from the words by which analyze
cut the clip: it is an analysis followed by the captions of each clip.

`RenderTask` composes three, because the task retries them together: a request
that fails after five attempts makes the task encode and reframe again before it
asks again. Each of the three modules has its variables, its initial values
and a step of its own that says nothing of the others; `RenderTask` adds the order of
the stages, how the stage that fails decides about a retry, and the loss of the
process with its caches and handles. `TaskAttempts` is what the queue
promises of any task, and `RenderTask` implements it. `ErrorKind` sorts the errors
by what the repository says of them, not by the flag the code decides with: passing,
final, and, for the three that recur although the code retries them, left open.

`Maintenance` looks at the workspace over hours, where the farm's model looks at
single commits. Of the pipeline it keeps what makes, touches and leaves
`WORK_DIR/<video>`; `ClipFarm` has the rest, with a purge that may come at any time.

How the state of the farm corresponds to the code:

| variable | code |
|---|---|
| `video`, `clip`, `job` | the three tables, with the columns the control flow reads: status, whether `source_path` and `transcript` are set, the kind of `error`, the output's name, `retry_count` |
| `runs` | how often a video was claimed; it names the clip and job rows a preparation creates |
| `ready` | messages Redis may hand out: new ones, retries, redelivered ones |
| `awaited` | the parts of all chords that have not returned |
| `broken` | chords of which a part raised, so that Celery never runs the body |
| `enqueuing` | requests between `db.commit()` and `process_video.delay()` |
| `worker[w]` | one slot of a worker: the step it is at (`pc`), its message, the row as its session loaded it (`seen`), and the locals of the task |
| `source`, `files`, `whole` | `source.*` of each video, the clips' directories with `cut.mp4` and `framed.mp4`, the finished `clip.mp4`s |
| `used` | how many environment events have happened; bounds them |

Every action is the code between two points another process can observe, that
is between two commits, file operations or messages. `Flushed` is what a
SQLAlchemy session does at a commit: only attributes that differ from the loaded
value are written. It matters when two sessions hold the same row. The steps of
a task and where they are in the code are listed under `map` in `PROJECT.json`.

`VideoLifecycle` is what a client of the API is promised: statuses move forward,
clips are worked on only while their video is running, and a video completes
once, when every clip has been rendered or has failed.

The stage modules:

| module | variable | code |
|---|---|---|
| `Upload` | `dir`, `data` | `INPUT_DIR` as a directory: names of files, files as chunks known by the request that wrote them |
| | `req`, `ingest`, `copy` | the thread of a request with `dest`, `written` and its descriptor; the ingest of its video; `source.*` in the workspace |
| `Transcribe` | `model` | `_model_cache` of the process, and how many tasks the process has begun |
| | `run`, `session`, `row` | locals of `_faster_whisper`, whether the SQLAlchemy session may execute statements, what is committed of video and job |
| `Analyze` | `words`, `read`, `out`, `clips` | the words of the transcript, how many candidates of the reply were read, `out` of `_post_process`, and what it returns |
| `ClaudeClient` | `claude`, `attempt`, `key` | where `parse` is, tenacity's attempt number, whether the API key is set |
| | `counted`, `tokens`, `calls` | the counters `CLAUDE_REQUESTS` and `CLAUDE_TOKENS`, and the calls really made |
| `Encoder` | `hwaccel`, `smi`, `cmd`, `ran` | the setting, the cached probe, the command line as tokens, the encoders tried |
| `Reframe` | `size`, `frames`, `backend`, `handles` | the cut and the setting, the OpenCV objects open in the process |
| | `centers`, `held`, `path`, `idx`, `shown`, `window` | locals of `_track_strided`, `_smooth` and of the rendering pass, with the last crop |
| `RenderTask` | `step`, `err`, `retries`, `lost` | the stage of `render_clip`, its exception by its cause, `self.request.retries`, processes lost under the message |
| `Maintenance` | `due`, `queue` | Beat's schedule, the list `maintenance` in Redis |
| | `worker` | what a slot executes: a stage of the pipeline, the report, or the purge with the entries of its listing not yet visited |
| | `work`, `age`, `life` | entries of `WORK_DIR/<video>`, the age of its mtime, the age of the video's first task |
| | `failed`, `since`, `late` | the age of the first failed row of a video that no report has shown, the age of the last report, whether two were further apart than the window |
| `ClipCaptions` | `rank`, `window` | the clip that is captioned and its `start_seconds` and `end_seconds` |
| `Subtitles` | `words`, `next`, `events` | the result of `_clip_words`, the word a line begins with, the events of the ASS file |

Modules hold a few operators marked *Mutant*: plausible mistakes in the code
they stand beside. No specification uses them; each property was seen to fail
when the action is replaced by one of them.

## 3. What is abstracted

* Contents. A transcript, a source, a video file are there or not; an analysis
  returns any number of candidates up to `MaxClips`; a title is one of `Titles`.
  Timestamps, progress, messages and metrics are left out.
* Errors. `transient` (retryable), `schema` (the retryable `AnalysisError` of a
  reply that does not validate), `permanent` (not retryable, and every exception
  that is not a `ClipFarmError`, which no task retries).
* Delay. `countdown` and backoff are the time a message stays in `ready`, which
  is arbitrary.
* The set `ready` holds equal messages once. A message equal to one that is
  waiting would run a second time without changing what the first can do.
* Celery's chord is modelled by its contract, the one `tasks.py` relies on: the
  body is published when the last part returns, and never if a part raised or
  was killed. How Redis counts is outside the repository.
* Output files are named by video, rank and title. The code names the folder by
  the video's title; two videos with one title share it. That is not modelled.
* An intermediate is there once the step that writes it has finished. Nothing
  reads it earlier in the same task; when two workers render one clip, they may
  also overwrite each other's intermediates, which `OneAtATime` is about.
* `purge_stale_work_dirs` may find any workspace stale at any time.

In the stage modules:

* Times are integers, in centiseconds if one likes; in `Transcribe` the unit is a
  share of the file's length. Rounding to milliseconds is therefore not seen. Words
  are in order and do not overlap, which is what faster-whisper returns; some have
  no length, and the last may end after the reported duration.
* `Upload` moves a file in chunks of one read; a chunk is named by the request it
  came from. `dest.open("wb")` is create-or-truncate, `unlink` removes the name
  and leaves open descriptors usable, a write behind the end leaves a hole.
* `Analyze` takes any answer of up to `MaxCandidates` candidates that its schema
  admits, with ends in the wrong order and beyond the audio.
  `MinLen <= MaxLen` is assumed of the settings; `config.py` does not check it.
* `ClaudeClient` knows an answer by how it is treated: an error of `_RETRYABLE`,
  another status error, an exception of neither kind, and the four sorts of
  replies.
* `Reframe` has lengths in pixels and centres in half pixels; a smoothed centre is
  an exact fraction where numpy has a double. A detector returns any centre of a
  given set, beyond the edges too, or none. The ratio of the output is assumed
  to lie between 1:2 and 2:1, which `config.py` does not check. How many frames can be
  read is the same in both passes, and both passes read one file.
* `RenderTask` takes packaging as one step with the outcome of its ffmpeg call.
  The soft limit comes at any stage. In reframe it is one of the crashes, or falls
  between the opening of an OpenCV object and the `try` whose `finally` releases it
  (`Unguarded`); then the object is closed when the exception is dropped and the frame
  with it, which is CPython's reference counting.
* `Maintenance` counts time in hours. A housekeeping task does not outlast one, a
  task of the pipeline may outlast any number. One message of each housekeeping task
  waits in the queue at most: a second one would purge or report again at once. A
  chord's renders are one. Directories of videos that ended earlier are `Old`; the
  files of a `Locked` one cannot all be deleted.
* `Transcribe` has the soft limit at any step, once. The hard limit comes only
  while the loop runs, which is the one place where an hour can pass.
* `Encoder` has the command lines of the code token by token, paths and numbers
  that depend on the clip as one constant each, because the fallback cuts by
  counting tokens. That libx264 rejects a malformed line is ffmpeg's contract.
* `Subtitles` leaves out text, style and layout.
* `list.sort` and a loop with `continue` are modelled by what they leave, not by how:
  the indices in the order asked for (`Enumeration`). The order is strict and total
  where it is used, so there is one such listing; that it exists is a lemma.

## 4. The runs

### The farm

`nominal`, `events`, `recovery` and, of section 5, `stuck_prepare` and `rerender`
check `MCClipFarm` with one video and two worker slots; the slots are
interchangeable (`SYMMETRY`) in the runs without liveness. Two slots are enough
for every interference of two tasks, and the only interactions of several videos
would be through outputs with equal names, which are not modelled. Deadlock is
not checked because the system does stop: when a video is settled and no request
comes in, nothing is left to do. The same holds of every stage module: a stage
ends.

| run | what may happen | bounds | properties |
|---|---|---|---|
| `nominal` | stage errors of every kind, a failing publication | 1 event, 2 clips, 2 titles, 2 + 2 retries | `StageInputsExist`, `CompletedHasOutput`, `SummaryMatches`, `OneAtATime`, `FailedDirKept`, refinement `LifecycleSpec` |
| `events` | one event of any kind: death, redelivery of a running task, time limit, failing commit, disk or broker, purge, re-render | 1 event, 2 clips, 0 + 1 retries | `NoLostRender`, `FinalizeAfterAll`, `ClipHasTranscript` |
| `recovery` | death of a worker that renders or finalizes | 1 death, 2 clips, 0 + 1 retries | `RunningIsOwned`, `AllAttempted`, `SourceOutlivesChord`, `JobsSettled`, `CompletedOnce`, `Settles` |

What they show:

* `nominal`: with nothing failing but stages and a publication, the farm implements
  the lifecycle a client is promised, each stage of each render finds its input,
  the summary in `video.error` agrees with the clips, whatever was retried on
  the way, no clip is worked on by two workers, and a completed clip can be
  downloaded. Two clips are needed for *some failed* to differ from *all failed*.
  Two retries of each task make a first, a middle and a last attempt;
  `process_video` has three in the code.
* `events`: late acknowledgement and the chord never lose a render, the body never
  waits or runs beside one, and rows stay in a state in which a render finds what
  the guards of `render_clip` look for. One event at any point of any task is
  enough to separate a message from its task; two clips, for the last part to
  differ from the first.
* `recovery`: a death of a render or of finalize does not stop the video. It
  settles, with every clip attempted, it stays completed although a part is
  rendered again, and while it says *running* something that will move it on
  exists. It is not harmless for the clips: a worker that dies after it reported
  its part and before it acknowledged it leaves a message that renders again when
  finalize has removed the source, and a completed clip becomes a failed one, which
  none of these properties excludes (section 8). For the first half of the pipeline
  the question has the opposite answer, see `stuck_prepare`.

### The stages, the task and the housekeeping

| run | bounds | properties |
|---|---|---|
| `upload` | 2 requests, 2 names, 2 chunks allowed of up to 3 sent, 1 retry of the ingest | `SizeCap`, `RejectedLeavesNothing`, `IngestsWholeUpload` |
| `transcribe` | 3 tasks, 2 per process, up to 3 segments, failing commits and time limits | `CompletedIsStored`, `FullOnlyWhenDrained`, `FailedUnlessInterrupted` |
| `captions` | audio of 4 units, up to 3 words and 3 candidates, clips of 2 to 3 units, 2 kept, 2 scores, 2 words per line | `StagesTypeOK`, `LengthsInBounds`, `BestFirst`, `CutsAtWords`; `SpokenIsShown`, `HighlightNeverLate`; `CaptionedFromStart` |
| `render_task` | 5 attempts as in the code, 1 retry, 1 lost process, 2 encoder settings, 2 sizes of cut, 0 or 3 frames, 2 backends | `CallBudget`, `RefusalIsFinal`, `FallbackIsSoftware`, `HardwareNeverFailsClip`, `WindowInFrame`, `CameraInSpan`, `FramesKept`, `HandlesReleased`, refinement `ImplementsAttempts` |
| `maintenance` | 2 videos, a worker for each queue, purge and report every hour, retention and window of one hour, 1 retry, 1 fault | `UnfinishedKept`, `LeftoversGo`, `ReportedUnlessLate` |

What they show:

* `upload`: two requests at any pace, refused or broken at any point, with the
  ingest of the first running while the second writes. As long as names differ,
  what is ingested is the whole upload and a refusal leaves nothing. The cap holds
  even where two requests share a file. Where they share one, the second truncates
  what the first wrote, and the first video may be ingested with the other's bytes;
  nothing in the repository promises otherwise, so the properties leave it out.
  Two chunks tell a partial file from a
  whole one, three tell a refusal after a write from one before it.
* `transcribe`: a job is completed only with its whole transcript stored, and
  100 % is shown only when the recognizer is exhausted. The properties speak of
  a segment that ends beyond the reported length, a length of zero, a generator
  that fails half way, failing commits, and the time limits, in any combination.
  `FailedUnlessInterrupted` names the ways in which a task is over and its video
  still says *running*, and there are three: a session the database broke, a soft limit
  that fell into the progress callback and was swallowed, so that the hard limit killed
  the process, and a soft limit that fell into `prepare_video`'s exception handlers before
  their commit. Three tasks at two per process include a task in a
  process that has a model, one whose predecessor failed to load it, and a
  replaced process.
* `captions`: whatever the model answers, candidates and clips lie inside the
  recording (that is what `StagesTypeOK` says beyond types), each clip has a
  permitted length and is cut at words, and what is returned are the best of the
  valid candidates, ties in the order of the answer. In each of those clips every
  word spoken is on screen while it is spoken, also one the clip ends in, and the
  highlight does not lag. Across the two stages: `build_ass` never refuses a clip
  that analyze chose, and its first caption is up at once. Three words make two
  lines of which one is full; three candidates for two kept make the cap bite.
* `render_task`: one message from its first execution to its end. Both levels of
  retries multiply and do not exceed their product, a refused prompt is not sent
  again unless the process that knew of it is lost, the spliced command equals the
  one that would have been built for libx264, so that a clip fails over its encoder
  only if libx264 fails too. Reframe keeps its crop inside the frame, the camera
  between centres already seen, a frame for each frame, and no handle. Seen from the
  queue it is the task of `TaskAttempts`: a retry only
  after an error that may pass (ffmpeg, a `RenderError`, an unavailable API, an empty
  reply), never after a refusal or an unexpected exception, no attempt beyond
  `max_retries`, and an end. After a schema mismatch, a status error or a missing key
  the code retries where `tasks.py` says that it fails immediately (section 5); the
  property judges neither. A cut narrower than the
  output and one whose sides do not divide take both branches of the crop; three frames
  at a stride of two have a detected, a repeated and another detected one; a cut with no
  frames at all is the third way to fail. One retry and one loss make a first and a last
  attempt, and a loss on either.
* `maintenance`: within the retention window no video loses its workspace to the
  purge, however its tasks wait and are retried. What a finished video leaves is
  removed in the end, also beside an entry that cannot be removed. A failure is
  missing in the reports only if two of them lay further apart than the window, also
  where a later attempt of the same task succeeded: its row stays. A
  retention of one tick has the ages 0, 1 and older, on both sides of the
  cutoff; one video that begins and one that ended before, with a file that
  cannot be deleted, meet in one listing.

### Bounds and fairness

**Bounds.** `MaxClips`, `ProcessRetries`, `RenderRetries` bound what the code
bounds by settings and task options. `MaxEvents` bounds the environment, and
with it redeliveries and re-renders, which nothing in the code bounds. One event
per behaviour separates causes: each hazard listed arises from a single event.

`MaxLost` and `MaxFaults` bound the environment of `RenderTask` and `Maintenance`.
`Duration`, `MaxSegments`, `MaxTasks`, `MaxWords`, `MaxCandidates`, `MaxScore`,
`Sizes`, `Lengths`, `Faces` and the sizes in `Upload` bound inputs; the other
constants of the stage modules are settings, literals or options of the code.

**Fairness** (`recovery`, `stuck_prepare`): weak fairness of
each worker's steps, of delivery to each free slot, and of the API's publication
of what it committed. A task that runs is a thread of a process that goes on,
with timeouts on its subprocesses and requests; a slot polls the broker; a
request handler runs to its end. Nothing is assumed about environment events,
about success of a stage, or about which message a slot takes. With
weak fairness of delivery no message starves here, because a behaviour has
finitely many messages. `render_task` assumes weak fairness of the message as a whole:
ffmpeg's timeout, the end of the cut, the request timeout and the longest backoff
bound each wait, and a queued message is taken by some worker. `maintenance`
assumes that hours pass, that Beat publishes what is due, and that a worker takes
what its own queues hold and goes on with the purge or the report; nothing of
the pipeline. `unconsumed_queue` assumes the same, for workers that
consume the default queue. The other stage runs check safety only and assume none.

## 5. Where the code and its documentation disagree

Each of these is a run with one property that the documentation states and the
code violates; TLC prints the behaviour.

| run | the statement | what happens |
|---|---|---|
| `stuck_prepare` | a crashed worker's task is redelivered, "safe to scale this way without special coordination" (`docs/PERFORMANCE.md`) | the row says *running*, so the redelivered message is refused as a duplicate; the video never settles |
| `rerender` | re-render a clip without preparing again (`orchestrator.py`, `README.md`) | the source was removed by `finalize_video`, or is removed during the render |
| `transcribe_progress` | a failure of the progress callback "must not abort a 20-minute transcription" (`transcribe.py`) | the failed commit leaves the session unusable; the transcript cannot be stored |
| `unconsumed_queue` | Beat schedules "hourly cleanup, daily failure report" (`docker-compose.yml`); both queues may be left "on the default worker" (`celery_app.py`) | the worker of `docker-compose.yml` has no `-Q` and consumes the default queue only; the queue `maintenance` is never read |

Others were met while modelling. The modules have the behaviour, and the property
of the passing run named here says where it ends; no run of its own shows the
disagreement.

| where | the statement | what the code does | judged by |
|---|---|---|---|
| `orchestrator.py:90` | "refusing to start a second concurrent run" | reads the status and commits later: a redelivered message beside its original passes as well | `OneAtATime`, without redelivery |
| `tasks.py` | "A video/clip is already being processed — refuse to double-enqueue" (`exceptions.py`) | clips have no guard; a death between a retry and its acknowledgement leads to two renders | `OneAtATime`, without deaths |
| `tasks.py:63` | "marked complete exactly once" | the guard refuses *running* only; a redelivered `process_video` prepares a completed video again | `CompletedOnce`, when that task does not die |
| `claude_client.py:148` | a schema mismatch fails immediately (`tasks.py`) | `AnalysisError` is retryable | `CallBudget`; left open by `ErrorKind` in `ImplementsAttempts` |
| `claude_client.py:126` | 400s and auth errors "are deliberately excluded" from retries | they become an `AnalysisError`, and the task retries those; so does a missing key | `CallBudget`; left open by `ErrorKind` in `ImplementsAttempts` |
| `claude_client.py:67` | `CLAUDE_MAX_RETRIES` (`config.py`, `.env.example`) | nothing reads it; tenacity stops after the literal 5 | `CallBudget` |
| `claude_client.py:124` | "Claude API calls made" (`metrics.py`) | `CLAUDE_REQUESTS` counts calls of `parse`, each up to five API calls | `TokensCounted` (proved) for the tokens |
| `cleanup.py:50` | failed workspaces are kept on request | `finalize_video` removes the directory above them | `FailedDirKept`, while the video runs |
| `orchestrator.py:168` | a job is not left at *running* | after a failed commit the handler's commit fails as well | `JobsSettled`, for settled videos |
| `transcribe.py:116` | the soft limit is there to "allow cleanup before kill" (`config.py`) | raised inside the callback it is swallowed; the hard limit kills the task with its job at *running* | `FailedUnlessInterrupted`, with that exception |
| `orchestrator.py:156` | `_fail_open_job` marks the job failed "rather than leaving it stuck at `running` forever" (`orchestrator.py:69`) | a soft limit raised inside the handlers, before their commit, leaves them with video and job at *running* | `FailedUnlessInterrupted`, with that exception |
| `analyze.py:124` | "cuts never slice mid-word" | a clip too long after snapping ends `max_clip_seconds` after its start | `CutsAtWords`, with that exception |
| `subtitles.py:134` | "per-word timing" drives the highlight (`docs/ARCHITECTURE.md`) | pauses between words are not in the tags; after one the highlight is ahead of the voice | `HighlightNeverLate` |

## 6. The proofs

Every safety property that a run checks is proved, and so is the refinement of
`VideoLifecycle`; what stays with TLC is liveness, see the end of this section.

**The farm in every environment** (`ClipFarmProofs`). For every set of videos,
workers and titles, every retry limit, every choice of settings, and every kind and
number of events. Of the constants, `FarmAssumption` and `NoRowAssumption` (the
value that stands for a missing row is no row) are all that is assumed:

* `TypeCorrect`: `Spec => []TypeOK`. `TypeOK` is not inductive: a
  death publishes the message a slot holds, and the retry counter is computed
  from the row the session loaded. `TypeInv` adds that a slot that is not idle
  holds a message, and that one about to count a retry has loaded a clip or
  nothing. There is one lemma per action of the two long tasks.
* `RendersNotLost`: `Spec => []NoLostRender`. Inductive, given
  the types. `CarryOn` is the core of the argument: if one slot changes, the
  broker loses nothing and new parts are published, then it suffices that the
  part this slot carried is still carried or has left `awaited`.
* `RenderInputsCommitted`: `Spec => []ClipHasTranscript`. The
  property speaks of rows, the reason lies in the program counter: `StagesInOrder`
  says that a slot past a stage belongs to a video whose row has that stage's
  result, and that a claimed row exists, so that it cannot be created again with
  its columns empty.
* `FinalizeWaits`: `Spec => []FinalizeAfterAll`. Not inductive alone:
  `Dispatch` makes parts of a run outstanding, so no `finalize_video` of that run may
  be in flight before. `ChordInv` adds that nothing of a run is outstanding or in flight
  while a prepare holds it (`HeldIsNew`), that one prepare holds it (`HeldByOne`) and
  that only begun runs are dispatched; `ClaimVideo` begins a run beyond all of them, and
  a death or a redelivery moves a message but hands no run on.

**The farm when a preparation is not doubled** (`OnceProofs`). The runs `stuck_prepare`
and `rerender` and the table of section 5 show what is false beyond. `PreparedOnce`
says that no task outlasts the visibility timeout and that no worker dies while it
prepares a video. The code guarantees neither: the timeout is left at the hour that is
Redis's default, while `config.py` lets a task run for three. The theorems say what an
operator gains who sees to both.
Deaths in renders and in `finalize_video`, time limits, re-renders, failing commits,
disks and publications, any number of each, remain. It is wider than the environment
of `recovery`, where TLC checks the same properties. What further events a theorem
excludes, or which it admits, is said beside it.

`OnceInv` carries the argument. All requests to prepare a video, in the API, in the
queue and in the slots, are one; while it is out, no part and no body of that video
is; and the row agrees with the step of the slot that has it. A status is
otherwise no evidence, because it is read in one step and used in another.

* `CompletesOnce`: `CompletedOnce`. Only a claim moves a row out of *completed*, and by
  `OnceInv` a slot that may claim loaded the row as it is, and it is not *completed*.
* `JobsClosed`: `[]JobsSettled`. By `JobInv`, the slot that opened a job holds the video
  for as long as the job is *running*: there is one such slot, and its video has not
  settled.
* `SourceKeptForChord`: `[]SourceOutlivesChord`, when nothing is purged by age. By
  `SourceInv` a prepare that is past the ingest has its source, which only the
  finalize of the same video removes, and that one starts when no part is outstanding.
* `EveryClipAttempted`: `[]AllAttempted`, when no commit fails. By `AttemptInv` a clip
  that is still *selected* is waited for, and so a body that counts the failed
  finds none.
* `RunningHasOwner`: `[]RunningIsOwned`, when no prepare dies, no task is killed at its
  limit, no commit and no publication fails (`NothingAbandoned`): each of these leaves a
  *running* video to nobody. Here messages may be redelivered as often as they like,
  so that `OnceInv` is not available: a video may have two prepares, two chords and two
  bodies, and an owner in the sense of `RunningIsOwned` may be one that will write nothing,
  because its session has loaded the row as *completed* before another prepare claimed
  the video. `OwnerInv` asks for an owner that certainly moves the row on; each step that
  gives a video up, from the dispatch to the last part and the body, names the next one.

The conditions on events in this part and the next are no stricter than they have to be.
With the constants of `recovery`, `ProcessRetries = 1`, all tasks in `CrashTasks` (for
`FailedDirKept`, `KeepOnFailure = TRUE`) and any one kind of event that a theorem
excludes, happening once, TLC finds its property violated.

**The farm when no render is doubled** (`DeliveryProofs`). `DeliveredOnce` excludes deaths,
redeliveries of running tasks and re-renders; tasks are still killed, commits, disks and
publications fail, workspaces are purged, renders retried, without a bound. Wider
than the environment of `nominal`, where TLC checks these properties.
`RenderInv` is the invariant: of each clip there is one message or one slot, and while
there is, its part is outstanding and its video is held by nothing else.

* `OneWorkerAtATime`: `[]OneAtATime`, from `OnceInv` and `RenderInv`.
* `CompletedIsDownloadable`: `[]CompletedHasOutput`. `RowsInv` says that the row the
  session loaded is the row as it is, so that `Flushed` writes what the handler means,
  and that a clip is marked completed when its output is whole.
* `SummaryTrue`: `[]SummaryMatches`. `SumInv` follows the tally and the error the
  session loaded through `finalize_video`, and the error of a failed preparation to the
  claim that clears it.
* `StagesFindInputs`, `FailedDirStays`: `[]StageInputsExist`, `[]FailedDirKept`, when nothing is
  purged by age. `FilesInv` has, for each step of a render, the files it will read;
  `FilesStay`, that only the render itself and the end of its video remove any.
* `FarmShowsLifecycle`: `LifecycleSpec`, the refinement, when only publications fail, tasks
  are killed and workspaces purged (`Undisturbed`). `VideoMoves` and `ClipMoves` say how rows
  can change at all; `VideoStepRefines` and `ClipStepRefines` find the step of the
  lifecycle each of them is. `RunsInv` bounds the preparations of a video by its
  retries, which the lifecycle's clips are named by, and `DoneInv` has that a clip
  which nothing waits for has ended, which `Complete` asks for.

**A render** (`RenderTaskProofs`), for every retry limit, encoder
setting, size of source and target, number of frames, stride and detector:

* `CallsBounded`: `Spec => []CallBudget`. The bound is a
  product, so the proof needs to know which execution and which attempt the message
  is in. `BudgetInv` says that the calls made are at most those of the executions
  before this one, retried or lost, plus those of this one; each action then adds
  at most what it consumes.
* `RefusalsAreFinal`: `Spec => RefusalIsFinal`. `RefusalInv` follows a refusal on its
  way: raised in the request, raised in the task with an error that is not
  retried, failed. `TokensAreCounted`: the token metric through all of that.
* `FallbackCommand`: `Spec => []FallbackIsSoftware`. The fallback finds `-c:v` in the
  command and cuts a number of tokens out; that the first place it finds is the
  right one, and that the number is the length of the encoder's arguments, are lemmas
  about the commands of the three stages (`Found`, `Spliced`). `SoftwareIsTried`
  carries with it which encoder the command in hand has.
* `WindowAlwaysFits`, `EveryFrameIsKept`: `[]WindowInFrame`, `[]FramesKept`. `CropFits`
  is the arithmetic: rounded as Python rounds, neither side of the crop exceeds the
  frame's nor vanishes, for all sizes and any ratio between 1:2 and 2:1. A window that fits
  is not empty, so no frame is skipped.
* `CameraStaysInSpan`: `[]CameraInSpan`. `CameraInv` adds that the centre the smoothing
  holds is one that was known; a mean of a point of the span and one of the span stays in
  it (`Mixed`, on fractions), and what was known stays known (`KnownGrows`).
* `NoHandleStaysOpen`: `[]HandlesReleased`, from what exactly is open at each step, the
  moment outside every `try` included.
* `StepsAreAttempts`: the safety part of `ImplementsAttempts`; each step is a step
  of `TaskAttempts` or a stutter. What the code calls retryable is compared here with the
  kinds of `ErrorKind`: every passing error is, no final one is, and of the open ones
  nothing is said.

**The housekeeping** (`MaintenanceProofs`), for every retention, window, interval,
number of retries, and every distribution of the queues on the workers:

* `PurgeSparesTheYoung`: `Spec => UnfinishedKept`. The purge judges a directory, and
  removes it later, when the pipeline may have worked in it again. `LifeInv` ties the two
  together: a directory is no older than its video's first task, and an entry that was
  found stale belongs to a video older than the window, which it stays.
* `ReportsMissOnlyWhenLate`: `Spec => []ReportedUnlessLate`, inductive with the types.

**The stages**, for every value of their settings and bounds:

* `UploadProofs`: `SizesAreCapped`, `RefusedLeavesNothing`, `WholeUploadIngested`. The cap
  is proved with shared names too, where the length of a file is not what one request
  has written: it follows from where each write ends. The other two are
  about uploads that share no name, and `Alone` says what each step of the request and
  of the ingest then finds: the name is free or holds the upload's own file, the file
  and the copy are prefixes of the upload, an ingest starts when the file is whole.
  The lemmas `UploadFrame`, `IngestFrame` and `OthersAlone` say that the steps of one upload leave
  that alone for every other.
* `TranscribeProofs`: `TranscriptIsWhole`, `FullMeansDrained`,
  `OnlyInterruptsLeaveRunning`. `Placed` ties the program counter to what is
  drained, stored and completed, and to where a soft limit struck.
* `ClipCaptionsProofs`: what analyze chooses and what is captioned, for every
  recording, transcript, answer and setting. These speak of sorted lists and of sums
  along a list, and the theorems the library has for induction cannot be applied here;
  `Induction` derives it once, for a set of numbers, from the least element of its
  complement. `AlongExists` obtains the listing of a finite set in a strict total order by
  giving each element the number of those before it, and `RankedIs` and `Ascending`
  apply that to the two lists.
  * `LengthsRespectSettings`, `CutsBetweenWords`: `[]LengthsInBounds`, `[]CutsAtWords`. `ClipsInv`
    carries both for the candidates kept so far. `SnappedIsBoundary` says what snapping
    returns, and `KeptIsGood` that what is appended has a permitted length, because the
    check and the cut come after snapping, and ends at a word or at the greatest length.
  * `BestComeFirst`: `[]BestFirst`, from `RankedAndCapped`.
  * `SpokenWordsShow`: `[]SpokenIsShown`. `WordsOfClip` says which words of the transcript are
    selected and where rebasing puts them; `CaptionInv`, that the lines written so far
    are those words, each up to the next line's first.
  * `CaptionsFromStart`: `[]CaptionedFromStart`, across the stages: the word a clip was
    snapped to is selected (`ClipStartsWithWord`), and is the first.
  * `HighlightIsInTime`: `[]HighlightNeverLate`. `ReachedIs` shows that the sum of durations
    exists as a function, `LineNotLate` is the induction over the words of a line.
  * `CaptionTypes`: `[]StagesTypeOK`, with clips and captions inside the recording.

The types of the farm, `RenderTask`, `Maintenance`, `Upload` and `Transcribe` are proved
beside these properties (`TypeCorrect`, `TaskTypes`, `MaintenanceTypes`, `UploadTypes`,
`TranscribeTypes`), so no run checks them.

**Only model-checked**: liveness (`Settles`, `LeftoversGo`, the fairness of
`ImplementsAttempts`), which is out of the prover's reach. And a theorem with a
condition on the events says nothing of environments beyond it, where its property is
false.

## 7. What is not modelled

* The download from YouTube, the prompt and the category filter of analyze, metadata
  beyond its request: a stage that succeeds or fails, or content.
* Output names across videos. Two videos with one title share a folder, and
  clips of equal rank and title overwrite each other there; the farm keys outputs by
  video, so it does not see this.
* The dashboard. `refresh` takes the page object of `GET /videos` for a list, finds
  no length in it and shows its empty message (`app.js:59-63`): no behaviour follows.
* The n8n workflows: clients of another product that post and poll.
* Read-only endpoints, which change no state; start-up, authentication, rate limits,
  metrics other than the two of `claude_client.py`, and logging, which hold none the
  pipeline reads; migrations and deployment, except for the queues the workers of
  `docker-compose.yml` consume.
* Slack: a notification that fails is logged and writes nothing.

## 8. Plan

Done, in this order: `FarmState`, `Broker`, `Prepare`, `Render`, `Finalize`,
`Api`, `ClipFarm` with `VideoLifecycle`; `Upload`, `Transcribe`, `Analyze`, `Subtitles`
with `ClipCaptions`; `Encoder`, `Reframe`, `ClaudeClient`, composed into `RenderTask`
with `TaskAttempts`; `Maintenance`; the safety theorems of all of them, and that the
farm implements `VideoLifecycle`.

Next:

1. What survives a death: the properties of `DeliveryProofs` are false when a worker dies
   in a render, or between the report of its part and the acknowledgement; state and prove what remains of them, first for `CompletedHasOutput`
   and `SummaryMatches`.
2. `Packaging`: `slugify` and output names across videos and runs; what a
   download of a completed clip returns.
