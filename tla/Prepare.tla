------------------------------ MODULE Prepare -------------------------------
(***************************************************************************)
(* The task clipfarm.process_video (workers/tasks.py) and the part of the  *)
(* orchestrator it runs, prepare_video: ingest, transcribe and analyze a   *)
(* video, then dispatch a render per clip.  Steps are delimited by what    *)
(* other processes can see: commits, files and messages.                   *)
(***************************************************************************)
EXTENDS Broker

Subject(w) == worker[w].msg.video
Preparing(w, step) == At(w, step) /\ Doing(w, "process_video")
JobOf(w) == <<Subject(w), worker[w].run, worker[w].stage>>
OwnClips(w) == ClipsOfRun(<<Subject(w), worker[w].run>>)
Following == [ingest |-> "transcribe", transcribe |-> "analyze"]

(* The row is read, and the duplicate check passes or ends the task.       *)
ReadVideo(w) ==
  /\ Preparing(w, "start")
  /\ IF video[Subject(w)].status = "running"
       THEN Return(w, "ack")
       ELSE Become(w, [worker[w] EXCEPT !.pc = "claim", !.seen = video[Subject(w)]])
  /\ UNCHANGED <<tables, broker, enqueuing, disk, used>>

(* Mutant: the error of the failed attempt is not cleared.                 *)
ClaimKeepingError(w) ==
  /\ Preparing(w, "claim")
  /\ video' = [video EXCEPT ![Subject(w)].status = "running"]
  /\ runs' = [runs EXCEPT ![Subject(w)] = @ + 1]
  /\ Become(w, [worker[w] EXCEPT !.pc = "open_job", !.seen = None, !.run = runs[Subject(w)] + 1])
  /\ UNCHANGED <<clip, job, broker, enqueuing, disk, used>>

(* status = running and error = None, committed after the check above.     *)
ClaimVideo(w) ==
  /\ Preparing(w, "claim")
  /\ LET error == Flushed(video[Subject(w)].error, worker[w].seen.error, "none")
     IN video' = [video EXCEPT ![Subject(w)] =
          [@ EXCEPT !.status = "running", !.error = error]]
  /\ runs' = [runs EXCEPT ![Subject(w)] = @ + 1]
  /\ Become(w, [worker[w] EXCEPT !.pc = "open_job", !.seen = None, !.run = runs[Subject(w)] + 1])
  /\ UNCHANGED <<clip, job, broker, enqueuing, disk, used>>

OpenJob(w) ==
  /\ Preparing(w, "open_job")
  /\ job' = Inserted(job, {JobOf(w)}, "running")
  /\ Goto(w, "stage")
  /\ UNCHANGED <<video, clip, runs, broker, enqueuing, disk, used>>

Staging(w, stage) == Preparing(w, "stage") /\ worker[w].stage = stage

(* The source is copied or downloaded; source_path is committed.           *)
Ingest(w) ==
  /\ Staging(w, "ingest")
  /\ source' = source \cup {Subject(w)}
  /\ video' = [video EXCEPT ![Subject(w)].ingested = TRUE]
  /\ Goto(w, "close_job")
  /\ UNCHANGED <<clip, job, runs, broker, enqueuing, files, whole, used>>

(* Mutant: the transcript is not stored in the row.                        *)
TranscribeUnsaved(w) ==
  /\ Staging(w, "transcribe")
  /\ Subject(w) \in source
  /\ Goto(w, "close_job")
  /\ UNCHANGED <<tables, broker, enqueuing, disk, used>>

Transcribe(w) ==
  /\ Staging(w, "transcribe")
  /\ Subject(w) \in source
  /\ video' = [video EXCEPT ![Subject(w)].transcript = TRUE]
  /\ Goto(w, "close_job")
  /\ UNCHANGED <<clip, job, runs, broker, enqueuing, disk, used>>

(* One transaction inserts a row per candidate.                            *)
Analyze(w) ==
  /\ Staging(w, "analyze")
  /\ \E n \in 0 .. MaxClips :
       clip' = Inserted(clip, {Subject(w)} \X {worker[w].run} \X (1 .. n), NewClip)
  /\ Goto(w, "close_job")
  /\ UNCHANGED <<video, job, runs, broker, enqueuing, disk, used>>

CloseJob(w) ==
  /\ Preparing(w, "close_job")
  /\ job' = [job EXCEPT ![JobOf(w)] = "completed"]
  /\ IF worker[w].stage = "analyze"
       THEN Goto(w, "dispatch")
       ELSE Become(w, [worker[w] EXCEPT !.pc = "open_job", !.stage = Following[@]])
  /\ UNCHANGED <<video, clip, runs, broker, enqueuing, disk, used>>

(* Mutant: the open job row is forgotten.                                  *)
StageFailsJobOpen(w, e) ==
  /\ Preparing(w, "stage")
  /\ video' = [video EXCEPT ![Subject(w)] = [@ EXCEPT !.status = "failed", !.error = "prepare"]]
  /\ Return(w, IF e \in Retryable /\ worker[w].msg.retries < ProcessRetries
                 THEN "retry_process" ELSE "ack")
  /\ UNCHANGED <<clip, job, runs, broker, enqueuing, disk, used>>

(* The handlers of prepare_video fail the video and the open job in one    *)
(* commit; the task then retries or returns.  A failed ingest may leave    *)
(* the file it fetched.                                                    *)
StageFails(w, e) ==
  /\ Preparing(w, "stage")
  /\ e = "schema" => worker[w].stage = "analyze"
  /\ video' = [video EXCEPT ![Subject(w)] = [@ EXCEPT !.status = "failed", !.error = "prepare"]]
  /\ job' = [job EXCEPT ![JobOf(w)] = "failed"]
  /\ source' \in {source, source \cup IF worker[w].stage = "ingest" THEN {Subject(w)} ELSE {}}
  /\ Return(w, IF e \in Retryable /\ worker[w].msg.retries < ProcessRetries
                 THEN "retry_process" ELSE "ack")
  /\ UNCHANGED <<clip, runs, broker, enqueuing, files, whole, used>>

(* self.retry() publishes the message again and ends this execution.       *)
RetryProcess(w) ==
  /\ Preparing(w, "retry_process")
  /\ ready' = ready \cup {Process(Subject(w), worker[w].msg.retries + 1)}
  /\ Return(w, "ack")
  /\ UNCHANGED <<tables, awaited, broken, enqueuing, disk, used>>

(* The publication fails: Celery drops the retry and the task fails.       *)
RetryProcessFails(w) ==
  /\ Preparing(w, "retry_process")
  /\ Happens("broker")
  /\ Return(w, "ack")
  /\ UNCHANGED <<tables, broker, enqueuing, disk>>

(* Mutant: a video without clips is not finalized.                         *)
DispatchWithoutFinalize(w) ==
  /\ Preparing(w, "dispatch")
  /\ awaited' = awaited \cup OwnClips(w)
  /\ ready' = ready \cup {Render(c, 0, 0) : c \in OwnClips(w)}
  /\ Return(w, "ack")
  /\ UNCHANGED <<tables, broken, enqueuing, disk, used>>

(* Mutant: finalize_video is published beside the renders, not as a body.  *)
DispatchUnjoined(w) ==
  /\ Preparing(w, "dispatch")
  /\ ready' = ready \cup {Render(c, 1, 0) : c \in OwnClips(w)}
                    \cup {Finalize(<<Subject(w), worker[w].run>>)}
  /\ Return(w, "ack")
  /\ UNCHANGED <<tables, awaited, broken, enqueuing, disk, used>>

(* No clips: finalize_video is called inline.  Otherwise the chord.        *)
Dispatch(w) ==
  /\ Preparing(w, "dispatch")
  /\ awaited' = awaited \cup OwnClips(w)
  /\ ready' = ready \cup {Render(c, 0, 0) : c \in OwnClips(w)}
  /\ Return(w, IF OwnClips(w) = {} THEN "read_clips" ELSE "ack")
  /\ UNCHANGED <<tables, broken, enqueuing, disk, used>>

(* apply_async fails part way: some renders are out, their chord is not.   *)
DispatchFails(w) ==
  /\ Preparing(w, "dispatch")
  /\ OwnClips(w) # {}
  /\ Happens("broker")
  /\ \E sent \in SUBSET OwnClips(w) : ready' = ready \cup {Render(c, 0, 0) : c \in sent}
  /\ broken' = broken \cup {<<Subject(w), worker[w].run>>}
  /\ Return(w, "ack")
  /\ UNCHANGED <<tables, awaited, enqueuing, disk>>

(* A commit of prepare_video fails.  The session was not rolled back, so   *)
(* the commit in the exception handler fails too and nothing is written.   *)
(* The commit of the ingested row comes after the file was fetched.        *)
PrepareCommitFails(w) ==
  /\ \E step \in {"claim", "open_job", "stage", "close_job"} : Preparing(w, step)
  /\ Happens("db")
  /\ source' \in {source, source \cup IF Staging(w, "ingest") THEN {Subject(w)} ELSE {}}
  /\ Return(w, "ack")
  /\ UNCHANGED <<tables, broker, enqueuing, files, whole>>

PrepareStep(w) ==
  \/ ReadVideo(w) \/ ClaimVideo(w) \/ OpenJob(w)
  \/ Ingest(w) \/ Transcribe(w) \/ Analyze(w) \/ CloseJob(w)
  \/ \E e \in Errors : StageFails(w, e)
  \/ RetryProcess(w) \/ Dispatch(w)
PrepareFault(w) == RetryProcessFails(w) \/ DispatchFails(w) \/ PrepareCommitFails(w)
=============================================================================
