------------------------------- MODULE Render -------------------------------
(***************************************************************************)
(* The task clipfarm.render_clip (workers/tasks.py) and the orchestrator's *)
(* render_clip: cut, reframe, subtitle and package one clip.               *)
(***************************************************************************)
EXTENDS Prepare

Target(w) == worker[w].msg.clip
Rendering(w, step) == At(w, step) /\ Doing(w, "render_clip")
Final(w) == OutputOf(Target(w), worker[w].title)

(* The clip and its video are read.  Without the row, its source_path or   *)
(* its transcript the ValueError makes the task return a failed result.    *)
ReadClip(w) ==
  /\ Rendering(w, "start")
  /\ LET v == VideoOf(Target(w))
         row == Get(clip, Target(w))
     IN IF row # None /\ video[v].ingested /\ video[v].transcript
          THEN Become(w, [worker[w] EXCEPT !.pc = "mark_rendering", !.seen = row])
          ELSE Return(w, "report")
  /\ UNCHANGED <<tables, broker, enqueuing, disk, used>>

MarkRendering(w) ==
  /\ Rendering(w, "mark_rendering")
  /\ LET status == Flushed(clip[Target(w)].status, worker[w].seen.status, "rendering")
         error == Flushed(clip[Target(w)].error, worker[w].seen.error, FALSE)
     IN clip' = [clip EXCEPT ![Target(w)] = [@ EXCEPT !.status = status, !.error = error]]
  /\ Goto(w, "mkdir")
  /\ UNCHANGED <<video, job, runs, broker, enqueuing, disk, used>>

MakeDir(w) ==
  /\ Rendering(w, "mkdir")
  /\ files' = files \cup {<<Target(w), "dir">>}
  /\ Goto(w, "cut")
  /\ UNCHANGED <<tables, broker, enqueuing, source, whole, used>>

(* The mkdir stands before the try: its OSError reaches only the task.     *)
MakeDirFails(w) ==
  /\ Rendering(w, "mkdir")
  /\ Happens("disk")
  /\ Return(w, "report")
  /\ UNCHANGED <<tables, broker, enqueuing, disk>>

Cut(w) ==
  /\ Rendering(w, "cut")
  /\ VideoOf(Target(w)) \in source
  /\ <<Target(w), "dir">> \in files
  /\ files' = files \cup {<<Target(w), "cut">>}
  /\ Goto(w, "reframe")
  /\ UNCHANGED <<tables, broker, enqueuing, source, whole, used>>

(* Reframing, the subtitle file and the metadata request.                  *)
Reframe(w) ==
  /\ Rendering(w, "reframe")
  /\ <<Target(w), "cut">> \in files
  /\ files' = files \cup {<<Target(w), "framed">>}
  /\ \E t \in Titles : Become(w, [worker[w] EXCEPT !.pc = "burn", !.title = t])
  /\ UNCHANGED <<tables, broker, enqueuing, source, whole, used>>

(* Mutant: the row is committed before the output is complete.             *)
BurnAfterCommit(w) ==
  /\ Rendering(w, "burn")
  /\ <<Target(w), "framed">> \in files
  /\ whole' = whole \ {Final(w)}
  /\ Goto(w, "mark_completed")
  /\ UNCHANGED <<tables, broker, enqueuing, source, files, used>>

(* ffmpeg -y opens, and so truncates, the output file.                     *)
Burn(w) ==
  /\ Rendering(w, "burn")
  /\ <<Target(w), "framed">> \in files
  /\ whole' = whole \ {Final(w)}
  /\ Goto(w, "package")
  /\ UNCHANGED <<tables, broker, enqueuing, source, files, used>>

(* The output, its thumbnail and metadata.json are complete.               *)
Package(w) ==
  /\ Rendering(w, "package")
  /\ whole' = whole \cup {Final(w)}
  /\ Goto(w, "mark_completed")
  /\ UNCHANGED <<tables, broker, enqueuing, source, files, used>>

MarkCompleted(w) ==
  /\ Rendering(w, "mark_completed")
  /\ LET output == Flushed(clip[Target(w)].output, worker[w].seen.output, worker[w].title)
     IN clip' = [clip EXCEPT ![Target(w)] = [@ EXCEPT !.status = "completed", !.output = output]]
  /\ Goto(w, "remove_dir")
  /\ UNCHANGED <<video, job, runs, broker, enqueuing, disk, used>>

(* Mutant: the directory removed is the video's.                           *)
RemoveVideoDir(w) ==
  /\ Rendering(w, "remove_dir")
  /\ source' = source \ {VideoOf(Target(w))}
  /\ files' = {f \in files : VideoOf(f[1]) # VideoOf(Target(w))}
  /\ Return(w, "report")
  /\ UNCHANGED <<tables, broker, enqueuing, whole, used>>

RemoveDir(w) ==
  /\ Rendering(w, "remove_dir")
  /\ files' = files \ DirOf(Target(w))
  /\ Return(w, "report")
  /\ UNCHANGED <<tables, broker, enqueuing, source, whole, used>>

(* Mutant: a failed clip fails its video as well.                          *)
RenderFailsVideo(w, e) ==
  /\ \E step \in {"cut", "reframe", "burn", "package"} : Rendering(w, step)
  /\ e = "schema" => At(w, "reframe")
  /\ clip' = [clip EXCEPT ![Target(w)] = [@ EXCEPT !.status = "failed", !.error = TRUE]]
  /\ video' = [video EXCEPT ![VideoOf(Target(w))].status = "failed"]
  /\ Become(w, [worker[w] EXCEPT !.pc = "render_failed", !.err = e, !.seen = None, !.title = None])
  /\ UNCHANGED <<job, runs, broker, enqueuing, disk, used>>

(* A stage raises; the handlers of render_clip commit the failure.         *)
RenderFails(w, e) ==
  /\ \E step \in {"cut", "reframe", "burn", "package"} : Rendering(w, step)
  /\ e = "schema" => At(w, "reframe")
  /\ clip' = [clip EXCEPT ![Target(w)] = [@ EXCEPT !.status = "failed", !.error = TRUE]]
  /\ Become(w, [worker[w] EXCEPT !.pc = "render_failed", !.err = e, !.seen = None, !.title = None])
  /\ UNCHANGED <<video, job, runs, broker, enqueuing, disk, used>>

(* Mutant: the task raises the error it does not retry.                    *)
HandleRenderErrorRaising(w) ==
  /\ Rendering(w, "render_failed")
  /\ files' = IF KeepOnFailure THEN files ELSE files \ DirOf(Target(w))
  /\ IF worker[w].err \in Retryable /\ worker[w].msg.retries < RenderRetries
       THEN Become(w, [worker[w] EXCEPT !.pc = "count_retry", !.seen = Get(clip, Target(w))])
       ELSE Return(w, "report_failure")
  /\ UNCHANGED <<tables, broker, enqueuing, source, whole, used>>

(* Mutant: the directory goes whatever the setting says.                   *)
HandleRenderErrorCleaning(w) ==
  /\ Rendering(w, "render_failed")
  /\ files' = files \ DirOf(Target(w))
  /\ IF worker[w].err \in Retryable /\ worker[w].msg.retries < RenderRetries
       THEN Become(w, [worker[w] EXCEPT !.pc = "count_retry", !.seen = Get(clip, Target(w))])
       ELSE Return(w, "report")
  /\ UNCHANGED <<tables, broker, enqueuing, source, whole, used>>

(* The work directory goes unless the operator keeps failures; the task    *)
(* reads the row again when it will retry.                                 *)
HandleRenderError(w) ==
  /\ Rendering(w, "render_failed")
  /\ files' = IF KeepOnFailure THEN files ELSE files \ DirOf(Target(w))
  /\ IF worker[w].err \in Retryable /\ worker[w].msg.retries < RenderRetries
       THEN Become(w, [worker[w] EXCEPT !.pc = "count_retry", !.seen = Get(clip, Target(w))])
       ELSE Return(w, "report")
  /\ UNCHANGED <<tables, broker, enqueuing, source, whole, used>>

CountRetry(w) ==
  /\ Rendering(w, "count_retry")
  /\ IF worker[w].seen = None
       THEN UNCHANGED clip
       ELSE clip' = [clip EXCEPT ![Target(w)].retries = worker[w].seen.retries + 1]
  /\ Return(w, "retry_render")
  /\ UNCHANGED <<video, job, runs, broker, enqueuing, disk, used>>

(* Mutant: the message is both retried and given back.                     *)
RetryRenderTwice(w) ==
  /\ Rendering(w, "retry_render")
  /\ LET m == worker[w].msg
     IN ready' = ready \cup {m, Render(m.clip, m.request, m.retries + 1)}
  /\ Return(w, "ack")
  /\ UNCHANGED <<tables, awaited, broken, enqueuing, disk, used>>

RetryRender(w) ==
  /\ Rendering(w, "retry_render")
  /\ LET m == worker[w].msg
     IN ready' = ready \cup {Render(m.clip, m.request, m.retries + 1)}
  /\ Return(w, "ack")
  /\ UNCHANGED <<tables, awaited, broken, enqueuing, disk, used>>

RetryRenderFails(w) ==
  /\ Rendering(w, "retry_render")
  /\ Happens("broker")
  /\ Return(w, "report_failure")
  /\ UNCHANGED <<tables, broker, enqueuing, disk>>

(* A commit of the orchestrator's render_clip fails, and with it the one   *)
(* in its exception handler: the task returns a failed result.             *)
RenderCommitFails(w) ==
  /\ \E step \in {"mark_rendering", "cut", "reframe", "burn", "package", "mark_completed"} :
       Rendering(w, step)
  /\ Happens("db")
  /\ Return(w, "report")
  /\ UNCHANGED <<tables, broker, enqueuing, disk>>

(* The commit of retry_count stands in an except clause of the task: the   *)
(* error leaves the task.                                                  *)
CountRetryFails(w) ==
  /\ Rendering(w, "count_retry")
  /\ Happens("db")
  /\ Return(w, "report_failure")
  /\ UNCHANGED <<tables, broker, enqueuing, disk>>

RenderStep(w) ==
  \/ ReadClip(w) \/ MarkRendering(w) \/ MakeDir(w) \/ Cut(w) \/ Reframe(w)
  \/ Burn(w) \/ Package(w) \/ MarkCompleted(w) \/ RemoveDir(w)
  \/ \E e \in Errors : RenderFails(w, e)
  \/ HandleRenderError(w) \/ CountRetry(w) \/ RetryRender(w)
  \/ Report(w) \/ ReportFailure(w)
RenderFault(w) ==
  MakeDirFails(w) \/ RetryRenderFails(w) \/ RenderCommitFails(w) \/ CountRetryFails(w)
=============================================================================
