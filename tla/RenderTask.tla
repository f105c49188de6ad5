------------------------------ MODULE RenderTask ------------------------------
(***************************************************************************)
(* One message of the task clipfarm.render_clip, from the inside: the      *)
(* stages of the orchestrator's render_clip in their order, with the       *)
(* encodes of Encoder, the passes of Reframe and the request of            *)
(* ClaudeClient, and the task around them that retries the whole clip.     *)
(* The rows, files and messages of a clip are the module Render's.         *)
(***************************************************************************)
EXTENDS Encoder, Reframe, ClaudeClient

CONSTANTS
  TaskRetries,   \* max_retries of the task
  MaxLost        \* bound: worker processes lost under the task

ASSUME TaskAssumption == TaskRetries \in Nat /\ MaxLost \in Nat

VARIABLES
  step,      \* of the message, and of render_clip while it executes
  err,       \* the exception, by its cause
  retries,   \* self.request.retries
  lost       \* executions that ended with their process (history)

taskVars == <<step, err, retries, lost>>
vars == <<encoderVars, reframeVars, claudeVars, taskVars>>

(* Stages that run a command through _run_encode are named like it.        *)
Working == Stages \cup {"reframe", "subtitles", "metadata", "thumbnail"}
Ended   == {"completed", "failed"}

(* Causes of an exception: a command of ffmpeg, RenderError, what a        *)
(* request ended with, and "other", which is no ClipFarmError.             *)
Causes == {"ffmpeg", "render", "no_key"} \cup (Answers \ {"success"})

TypeOK ==
  /\ EncoderTypeOK /\ ReframeTypeOK /\ ClaudeTypeOK
  /\ step \in Working \cup {"queued", "raised"} \cup Ended
  /\ err \in Causes \cup {"none"}
  /\ retries \in 0 .. TaskRetries
  /\ lost \in 0 .. MaxLost

Init ==
  /\ EncoderInit /\ ReframeInit /\ ClaudeInit
  /\ step = "queued" /\ err = "none" /\ retries = 0 /\ lost = 0

-----------------------------------------------------------------------------
(* The execution.                                                          *)

Execute ==
  /\ step = "queued" /\ step' = "cut" /\ err' = "none"
  /\ Encode("cut") /\ UNCHANGED <<hwaccel, smi, retries, lost>>
  /\ UNCHANGED <<reframeVars, claudeVars>>

Raise(e) == step' = "raised" /\ err' = e /\ UNCHANGED <<retries, lost>>
Advance(s) == step' = s /\ UNCHANGED <<err, retries, lost>>

Encoding ==
  /\ step \in Stages /\ EncodeStep
  /\ UNCHANGED <<reframeVars, claudeVars, taskVars>>
(* The command went through: after cut comes reframe, whose last part is   *)
(* the mux, then the subtitle file; after burn the thumbnail.              *)
Encoded ==
  /\ step \in Stages /\ CanSucceed
  /\ LeaveEncode /\ UNCHANGED <<hwaccel, smi, claudeVars>>
  /\ CASE step = "cut"  -> Advance("reframe") /\ EnterReframe
       [] step = "mux"  -> Advance("subtitles") /\ UNCHANGED reframeVars
       [] step = "burn" -> Advance("thumbnail") /\ UNCHANGED reframeVars
EncodeRaises ==
  /\ step \in Stages /\ ffmpeg = "raised" /\ Raise("ffmpeg")
  /\ LeaveEncode /\ UNCHANGED <<hwaccel, smi, reframeVars, claudeVars>>

Reframing ==
  /\ step = "reframe" /\ ReframeStep
  /\ UNCHANGED <<encoderVars, claudeVars, taskVars>>
Reframed ==
  /\ step = "reframe" /\ rf = "mux" /\ Advance("mux")
  /\ LeaveReframe /\ Encode("mux") /\ UNCHANGED <<handles, hwaccel, smi, claudeVars>>
(* What is unguarded is closed with the frame that held it, as CPython     *)
(* counts references.                                                      *)
ReframeRaises ==
  /\ step = "reframe" /\ rf \in {"failed", "crashed", "unguarded"}
  /\ Raise(IF rf = "failed" THEN "render" ELSE "other")
  /\ handles' = IF rf = "unguarded" THEN {} ELSE handles
  /\ LeaveReframe /\ UNCHANGED <<encoderVars, claudeVars>>

(* build_ass writes the subtitle file, or finds no words for it.           *)
Subtitled ==
  /\ step = "subtitles" /\ Advance("metadata")
  /\ EnterParse /\ UNCHANGED <<encoderVars, reframeVars>>
SubtitlesRaise ==
  /\ step = "subtitles" /\ Raise("render")
  /\ UNCHANGED <<encoderVars, reframeVars, claudeVars>>

Requesting ==
  /\ step = "metadata" /\ ParseStep
  /\ UNCHANGED <<encoderVars, reframeVars, taskVars>>
Described ==
  /\ step = "metadata" /\ claude = "done" /\ Advance("burn")
  /\ LeaveParse /\ Encode("burn") /\ UNCHANGED <<hwaccel, smi, reframeVars>>

RequestRaises ==
  /\ step = "metadata" /\ claude = "raised" /\ Raise(last)
  /\ LeaveParse /\ UNCHANGED <<encoderVars, reframeVars>>

(* The frame is extracted, metadata.json written and the row committed.    *)
Packaged ==
  /\ step = "thumbnail" /\ Advance("completed")
  /\ UNCHANGED <<encoderVars, reframeVars, claudeVars>>
(* make_thumbnail runs ffmpeg too, without a fallback.                     *)
PackageRaises ==
  /\ step = "thumbnail" /\ Raise("ffmpeg")
  /\ UNCHANGED <<encoderVars, reframeVars, claudeVars>>

(* The soft time limit, or an OSError, strikes outside reframe, whose      *)
(* crashes are its own.                                                    *)
Interrupt ==
  /\ step \in Working \ {"reframe"} /\ Raise("other")
  /\ LeaveEncode /\ BreakParse /\ UNCHANGED <<hwaccel, smi, last, counted, tokens, reframeVars>>

-----------------------------------------------------------------------------
(* The task around it.                                                     *)

(* Mutant: a refusal is retried like any AnalysisError.                    *)
RetryableRefusal(e) == e # "other"
(* retryable of the classes: of FFmpegExecutionError, RenderError and      *)
(* AnalysisError it is set, whatever the request ended with, of its        *)
(* subclass ClaudeRefusalError it is not; other exceptions have none.      *)
Retryable(e) == e \notin {"refusal", "other"}

(* The message is sent again, and render_clip starts from its first stage. *)
Retry ==
  /\ step = "raised" /\ Retryable(err) /\ retries < TaskRetries
  /\ step' = "queued" /\ retries' = retries + 1
  /\ UNCHANGED <<encoderVars, reframeVars, claudeVars, err, lost>>

(* Mutant: a task out of retries does not return.                          *)
GiveUpOnlyPermanent ==
  /\ step = "raised" /\ ~Retryable(err) /\ step' = "failed"
  /\ UNCHANGED <<encoderVars, reframeVars, claudeVars, err, retries, lost>>

(* The task returns a failed result.                                       *)
GiveUp ==
  /\ step = "raised"
  /\ ~Retryable(err) \/ retries >= TaskRetries
  /\ step' = "failed"
  /\ UNCHANGED <<encoderVars, reframeVars, claudeVars, err, retries, lost>>

(* The process dies, its caches, handles and metrics with it; the message  *)
(* was not acknowledged and returns.                                       *)
LoseProcess ==
  /\ step \in Working \cup {"raised"} /\ lost < MaxLost
  /\ step' = "queued" /\ lost' = lost + 1
  /\ smi' = "unknown" /\ handles' = {}
  /\ LeaveEncode /\ LeaveReframe /\ BreakParse /\ LoseMetrics
  /\ UNCHANGED <<hwaccel, err, retries>>

Next ==
  \/ Execute \/ Encoding \/ Encoded \/ EncodeRaises
  \/ Reframing \/ Reframed \/ ReframeRaises \/ Subtitled \/ SubtitlesRaise
  \/ Requesting \/ Described \/ RequestRaises
  \/ Packaged \/ PackageRaises \/ Interrupt \/ Retry \/ GiveUp \/ LoseProcess

(* ffmpeg's timeout, the end of the cut, the request timeout and the hard  *)
(* time limit bound every step; a queued message is taken by some worker.  *)
Spec == Init /\ [][Next]_vars /\ WF_vars(Next)

-----------------------------------------------------------------------------
(* Both levels of retries together never exceed their product: each        *)
(* execution makes at most Attempts calls, whatever mix of answers it      *)
(* gets, and a clip is executed once per retry and once per lost process.  *)
CallBudget == calls <= Attempts * (retries + lost + 1)

(* A refused prompt is not sent again, at neither level of retries, unless *)
(* the process that knew of the refusal is lost.                           *)
RefusalIsFinal == [][last = "refusal" => calls' = calls]_vars

(* The errors by what the repository says of them, not by Retryable.       *)
(* Final are a refusal and exceptions that are not ClipFarmErrors.  A      *)
(* schema mismatch, a status error and a missing key recur too; of the     *)
(* first tasks.py says that it fails immediately, but all three are plain  *)
(* AnalysisErrors, which the code retries.  These are left open.           *)
Recurring == {"invalid_schema", "status", "no_key"}
ErrorKind ==
  CASE err = "none"                 -> "none"
    [] err \in {"refusal", "other"} -> "final"
    [] err \in Recurring            -> "open"
    [] OTHER                        -> "passing"

(* The task is the abstract one, seen from the queue.                      *)
Status == IF step \in Working THEN "running" ELSE step
Attempted == INSTANCE TaskAttempts
  WITH MaxRetries <- TaskRetries, status <- Status, error <- ErrorKind

(* A clip is rendered again after a failure of ffmpeg, a RenderError, an   *)
(* unavailable API or an empty reply, as long as retries are left, never   *)
(* after a refusal or an unexpected exception, at most max_retries times   *)
(* plus once for each lost process, and it ends in completed or failed.    *)
(* Whether it is retried after an error of Recurring is not judged.        *)
ImplementsAttempts == Attempted!Spec
=============================================================================
