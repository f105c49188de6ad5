------------------------------ MODULE Finalize ------------------------------
(***************************************************************************)
(* finalize_video (workers/tasks.py, pipeline/orchestrator.py) and the two *)
(* ways a video's workspace is reclaimed (core/cleanup.py).  process_video *)
(* runs the same steps inline when there are no clips.                     *)
(***************************************************************************)
EXTENDS Render

Finalizing(w, step) == At(w, step) /\ (Doing(w, "finalize_video") \/ Doing(w, "process_video"))

(* How many of the video's clips have failed, of all it ever got.          *)
Tally(v) ==
  LET failed == {c \in ClipsOf(v) : clip[c].status = "failed"}
  IN IF failed = {} THEN "none" ELSE IF failed = ClipsOf(v) THEN "all" ELSE "some"

ReadClips(w) ==
  /\ Finalizing(w, "read_clips")
  /\ Become(w, [worker[w] EXCEPT !.pc = "mark_finalized", !.seen = video[Subject(w)],
                                 !.tally = Tally(Subject(w))])
  /\ UNCHANGED <<tables, broker, enqueuing, disk, used>>

(* The summary goes to video.error; with no failure the column is left.    *)
MarkFinalized(w) ==
  /\ Finalizing(w, "mark_finalized")
  /\ LET seen == worker[w].seen
         now == video[Subject(w)]
         status == Flushed(now.status, seen.status, "completed")
         error == IF worker[w].tally = "none"
                    THEN now.error
                    ELSE Flushed(now.error, seen.error, worker[w].tally)
     IN video' = [video EXCEPT ![Subject(w)] = [@ EXCEPT !.status = status, !.error = error]]
  /\ Goto(w, "remove_workspace")
  /\ UNCHANGED <<clip, job, runs, broker, enqueuing, disk, used>>

DropWorkspace(v) ==
  /\ source' = source \ {v}
  /\ files' = files \ DirsOf(v)
  /\ UNCHANGED whole

RemoveWorkspace(w) ==
  /\ Finalizing(w, "remove_workspace")
  /\ IF CleanupOnSuccess THEN DropWorkspace(Subject(w)) ELSE UNCHANGED disk
  /\ Return(w, "ack")
  /\ UNCHANGED <<tables, broker, enqueuing, used>>

(* An OSError ends the removal, of which a part is done, and is only       *)
(* logged.                                                                 *)
RemoveWorkspaceFails(w) ==
  /\ Finalizing(w, "remove_workspace")
  /\ CleanupOnSuccess
  /\ Happens("disk")
  /\ source' \in {source, source \ {Subject(w)}}
  /\ \E gone \in SUBSET DirsOf(Subject(w)) : files' = files \ gone
  /\ Return(w, "ack")
  /\ UNCHANGED <<tables, broker, enqueuing, whole>>

FinalizeCommitFails(w) ==
  /\ Finalizing(w, "mark_finalized")
  /\ Happens("db")
  /\ Return(w, "ack")
  /\ UNCHANGED <<tables, broker, enqueuing, disk>>

(* The hourly purge finds WORK_DIR/<video> older than the retention        *)
(* window.  It looks at the directory's mtime only.                        *)
Purge(v) ==
  /\ v \in source \/ DirsOf(v) # {}
  /\ Happens("purge")
  /\ DropWorkspace(v)
  /\ UNCHANGED <<tables, broker, enqueuing, worker>>

FinalizeStep(w) == ReadClips(w) \/ MarkFinalized(w) \/ RemoveWorkspace(w)
FinalizeFault(w) == RemoveWorkspaceFails(w) \/ FinalizeCommitFails(w)
=============================================================================
