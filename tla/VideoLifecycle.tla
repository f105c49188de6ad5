--------------------------- MODULE VideoLifecycle ---------------------------
(***************************************************************************)
(* What a client of the API may see of a video and its clips, without      *)
(* workers, messages or files: models/schema.py's statuses and the flow    *)
(* that workers/tasks.py and docs/ARCHITECTURE.md draw.                    *)
(***************************************************************************)
EXTENDS Naturals

CONSTANTS Videos, MaxClips, RunIds
VARIABLES vstat, cstat
vars == <<vstat, cstat>>

Of(v) == {c \in DOMAIN cstat : c[1] = v}

Init ==
  /\ vstat = [v \in Videos |-> "absent"]
  /\ cstat = << >>

Move(v, from, to) == vstat[v] \in from /\ vstat' = [vstat EXCEPT ![v] = to]
MoveClip(c, from, to) == cstat[c] \in from /\ cstat' = [cstat EXCEPT ![c] = to]

Submit(v) == Move(v, {"absent"}, "pending") /\ UNCHANGED cstat
Start(v) == Move(v, {"pending", "failed"}, "running") /\ UNCHANGED cstat

(* Only a preparation can fail a video, so a failed video has no clips.    *)
Abort(v) == Of(v) = {} /\ Move(v, {"running"}, "failed") /\ UNCHANGED cstat

(* All clips of a video appear at once, ranked from 1.                     *)
Select(v) ==
  /\ vstat[v] = "running"
  /\ Of(v) = {}
  /\ \E n \in 0 .. MaxClips, r \in RunIds :
       cstat' = [c \in DOMAIN cstat \cup ({v} \X {r} \X (1 .. n)) |->
                   IF c \in DOMAIN cstat THEN cstat[c] ELSE "selected"]
  /\ UNCHANGED vstat

(* Clips are worked on only while their video is running, and a completed  *)
(* clip is final.                                                          *)
StartRender(c) ==
  /\ vstat[c[1]] = "running"
  /\ MoveClip(c, {"selected", "failed"}, "rendering")
  /\ UNCHANGED vstat
EndRender(c) ==
  /\ vstat[c[1]] = "running"
  /\ \E s \in {"completed", "failed"} : MoveClip(c, {"rendering"}, s)
  /\ UNCHANGED vstat

(* A video completes when every clip has rendered or failed, and for good. *)
Complete(v) ==
  /\ \A c \in Of(v) : cstat[c] \in {"completed", "failed"}
  /\ Move(v, {"running"}, "completed")
  /\ UNCHANGED cstat

Next ==
  \/ \E v \in Videos : Submit(v) \/ Start(v) \/ Abort(v) \/ Select(v) \/ Complete(v)
  \/ \E c \in DOMAIN cstat : StartRender(c) \/ EndRender(c)

Spec == Init /\ [][Next]_vars
=============================================================================
