-------------------------------- MODULE Api ---------------------------------
(***************************************************************************)
(* The endpoints of api/routes.py that change state the workers see.  The  *)
(* row is committed first and the message published after it.              *)
(***************************************************************************)
EXTENDS Finalize

CreateVideo(v) ==
  /\ video[v].status = "absent"
  /\ video' = [video EXCEPT ![v] = NewVideo]
  /\ enqueuing' = enqueuing \cup {v}
  /\ UNCHANGED <<clip, job, runs, broker, worker, disk, used>>

Enqueue(v) ==
  /\ v \in enqueuing
  /\ enqueuing' = enqueuing \ {v}
  /\ ready' = ready \cup {Process(v, 0)}
  /\ UNCHANGED <<tables, awaited, broken, worker, disk, used>>

(* process_video.delay raises: the client gets a 500, the row stays.       *)
EnqueueFails(v) ==
  /\ v \in enqueuing
  /\ Happens("broker")
  /\ enqueuing' = enqueuing \ {v}
  /\ UNCHANGED <<tables, broker, worker, disk>>

(* The endpoint looks at nothing but the existence of the clip.            *)
Rerender(c) ==
  /\ c \in DOMAIN clip
  /\ Happens("rerender")
  /\ ready' = ready \cup {Render(c, used + 1, 0)}
  /\ UNCHANGED <<tables, awaited, broken, enqueuing, worker, disk>>
=============================================================================
