------------------------------- MODULE Broker -------------------------------
(***************************************************************************)
(* Celery on Redis as the tasks use it (workers/celery_app.py): late acks, *)
(* one message per worker slot, redelivery of what was not acknowledged,   *)
(* a hard time limit, and the chord that runs finalize_video once every    *)
(* render of a run has returned.  Celery itself is external; the settings  *)
(* and the call of chord() in workers/tasks.py say which of its behaviours *)
(* the program relies on.                                                  *)
(***************************************************************************)
EXTENDS FarmState

FirstStep == [process_video |-> "start", render_clip |-> "start", finalize_video |-> "read_clips"]

(* worker_prefetch_multiplier = 1: an idle slot takes one message.         *)
Deliver(w) ==
  /\ At(w, "idle")
  /\ \E m \in ready :
       /\ ready' = ready \ {m}
       /\ Become(w, [Idle EXCEPT !.pc = FirstStep[m.task], !.msg = m])
  /\ UNCHANGED <<tables, awaited, broken, enqueuing, disk, used>>

(* Mutant: the body is published when the first part returns.              *)
ReportFirst(w) ==
  /\ At(w, "report")
  /\ LET m == worker[w].msg
     IN IF IsPart(m)
          THEN /\ awaited' = awaited \ {m.clip}
               /\ ready' = ready \cup {Finalize(RunOf(m.clip))}
          ELSE UNCHANGED <<awaited, ready>>
  /\ Return(w, "ack")
  /\ UNCHANGED <<tables, broken, enqueuing, disk, used>>

(* render_clip returns a value, also when the render failed.  The last     *)
(* part of an unbroken chord publishes the body.                           *)
Report(w) ==
  /\ At(w, "report")
  /\ LET m == worker[w].msg
         left == awaited \ {m.clip}
         last == m.clip \in awaited /\ \A c \in left : RunOf(c) # RunOf(m.clip)
     IN IF IsPart(m)
          THEN /\ awaited' = left
               /\ ready' = IF last /\ RunOf(m.clip) \notin broken
                             THEN ready \cup {Finalize(RunOf(m.clip))}
                             ELSE ready
          ELSE UNCHANGED <<awaited, ready>>
  /\ Return(w, "ack")
  /\ UNCHANGED <<tables, broken, enqueuing, disk, used>>

(* A part that raised or was killed: its chord's body will not run.        *)
LosePart(m) ==
  IF IsPart(m)
    THEN /\ awaited' = awaited \ {m.clip}
         /\ broken' = broken \cup {RunOf(m.clip)}
    ELSE UNCHANGED <<awaited, broken>>

(* An exception left render_clip, or retry() could not publish.            *)
ReportFailure(w) ==
  /\ At(w, "report_failure")
  /\ LosePart(worker[w].msg)
  /\ Return(w, "ack")
  /\ UNCHANGED <<tables, ready, enqueuing, disk, used>>

Ack(w) ==
  /\ At(w, "ack")
  /\ Become(w, Idle)
  /\ UNCHANGED <<tables, broker, enqueuing, disk, used>>

(* Mutant: messages are acknowledged when they are received.               *)
CrashAckedEarly(w) ==
  /\ ~ At(w, "idle")
  /\ worker[w].msg.task \in CrashTasks
  /\ Happens("crash")
  /\ Become(w, Idle)
  /\ UNCHANGED <<tables, broker, enqueuing, disk>>

(* task_acks_late and task_reject_on_worker_lost: a worker that dies gives *)
(* its message back.                                                       *)
Crash(w) ==
  /\ ~ At(w, "idle")
  /\ worker[w].msg.task \in CrashTasks
  /\ Happens("crash")
  /\ ready' = ready \cup {worker[w].msg}
  /\ Become(w, Idle)
  /\ UNCHANGED <<tables, awaited, broken, enqueuing, disk>>

(* The Redis visibility timeout (one hour by default; a task may run for   *)
(* three) elapses while the task is still running.                         *)
Redeliver(w) ==
  /\ ~ At(w, "idle")
  /\ Happens("redeliver")
  /\ ready' = ready \cup {worker[w].msg}
  /\ UNCHANGED <<tables, awaited, broken, enqueuing, worker, disk>>

(* task_time_limit: the child is killed, the task recorded as failed and   *)
(* acknowledged.                                                           *)
Kill(w) ==
  /\ ~ At(w, "idle")
  /\ ~ At(w, "ack")
  /\ Happens("kill")
  /\ LosePart(worker[w].msg)
  /\ Become(w, Idle)
  /\ UNCHANGED <<tables, ready, enqueuing, disk>>
=============================================================================
