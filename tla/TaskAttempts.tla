----------------------------- MODULE TaskAttempts -----------------------------
(***************************************************************************)
(* What the queue promises of one task message.  It is executed; again     *)
(* after a passing error as long as retries are left, never again after a  *)
(* final one, and after one of the sort that is left open, as the task     *)
(* sees fit; again when its worker is lost.  And it ends as completed or   *)
(* failed.                                                                 *)
(***************************************************************************)
EXTENDS Naturals

CONSTANTS
  MaxRetries,   \* max_retries of the task
  MaxLost       \* bound: workers lost under it

VARIABLES status, retries, lost, error

vars == <<status, retries, lost, error>>

Errors == {"passing", "final", "open"}

Init == status = "queued" /\ retries = 0 /\ lost = 0 /\ error = "none"

Execute ==
  /\ status = "queued" /\ status' = "running" /\ error' = "none"
  /\ UNCHANGED <<retries, lost>>

Complete ==
  /\ status = "running" /\ status' = "completed"
  /\ UNCHANGED <<retries, lost, error>>

Raise ==
  /\ status = "running" /\ status' = "raised"
  /\ error' \in Errors
  /\ UNCHANGED <<retries, lost>>

Retry ==
  /\ status = "raised" /\ error # "final" /\ retries < MaxRetries
  /\ status' = "queued" /\ retries' = retries + 1
  /\ UNCHANGED <<lost, error>>

Fail ==
  /\ status = "raised" /\ (error # "passing" \/ retries = MaxRetries)
  /\ status' = "failed"
  /\ UNCHANGED <<retries, lost, error>>

(* The message returns as it was.                                          *)
Lose ==
  /\ status \in {"running", "raised"} /\ lost < MaxLost
  /\ status' = "queued" /\ lost' = lost + 1
  /\ UNCHANGED <<retries, error>>

Next == Execute \/ Complete \/ Raise \/ Retry \/ Fail \/ Lose

Spec == Init /\ [][Next]_vars /\ WF_vars(Next)
=============================================================================
