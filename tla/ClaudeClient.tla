----------------------------- MODULE ClaudeClient -----------------------------
(***************************************************************************)
(* claude_client.parse: one structured request, which tenacity repeats on  *)
(* the errors of _RETRYABLE, its reply, and the metrics of both.           *)
(***************************************************************************)
EXTENDS Integers

Attempts == 5    \* stop_after_attempt(5); settings.claude_max_retries is not read

(* What the API may answer: "transient" is an error of _RETRYABLE,         *)
(* "status" another status error, "other" an exception of neither kind,    *)
(* and the rest are replies, named like the outcomes parse counts.         *)
Replies  == {"success", "refusal", "empty", "invalid_schema"}
Answers  == Replies \cup {"transient", "status", "other"}
Outcomes == Replies \cup {"error"}

VARIABLES
  key,      \* is ANTHROPIC_API_KEY set?
  claude,   \* where parse stands
  attempt,  \* of tenacity
  last,     \* what the last attempt in this process ended with
  calls,    \* messages.create calls made (history)
  counted,  \* CLAUDE_REQUESTS, by outcome
  tokens    \* CLAUDE_TOKENS: replies whose usage is in it

claudeVars == <<key, claude, attempt, last, calls, counted, tokens>>

ClaudeTypeOK ==
  /\ key \in BOOLEAN
  /\ claude \in {"idle", "parse", "create", "backoff", "raised", "done"}
  /\ attempt \in 0 .. Attempts
  /\ last \in Answers \cup {"none", "no_key"}
  /\ calls \in Nat /\ tokens \in Nat
  /\ counted \in [Outcomes -> Nat]

ClaudeInit ==
  /\ key \in BOOLEAN /\ claude = "idle"
  /\ attempt = 0 /\ last = "none"
  /\ calls = 0 /\ tokens = 0
  /\ counted = [o \in Outcomes |-> 0]

Count(o) == counted' = [counted EXCEPT ![o] = @ + 1]

(* parse is called, and left by its return or an exception.                *)
EnterParse == claude' = "parse" /\ UNCHANGED <<key, attempt, last, calls, counted, tokens>>
LeaveParse == claude' = "idle" /\ attempt' = 0 /\ UNCHANGED <<key, last, calls, counted, tokens>>

(* An exception from outside ends it where it stands; a request may be on  *)
(* its way.                                                                *)
BreakParse ==
  /\ claude' = "idle" /\ attempt' = 0
  /\ calls' \in IF claude = "create" THEN {calls, calls + 1} ELSE {calls}
  /\ UNCHANGED key

(* The metrics live in the worker process.                                 *)
LoseMetrics == last' = "none" /\ tokens' = 0 /\ counted' = [o \in Outcomes |-> 0]

(* parse enters the decorated _create.                                     *)
Parse ==
  /\ claude = "parse" /\ key
  /\ claude' = "create" /\ attempt' = 1
  /\ UNCHANGED <<key, last, calls, counted, tokens>>

(* client() refuses without a key, with an AnalysisError that neither      *)
(* tenacity nor parse handles.                                             *)
NoKey ==
  /\ claude = "parse" /\ ~key
  /\ claude' = "raised" /\ last' = "no_key"
  /\ UNCHANGED <<key, attempt, calls, counted, tokens>>

Answered(a, next) ==
  /\ claude = "create"
  /\ calls' = calls + 1 /\ last' = a /\ claude' = next
  /\ UNCHANGED <<key, attempt>>

(* Mutant: stop_after_attempt counts the waits instead of the attempts.    *)
BackoffOnceMore ==
  /\ attempt <= Attempts
  /\ Answered("transient", "backoff")
  /\ UNCHANGED <<counted, tokens>>

(* An error of _RETRYABLE waits for the next attempt, if there is one.     *)
Backoff ==
  /\ attempt < Attempts
  /\ Answered("transient", "backoff")
  /\ UNCHANGED <<counted, tokens>>

NextAttempt ==
  /\ claude = "backoff" /\ claude' = "create" /\ attempt' = attempt + 1
  /\ UNCHANGED <<key, last, calls, counted, tokens>>

(* The last transient error, or a status error, becomes an AnalysisError.  *)
CallFails ==
  /\ \/ attempt = Attempts /\ Answered("transient", "raised")
     \/ Answered("status", "raised")
  /\ Count("error")
  /\ UNCHANGED tokens

(* Any other exception leaves parse as it is, uncounted.                   *)
CallBreaks == Answered("other", "raised") /\ UNCHANGED <<counted, tokens>>

(* A reply is charged first and judged after.                              *)
Reply(a) ==
  /\ Answered(a, IF a = "success" THEN "done" ELSE "raised") /\ Count(a)
  /\ tokens' = tokens + 1

ParseStep ==
  \/ Parse \/ NoKey \/ Backoff \/ NextAttempt \/ CallFails \/ CallBreaks
  \/ \E a \in Replies : Reply(a)

-----------------------------------------------------------------------------
(* Every reply the API charges for is in the token metric, also those that *)
(* parse then refuses.                                                     *)
TokensCounted ==
  tokens = counted["success"] + counted["refusal"] + counted["empty"]
             + counted["invalid_schema"]
=============================================================================
