------------------------------ MODULE RunStates ------------------------------
(***************************************************************************)
(* The vocabulary shared by every component: the persisted states of a     *)
(* run, the transitions the state machine accepts between them, and the    *)
(* states of one step of a plan (src/orchestrator/states.py).              *)
(***************************************************************************)

RunState ==
  { "PENDING", "PLANNING", "PLAN_READY", "EXECUTING_STEP", "VERIFYING_STEP",
    "RETRYING_STEP", "COMPLETED", "FAILED", "ROLLED_BACK" }

Terminal == { "COMPLETED", "FAILED", "ROLLED_BACK" }

(* Deliberately wrong: a recovery scan that forgets the retry state. *)
ResumableWithoutRetry == RunState \ (Terminal \cup { "RETRYING_STEP" })

(* What Repository.list_resumable selects: every status that is not terminal. *)
Resumable == RunState \ Terminal

(* Deliberately wrong: a retry whose own patch fails cannot be retried. *)
TransitionsWithoutRetryLoop ==
  [ s \in RunState |->
      CASE s = "PENDING"        -> { "PLANNING", "FAILED" }
        [] s = "PLANNING"       -> { "PLAN_READY", "FAILED" }
        [] s = "PLAN_READY"     -> { "EXECUTING_STEP", "COMPLETED", "FAILED" }
        [] s = "EXECUTING_STEP" -> { "VERIFYING_STEP", "RETRYING_STEP", "FAILED" }
        [] s = "VERIFYING_STEP" -> { "EXECUTING_STEP", "RETRYING_STEP", "COMPLETED", "FAILED" }
        [] s = "RETRYING_STEP"  -> { "VERIFYING_STEP", "FAILED" }
        [] s = "FAILED"         -> { "ROLLED_BACK" }
        [] OTHER                -> {} ]

ALLOWED_TRANSITIONS ==
  [ s \in RunState |->
      CASE s = "PENDING"        -> { "PLANNING", "FAILED" }
        [] s = "PLANNING"       -> { "PLAN_READY", "FAILED" }
        [] s = "PLAN_READY"     -> { "EXECUTING_STEP", "COMPLETED", "FAILED" }
        [] s = "EXECUTING_STEP" -> { "VERIFYING_STEP", "RETRYING_STEP", "FAILED" }
        [] s = "VERIFYING_STEP" -> { "EXECUTING_STEP", "RETRYING_STEP", "COMPLETED", "FAILED" }
        [] s = "RETRYING_STEP"  -> { "VERIFYING_STEP", "RETRYING_STEP", "FAILED" }
        [] s = "FAILED"         -> { "ROLLED_BACK" }
        [] OTHER                -> {} ]

(* StepStatus, and ABSENT for a step_index that has no row. *)
StepStatus ==
  { "PENDING", "EXECUTING", "VERIFYING", "RETRYING", "COMPLETED", "FAILED" }

=============================================================================
