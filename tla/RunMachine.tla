----------------------------- MODULE RunMachine -----------------------------
(***************************************************************************)
(* One run, and the driver that advances it (StateMachine.drive).          *)
(*                                                                         *)
(* SQLite runs in autocommit mode, so every INSERT or UPDATE is durable on *)
(* its own and a driver can die between any two of them.  Each action here *)
(* is one durable write, one effect on the working tree or one call of a   *)
(* model; pc says which comes next.  A driver that dies loses pc and its   *)
(* memory (planned, cost) and nothing else.                                *)
(*                                                                         *)
(* At most one driver is at work at a time; RunMachine says nothing of two *)
(* drivers on one run.  Event rows and the run's error text are left out.  *)
(*                                                                         *)
(* The builtin loop and the LangGraph graph run the same stage functions   *)
(* and both choose the next stage from the persisted status, so pc = "loop"*)
(* stands for the head of the one and for the router of the other.         *)
(***************************************************************************)
EXTENDS Integers, RunStates

CONSTANTS
  MaxSteps,       \* bound: the longest plan the Planner returns
  MaxRetries,     \* HARNESS_MAX_RETRIES
  TokenBudget,    \* HARNESS_MAX_TOKENS_PER_RUN
  Costs,          \* what one call of a model may cost, in tokens
  MaxCrashes,     \* bound: how often the driving process is killed
  MaxErrors,      \* bound: how often an exception ends a drive
  ClaimsPending   \* TRUE when workers poll DBQueue beside the API's own drives

ASSUME ConstantsAssumption ==
  /\ MaxSteps \in Nat \ {0}
  /\ MaxRetries \in Nat
  /\ TokenBudget \in Nat
  /\ Costs \subseteq Nat
  /\ MaxCrashes \in Nat
  /\ MaxErrors \in Nat
  /\ ClaimsPending \in BOOLEAN

VARIABLES
  \* the row of table runs
  status,         \* RunState
  current,        \* current_step
  total,          \* total_steps
  plan,           \* plan_json: the number of steps of the cached plan, 0 for NULL
  workspace,      \* workspace_path and base_ref are set
  tokens,         \* tokens_used
  \* table steps, by step_index ("ABSENT" when there is no row), and telemetry
  stepStatus, iterations,
  lastError,      \* the row holds a structured last_error
  spans,          \* the sum of the tokens of the telemetry rows
  \* the git working tree of the run
  applied,        \* steps whose patch is in the tree, as far as git sees it
  dirty,          \* the files git sees differ from the base ref
  hidden,         \* files that the repository's .gitignore names were edited
  committed,      \* commit_all ran on the run branch
  \* the driver
  pc, planned, cost,
  \* history
  plannerCalls, attempts, crashes, errors

planVars == << total, plan >>
stepVars == << stepStatus, iterations, lastError >>
treeVars == << applied, dirty, hidden, committed >>
memory   == << planned, cost >>
history  == << plannerCalls, attempts, crashes, errors >>
vars == << status, current, workspace, tokens, spans, pc,
           planVars, stepVars, treeVars, memory, history >>

Idx == 0 .. MaxSteps - 1

StepStates == { "EXECUTING_STEP", "RETRYING_STEP", "VERIFYING_STEP" }

(* Where a drive can be: between two stages ("loop") or inside one. *)
Stage == { "loop", "prepared", "span", "tokens", "replace", "insert", "planned",
           "mark", "enter", "apply", "budget", "toverify", "failed", "retry",
           "giveup", "advance", "rolledback" }

(* No drive: never picked up, ended or not attended to, ended by the        *)
(* RuntimeError of _transition, its process dead.                          *)
NoDrive == { "new", "idle", "refused", "down" }

Init ==
  /\ status = "PENDING" /\ current = 0 /\ total = 0 /\ plan = 0
  /\ workspace = FALSE /\ tokens = 0 /\ spans = 0
  /\ stepStatus = [i \in Idx |-> "ABSENT"]
  /\ iterations = [i \in Idx |-> 0]
  /\ lastError = [i \in Idx |-> FALSE]
  /\ applied = {} /\ dirty = FALSE /\ hidden = FALSE /\ committed = FALSE
  /\ pc = "new" /\ planned = 0 /\ cost = 0
  /\ plannerCalls = 0 /\ attempts = [i \in Idx |-> 0]
  /\ crashes = 0 /\ errors = 0

-----------------------------------------------------------------------------
(* Helpers *)

(* StateMachine._transition: an edge outside the table raises, which ends  *)
(* the drive.  Every change of the status but claim_pending's goes here.   *)
Transition(new, next) ==
  IF new \in ALLOWED_TRANSITIONS[status]
  THEN status' = new /\ pc' = next
  ELSE status' = status /\ pc' = "refused"

Present(i) == stepStatus[i] # "ABSENT"

(* Steps _begin_first_step may start: the rows that are not COMPLETED. *)
Todo == { i \in Idx : stepStatus[i] \notin { "ABSENT", "COMPLETED" } }

(* Deliberately wrong: the scan returns some unfinished step. *)
AnyTodo == Todo

(* The rows come ORDER BY step_index ASC, and the scan takes the first. *)
FirstTodo == { i \in Todo : \A j \in Todo : i <= j }

(* Deliberately wrong: off by one. *)
OverBudgetByMoreThanOne == tokens > TokenBudget + 1

OverBudget == tokens > TokenBudget

(* Deliberately wrong: one retry too many. *)
RetryLeftInclusive == iterations[current] <= MaxRetries

RetryLeft == iterations[current] < MaxRetries

(* Deliberately wrong: the plan is saved before its rows are written. *)
RowsNotAwaited == TRUE

(* Every row of the plan in memory has been inserted. *)
RowsWritten == \A i \in Idx : i < planned => Present(i)

(* Deliberately wrong: the end of the plan is noticed one step late. *)
PastLastStep == current >= total

(* Deliberately wrong: the last step of the plan is skipped. *)
SkipsLast == current + 2 >= total

LastStep == current + 1 >= total

-----------------------------------------------------------------------------
(* Picking the run up, and losing the driver *)

(* A drive of a run nobody took yet: the API's background task, the CLI, or *)
(* a worker that got the run id from Redis.                                 *)
Dispatch ==
  /\ pc = "new"
  /\ pc' = "loop"
  /\ UNCHANGED << status, current, workspace, tokens, spans,
                  planVars, stepVars, treeVars, memory, history >>

(* DBQueue: claim_pending flips the row to PLANNING, then the worker drives. *)
Claim ==
  /\ ClaimsPending /\ pc \in { "new", "idle", "refused" } /\ status = "PENDING"
  /\ status' = "PLANNING"
  /\ pc' = "loop"
  /\ UNCHANGED << current, workspace, tokens, spans,
                  planVars, stepVars, treeVars, memory, history >>

(* The operator's resume (POST /runs/{id}/resume, CLI), whatever the status. *)
Resume ==
  /\ pc \in { "idle", "refused" }
  /\ pc' = "loop"
  /\ UNCHANGED << status, current, workspace, tokens, spans,
                  planVars, stepVars, treeVars, memory, history >>

(* SIGKILL or eviction of the process. *)
Crash ==
  /\ pc # "down" /\ crashes < MaxCrashes
  /\ pc' = "down" /\ planned' = 0 /\ cost' = 0
  /\ crashes' = crashes + 1
  /\ UNCHANGED << status, current, workspace, tokens, spans,
                  planVars, stepVars, treeVars, plannerCalls, attempts, errors >>

(* The worker is restarted; recover() drives the run if it is not terminal. *)
Recover ==
  /\ pc = "down"
  /\ pc' = IF status \in Resumable THEN "loop" ELSE "idle"
  /\ UNCHANGED << status, current, workspace, tokens, spans,
                  planVars, stepVars, treeVars, memory, history >>

(* An exception leaves drive(): git clone, model call, PlanError, sandbox,  *)
(* SQLite.  The worker logs it and goes on polling; it does not re-drive.   *)
DriverError ==
  /\ pc \in Stage /\ errors < MaxErrors
  /\ pc' = "idle" /\ planned' = 0 /\ cost' = 0
  /\ errors' = errors + 1
  /\ UNCHANGED << status, current, workspace, tokens, spans,
                  planVars, stepVars, treeVars, plannerCalls, attempts, crashes >>

(* _attach_sandbox raises when workspace_path was never written. *)
AttachFails ==
  /\ pc = "loop" /\ status \in StepStates \cup { "PLANNING" } /\ ~workspace
  /\ pc' = "idle"
  /\ UNCHANGED << status, current, workspace, tokens, spans,
                  planVars, stepVars, treeVars, memory, history >>

-----------------------------------------------------------------------------
(* PENDING -> PLANNING *)

(* RepoManager.prepare: remove what is there, clone or copy, branch. *)
PrepareTree ==
  /\ pc = "loop" /\ status = "PENDING"
  /\ applied' = {} /\ dirty' = FALSE /\ hidden' = FALSE /\ committed' = FALSE
  /\ pc' = "prepared"
  /\ UNCHANGED << status, current, workspace, tokens, spans,
                  planVars, stepVars, memory, history >>

(* One UPDATE writes workspace_path, base_ref and the new status. *)
WorkspaceReady ==
  /\ pc = "prepared"
  /\ Transition("PLANNING", "loop")
  /\ workspace' = TRUE
  /\ UNCHANGED << current, tokens, spans, planVars, stepVars, treeVars, memory, history >>

-----------------------------------------------------------------------------
(* PLANNING -> PLAN_READY *)

(* Deliberately wrong: the cached plan is not looked at. *)
AlwaysPlans == TRUE

NeedsPlan == plan = 0

ReuseCachedPlan ==
  /\ pc = "loop" /\ status = "PLANNING" /\ workspace /\ ~NeedsPlan
  /\ Transition("PLAN_READY", "loop")
  /\ UNCHANGED << current, workspace, tokens, spans,
                  planVars, stepVars, treeVars, memory, history >>

(* Deliberately wrong: the Planner is called before the sandbox is attached. *)
PlannerCallUnattached ==
  /\ pc = "loop" /\ status = "PLANNING" /\ NeedsPlan
  /\ cost' \in Costs
  /\ plannerCalls' = plannerCalls + 1
  /\ pc' = "span"
  /\ UNCHANGED << status, current, workspace, tokens, spans, planVars, stepVars,
                  treeVars, planned, attempts, crashes, errors >>

PlannerCall ==
  /\ pc = "loop" /\ status = "PLANNING" /\ workspace /\ NeedsPlan
  /\ cost' \in Costs
  /\ plannerCalls' = plannerCalls + 1
  /\ pc' = "span"
  /\ UNCHANGED << status, current, workspace, tokens, spans, planVars, stepVars,
                  treeVars, planned, attempts, crashes, errors >>

(* Deliberately wrong: only the spans of the Executor are kept. *)
RecordSpanOfExecutor ==
  /\ pc = "span"
  /\ spans' = IF status = "PLANNING" THEN spans ELSE spans + cost
  /\ pc' = "tokens"
  /\ UNCHANGED << status, current, workspace, tokens,
                  planVars, stepVars, treeVars, memory, history >>

(* Tracer._persist, first statement: the telemetry row. *)
RecordSpan ==
  /\ pc = "span"
  /\ spans' = spans + cost
  /\ pc' = "tokens"
  /\ UNCHANGED << status, current, workspace, tokens,
                  planVars, stepVars, treeVars, memory, history >>

(* Tracer._persist, second statement: the atomic increment of tokens_used. *)
RecordTokens ==
  /\ pc = "tokens"
  /\ tokens' = tokens + cost /\ cost' = 0
  /\ pc' = IF status = "PLANNING" THEN "replace" ELSE "apply"
  /\ UNCHANGED << status, current, workspace, spans,
                  planVars, stepVars, treeVars, planned, history >>

(* replace_steps, DELETE: the parsed plan has n steps. *)
DeleteSteps ==
  /\ pc = "replace"
  /\ planned' \in 1 .. MaxSteps
  /\ stepStatus' = [i \in Idx |-> "ABSENT"]
  /\ pc' = "insert"
  /\ UNCHANGED << status, current, workspace, tokens, spans, iterations, lastError,
                  planVars, treeVars, cost, history >>

(* replace_steps, one INSERT per step, in order. *)
InsertStep ==
  /\ pc = "insert"
  /\ \E i \in Idx :
       /\ i < planned /\ ~Present(i)
       /\ \A j \in Idx : j < i => Present(j)
       /\ stepStatus' = [stepStatus EXCEPT ![i] = "PENDING"]
       /\ iterations' = [iterations EXCEPT ![i] = 0]
       /\ lastError' = [lastError EXCEPT ![i] = FALSE]
  /\ UNCHANGED << status, current, workspace, tokens, spans, pc,
                  planVars, treeVars, memory, history >>

(* update_run: plan_json, total_steps and current_step in one UPDATE. *)
SavePlan ==
  /\ pc = "insert" /\ RowsWritten
  /\ plan' = planned /\ total' = planned /\ current' = 0 /\ planned' = 0
  /\ pc' = "planned"
  /\ UNCHANGED << status, workspace, tokens, spans, stepVars, treeVars, cost, history >>

PlanReady ==
  /\ pc = "planned"
  /\ Transition("PLAN_READY", "loop")
  /\ UNCHANGED << current, workspace, tokens, spans,
                  planVars, stepVars, treeVars, memory, history >>

-----------------------------------------------------------------------------
(* Starting a step: PLAN_READY or VERIFYING_STEP -> EXECUTING_STEP *)

BeginFirstStep ==
  /\ pc = "loop" /\ status = "PLAN_READY"
  /\ IF Todo = {}
     THEN Transition("COMPLETED", "loop") /\ current' = current
     ELSE status' = status /\ pc' = "mark" /\ current' \in FirstTodo
  /\ UNCHANGED << workspace, tokens, spans, planVars, stepVars, treeVars, memory, history >>

MarkExecuting ==
  /\ pc = "mark"
  /\ stepStatus' = [stepStatus EXCEPT ![current] = "EXECUTING"]
  /\ pc' = "enter"
  /\ UNCHANGED << status, current, workspace, tokens, spans, iterations, lastError,
                  planVars, treeVars, memory, history >>

EnterExecuting ==
  /\ pc = "enter"
  /\ Transition("EXECUTING_STEP", "loop")
  /\ UNCHANGED << current, workspace, tokens, spans,
                  planVars, stepVars, treeVars, memory, history >>

-----------------------------------------------------------------------------
(* EXECUTING_STEP or RETRYING_STEP -> VERIFYING_STEP, RETRYING_STEP or FAILED *)

ExecutorCall ==
  /\ pc = "loop" /\ status \in { "EXECUTING_STEP", "RETRYING_STEP" } /\ workspace
  /\ cost' \in Costs
  /\ attempts' = [attempts EXCEPT ![current] = @ + 1]
  /\ pc' = "span"
  /\ UNCHANGED << status, current, workspace, tokens, spans, planVars, stepVars,
                  treeVars, planned, plannerCalls, crashes, errors >>

(* Edits go to files git sees, to files it ignores, or nowhere. *)
Edits == dirty' \in { dirty, TRUE } /\ hidden' \in { hidden, TRUE }

(* The patch goes into the tree; its list of edits may be empty. *)
ApplyOk ==
  /\ pc = "apply"
  /\ applied' = applied \cup { current } /\ Edits
  /\ pc' = "budget"
  /\ UNCHANGED << status, current, workspace, tokens, spans, committed,
                  planVars, stepVars, memory, history >>

(* ExecError: edits before the one that failed stay in the tree. *)
ApplyError ==
  /\ pc = "apply"
  /\ Edits
  /\ pc' = "failed"
  /\ UNCHANGED << status, current, workspace, tokens, spans, applied, committed,
                  planVars, stepVars, memory, history >>

(* _over_token_budget, then either the FAILED transition or _mark_step. *)
CheckBudget ==
  /\ pc = "budget"
  /\ IF OverBudget
     THEN Transition("FAILED", "loop") /\ stepStatus' = stepStatus
     ELSE /\ stepStatus' = [stepStatus EXCEPT ![current] = "VERIFYING"]
          /\ status' = status /\ pc' = "toverify"
  /\ UNCHANGED << current, workspace, tokens, spans, iterations, lastError,
                  planVars, treeVars, memory, history >>

EnterVerifying ==
  /\ pc = "toverify"
  /\ Transition("VERIFYING_STEP", "loop")
  /\ UNCHANGED << current, workspace, tokens, spans,
                  planVars, stepVars, treeVars, memory, history >>

-----------------------------------------------------------------------------
(* VERIFYING_STEP, and the retry loop a failed patch shares with it *)

(* All checks pass: update_step(COMPLETED, last_error = None). *)
VerifyPass ==
  /\ pc = "loop" /\ status = "VERIFYING_STEP" /\ workspace
  /\ stepStatus' = [stepStatus EXCEPT ![current] = "COMPLETED"]
  /\ lastError' = [lastError EXCEPT ![current] = FALSE]
  /\ pc' = "advance"
  /\ UNCHANGED << status, current, workspace, tokens, spans, iterations,
                  planVars, treeVars, memory, history >>

(* Some check exits with an error or times out. *)
VerifyFail ==
  /\ pc = "loop" /\ status = "VERIFYING_STEP" /\ workspace
  /\ pc' = "failed"
  /\ UNCHANGED << status, current, workspace, tokens, spans,
                  planVars, stepVars, treeVars, memory, history >>

(* Deliberately wrong: the step row is not written. *)
RecordFailureUnsaved ==
  /\ pc = "failed"
  /\ pc' = IF RetryLeft THEN "retry" ELSE "giveup"
  /\ UNCHANGED << status, current, workspace, tokens, spans,
                  planVars, stepVars, treeVars, memory, history >>

(* One UPDATE of the step row: a retry is charged, or the step gives up. *)
RecordFailure ==
  /\ pc = "failed"
  /\ lastError' = [lastError EXCEPT ![current] = TRUE]
  /\ stepStatus' = [stepStatus EXCEPT ![current] = IF RetryLeft THEN "RETRYING" ELSE "FAILED"]
  /\ iterations' = [iterations EXCEPT ![current] = IF RetryLeft THEN @ + 1 ELSE @]
  /\ pc' = IF RetryLeft THEN "retry" ELSE "giveup"
  /\ UNCHANGED << status, current, workspace, tokens, spans,
                  planVars, treeVars, memory, history >>

EnterRetry ==
  /\ pc = "retry"
  /\ Transition("RETRYING_STEP", "loop")
  /\ UNCHANGED << current, workspace, tokens, spans,
                  planVars, stepVars, treeVars, memory, history >>

GiveUp ==
  /\ pc = "giveup"
  /\ Transition("FAILED", "loop")
  /\ UNCHANGED << current, workspace, tokens, spans,
                  planVars, stepVars, treeVars, memory, history >>

(* The last step completes the run; else current_step is written first and *)
(* the EXECUTING_STEP transition comes two writes later.                   *)
AdvanceOrComplete ==
  /\ pc = "advance"
  /\ IF LastStep
     THEN Transition("COMPLETED", "loop") /\ current' = current
     ELSE status' = status /\ pc' = "mark" /\ current' = current + 1
  /\ UNCHANGED << workspace, tokens, spans, planVars, stepVars, treeVars, memory, history >>

-----------------------------------------------------------------------------
(* After the loop: FAILED is rolled back, COMPLETED is committed *)

(* Deliberately wrong: only tracked files are reset. *)
ResetTrackedFiles ==
  /\ pc = "loop" /\ status = "FAILED"
  /\ IF workspace THEN applied' = {} /\ dirty' = dirty ELSE UNCHANGED << applied, dirty >>
  /\ pc' = "rolledback"
  /\ UNCHANGED << status, current, workspace, tokens, spans, hidden, committed,
                  planVars, stepVars, memory, history >>

(* Deliberately wrong: FAILED ends the drive as any terminal status would. *)
FailedEndsDrive ==
  /\ pc = "loop" /\ status = "FAILED"
  /\ pc' = "idle"
  /\ UNCHANGED << status, current, workspace, tokens, spans,
                  planVars, stepVars, treeVars, memory, history >>

(* git reset --hard base_ref; git clean -fd.  Without -x the clean leaves   *)
(* files that git ignores as they are, and so does the reset.              *)
ResetTree ==
  /\ pc = "loop" /\ status = "FAILED"
  /\ IF workspace THEN applied' = {} /\ dirty' = FALSE ELSE UNCHANGED << applied, dirty >>
  /\ pc' = "rolledback"
  /\ UNCHANGED << status, current, workspace, tokens, spans, hidden, committed,
                  planVars, stepVars, memory, history >>

EnterRolledBack ==
  /\ pc = "rolledback"
  /\ Transition("ROLLED_BACK", "idle")
  /\ UNCHANGED << current, workspace, tokens, spans,
                  planVars, stepVars, treeVars, memory, history >>

(* Deliberately wrong: the run is left uncommitted. *)
FinalizeWithoutCommit ==
  /\ pc = "loop" /\ status = "COMPLETED"
  /\ pc' = "idle"
  /\ UNCHANGED << status, current, workspace, tokens, spans,
                  planVars, stepVars, treeVars, memory, history >>

(* commit_all; the pull request that may follow is not part of this module. *)
Finalize ==
  /\ pc = "loop" /\ status = "COMPLETED"
  /\ committed' = (committed \/ workspace)
  /\ pc' = "idle"
  /\ UNCHANGED << status, current, workspace, tokens, spans, applied, dirty, hidden,
                  planVars, stepVars, memory, history >>

(* drive() of a run that is already rolled back returns at once. *)
NothingToDo ==
  /\ pc = "loop" /\ status = "ROLLED_BACK"
  /\ pc' = "idle"
  /\ UNCHANGED << status, current, workspace, tokens, spans,
                  planVars, stepVars, treeVars, memory, history >>

-----------------------------------------------------------------------------
Planning ==
  \/ ReuseCachedPlan \/ PlannerCall \/ DeleteSteps \/ InsertStep \/ SavePlan \/ PlanReady

Executing ==
  \/ BeginFirstStep \/ MarkExecuting \/ EnterExecuting
  \/ ExecutorCall \/ ApplyOk \/ ApplyError \/ CheckBudget \/ EnterVerifying

Verifying ==
  \/ VerifyPass \/ VerifyFail \/ RecordFailure \/ EnterRetry \/ GiveUp \/ AdvanceOrComplete

(* The driver's own steps: what the scheduler runs while the process lives. *)
Drive ==
  \/ AttachFails \/ PrepareTree \/ WorkspaceReady \/ RecordSpan \/ RecordTokens
  \/ Planning \/ Executing \/ Verifying
  \/ ResetTree \/ EnterRolledBack \/ Finalize \/ NothingToDo

Next == Drive \/ Dispatch \/ Claim \/ Recover \/ Resume \/ Crash \/ DriverError

Spec == Init /\ [][Next]_vars

(* A driver that is alive runs on; a run that was accepted is picked up;   *)
(* the worker's Deployment restarts a dead process.  Nothing makes an      *)
(* operator resume a run.                                                  *)
FairSpec ==
  /\ Spec
  /\ WF_vars(Drive) /\ WF_vars(Dispatch) /\ WF_vars(Claim) /\ WF_vars(Recover)

-----------------------------------------------------------------------------
(* Properties *)

(* Every variable has its type. *)
TypeOK ==
  /\ status \in RunState /\ current \in Idx
  /\ total \in 0 .. MaxSteps /\ plan \in 0 .. MaxSteps
  /\ workspace \in BOOLEAN /\ tokens \in Nat /\ spans \in Nat
  /\ stepStatus \in [Idx -> StepStatus \cup { "ABSENT" }]
  /\ iterations \in [Idx -> Nat]
  /\ lastError \in [Idx -> BOOLEAN]
  /\ applied \subseteq Idx
  /\ dirty \in BOOLEAN /\ hidden \in BOOLEAN /\ committed \in BOOLEAN
  /\ pc \in Stage \cup NoDrive
  /\ planned \in 0 .. MaxSteps /\ cost \in Nat
  /\ plannerCalls \in Nat /\ attempts \in [Idx -> Nat]
  /\ crashes \in 0 .. MaxCrashes /\ errors \in 0 .. MaxErrors

(* Whatever the crashes, no call of _transition, in any handler, asks for  *)
(* an edge the table does not have: its RuntimeError never ends a drive.   *)
TransitionsAllowed == pc # "refused"

(* A cached plan has exactly its own rows in table steps, although         *)
(* replace_steps is a DELETE and many INSERTs that no transaction covers:  *)
(* a resume that finds plan_json never works on a half-written list.       *)
CachedPlanHasItsRows ==
  plan # 0 => total = plan /\ \A i \in Idx : Present(i) <=> i < plan

(* Every step before current_step is verified: current_step only moves     *)
(* past a step whose row says COMPLETED, in every state a crash can leave. *)
StepsBeforeCurrentAreCompleted ==
  \A i \in Idx : i < current => stepStatus[i] = "COMPLETED"

(* A run is COMPLETED, and its branch committed, only when every step of   *)
(* its plan is verified.                                                   *)
CompletedMeansVerified ==
  status = "COMPLETED" \/ committed =>
    plan # 0 /\ \A i \in Idx : i < plan => stepStatus[i] = "COMPLETED"

(* A run that reached a verification, or COMPLETED, is within its budget:  *)
(* a crash between the spending and the check never skips the check.       *)
VerifiedWithinBudget ==
  status \in { "VERIFYING_STEP", "COMPLETED" } =>
    tokens <= TokenBudget

(* No step is charged more than max_retries retries, however the verifier, *)
(* the patches, the crashes and the resumes are mixed.                     *)
RetryBudget == \A i \in Idx : iterations[i] <= MaxRetries

(* The Executor is called for a step once per charged retry, once for the  *)
(* first attempt, and once more only for each death of a driver; so is the *)
(* Planner, which has no retries.  The persisted state, not the process,   *)
(* bounds what a run can cost.                                             *)
AttemptsAreCharged ==
  /\ \A i \in Idx : attempts[i] <= iterations[i] + 1 + crashes + errors
  /\ plannerCalls <= 1 + crashes + errors

(* A retry always has the structured error of the failure it repairs, also *)
(* when another process than the one that saw the failure picks it up.     *)
RetrySeesError == status = "RETRYING_STEP" => lastError[current]

(* tokens_used never counts a token no telemetry row accounts for, and     *)
(* counts them all as long as no driver died.                              *)
TokensMatchSpans ==
  /\ tokens <= spans
  /\ crashes + errors = 0 /\ pc # "tokens" => tokens = spans

(* A run that was claimed but never prepared is inert: until its workspace *)
(* is set no model is paid, no file is edited and no plan is cached,       *)
(* however often the run is resumed or recovered.                          *)
NothingIsSpentUnprepared ==
  ~workspace => spans = 0 /\ applied = {} /\ ~dirty /\ ~hidden /\ plan = 0

(* ROLLED_BACK means that, in the files git sees, no edit of the run is    *)
(* left, neither of a verified step nor of a patch that failed half-way.   *)
(* Of files git ignores it promises nothing: the rollback leaves them.     *)
RolledBackTreeIsClean ==
  status = "ROLLED_BACK" => applied = {} /\ ~dirty /\ ~committed

(* Once the plan is cached it is never replaced, the Planner is never paid *)
(* again, and current_step never returns to a step it has passed, whatever *)
(* crashes and resumes come between.                                       *)
PlanIsFinal ==
  [][ plan # 0 => /\ plan' = plan /\ total' = total /\ plannerCalls' = plannerCalls
                  /\ current' >= current ]_vars

(* A run gets a verdict, although drivers are killed: each restarted       *)
(* worker takes it on from the persisted state.                            *)
EventuallyTerminal == <>(status \in Terminal)

(* A verdict is acted on by the driver that reached it or was told of it:  *)
(* a failed run is rolled back and a completed one committed, unless that  *)
(* driver is killed before, however often earlier ones were.               *)
Deaths == crashes + errors

FailureIsRolledBack ==
  \A n \in 0 .. MaxCrashes + MaxErrors :
    (status = "FAILED" /\ pc \in Stage /\ Deaths = n)
      ~> (status = "ROLLED_BACK" \/ Deaths > n)

SuccessIsCommitted ==
  \A n \in 0 .. MaxCrashes + MaxErrors :
    (status = "COMPLETED" /\ pc \in Stage /\ Deaths = n)
      ~> (committed \/ Deaths > n)

(* A run no driver died on is only completed with the patch of each of its *)
(* steps in the tree, whatever patches failed and were tried again.        *)
UnbrokenRunHasEveryPatch ==
  status = "COMPLETED" /\ Deaths = 0 => \A i \in Idx : i < total => i \in applied

(* The run keeps the promise of RunLifecycle. *)
Phase ==
  CASE status = "PENDING"     -> "accepted"
    [] status = "PLANNING"    -> "planning"
    [] status = "COMPLETED"   -> "completed"
    [] status = "FAILED"      -> "failed"
    [] status = "ROLLED_BACK" -> "rolled_back"
    [] OTHER                  -> "working"

Lifecycle == INSTANCE RunLifecycle WITH
  phase    <- Phase,
  size     <- IF status \in { "PENDING", "PLANNING" } THEN 0 ELSE total,
  verified <- { i \in Idx : stepStatus[i] = "COMPLETED" }

KeepsLifecycle == Lifecycle!Spec

-----------------------------------------------------------------------------
(* What the documents say of the program and the code does not do *)

(* "workers discover it via an atomic claim_pending UPDATE. Simple and     *)
(* crash-safe" (queue.py:6): a run that was claimed gets a verdict.        *)
ClaimedRunIsDriven == status = "PLANNING" ~> status \in Terminal

(* "continues from exactly where the last persisted transition left off"   *)
(* (state_machine.py:5): a step is verified only after its own patch was   *)
(* applied, so a completed run contains the work of every step.            *)
CompletedRunHasEveryPatch ==
  status = "COMPLETED" => \A i \in Idx : i < total => i \in applied

=============================================================================
