-------------------------- MODULE RunMachineProofs --------------------------
(***************************************************************************)
(* Proofs about RunMachine, for every plan length, retry and token budget, *)
(* set of costs and number of crashes and errors.  IInv is the inductive   *)
(* invariant behind all of them; each of its parts says what a state that  *)
(* a crash may leave behind still guarantees to the next driver.           *)
(***************************************************************************)
EXTENDS RunMachine, TLAPS

(* The two states in which the Executor is (to be) called. *)
Executes == { "EXECUTING_STEP", "RETRYING_STEP" }

(* The stages in which an attempt is under way and not yet charged. *)
Attempting == { "span", "tokens", "apply", "budget", "toverify", "failed", "giveup" }

(* Which status the driver finds in the row at each point of a stage. *)
StageInv ==
  /\ pc = "prepared" => status = "PENDING"
  /\ pc \in { "span", "tokens" } => status \in Executes \cup { "PLANNING" }
  /\ pc \in { "replace", "insert", "planned" } => status = "PLANNING"
  /\ pc \in { "apply", "budget", "toverify" } => status \in Executes
  /\ pc \in { "failed", "retry", "giveup" } => status \in StepStates
  /\ pc = "advance" => status = "VERIFYING_STEP"
  /\ pc \in { "mark", "enter" } => status \in { "PLAN_READY", "VERIFYING_STEP" }
  /\ pc = "rolledback" => status = "FAILED"
  /\ pc \in { "span", "tokens", "replace", "insert", "planned" } => workspace
  /\ status \notin { "PENDING", "PLANNING" } => workspace

(* The cached plan, its rows, and current_step. *)
PlanInv ==
  /\ status \in { "PENDING", "PLANNING", "PLAN_READY" } => current = 0
  /\ plan # 0 => total = plan /\ current < plan
  /\ plan # 0 => \A i \in Idx : stepStatus[i] # "ABSENT" <=> i < plan
  /\ status = "PENDING" => plan = 0
  /\ status \notin { "PENDING", "PLANNING" } => plan # 0
  /\ pc \in { "span", "tokens", "replace", "insert" } /\ status = "PLANNING" => plan = 0
  /\ pc = "planned" => plan # 0
  /\ pc = "insert" => planned # 0 /\ \A i \in Idx : stepStatus[i] # "ABSENT" => i < planned

(* Which step rows are COMPLETED: those before current_step, possibly the  *)
(* current one, none after it.                                             *)
RowInv ==
  /\ \A i \in Idx : i < current => stepStatus[i] = "COMPLETED"
  /\ \A i \in Idx : i > current => stepStatus[i] # "COMPLETED"
  /\ status \in { "PENDING", "PLANNING", "PLAN_READY" } \cup Executes =>
       stepStatus[current] # "COMPLETED"
  /\ pc \in { "mark", "enter", "retry" } => stepStatus[current] # "COMPLETED"
  /\ pc = "advance" => stepStatus[current] = "COMPLETED"
  /\ status = "COMPLETED" => stepStatus[current] = "COMPLETED" /\ current + 1 = plan
  /\ committed => status = "COMPLETED"

(* Retries and attempts against the deaths of drivers.                     *)
ChargeInv ==
  /\ \A i \in Idx : iterations[i] <= MaxRetries
  /\ \A i \in Idx : i > current => attempts[i] = 0
  /\ status \in { "PENDING", "PLANNING", "PLAN_READY" } => \A i \in Idx : attempts[i] = 0
  /\ \A i \in Idx : attempts[i] <= iterations[i] + 1 + Deaths
  /\ pc \in { "mark", "enter", "retry" } => attempts[current] <= iterations[current] + Deaths
  /\ status \in Executes /\ pc \notin Attempting =>
       attempts[current] <= iterations[current] + Deaths
  /\ pc = "retry" \/ status = "RETRYING_STEP" => lastError[current]

(* Tokens, and the budget. *)
TokenInv ==
  /\ tokens <= spans
  /\ pc = "tokens" => tokens + cost <= spans
  /\ Deaths = 0 => spans = IF pc = "tokens" THEN tokens + cost ELSE tokens
  /\ pc = "toverify" \/ status \in { "VERIFYING_STEP", "COMPLETED" } => tokens <= TokenBudget

(* The working tree before there is a workspace, and after a rollback. *)
TreeInv ==
  /\ ~workspace => spans = 0 /\ applied = {} /\ ~dirty /\ ~hidden /\ plan = 0
  /\ pc = "rolledback" \/ status = "ROLLED_BACK" => applied = {} /\ ~dirty

IInv ==
  TypeOK /\ StageInv /\ PlanInv /\ RowInv /\ ChargeInv /\ TokenInv /\ TreeInv

-----------------------------------------------------------------------------
(* The type invariant is inductive by itself. *)
LEMMA TypeStep == TypeOK /\ [Next]_vars => TypeOK'
<1> SUFFICES ASSUME TypeOK, [Next]_vars PROVE TypeOK'
  OBVIOUS
<1> USE ConstantsAssumption DEF TypeOK, Idx, RunState, Stage, NoDrive, StepStatus,
        Transition, Edits, planVars, stepVars, treeVars, memory, history
<1>1. CASE Dispatch
  BY <1>1 DEF Dispatch
<1>2. CASE Claim
  BY <1>2 DEF Claim
<1>3. CASE Resume
  BY <1>3 DEF Resume
<1>4. CASE Crash
  BY <1>4 DEF Crash
<1>5. CASE Recover
  BY <1>5 DEF Recover
<1>6. CASE DriverError
  BY <1>6 DEF DriverError
<1>7. CASE AttachFails
  BY <1>7 DEF AttachFails
<1>8. CASE PrepareTree
  BY <1>8 DEF PrepareTree
<1>9. CASE WorkspaceReady
  BY <1>9 DEF WorkspaceReady
<1>10. CASE ReuseCachedPlan
  BY <1>10 DEF ReuseCachedPlan
<1>11. CASE PlannerCall
  BY <1>11 DEF PlannerCall
<1>12. CASE RecordSpan
  BY <1>12 DEF RecordSpan
<1>13. CASE RecordTokens
  BY <1>13 DEF RecordTokens
<1>14. CASE DeleteSteps
  BY <1>14 DEF DeleteSteps
<1>15. CASE InsertStep
  BY <1>15 DEF InsertStep
<1>16. CASE SavePlan
  BY <1>16 DEF SavePlan
<1>17. CASE PlanReady
  BY <1>17 DEF PlanReady
<1>18. CASE BeginFirstStep
  BY <1>18 DEF BeginFirstStep, FirstTodo, Todo
<1>19. CASE MarkExecuting
  BY <1>19 DEF MarkExecuting
<1>20. CASE EnterExecuting
  BY <1>20 DEF EnterExecuting
<1>21. CASE ExecutorCall
  BY <1>21 DEF ExecutorCall
<1>22. CASE ApplyOk
  BY <1>22 DEF ApplyOk
<1>23. CASE ApplyError
  BY <1>23 DEF ApplyError
<1>24. CASE CheckBudget
  BY <1>24 DEF CheckBudget
<1>25. CASE EnterVerifying
  BY <1>25 DEF EnterVerifying
<1>26. CASE VerifyPass
  BY <1>26 DEF VerifyPass
<1>27. CASE VerifyFail
  BY <1>27 DEF VerifyFail
<1>28. CASE RecordFailure
  <2>1. iterations' \in [Idx -> Nat]
    BY <1>28 DEF RecordFailure
  <2>2. lastError' \in [Idx -> BOOLEAN]
    BY <1>28 DEF RecordFailure
  <2>3. stepStatus' \in [Idx -> StepStatus \cup { "ABSENT" }]
    BY <1>28 DEF RecordFailure
  <2>4. pc' \in Stage \cup NoDrive
    BY <1>28 DEF RecordFailure
  <2> QED
    BY <1>28, <2>1, <2>2, <2>3, <2>4 DEF RecordFailure
<1>29. CASE EnterRetry
  BY <1>29 DEF EnterRetry
<1>30. CASE GiveUp
  BY <1>30 DEF GiveUp
<1>31. CASE AdvanceOrComplete
  BY <1>31, SMTT(20) DEF AdvanceOrComplete, LastStep
<1>32. CASE ResetTree
  BY <1>32 DEF ResetTree
<1>33. CASE EnterRolledBack
  BY <1>33 DEF EnterRolledBack
<1>34. CASE Finalize
  BY <1>34 DEF Finalize
<1>35. CASE NothingToDo
  BY <1>35 DEF NothingToDo
<1>36. CASE UNCHANGED vars
  BY <1>36 DEF vars
<1> QED
  BY <1>1, <1>2, <1>3, <1>4, <1>5, <1>6, <1>7, <1>8, <1>9, <1>10, <1>11,
     <1>12, <1>13, <1>14, <1>15, <1>16, <1>17, <1>18, <1>19, <1>20, <1>21,
     <1>22, <1>23, <1>24, <1>25, <1>26, <1>27, <1>28, <1>29, <1>30, <1>31,
     <1>32, <1>33, <1>34, <1>35, <1>36
  DEF Next, Drive, Planning, Executing, Verifying

-----------------------------------------------------------------------------
(* The edges of the transition table the handlers use. *)
LEMMA Edges ==
  /\ "PLANNING" \in ALLOWED_TRANSITIONS["PENDING"]
  /\ "PLAN_READY" \in ALLOWED_TRANSITIONS["PLANNING"]
  /\ "COMPLETED" \in ALLOWED_TRANSITIONS["PLAN_READY"]
  /\ \A s \in { "PLAN_READY", "VERIFYING_STEP" } :
       "EXECUTING_STEP" \in ALLOWED_TRANSITIONS[s]
  /\ \A s \in Executes :
       { "VERIFYING_STEP", "RETRYING_STEP", "FAILED" } \subseteq ALLOWED_TRANSITIONS[s]
  /\ { "COMPLETED", "RETRYING_STEP", "FAILED" } \subseteq ALLOWED_TRANSITIONS["VERIFYING_STEP"]
  /\ "ROLLED_BACK" \in ALLOWED_TRANSITIONS["FAILED"]
BY DEF ALLOWED_TRANSITIONS, RunState, Executes

(* A death is charged to the step under way. *)
LEMMA DeathIsCharged ==
  ASSUME TypeOK, StageInv, PlanInv, ChargeInv, Crash \/ DriverError
  PROVE  ChargeInv'
<1>1. Deaths \in Nat /\ Deaths' = Deaths + 1
  BY ConstantsAssumption DEF Crash, DriverError, Deaths, TypeOK
<1>2. /\ UNCHANGED << status, current, attempts, iterations, lastError >>
      /\ pc' \in { "idle", "down" }
  BY DEF Crash, DriverError, planVars, stepVars
<1>3. /\ current \in Idx
      /\ \A i \in Idx : attempts[i] \in Nat /\ iterations[i] \in Nat
  BY DEF TypeOK
<1>4. (\A i \in Idx : attempts[i] <= iterations[i] + 1 + Deaths)'
  BY <1>1, <1>2, <1>3 DEF ChargeInv
<1>5. attempts[current] <= iterations[current] + Deaths'
  BY <1>1, <1>3 DEF ChargeInv
<1> QED
  BY <1>1, <1>2, <1>3, <1>4, <1>5 DEF ChargeInv

(* A call of the Executor is an attempt of the current step. *)
LEMMA CallIsCharged ==
  ASSUME TypeOK, ChargeInv, ExecutorCall
  PROVE  ChargeInv'
<1>1. /\ Deaths \in Nat /\ Deaths' = Deaths
      /\ UNCHANGED << status, current, iterations, lastError >>
      /\ pc = "loop" /\ status \in Executes /\ pc' = "span"
      /\ attempts' = [attempts EXCEPT ![current] = @ + 1]
  BY ConstantsAssumption DEF ExecutorCall, Deaths, TypeOK, planVars, stepVars, Executes
<1>2. /\ current \in Idx /\ attempts \in [Idx -> Nat]
      /\ \A i \in Idx : attempts[i] \in Nat /\ iterations[i] \in Nat /\ i \in Int
  BY DEF TypeOK, Idx
<1>3. attempts[current] <= iterations[current] + Deaths
  BY <1>1 DEF ChargeInv, Attempting
<1>4. \A i \in Idx : attempts'[i] = IF i = current THEN attempts[i] + 1 ELSE attempts[i]
  BY <1>1, <1>2
<1>5. (\A i \in Idx : attempts[i] <= iterations[i] + 1 + Deaths)'
  BY <1>1, <1>2, <1>3, <1>4 DEF ChargeInv
<1>6. (\A i \in Idx : i > current => attempts[i] = 0)'
  BY <1>1, <1>2, <1>4 DEF ChargeInv
<1> QED
  BY <1>1, <1>5, <1>6 DEF ChargeInv, Attempting, Executes

(* A failure moves the attempt to the persisted counter, or gives up. *)
LEMMA FailureIsCharged ==
  ASSUME TypeOK, StageInv, ChargeInv, RecordFailure
  PROVE  ChargeInv'
<1>1. /\ Deaths \in Nat /\ Deaths' = Deaths
      /\ UNCHANGED << status, current, attempts >>
      /\ pc = "failed" /\ status \in StepStates
      /\ pc' = IF RetryLeft THEN "retry" ELSE "giveup"
      /\ lastError' = [lastError EXCEPT ![current] = TRUE]
  BY ConstantsAssumption DEF RecordFailure, StageInv, Deaths, TypeOK, planVars, history
<1>2. /\ current \in Idx /\ lastError \in [Idx -> BOOLEAN] /\ MaxRetries \in Nat
      /\ \A i \in Idx : attempts[i] \in Nat /\ iterations[i] \in Nat /\ i \in Int
  BY ConstantsAssumption DEF TypeOK, Idx
<1>3. \A i \in Idx :
        iterations'[i] = IF i = current /\ iterations[i] < MaxRetries
                         THEN iterations[i] + 1 ELSE iterations[i]
  BY <1>2 DEF RecordFailure, RetryLeft, TypeOK
<1>4. (\A i \in Idx : iterations[i] <= MaxRetries)'
  BY <1>2, <1>3 DEF ChargeInv
<1>5. (\A i \in Idx : attempts[i] <= iterations[i] + 1 + Deaths)'
  BY <1>1, <1>2, <1>3 DEF ChargeInv
<1>6. (pc = "retry" => attempts[current] <= iterations[current] + Deaths)'
  BY <1>1, <1>2, <1>3 DEF ChargeInv, RetryLeft
<1>7. lastError'[current]
  BY <1>1, <1>2
<1>8. (status \in Executes /\ pc \notin Attempting =>
         attempts[current] <= iterations[current] + Deaths)'
  BY <1>1, <1>6 DEF Attempting
<1> QED
  BY <1>1, <1>2, <1>4, <1>5, <1>6, <1>7, <1>8 DEF ChargeInv, StepStates

(* The first drive of a plan starts at step 0: nothing is COMPLETED yet. *)
LEMMA FirstStep ==
  ASSUME TypeOK, PlanInv, RowInv, BeginFirstStep
  PROVE  /\ current' \in Idx /\ current' = 0 /\ pc' = "mark" /\ status' = "PLAN_READY"
         /\ current = 0
<1>1. /\ 0 \in Idx /\ plan # 0 /\ plan \in 1 .. MaxSteps
      /\ current = 0 /\ status = "PLAN_READY"
  BY ConstantsAssumption DEF BeginFirstStep, PlanInv, TypeOK, Idx
<1>2. stepStatus[0] # "COMPLETED"
  BY <1>1 DEF RowInv
<1>3. 0 \in Todo
  BY <1>1, <1>2 DEF Todo, PlanInv, Idx, BeginFirstStep
<1>4. current' \in FirstTodo /\ pc' = "mark" /\ status' = "PLAN_READY"
  BY <1>3 DEF BeginFirstStep
<1>5. current' \in Idx /\ current' <= 0
  BY <1>3, <1>4 DEF FirstTodo, Todo
<1> QED
  BY <1>1, <1>4, <1>5 DEF Idx

(* The two outcomes of a verified step. *)
LEMMA Advance ==
  ASSUME TypeOK, StageInv, PlanInv, RowInv, AdvanceOrComplete
  PROVE  /\ status = "VERIFYING_STEP" /\ plan # 0 /\ total = plan
         /\ \/ /\ current + 1 = plan /\ current' = current
               /\ status' = "COMPLETED" /\ pc' = "loop"
            \/ /\ current + 1 < plan /\ current' = current + 1 /\ current' \in Idx
               /\ status' = status /\ pc' = "mark"
<1>1. /\ status = "VERIFYING_STEP" /\ plan # 0 /\ total = plan /\ current < plan
      /\ current \in Int /\ current >= 0 /\ plan \in Int /\ plan <= MaxSteps /\ MaxSteps \in Int
  BY ConstantsAssumption DEF AdvanceOrComplete, StageInv, PlanInv, TypeOK, Idx
<1>2. "COMPLETED" \in ALLOWED_TRANSITIONS["VERIFYING_STEP"]
  BY DEF ALLOWED_TRANSITIONS, RunState
<1>3. CASE LastStep
  BY <1>1, <1>2, <1>3 DEF LastStep, AdvanceOrComplete, Transition
<1>4. CASE ~LastStep
  BY <1>1, <1>4 DEF LastStep, AdvanceOrComplete, Idx
<1> QED
  BY <1>3, <1>4, <1>1

-----------------------------------------------------------------------------
(* A driver dies, at any point. *)
LEMMA DeathStep == ASSUME IInv, TypeOK', Crash \/ DriverError PROVE IInv'
<1> USE DEF IInv
<1>1. StageInv'
  BY ConstantsAssumption
  DEF Crash, DriverError, StageInv, TypeOK, Executes, StepStates, Idx, planVars,
      stepVars, treeVars, memory, history
<1>2. PlanInv'
  <2>1. UNCHANGED << status, total, plan, current, stepStatus >> /\ pc' \in { "idle", "down" }
    BY DEF Crash, DriverError, planVars, stepVars
  <2> QED
    BY <2>1 DEF PlanInv
<1>3. RowInv'
  BY ConstantsAssumption
  DEF Crash, DriverError, RowInv, StageInv, TypeOK, Executes, StepStates, Idx, planVars,
      stepVars, treeVars, memory, history
<1>4. ChargeInv'
  BY DeathIsCharged
<1>5. TokenInv'
  <2>1. UNCHANGED << status, tokens, spans >> /\ pc' \in { "idle", "down" }
    BY DEF Crash, DriverError
  <2>2. crashes \in Nat /\ errors \in Nat
    BY ConstantsAssumption DEF TypeOK
  <2>3. crashes' + errors' # 0
    BY <2>2 DEF Crash, DriverError
  <2> QED
    BY <2>1, <2>3 DEF TokenInv, Deaths
<1>6. TreeInv'
  BY ConstantsAssumption
  DEF Crash, DriverError, TreeInv, StageInv, TypeOK, Executes, StepStates, Idx,
      planVars, stepVars, treeVars, memory, history
<1> QED
  BY <1>1, <1>2, <1>3, <1>4, <1>5, <1>6

(* The first step of a fresh plan is chosen. *)
LEMMA BeginStep == ASSUME IInv, TypeOK', BeginFirstStep PROVE IInv'
<1> USE DEF IInv
<1>1. StageInv'
  BY FirstStep
  DEF BeginFirstStep, StageInv, Deaths, Executes, Attempting, planVars, stepVars,
      treeVars, memory, history
<1>2. PlanInv'
  BY FirstStep
  DEF BeginFirstStep, PlanInv, Deaths, Executes, Attempting, planVars, stepVars,
      treeVars, memory, history
<1>3. RowInv'
  BY FirstStep
  DEF BeginFirstStep, RowInv, Deaths, Executes, Attempting, planVars, stepVars,
      treeVars, memory, history
<1>4. ChargeInv'
  <2>1. UNCHANGED << lastError, attempts, iterations, Deaths >>
    BY DEF BeginFirstStep, Deaths, planVars, stepVars, history
  <2>2. /\ Deaths \in Nat
        /\ \A i \in Idx : attempts[i] = 0 /\ iterations[i] \in Nat
    BY ConstantsAssumption, FirstStep DEF BeginFirstStep, ChargeInv, TypeOK, Deaths
  <2>3. attempts[0] <= iterations[0] + Deaths
    BY <2>2, FirstStep
  <2> QED
    BY <2>1, <2>2, <2>3, FirstStep DEF ChargeInv, Executes
<1>5. TokenInv'
  BY FirstStep
  DEF BeginFirstStep, TokenInv, Deaths, Executes, Attempting, planVars, stepVars,
      treeVars, memory, history
<1>6. TreeInv'
  BY FirstStep
  DEF BeginFirstStep, TreeInv, Deaths, Executes, Attempting, planVars, stepVars,
      treeVars, memory, history
<1> QED
  BY <1>1, <1>2, <1>3, <1>4, <1>5, <1>6

(* The Executor calls the model. *)
LEMMA CallStep == ASSUME IInv, TypeOK', ExecutorCall PROVE IInv'
<1> USE DEF IInv
<1>1. StageInv'
  BY ConstantsAssumption
  DEF ExecutorCall, StageInv, TypeOK, Executes, StepStates, Idx, planVars, stepVars,
      treeVars, memory, history
<1>2. PlanInv'
  BY ConstantsAssumption
  DEF ExecutorCall, PlanInv, StageInv, TypeOK, Executes, StepStates, Idx, planVars,
      stepVars, treeVars, memory, history
<1>3. RowInv'
  BY ConstantsAssumption
  DEF ExecutorCall, RowInv, StageInv, TypeOK, Executes, StepStates, Idx, planVars,
      stepVars, treeVars, memory, history
<1>4. ChargeInv'
  BY CallIsCharged
<1>5. TokenInv'
  BY DEF ExecutorCall, TokenInv, Deaths, TypeOK, Executes, planVars, stepVars, treeVars,
         memory, history
<1>6. TreeInv'
  BY ConstantsAssumption
  DEF ExecutorCall, TreeInv, StageInv, TypeOK, Executes, StepStates, Idx, planVars,
      stepVars, treeVars, memory, history
<1> QED
  BY <1>1, <1>2, <1>3, <1>4, <1>5, <1>6

(* The budget is checked and the step goes to verification, or the run fails. *)
LEMMA BudgetStep == ASSUME IInv, TypeOK', CheckBudget PROVE IInv'
<1> USE DEF IInv
<1>1. StageInv'
  BY Edges, ConstantsAssumption
  DEF CheckBudget, Transition, OverBudget, StageInv, TypeOK, Deaths, Executes,
      Attempting, StepStates, Idx, planVars, stepVars, treeVars, memory, history
<1>2. PlanInv'
  BY Edges, ConstantsAssumption
  DEF CheckBudget, Transition, OverBudget, PlanInv, StageInv, TypeOK, Deaths, Executes,
      Attempting, StepStates, Idx, planVars, stepVars, treeVars, memory, history
<1>3. RowInv'
  BY Edges, ConstantsAssumption
  DEF CheckBudget, Transition, OverBudget, RowInv, StageInv, TypeOK, Deaths, Executes,
      Attempting, StepStates, Idx, planVars, stepVars, treeVars, memory, history
<1>4. ChargeInv'
  BY Edges, ConstantsAssumption
  DEF CheckBudget, Transition, OverBudget, ChargeInv, StageInv, TypeOK, Deaths,
      Executes, Attempting, StepStates, Idx, planVars, stepVars, treeVars, memory,
      history
<1>5. TokenInv'
  BY Edges, ConstantsAssumption
  DEF CheckBudget, Transition, OverBudget, TokenInv, StageInv, TypeOK, Deaths, Executes,
      Attempting, StepStates, Idx, planVars, stepVars, treeVars, memory, history
<1>6. TreeInv'
  BY Edges, ConstantsAssumption
  DEF CheckBudget, Transition, OverBudget, TreeInv, StageInv, TypeOK, Deaths, Executes,
      Attempting, StepStates, Idx, planVars, stepVars, treeVars, memory, history
<1> QED
  BY <1>1, <1>2, <1>3, <1>4, <1>5, <1>6

(* The checks of the current step pass. *)
LEMMA PassStep == ASSUME IInv, TypeOK', VerifyPass PROVE IInv'
<1> USE DEF IInv
<1>1. StageInv'
  BY ConstantsAssumption
  DEF VerifyPass, StageInv, PlanInv, TypeOK, Deaths, Executes, Attempting, Idx,
      planVars, stepVars, treeVars, memory, history
<1>2. PlanInv'
  BY ConstantsAssumption
  DEF VerifyPass, PlanInv, StageInv, TypeOK, Deaths, Executes, Attempting, Idx,
      planVars, stepVars, treeVars, memory, history
<1>3. RowInv'
  BY ConstantsAssumption
  DEF VerifyPass, RowInv, StageInv, PlanInv, TypeOK, Deaths, Executes, Attempting, Idx,
      planVars, stepVars, treeVars, memory, history
<1>4. ChargeInv'
  BY ConstantsAssumption
  DEF VerifyPass, ChargeInv, StageInv, PlanInv, TypeOK, Deaths, Executes, Attempting,
      Idx, planVars, stepVars, treeVars, memory, history
<1>5. TokenInv'
  BY ConstantsAssumption
  DEF VerifyPass, TokenInv, StageInv, PlanInv, TypeOK, Deaths, Executes, Attempting,
      Idx, planVars, stepVars, treeVars, memory, history
<1>6. TreeInv'
  BY ConstantsAssumption
  DEF VerifyPass, TreeInv, StageInv, PlanInv, TypeOK, Deaths, Executes, Attempting, Idx,
      planVars, stepVars, treeVars, memory, history
<1> QED
  BY <1>1, <1>2, <1>3, <1>4, <1>5, <1>6

(* A failed attempt is recorded. *)
LEMMA FailureStep == ASSUME IInv, TypeOK', RecordFailure PROVE IInv'
<1> USE DEF IInv
<1>1. StageInv'
  BY ConstantsAssumption
  DEF RecordFailure, RetryLeft, StageInv, PlanInv, TypeOK, Deaths, Executes, Attempting,
      StepStates, Idx, planVars, stepVars, treeVars, memory, history
<1>2. PlanInv'
  BY ConstantsAssumption
  DEF RecordFailure, RetryLeft, PlanInv, StageInv, TypeOK, Deaths, Executes, Attempting,
      StepStates, Idx, planVars, stepVars, treeVars, memory, history
<1>3. RowInv'
  BY ConstantsAssumption
  DEF RecordFailure, RetryLeft, RowInv, StageInv, PlanInv, TypeOK, Deaths, Executes,
      Attempting, StepStates, Idx, planVars, stepVars, treeVars, memory, history
<1>4. ChargeInv'
  BY FailureIsCharged
<1>5. TokenInv'
  BY ConstantsAssumption
  DEF RecordFailure, RetryLeft, TokenInv, StageInv, PlanInv, TypeOK, Deaths, Executes,
      Attempting, StepStates, Idx, planVars, stepVars, treeVars, memory, history
<1>6. TreeInv'
  BY ConstantsAssumption
  DEF RecordFailure, RetryLeft, TreeInv, StageInv, PlanInv, TypeOK, Deaths, Executes,
      Attempting, StepStates, Idx, planVars, stepVars, treeVars, memory, history
<1> QED
  BY <1>1, <1>2, <1>3, <1>4, <1>5, <1>6

(* The run advances to the next step, or completes. *)
LEMMA AdvanceStep == ASSUME IInv, TypeOK', AdvanceOrComplete PROVE IInv'
<1> USE DEF IInv
<1>1. StageInv'
  BY Advance
  DEF AdvanceOrComplete, StageInv, PlanInv, TypeOK, Deaths, Executes, Attempting, Idx,
      planVars, stepVars, treeVars, memory, history
<1>2. PlanInv'
  BY Advance
  DEF AdvanceOrComplete, PlanInv, StageInv, TypeOK, Deaths, Executes, Attempting, Idx,
      planVars, stepVars, treeVars, memory, history
<1>3. RowInv'
  <2>1. /\ current \in Int
        /\ \A i \in Idx : i \in Int
        /\ UNCHANGED << plan, stepStatus, committed >>
        /\ pc = "advance"
    BY DEF AdvanceOrComplete, TypeOK, Idx, planVars, stepVars, treeVars
  <2>2. /\ \A i \in Idx : i < current + 1 => stepStatus[i] = "COMPLETED"
        /\ \A i \in Idx : i > current => stepStatus[i] # "COMPLETED"
        /\ stepStatus[current] = "COMPLETED"
        /\ ~committed
    BY <2>1, Advance DEF RowInv
  <2> QED
    BY <2>1, <2>2, Advance DEF RowInv, Executes
<1>4. ChargeInv'
  <2>1. UNCHANGED << lastError, attempts, iterations, Deaths >>
    BY DEF AdvanceOrComplete, Deaths, planVars, stepVars, history
  <2>2. current \in Int /\ \A i \in Idx : i \in Int /\ iterations[i] \in Nat
    <3> HIDE DEF IInv
    <3>1. current \in Idx /\ iterations \in [Idx -> Nat]
      BY DEF IInv, TypeOK
    <3>2. \A i \in Idx : i \in Int
      BY DEF Idx
    <3> QED
      BY <3>1, <3>2
  <2>3. Deaths \in Nat
    BY ConstantsAssumption DEF TypeOK, Deaths
  <2>4. /\ \A i \in Idx : i > current + 1 => attempts[i] = 0
        /\ current' = current + 1 => attempts[current'] <= iterations[current'] + Deaths
    BY <2>1, <2>2, <2>3, Advance DEF ChargeInv
  <2> QED
    BY <2>1, <2>2, <2>4, Advance DEF ChargeInv, Executes
<1>5. TokenInv'
  BY Advance
  DEF AdvanceOrComplete, TokenInv, StageInv, PlanInv, TypeOK, Deaths, Executes,
      Attempting, Idx, planVars, stepVars, treeVars, memory, history
<1>6. TreeInv'
  BY Advance
  DEF AdvanceOrComplete, TreeInv, StageInv, PlanInv, TypeOK, Deaths, Executes,
      Attempting, Idx, planVars, stepVars, treeVars, memory, history
<1> QED
  BY <1>1, <1>2, <1>3, <1>4, <1>5, <1>6

(* Every step preserves the inductive invariant. *)
LEMMA InvStep == IInv /\ [Next]_vars => IInv'
<1> SUFFICES ASSUME IInv, [Next]_vars PROVE IInv'
  OBVIOUS
<1>0. TypeOK'
  BY TypeStep DEF IInv
<1>1. CASE Crash
  BY <1>0, <1>1, DeathStep
<1>2. CASE DriverError
  BY <1>0, <1>2, DeathStep
<1>3. CASE BeginFirstStep
  BY <1>0, <1>3, BeginStep
<1>4. CASE ExecutorCall
  BY <1>0, <1>4, CallStep
<1>5. CASE CheckBudget
  BY <1>0, <1>5, BudgetStep
<1>6. CASE VerifyPass
  BY <1>0, <1>6, PassStep
<1>7. CASE RecordFailure
  BY <1>0, <1>7, FailureStep
<1>8. CASE AdvanceOrComplete
  BY <1>0, <1>8, AdvanceStep
<1> USE <1>0, ConstantsAssumption, Edges DEF IInv, TypeOK, StageInv, PlanInv, RowInv,
        ChargeInv, TokenInv, TreeInv, Deaths, Executes, Attempting, Idx, StepStates,
        Transition, planVars, stepVars, treeVars, memory, history
<1>9. CASE Dispatch
  <2>1. StageInv'
    BY <1>9 DEF Dispatch
  <2>2. PlanInv'
    BY <1>9 DEF Dispatch
  <2>3. RowInv'
    BY <1>9 DEF Dispatch
  <2>4. ChargeInv'
    BY <1>9 DEF Dispatch
  <2>5. TokenInv'
    BY <1>9 DEF Dispatch
  <2>6. TreeInv'
    BY <1>9 DEF Dispatch
  <2> QED
    BY <2>1, <2>2, <2>3, <2>4, <2>5, <2>6
<1>10. CASE Claim
  BY <1>10 DEF Claim
<1>11. CASE Resume
  <2>1. StageInv'
    BY <1>11 DEF Resume
  <2>2. PlanInv'
    BY <1>11 DEF Resume
  <2>3. RowInv'
    BY <1>11 DEF Resume
  <2>4. ChargeInv'
    BY <1>11 DEF Resume
  <2>5. TokenInv'
    BY <1>11 DEF Resume
  <2>6. TreeInv'
    BY <1>11 DEF Resume
  <2> QED
    BY <2>1, <2>2, <2>3, <2>4, <2>5, <2>6
<1>12. CASE Recover
  <2>1. StageInv'
    BY <1>12 DEF Recover, Resumable, Terminal
  <2>2. PlanInv'
    BY <1>12 DEF Recover, Resumable, Terminal
  <2>3. RowInv'
    BY <1>12 DEF Recover, Resumable, Terminal
  <2>4. ChargeInv'
    BY <1>12 DEF Recover, Resumable, Terminal
  <2>5. TokenInv'
    BY <1>12 DEF Recover, Resumable, Terminal
  <2>6. TreeInv'
    BY <1>12 DEF Recover, Resumable, Terminal
  <2> QED
    BY <2>1, <2>2, <2>3, <2>4, <2>5, <2>6
<1>13. CASE AttachFails
  BY <1>13 DEF AttachFails
<1>14. CASE PrepareTree
  BY <1>14 DEF PrepareTree
<1>15. CASE WorkspaceReady
  BY <1>15 DEF WorkspaceReady
<1>16. CASE ReuseCachedPlan
  BY <1>16 DEF ReuseCachedPlan, NeedsPlan
<1>17. CASE PlannerCall
  BY <1>17 DEF PlannerCall, NeedsPlan
<1>18. CASE RecordSpan
  <2>1. StageInv'
    BY <1>18 DEF RecordSpan
  <2>2. PlanInv'
    BY <1>18 DEF RecordSpan
  <2>3. RowInv'
    BY <1>18 DEF RecordSpan
  <2>4. ChargeInv'
    BY <1>18 DEF RecordSpan
  <2>5. TokenInv'
    BY <1>18 DEF RecordSpan
  <2>6. TreeInv'
    BY <1>18 DEF RecordSpan
  <2> QED
    BY <2>1, <2>2, <2>3, <2>4, <2>5, <2>6
<1>19. CASE RecordTokens
  <2>1. StageInv'
    BY <1>19 DEF RecordTokens
  <2>2. PlanInv'
    BY <1>19 DEF RecordTokens
  <2>3. RowInv'
    BY <1>19 DEF RecordTokens
  <2>4. ChargeInv'
    BY <1>19 DEF RecordTokens
  <2>5. TokenInv'
    BY <1>19 DEF RecordTokens
  <2>6. TreeInv'
    BY <1>19 DEF RecordTokens
  <2> QED
    BY <2>1, <2>2, <2>3, <2>4, <2>5, <2>6
<1>20. CASE DeleteSteps
  <2>1. StageInv'
    BY <1>20 DEF DeleteSteps
  <2>2. PlanInv'
    BY <1>20 DEF DeleteSteps
  <2>3. RowInv'
    BY <1>20 DEF DeleteSteps
  <2>4. ChargeInv'
    BY <1>20 DEF DeleteSteps
  <2>5. TokenInv'
    BY <1>20 DEF DeleteSteps
  <2>6. TreeInv'
    BY <1>20 DEF DeleteSteps
  <2> QED
    BY <2>1, <2>2, <2>3, <2>4, <2>5, <2>6
<1>21. CASE InsertStep
  <2>1. StageInv'
    BY <1>21 DEF InsertStep, Present
  <2>2. PlanInv'
    BY <1>21, SMTT(20) DEF InsertStep, Present
  <2>3. RowInv'
    BY <1>21 DEF InsertStep, Present
  <2>4. ChargeInv'
    BY <1>21, SMTT(20) DEF InsertStep, Present
  <2>5. TokenInv'
    BY <1>21 DEF InsertStep, Present
  <2>6. TreeInv'
    BY <1>21 DEF InsertStep, Present
  <2> QED
    BY <2>1, <2>2, <2>3, <2>4, <2>5, <2>6
<1>22. CASE SavePlan
  <2>1. StageInv'
    BY <1>22 DEF SavePlan, RowsWritten, Present
  <2>2. PlanInv'
    BY <1>22 DEF SavePlan, RowsWritten, Present
  <2>3. RowInv'
    BY <1>22 DEF SavePlan, RowsWritten, Present
  <2>4. ChargeInv'
    BY <1>22 DEF SavePlan, RowsWritten, Present
  <2>5. TokenInv'
    BY <1>22 DEF SavePlan, RowsWritten, Present
  <2>6. TreeInv'
    BY <1>22 DEF SavePlan, RowsWritten, Present
  <2> QED
    BY <2>1, <2>2, <2>3, <2>4, <2>5, <2>6
<1>23. CASE PlanReady
  BY <1>23 DEF PlanReady
<1>24. CASE MarkExecuting
  <2>1. StageInv'
    BY <1>24 DEF MarkExecuting
  <2>2. PlanInv'
    BY <1>24 DEF MarkExecuting
  <2>3. RowInv'
    <3>1. /\ UNCHANGED << status, current, plan, committed >> /\ pc' = "enter"
          /\ stepStatus[current] # "COMPLETED" /\ current \in Idx
      BY <1>24 DEF MarkExecuting
    <3>2. \A i \in Idx : stepStatus'[i] = IF i = current THEN "EXECUTING" ELSE stepStatus[i]
      BY <1>24 DEF MarkExecuting
    <3>3. status \in { "PLAN_READY", "VERIFYING_STEP" } /\ ~committed
      BY <1>24 DEF MarkExecuting
    <3>4. \A i \in Idx : i < current => i # current
      OBVIOUS
    <3> QED
      BY <3>1, <3>2, <3>3, <3>4
  <2>4. ChargeInv'
    BY <1>24 DEF MarkExecuting
  <2>5. TokenInv'
    BY <1>24 DEF MarkExecuting
  <2>6. TreeInv'
    BY <1>24 DEF MarkExecuting
  <2> QED
    BY <2>1, <2>2, <2>3, <2>4, <2>5, <2>6
<1>25. CASE EnterExecuting
  BY <1>25 DEF EnterExecuting
<1>26. CASE ApplyOk
  BY <1>26 DEF ApplyOk
<1>27. CASE ApplyError
  BY <1>27 DEF ApplyError
<1>28. CASE EnterVerifying
  BY <1>28 DEF EnterVerifying
<1>29. CASE VerifyFail
  BY <1>29 DEF VerifyFail
<1>30. CASE EnterRetry
  BY <1>30 DEF EnterRetry
<1>31. CASE GiveUp
  BY <1>31 DEF GiveUp
<1>32. CASE ResetTree
  BY <1>32 DEF ResetTree
<1>33. CASE EnterRolledBack
  BY <1>33 DEF EnterRolledBack
<1>34. CASE Finalize
  BY <1>34 DEF Finalize
<1>35. CASE NothingToDo
  BY <1>35 DEF NothingToDo
<1>36. CASE UNCHANGED vars
  <2>1. StageInv'
    BY <1>36 DEF vars
  <2>2. PlanInv'
    BY <1>36 DEF vars
  <2>3. RowInv'
    BY <1>36 DEF vars
  <2>4. ChargeInv'
    BY <1>36 DEF vars
  <2>5. TokenInv'
    BY <1>36 DEF vars
  <2>6. TreeInv'
    BY <1>36 DEF vars
  <2> QED
    BY <2>1, <2>2, <2>3, <2>4, <2>5, <2>6
<1> QED
  BY <1>1, <1>2, <1>3, <1>4, <1>5, <1>6, <1>7, <1>8, <1>9, <1>10, <1>11,
     <1>12, <1>13, <1>14, <1>15, <1>16, <1>17, <1>18, <1>19, <1>20, <1>21,
     <1>22, <1>23, <1>24, <1>25, <1>26, <1>27, <1>28, <1>29, <1>30, <1>31,
     <1>32, <1>33, <1>34, <1>35, <1>36
  DEF Next, Drive, Planning, Executing, Verifying
(* Initially it holds. *)
LEMMA InvInit == Init => IInv
<1> SUFFICES ASSUME Init PROVE IInv
  OBVIOUS
<1> USE ConstantsAssumption DEF Init
<1>1. TypeOK
  <2>1. current \in Idx /\ 0 \in 0 .. MaxSteps /\ 0 \in 0 .. MaxCrashes /\ 0 \in 0 .. MaxErrors
    BY DEF Idx
  <2>2. /\ stepStatus \in [Idx -> StepStatus \cup { "ABSENT" }]
        /\ iterations \in [Idx -> Nat] /\ attempts \in [Idx -> Nat]
        /\ lastError \in [Idx -> BOOLEAN]
    OBVIOUS
  <2> QED
    BY <2>1, <2>2 DEF TypeOK, RunState, Stage, NoDrive
<1>2. StageInv /\ PlanInv /\ RowInv
  BY DEF StageInv, PlanInv, RowInv, Executes, StepStates, Idx
<1>3. ChargeInv /\ TokenInv /\ TreeInv
  BY DEF ChargeInv, TokenInv, TreeInv, Deaths, Executes, Attempting, Idx
<1> QED
  BY <1>1, <1>2, <1>3 DEF IInv

LEMMA InductiveInvariant == Spec => []IInv
BY InvInit, InvStep, PTL DEF Spec

-----------------------------------------------------------------------------
(* Two more invariants, which rest on IInv and on which IInv does not rest. *)

(* Calls of the Planner against the deaths of drivers: without a cached    *)
(* plan, and outside its stage, every call was lost with its driver.       *)
PlannerInv ==
  /\ plannerCalls <= 1 + Deaths
  /\ plan = 0 /\ pc \notin { "span", "tokens", "replace", "insert" } => plannerCalls <= Deaths

(* Until a driver dies, the tree has the patch of every step that was      *)
(* passed, and of the current one from its application to the next retry.  *)
PatchInv ==
  Deaths = 0 /\ status \notin { "FAILED", "ROLLED_BACK" } =>
    /\ \A i \in Idx : i < current => i \in applied
    /\ pc \in { "budget", "toverify", "advance" } => current \in applied
    /\ status \in { "VERIFYING_STEP", "COMPLETED" } /\ pc \notin { "mark", "enter" } =>
         current \in applied

LEMMA PlannerInvStep == IInv /\ PlannerInv /\ [Next]_vars => PlannerInv'
<1> SUFFICES ASSUME IInv, PlannerInv, [Next]_vars PROVE PlannerInv'
  OBVIOUS
<1>0. /\ crashes \in Nat /\ errors \in Nat /\ plannerCalls \in Nat /\ plan \in Nat
      /\ planned \in Nat /\ StageInv /\ PlanInv
  BY ConstantsAssumption DEF IInv, TypeOK
<1> USE <1>0 DEF PlannerInv, StageInv, PlanInv, Executes, Deaths, Transition, planVars, history
<1>1. CASE Dispatch
  BY <1>1 DEF Dispatch
<1>2. CASE Claim
  BY <1>2 DEF Claim
<1>3. CASE Resume
  BY <1>3 DEF Resume
<1>4. CASE Crash
  BY <1>4 DEF Crash
<1>5. CASE Recover
  BY <1>5 DEF Recover
<1>6. CASE DriverError
  BY <1>6 DEF DriverError
<1>7. CASE AttachFails
  BY <1>7 DEF AttachFails
<1>8. CASE PrepareTree
  BY <1>8 DEF PrepareTree
<1>9. CASE WorkspaceReady
  BY <1>9 DEF WorkspaceReady
<1>10. CASE ReuseCachedPlan
  BY <1>10 DEF ReuseCachedPlan
<1>11. CASE PlannerCall
  BY <1>11 DEF PlannerCall, NeedsPlan
<1>12. CASE RecordSpan
  BY <1>12 DEF RecordSpan
<1>13. CASE RecordTokens
  BY <1>13 DEF RecordTokens
<1>14. CASE DeleteSteps
  BY <1>14 DEF DeleteSteps
<1>15. CASE InsertStep
  BY <1>15 DEF InsertStep
<1>16. CASE SavePlan
  BY <1>16 DEF SavePlan
<1>17. CASE PlanReady
  BY <1>17 DEF PlanReady
<1>18. CASE BeginFirstStep
  BY <1>18 DEF BeginFirstStep
<1>19. CASE MarkExecuting
  BY <1>19 DEF MarkExecuting
<1>20. CASE EnterExecuting
  BY <1>20 DEF EnterExecuting
<1>21. CASE ExecutorCall
  BY <1>21 DEF ExecutorCall
<1>22. CASE ApplyOk
  BY <1>22 DEF ApplyOk
<1>23. CASE ApplyError
  BY <1>23 DEF ApplyError
<1>24. CASE CheckBudget
  BY <1>24 DEF CheckBudget
<1>25. CASE EnterVerifying
  BY <1>25 DEF EnterVerifying
<1>26. CASE VerifyPass
  BY <1>26 DEF VerifyPass
<1>27. CASE VerifyFail
  BY <1>27 DEF VerifyFail
<1>28. CASE RecordFailure
  BY <1>28 DEF RecordFailure
<1>29. CASE EnterRetry
  BY <1>29 DEF EnterRetry
<1>30. CASE GiveUp
  BY <1>30 DEF GiveUp
<1>31. CASE AdvanceOrComplete
  BY <1>31 DEF AdvanceOrComplete
<1>32. CASE ResetTree
  BY <1>32 DEF ResetTree
<1>33. CASE EnterRolledBack
  BY <1>33 DEF EnterRolledBack
<1>34. CASE Finalize
  BY <1>34 DEF Finalize
<1>35. CASE NothingToDo
  BY <1>35 DEF NothingToDo
<1>36. CASE UNCHANGED vars
  BY <1>36 DEF vars, memory
<1> QED
  BY <1>1, <1>2, <1>3, <1>4, <1>5, <1>6, <1>7, <1>8, <1>9, <1>10, <1>11, <1>12, <1>13, <1>14, <1>15, <1>16, <1>17, <1>18, <1>19, <1>20, <1>21, <1>22, <1>23, <1>24, <1>25, <1>26, <1>27, <1>28, <1>29, <1>30, <1>31, <1>32, <1>33, <1>34, <1>35, <1>36
     DEF Next, Drive, Planning, Executing, Verifying

LEMMA PatchInvStep == IInv /\ PatchInv /\ [Next]_vars => PatchInv'
<1> SUFFICES ASSUME IInv, PatchInv, [Next]_vars PROVE PatchInv'
  OBVIOUS
<1>0. /\ crashes \in Nat /\ errors \in Nat /\ current \in Idx
      /\ StageInv /\ PlanInv /\ \A i \in Idx : i \in Nat
  BY ConstantsAssumption DEF IInv, TypeOK, Idx
<1> USE <1>0 DEF PatchInv, StageInv, PlanInv, Deaths, Transition, treeVars, history,
        StepStates, Executes
<1>1. CASE Dispatch
  BY <1>1 DEF Dispatch
<1>2. CASE Claim
  BY <1>2 DEF Claim
<1>3. CASE Resume
  BY <1>3 DEF Resume
<1>4. CASE Crash
  BY <1>4 DEF Crash
<1>5. CASE Recover
  BY <1>5 DEF Recover
<1>6. CASE DriverError
  BY <1>6 DEF DriverError
<1>7. CASE AttachFails
  BY <1>7 DEF AttachFails
<1>8. CASE PrepareTree
  BY <1>8 DEF PrepareTree
<1>9. CASE WorkspaceReady
  BY <1>9 DEF WorkspaceReady
<1>10. CASE ReuseCachedPlan
  BY <1>10 DEF ReuseCachedPlan
<1>11. CASE PlannerCall
  BY <1>11 DEF PlannerCall
<1>12. CASE RecordSpan
  BY <1>12 DEF RecordSpan
<1>13. CASE RecordTokens
  BY <1>13 DEF RecordTokens
<1>14. CASE DeleteSteps
  BY <1>14 DEF DeleteSteps
<1>15. CASE InsertStep
  BY <1>15 DEF InsertStep
<1>16. CASE SavePlan
  BY <1>16 DEF SavePlan
<1>17. CASE PlanReady
  BY <1>17 DEF PlanReady
<1>18. CASE BeginFirstStep
  BY <1>18, FirstStep DEF BeginFirstStep, IInv
<1>19. CASE MarkExecuting
  BY <1>19 DEF MarkExecuting
<1>20. CASE EnterExecuting
  BY <1>20, Edges DEF EnterExecuting
<1>21. CASE ExecutorCall
  BY <1>21 DEF ExecutorCall
<1>22. CASE ApplyOk
  BY <1>22 DEF ApplyOk
<1>23. CASE ApplyError
  BY <1>23 DEF ApplyError
<1>24. CASE CheckBudget
  BY <1>24 DEF CheckBudget
<1>25. CASE EnterVerifying
  BY <1>25 DEF EnterVerifying
<1>26. CASE VerifyPass
  BY <1>26 DEF VerifyPass
<1>27. CASE VerifyFail
  BY <1>27 DEF VerifyFail
<1>28. CASE RecordFailure
  BY <1>28 DEF RecordFailure
<1>29. CASE EnterRetry
  BY <1>29 DEF EnterRetry
<1>30. CASE GiveUp
  BY <1>30 DEF GiveUp
<1>31. CASE AdvanceOrComplete
  BY <1>31 DEF AdvanceOrComplete
<1>32. CASE ResetTree
  BY <1>32 DEF ResetTree
<1>33. CASE EnterRolledBack
  BY <1>33 DEF EnterRolledBack
<1>34. CASE Finalize
  BY <1>34 DEF Finalize
<1>35. CASE NothingToDo
  BY <1>35 DEF NothingToDo
<1>36. CASE UNCHANGED vars
  BY <1>36 DEF vars, memory
<1> QED
  BY <1>1, <1>2, <1>3, <1>4, <1>5, <1>6, <1>7, <1>8, <1>9, <1>10, <1>11, <1>12, <1>13, <1>14, <1>15, <1>16, <1>17, <1>18, <1>19, <1>20, <1>21, <1>22, <1>23, <1>24, <1>25, <1>26, <1>27, <1>28, <1>29, <1>30, <1>31, <1>32, <1>33, <1>34, <1>35, <1>36
     DEF Next, Drive, Planning, Executing, Verifying

LEMMA CallAndPatchInvariant == Spec => [](IInv /\ PlannerInv /\ PatchInv)
<1>1. Init => PlannerInv /\ PatchInv
  BY ConstantsAssumption DEF Init, PlannerInv, PatchInv, Deaths, Idx
<1> QED
  BY <1>1, InvInit, InvStep, PlannerInvStep, PatchInvStep, PTL DEF Spec

(* In every reachable state every variable has its type: in particular     *)
(* current_step stays below the bound of the plan and no counter of the    *)
(* environment passes its bound.                                           *)
THEOREM TypeCorrectness == Spec => []TypeOK
<1>1. Init => TypeOK
  BY InvInit DEF IInv
<1> QED
  BY <1>1, TypeStep, PTL DEF Spec

(* Whatever the crashes, every call of _transition in the handlers of a    *)
(* sole driver asks for an edge of the table: its RuntimeError never ends  *)
(* a drive.                                                                *)
THEOREM NoIllegalTransition == Spec => []TransitionsAllowed
<1>1. Init => TransitionsAllowed
  BY DEF Init, TransitionsAllowed
<1>2. IInv /\ TransitionsAllowed /\ [Next]_vars => TransitionsAllowed'
  <2> SUFFICES ASSUME IInv, TransitionsAllowed, [Next]_vars PROVE pc' # "refused"
    BY DEF TransitionsAllowed
  <2>0. StageInv /\ status \in RunState
    BY DEF IInv, TypeOK
  <2>1. CASE \/ WorkspaceReady \/ ReuseCachedPlan \/ PlanReady \/ EnterExecuting \/ EnterVerifying
             \/ EnterRetry \/ GiveUp \/ EnterRolledBack
    BY <2>0, <2>1, Edges
    DEF WorkspaceReady, ReuseCachedPlan, PlanReady, EnterExecuting, EnterVerifying, EnterRetry,
        GiveUp, EnterRolledBack, Transition, StageInv, Executes, StepStates
  <2>2. CASE BeginFirstStep
    BY <2>2, FirstStep DEF IInv
  <2>3. CASE CheckBudget
    BY <2>0, <2>3, Edges DEF CheckBudget, Transition, StageInv
  <2>4. CASE AdvanceOrComplete
    BY <2>4, Advance DEF IInv
  <2>5. CASE UNCHANGED vars
    BY <2>5 DEF vars, TransitionsAllowed
  <2> QED
    BY <2>1, <2>2, <2>3, <2>4, <2>5
    DEF Next, Drive, Planning, Executing, Verifying, Dispatch, Claim, Resume, Crash, Recover,
        DriverError, AttachFails, PrepareTree, PlannerCall, RecordSpan, RecordTokens,
        DeleteSteps, InsertStep, SavePlan, MarkExecuting, ExecutorCall, ApplyOk, ApplyError,
        VerifyPass, VerifyFail, RecordFailure, ResetTree, Finalize, NothingToDo, TransitionsAllowed
<1> QED
  BY <1>1, <1>2, InductiveInvariant, PTL DEF Spec

(* A plan that is cached has exactly its rows, although nothing makes      *)
(* replace_steps atomic.                                                   *)
THEOREM PlanAndRowsAgree == Spec => []CachedPlanHasItsRows
<1>1. IInv => CachedPlanHasItsRows
  BY DEF IInv, PlanInv, CachedPlanHasItsRows, Present
<1> QED
  BY <1>1, InductiveInvariant, PTL

(* current_step only passes steps whose row is COMPLETED.                  *)
THEOREM ProgressIsVerified == Spec => []StepsBeforeCurrentAreCompleted
<1>1. IInv => StepsBeforeCurrentAreCompleted
  BY DEF IInv, RowInv, StepsBeforeCurrentAreCompleted
<1> QED
  BY <1>1, InductiveInvariant, PTL

(* A run is COMPLETED or committed only with every step of it verified.    *)
THEOREM CompletionIsVerified == Spec => []CompletedMeansVerified
<1>1. ASSUME IInv PROVE CompletedMeansVerified
  <2> SUFFICES ASSUME status = "COMPLETED" \/ committed, NEW i \in Idx, i < plan
               PROVE  stepStatus[i] = "COMPLETED"
    BY <1>1 DEF CompletedMeansVerified, IInv, PlanInv, RowInv
  <2>1. stepStatus[current] = "COMPLETED" /\ current + 1 = plan
    BY <1>1 DEF IInv, RowInv
  <2>2. i < current \/ i = current
    BY <1>1, <2>1 DEF IInv, TypeOK, Idx
  <2> QED
    BY <1>1, <2>1, <2>2 DEF IInv, RowInv
<1> QED
  BY <1>1, InductiveInvariant, PTL

(* No verification, and no completed run, above the token budget.          *)
THEOREM BudgetHolds == Spec => []VerifiedWithinBudget
<1>1. IInv => VerifiedWithinBudget
  BY DEF IInv, TokenInv, VerifiedWithinBudget
<1> QED
  BY <1>1, InductiveInvariant, PTL

(* However verifications, patches, kills and resumes are mixed, no step is *)
(* charged more than MaxRetries retries (settings.max_retries).            *)
THEOREM RetriesAreBounded == Spec => []RetryBudget
<1>1. ASSUME IInv PROVE RetryBudget
  BY <1>1 DEF IInv, ChargeInv, RetryBudget
<1> QED
  BY <1>1, InductiveInvariant, PTL

(* The calls that are made for a step, and those of the Planner, are       *)
(* bounded by what is persisted, whatever number of drivers die.           *)
THEOREM CallsAreBounded == Spec => []AttemptsAreCharged
<1>1. ASSUME IInv, PlannerInv PROVE AttemptsAreCharged
  <2>1. /\ crashes \in Nat /\ errors \in Nat
        /\ \A i \in Idx : iterations[i] \in Nat /\ attempts[i] \in Nat
    BY <1>1, ConstantsAssumption DEF IInv, TypeOK
  <2> QED
    BY <1>1, <2>1 DEF IInv, ChargeInv, PlannerInv, AttemptsAreCharged, Deaths
<1> QED
  BY <1>1, CallAndPatchInvariant, PTL

(* A run that no driver died on completes with every patch in its tree.    *)
THEOREM UnbrokenRunsAreWhole == Spec => []UnbrokenRunHasEveryPatch
<1>1. ASSUME IInv, PatchInv PROVE UnbrokenRunHasEveryPatch
  <2>1. /\ current \in Int /\ plan \in Int /\ total \in Int /\ \A i \in Idx : i \in Int
    BY <1>1, ConstantsAssumption DEF IInv, TypeOK, Idx
  <2>2. ASSUME status = "COMPLETED", Deaths = 0
        PROVE  pc \notin { "mark", "enter" } /\ current + 1 = total
    BY <1>1, <2>2 DEF IInv, StageInv, PlanInv, RowInv
  <2> QED
    BY <1>1, <2>1, <2>2 DEF PatchInv, UnbrokenRunHasEveryPatch
<1> QED
  BY <1>1, CallAndPatchInvariant, PTL

(* A retry finds the error it has to repair.                               *)
THEOREM RetriesAreInformed == Spec => []RetrySeesError
<1>1. IInv => RetrySeesError
  BY DEF IInv, ChargeInv, RetrySeesError
<1> QED
  BY <1>1, InductiveInvariant, PTL

(* tokens_used against the telemetry.                                      *)
THEOREM TokensAreAccounted == Spec => []TokensMatchSpans
<1>1. IInv => TokensMatchSpans
  BY DEF IInv, TokenInv, TokensMatchSpans, Deaths
<1> QED
  BY <1>1, InductiveInvariant, PTL

(* ROLLED_BACK is a promise about the files git sees, kept through any     *)
(* crash; of files that git ignores nothing is promised.                   *)
THEOREM RollbackIsComplete == Spec => []RolledBackTreeIsClean
<1>1. IInv => RolledBackTreeIsClean
  BY DEF IInv, TreeInv, RowInv, RolledBackTreeIsClean
<1> QED
  BY <1>1, InductiveInvariant, PTL

(* An unprepared run, such as one whose claim was orphaned, is inert.      *)
THEOREM UnpreparedIsInert == Spec => []NothingIsSpentUnprepared
<1>1. IInv => NothingIsSpentUnprepared
  BY DEF IInv, TreeInv, NothingIsSpentUnprepared
<1> QED
  BY <1>1, InductiveInvariant, PTL

(* The cached plan is never replaced and current_step never goes back.     *)
THEOREM PlanStability == Spec => PlanIsFinal
<1> DEFINE Final == /\ plan' = plan /\ total' = total /\ plannerCalls' = plannerCalls
                    /\ current' >= current
<1>1. ASSUME IInv, [Next]_vars, plan # 0 PROVE Final
  <2>1. current \in Int
    BY <1>1 DEF IInv, TypeOK, Idx
  <2>2. CASE SavePlan \/ PlannerCall
    BY <1>1, <2>2 DEF SavePlan, PlannerCall, NeedsPlan, IInv, StageInv, PlanInv
  <2>3. CASE BeginFirstStep
    BY <1>1, <2>1, <2>3, FirstStep DEF BeginFirstStep, IInv, planVars, history
  <2>4. CASE AdvanceOrComplete
    BY <1>1, <2>1, <2>4, Advance DEF AdvanceOrComplete, IInv, planVars, history
  <2>5. CASE UNCHANGED << plan, total, current, plannerCalls >>
    BY <2>1, <2>5
  <2> QED
    BY <1>1, <2>2, <2>3, <2>4, <2>5
    DEF Next, Drive, Planning, Executing, Verifying, vars, planVars, history, Dispatch,
        Claim, Resume, Crash, Recover, DriverError, AttachFails, PrepareTree, WorkspaceReady,
        ReuseCachedPlan, RecordSpan, RecordTokens, DeleteSteps, InsertStep, PlanReady,
        MarkExecuting, EnterExecuting, ExecutorCall, ApplyOk, ApplyError, CheckBudget,
        EnterVerifying, VerifyPass, VerifyFail, RecordFailure, EnterRetry, GiveUp,
        ResetTree, EnterRolledBack, Finalize, NothingToDo
<1>2. IInv /\ [Next]_vars => [plan # 0 => Final]_vars
  BY <1>1
<1> QED
  BY <1>2, InductiveInvariant, PTL DEF Spec, PlanIsFinal

-----------------------------------------------------------------------------
(* The run keeps the promise of RunLifecycle.  By RowInv the verified      *)
(* steps are an initial segment that ends just before current_step or at   *)
(* it, so each write of a step row is a VerifyNext, a ReopenNewest or a    *)
(* stutter of the promise.                                                 *)

Verified == { i \in Idx : stepStatus[i] = "COMPLETED" }

Size == IF status \in { "PENDING", "PLANNING" } THEN 0 ELSE total

LEMMA VerifiedSegment ==
  ASSUME TypeOK, RowInv
  PROVE  Verified = IF stepStatus[current] = "COMPLETED" THEN 0 .. current ELSE 0 .. current - 1
<1>1. current \in Idx /\ MaxSteps \in Int
  BY ConstantsAssumption DEF TypeOK
<1>2. CASE stepStatus[current] = "COMPLETED"
  <2>1. \A i \in Idx : stepStatus[i] = "COMPLETED" <=> i <= current
    BY <1>1, <1>2 DEF RowInv, Idx
  <2> QED
    BY <1>1, <1>2, <2>1 DEF Verified, Idx
<1>3. CASE stepStatus[current] # "COMPLETED"
  <2>1. \A i \in Idx : stepStatus[i] = "COMPLETED" <=> i <= current - 1
    BY <1>1, <1>3 DEF RowInv, Idx
  <2> QED
    BY <1>1, <1>3, <2>1 DEF Verified, Idx
<1> QED
  BY <1>2, <1>3

(* One step of the run, seen through the mapping. *)
Stutters == Phase' = Phase /\ Size' = Size /\ Verified' = Verified

LEMMA LifecycleStep ==
  ASSUME IInv, [Next]_vars
  PROVE  Stutters \/ Lifecycle!Next
<1> USE DEF IInv, Size, Phase, Stutters
<1>1. /\ current \in Idx /\ current \in Int /\ current >= 0 /\ MaxSteps \in Int
      /\ plan \in 0 .. MaxSteps
      /\ status \notin { "PENDING", "PLANNING" } => total = plan /\ current < plan
  BY ConstantsAssumption DEF TypeOK, Idx, PlanInv
<1>2. Verified = IF stepStatus[current] = "COMPLETED" THEN 0 .. current ELSE 0 .. current - 1
  BY VerifiedSegment
<1>3. ASSUME stepStatus[current] # "COMPLETED", NEW s, s # "COMPLETED",
             stepStatus' = [stepStatus EXCEPT ![current] = s]
      PROVE  Verified' = Verified
  BY <1>1, <1>3 DEF Verified, TypeOK
<1>4. ASSUME UNCHANGED << status, total, stepStatus >>
      PROVE  Stutters
  BY <1>4 DEF Verified
<1>5. CASE Claim \/ WorkspaceReady
  <2>1. status = "PENDING" /\ status' = "PLANNING" /\ UNCHANGED stepStatus
    BY <1>5, Edges DEF Claim, WorkspaceReady, StageInv, Transition, stepVars
  <2> QED
    BY <2>1 DEF Lifecycle!Next, Lifecycle!StartPlanning, Verified
<1>6. CASE ReuseCachedPlan \/ PlanReady
  <2>1. /\ status = "PLANNING" /\ status' = "PLAN_READY" /\ plan # 0
        /\ UNCHANGED << total, stepStatus >>
    BY <1>6, Edges
    DEF ReuseCachedPlan, PlanReady, NeedsPlan, StageInv, PlanInv, Transition, planVars, stepVars
  <2>2. total = plan /\ total \in 1 .. MaxSteps
    BY <1>1, <2>1 DEF PlanInv
  <2> QED
    BY <2>1, <2>2 DEF Lifecycle!Next, Lifecycle!FixPlan, Verified
<1>7. CASE DeleteSteps \/ InsertStep
  <2>1. status = "PLANNING" /\ status' = "PLANNING" /\ current = 0
    BY <1>7 DEF DeleteSteps, InsertStep, StageInv, PlanInv
  <2>2. \A i \in Idx : stepStatus[i] # "COMPLETED"
    BY <1>1, <2>1 DEF RowInv, Idx
  <2>3. \A i \in Idx : stepStatus'[i] # "COMPLETED"
    BY <1>7, <2>2 DEF DeleteSteps, InsertStep, TypeOK
  <2> QED
    BY <2>1, <2>2, <2>3 DEF Verified
<1>8. CASE SavePlan
  BY <1>8 DEF SavePlan, StageInv, stepVars, Verified
<1>9. CASE BeginFirstStep
  BY <1>4, <1>9, FirstStep DEF BeginFirstStep, planVars, stepVars
<1>10. CASE MarkExecuting
  <2>1. stepStatus[current] # "COMPLETED" /\ UNCHANGED << status, total >>
    BY <1>10 DEF MarkExecuting, RowInv, planVars
  <2> QED
    BY <1>3, <1>10, <2>1 DEF MarkExecuting
<1>11. CASE EnterExecuting \/ EnterVerifying \/ EnterRetry
  <2>1. /\ status \in { "PLAN_READY" } \cup StepStates /\ status' \in StepStates
        /\ UNCHANGED << total, stepStatus >>
    BY <1>11, Edges
    DEF EnterExecuting, EnterVerifying, EnterRetry, StageInv, Transition, Executes, StepStates,
        planVars, stepVars
  <2> QED
    BY <2>1 DEF Verified, StepStates
<1>12. CASE CheckBudget
  <2>1. stepStatus[current] # "COMPLETED" /\ status \in Executes /\ total' = total
    BY <1>12 DEF CheckBudget, StageInv, RowInv, planVars
  <2>2. CASE OverBudget
    <3>1. status' = "FAILED" /\ UNCHANGED stepStatus
      BY <1>12, <2>1, <2>2, Edges DEF CheckBudget, Transition
    <3> QED
      BY <2>1, <3>1 DEF Lifecycle!Next, Lifecycle!Fail, Verified, Executes
  <2>3. CASE ~OverBudget
    <3>1. status' = status /\ stepStatus' = [stepStatus EXCEPT ![current] = "VERIFYING"]
      BY <1>12, <2>3 DEF CheckBudget
    <3> QED
      BY <1>3, <2>1, <3>1
  <2> QED
    BY <2>2, <2>3
<1>13. CASE VerifyPass
  <2>1. /\ status = "VERIFYING_STEP" /\ UNCHANGED << status, total >>
        /\ stepStatus' = [stepStatus EXCEPT ![current] = "COMPLETED"]
    BY <1>13 DEF VerifyPass, planVars
  <2>2. Verified' = Verified \cup { current }
    BY <1>1, <2>1 DEF Verified, TypeOK
  <2>3. CASE stepStatus[current] = "COMPLETED"
    BY <1>1, <2>1, <2>2, <2>3 DEF Verified
  <2>4. CASE stepStatus[current] # "COMPLETED"
    <3>1. Verified = 0 .. current - 1 /\ Verified' = 0 .. current
      BY <1>1, <1>2, <2>2, <2>4
    <3>2. current \in 0 .. Size - 1
      BY <1>1, <2>1
    <3> QED
      BY <2>1, <3>1, <3>2 DEF Lifecycle!Next, Lifecycle!VerifyNext, Verified
  <2> QED
    BY <2>3, <2>4
<1>14. CASE RecordFailure
  <2>1. /\ status \in StepStates /\ UNCHANGED << status, total >>
        /\ \E s \in { "RETRYING", "FAILED" } : stepStatus' = [stepStatus EXCEPT ![current] = s]
    BY <1>14 DEF RecordFailure, StageInv, planVars
  <2>2. CASE stepStatus[current] # "COMPLETED"
    BY <1>3, <2>1, <2>2
  <2>3. CASE stepStatus[current] = "COMPLETED"
    <3>1. Verified' = Verified \ { current }
      BY <1>1, <2>1 DEF Verified, TypeOK
    <3>2. Verified = 0 .. current /\ Verified' = 0 .. current - 1
      BY <1>1, <1>2, <2>3, <3>1
    <3>3. current \in 0 .. Size - 1
      BY <1>1, <2>1 DEF StepStates
    <3> QED
      BY <2>1, <3>2, <3>3 DEF Lifecycle!Next, Lifecycle!ReopenNewest, Verified, StepStates
  <2> QED
    BY <2>2, <2>3
<1>15. CASE GiveUp
  <2>1. status \in StepStates /\ status' = "FAILED" /\ UNCHANGED << total, stepStatus >>
    BY <1>15, Edges
    DEF GiveUp, StageInv, Transition, Executes, StepStates, planVars, stepVars
  <2> QED
    BY <2>1 DEF Lifecycle!Next, Lifecycle!Fail, Verified, StepStates
<1>16. CASE AdvanceOrComplete
  <2>1. UNCHANGED << total, stepStatus >> /\ stepStatus[current] = "COMPLETED"
    BY <1>16 DEF AdvanceOrComplete, RowInv, planVars, stepVars
  <2>2. CASE status' = status
    BY <1>4, <2>1, <2>2
  <2>3. CASE current + 1 = plan /\ status' = "COMPLETED"
    <3>1. Verified = 0 .. Size - 1 /\ status = "VERIFYING_STEP"
      BY <1>1, <1>2, <1>16, <2>1, <2>3, Advance
    <3> QED
      BY <2>1, <2>3, <3>1 DEF Lifecycle!Next, Lifecycle!Complete, Verified
  <2> QED
    BY <1>16, <2>2, <2>3, Advance
<1>17. CASE EnterRolledBack
  <2>1. status = "FAILED" /\ status' = "ROLLED_BACK" /\ UNCHANGED << total, stepStatus >>
    BY <1>17, Edges DEF EnterRolledBack, StageInv, Transition, planVars, stepVars
  <2> QED
    BY <2>1 DEF Lifecycle!Next, Lifecycle!RollBack, Verified
<1>18. CASE UNCHANGED << status, total, stepStatus >>
  BY <1>4, <1>18
<1> QED
  BY <1>5, <1>6, <1>7, <1>8, <1>9, <1>10, <1>11, <1>12, <1>13, <1>14, <1>15, <1>16, <1>17, <1>18
  DEF Next, Drive, Planning, Executing, Verifying, vars, planVars, stepVars, Dispatch, Resume,
      Crash, Recover, DriverError, AttachFails, PrepareTree, PlannerCall, RecordSpan,
      RecordTokens, ExecutorCall, ApplyOk, ApplyError, VerifyFail, ResetTree, Finalize,
      NothingToDo

THEOREM RefinesLifecycle == Spec => KeepsLifecycle
<1>1. Init => Lifecycle!Init
  BY DEF Init, Lifecycle!Init, Phase
<1>2. IInv /\ [Next]_vars => [Lifecycle!Next]_(Lifecycle!lifecycleVars)
  BY LifecycleStep DEF Stutters, Size, Verified, Lifecycle!lifecycleVars
<1> QED
  BY <1>1, <1>2, InductiveInvariant, PTL DEF Spec, KeepsLifecycle, Lifecycle!Spec

=============================================================================
