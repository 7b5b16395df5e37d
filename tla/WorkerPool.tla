------------------------------ MODULE WorkerPool ------------------------------
(***************************************************************************)
(* Many runs, the queue, and the processes that drive runs: the workers of *)
(* a pool, each with its start-up recovery, and the background threads of  *)
(* the API.  Nothing but the queue and claim_pending decides who drives a  *)
(* run, and every driver writes the whole row of the run back from the     *)
(* copy it read when its stage began (Repository.update_run).              *)
(*                                                                         *)
(* A stage is one read and one write here; RunMachine has the writes       *)
(* inside a stage and the kills between them.  Retries of all steps of a   *)
(* run are counted together.                                               *)
(***************************************************************************)
EXTENDS Integers, Sequences, RunStates

CONSTANTS
  Workers,     \* processes of src/worker.py
  Threads,     \* background threads of the API process
  Runs,
  Queue,       \* "redis" or "db" (HARNESS_QUEUE)
  PoolIsUp,    \* TRUE: the workers are past their start-up when runs arrive
  Steps,       \* steps of every plan
  MaxRetries,  \* retries of a run, all steps together
  MaxKills,    \* bound: how often a worker is killed
  MaxApiKills, \* bound: how often the API process is killed
  MaxErrors,   \* bound: how often an exception ends a drive
  MaxResumes   \* bound: how often the operator resumes a run

ASSUME ConstantsAssumption ==
  /\ Workers \cap Threads = {} /\ Runs # {}
  /\ Queue \in { "redis", "db" } /\ PoolIsUp \in BOOLEAN
  /\ Steps \in Nat \ {0} /\ MaxRetries \in Nat
  /\ MaxKills \in Nat /\ MaxApiKills \in Nat /\ MaxErrors \in Nat /\ MaxResumes \in Nat

Drivers == Workers \cup Threads

VARIABLES
  created,  \* the runs in table runs, ORDER BY created_at
  row,      \* by run: status, current_step, workspace_path is set
  retries,  \* by run: retries charged to its step rows
  accepted, \* runs POST /runs has inserted and not yet handed on
  messages, \* the Redis list harness:runs
  pc,       \* by driver
  todo,     \* by worker: what recover() still has to drive
  run,      \* by driver: the run it drives or tries to claim
  mem,      \* by driver: the row as the current stage read it
  claims,   \* history, by run: claims that succeeded
  used      \* history: kills, API kills, errors and resumes so far

vars == << created, row, retries, accepted, messages, pc, todo, run, mem, claims, used >>

Places == { "down", "idle", "scan", "poll", "claim", "load", "stage" }

(* A driver is at work on a run from its first read to the end of drive(). *)
AtWork(d) == pc[d] \in { "load", "stage" }

NewRow == [status |-> "PENDING", current |-> 0, ready |-> FALSE]

Known == { created[i] : i \in DOMAIN created }

Init ==
  /\ created = << >> /\ row = [r \in Runs |-> NewRow] /\ retries = [r \in Runs |-> 0]
  /\ accepted = {} /\ messages = << >>
  /\ pc = [d \in Drivers |-> IF d \in Threads THEN "idle"
                         ELSE IF PoolIsUp THEN "poll" ELSE "down"]
  /\ todo = [w \in Workers |-> {}]
  /\ run \in [Drivers -> { CHOOSE r \in Runs : TRUE }]
  /\ mem = [d \in Drivers |-> NewRow]
  /\ claims = [r \in Runs |-> 0]
  /\ used = [kills |-> 0, apiKills |-> 0, errors |-> 0, resumes |-> 0]

-----------------------------------------------------------------------------
(* Helpers *)

Begin(d, r) == pc' = [pc EXCEPT ![d] = "load"] /\ run' = [run EXCEPT ![d] = r]

Before(a, b) ==
  \E i, j \in DOMAIN created : i < j /\ created[i] = a /\ created[j] = b

(* ORDER BY created_at ASC: the first of S. *)
Oldest(S) == { r \in S : \A o \in S : ~Before(o, r) }

(* Deliberately wrong: the end of the plan is noticed one step late. *)
PastLastStep(m) == m.current >= Steps

LastStep(m) == m.current + 1 >= Steps

(* What follows a drive: the next stuck run, or the poll loop. *)
AfterDrive(d) == IF d \in Workers THEN "scan" ELSE "idle"

-----------------------------------------------------------------------------
(* The API *)

(* POST /runs: the INSERT, and then the queue or a background thread. *)
Create(r) ==
  /\ r \notin Known
  /\ created' = Append(created, r)
  /\ accepted' = accepted \cup { r }
  /\ UNCHANGED << row, retries, messages, pc, todo, run, mem, claims, used >>

Enqueue(r) ==
  /\ r \in accepted /\ Queue = "redis"
  /\ messages' = Append(messages, r) /\ accepted' = accepted \ { r }
  /\ UNCHANGED << created, row, retries, pc, todo, run, mem, claims, used >>

StartThread(r) ==
  /\ r \in accepted /\ Queue = "db"
  /\ \E t \in Threads : pc[t] = "idle" /\ Begin(t, r)
  /\ accepted' = accepted \ { r }
  /\ UNCHANGED << created, row, retries, messages, todo, mem, claims, used >>

(* POST /runs/{id}/resume hands the run on whatever its status. *)
Resume(r) ==
  /\ r \in Known \ accepted /\ used.resumes < MaxResumes
  /\ accepted' = accepted \cup { r }
  /\ used' = [used EXCEPT !.resumes = @ + 1]
  /\ UNCHANGED << created, row, retries, messages, pc, todo, run, mem, claims >>

(* The API process dies: its threads, and what it has not handed on. *)
ApiKilled ==
  /\ used.apiKills < MaxApiKills
  /\ used' = [used EXCEPT !.apiKills = @ + 1]
  /\ accepted' = {}
  /\ pc' = [d \in Drivers |-> IF d \in Threads THEN "idle" ELSE pc[d]]
  /\ mem' = [d \in Drivers |-> IF d \in Threads THEN NewRow ELSE mem[d]]
  /\ UNCHANGED << created, row, retries, messages, todo, run, claims >>

-----------------------------------------------------------------------------
(* A worker *)

(* Deliberately wrong: recovery is left to the queue. *)
StartWithoutRecovery(w) ==
  /\ pc[w] = "down"
  /\ pc' = [pc EXCEPT ![w] = "scan"]
  /\ UNCHANGED << created, row, retries, accepted, messages, todo, run, mem, claims, used >>

(* The process is started: recover() lists every run that is not terminal. *)
Start(w) ==
  /\ pc[w] = "down"
  /\ todo' = [todo EXCEPT ![w] = { r \in Known : row[r].status \in Resumable }]
  /\ pc' = [pc EXCEPT ![w] = "scan"]
  /\ UNCHANGED << created, row, retries, accepted, messages, run, mem, claims, used >>

NextStuckRun(w) ==
  /\ pc[w] = "scan"
  /\ \E r \in Oldest(todo[w]) :
       Begin(w, r) /\ todo' = [todo EXCEPT ![w] = @ \ { r }]
  /\ UNCHANGED << created, row, retries, accepted, messages, mem, claims, used >>

EndOfScan(w) ==
  /\ pc[w] = "scan" /\ todo[w] = {}
  /\ pc' = [pc EXCEPT ![w] = "poll"]
  /\ UNCHANGED << created, row, retries, accepted, messages, todo, run, mem, claims, used >>

(* Deliberately wrong: the id is read and left in the list. *)
PeekRedis(w) ==
  /\ pc[w] = "poll" /\ Queue = "redis" /\ messages # << >>
  /\ Begin(w, Head(messages))
  /\ UNCHANGED << created, row, retries, accepted, messages, todo, mem, claims, used >>

(* RedisQueue.dequeue: BLPOP. *)
DequeueRedis(w) ==
  /\ pc[w] = "poll" /\ Queue = "redis" /\ messages # << >>
  /\ Begin(w, Head(messages))
  /\ messages' = Tail(messages)
  /\ UNCHANGED << created, row, retries, accepted, todo, mem, claims, used >>

(* claim_pending, SELECT: the oldest PENDING run. *)
SelectPending(w) ==
  /\ pc[w] = "poll" /\ Queue = "db"
  /\ \E r \in Oldest({ k \in Known : row[k].status = "PENDING" }) :
       run' = [run EXCEPT ![w] = r]
  /\ pc' = [pc EXCEPT ![w] = "claim"]
  /\ UNCHANGED << created, row, retries, accepted, messages, todo, mem, claims, used >>

(* Deliberately wrong: the status is not looked at again. *)
ClaimAnyway(w) ==
  /\ pc[w] = "claim"
  /\ row' = [row EXCEPT ![run[w]].status = "PLANNING"]
  /\ claims' = [claims EXCEPT ![run[w]] = @ + 1]
  /\ pc' = [pc EXCEPT ![w] = "load"]
  /\ UNCHANGED << created, retries, accepted, messages, todo, run, mem, used >>

(* claim_pending, UPDATE ... AND status = 'PENDING': only one rowcount = 1. *)
ClaimPending(w) ==
  /\ pc[w] = "claim"
  /\ IF row[run[w]].status = "PENDING"
     THEN /\ row' = [row EXCEPT ![run[w]].status = "PLANNING"]
          /\ claims' = [claims EXCEPT ![run[w]] = @ + 1]
          /\ pc' = [pc EXCEPT ![w] = "load"]
     ELSE pc' = [pc EXCEPT ![w] = "poll"] /\ UNCHANGED << row, claims >>
  /\ UNCHANGED << created, retries, accepted, messages, todo, run, mem, used >>

(* SIGKILL: an id popped from Redis is gone with the process. *)
Killed(w) ==
  /\ pc[w] # "down" /\ used.kills < MaxKills
  /\ used' = [used EXCEPT !.kills = @ + 1]
  /\ pc' = [pc EXCEPT ![w] = "down"]
  /\ todo' = [todo EXCEPT ![w] = {}]
  /\ mem' = [mem EXCEPT ![w] = NewRow]
  /\ UNCHANGED << created, row, retries, accepted, messages, run, claims >>

-----------------------------------------------------------------------------
(* A drive, in a worker or in a thread of the API *)

Forget(d) == mem' = [mem EXCEPT ![d] = NewRow]

(* get_run; a drive ends at COMPLETED (finalized again) or ROLLED_BACK. *)
Load(d) ==
  /\ pc[d] = "load"
  /\ IF row[run[d]].status \in { "COMPLETED", "ROLLED_BACK" }
     THEN pc' = [pc EXCEPT ![d] = AfterDrive(d)] /\ mem' = mem
     ELSE pc' = [pc EXCEPT ![d] = "stage"] /\ mem' = [mem EXCEPT ![d] = row[run[d]]]
  /\ UNCHANGED << created, row, retries, accepted, messages, todo, run, claims, used >>

(* The end of a stage: the whole row is written from the copy. *)
Save(d, out) ==
  LET r == run[d] IN
    /\ row' = [row EXCEPT ![r] = out]
    /\ retries' = [retries EXCEPT ![r] =
                     IF out.status = "RETRYING_STEP" THEN @ + 1 ELSE @]
    /\ pc' = [pc EXCEPT ![d] = IF out.status = "ROLLED_BACK"
                               THEN AfterDrive(d) ELSE "load"]

(* The step on hand failed: a retry while one is left. *)
StepFails(d) ==
  LET retry == retries[run[d]] < MaxRetries
  IN Save(d, [mem[d] EXCEPT !.status = IF retry THEN "RETRYING_STEP" ELSE "FAILED"])

(* The step on hand is verified: the next one, or the end of the plan. *)
StepPasses(d) ==
  IF LastStep(mem[d])
  THEN Save(d, [mem[d] EXCEPT !.status = "COMPLETED"])
  ELSE Save(d, [mem[d] EXCEPT !.status = "EXECUTING_STEP", !.current = @ + 1])

(* The stage has done its work, of whatever length.  An executed step is   *)
(* verified unless its patch did not apply; the budget may be exceeded.    *)
Stage(d) ==
  LET m == mem[d]
      To(s) == Save(d, [m EXCEPT !.status = s])
  IN /\ pc[d] = "stage"
     /\ m.status = "PENDING" \/ m.ready
     /\ \/ m.status = "PENDING" /\ Save(d, [m EXCEPT !.status = "PLANNING", !.ready = TRUE])
        \/ m.status = "PLANNING" /\ To("PLAN_READY")
        \/ m.status = "PLAN_READY" /\ To("EXECUTING_STEP")
        \/ /\ m.status \in { "EXECUTING_STEP", "RETRYING_STEP" }
           /\ To("VERIFYING_STEP") \/ To("FAILED") \/ StepFails(d)
        \/ m.status = "VERIFYING_STEP" /\ (StepPasses(d) \/ StepFails(d))
        \/ m.status = "FAILED" /\ To("ROLLED_BACK")
     /\ Forget(d)
     /\ UNCHANGED << created, accepted, messages, todo, run, claims, used >>

(* _attach_sandbox: "workspace not prepared" ends the drive. *)
NotPrepared(d) ==
  /\ pc[d] = "stage" /\ mem[d].status # "PENDING" /\ ~mem[d].ready
  /\ pc' = [pc EXCEPT ![d] = AfterDrive(d)]
  /\ Forget(d)
  /\ UNCHANGED << created, row, retries, accepted, messages, todo, run, claims, used >>

(* Any other exception: logged by a worker, lost in a thread of the API. *)
Raises(d) ==
  /\ pc[d] = "stage" /\ used.errors < MaxErrors
  /\ used' = [used EXCEPT !.errors = @ + 1]
  /\ pc' = [pc EXCEPT ![d] = AfterDrive(d)]
  /\ Forget(d)
  /\ UNCHANGED << created, row, retries, accepted, messages, todo, run, claims >>

-----------------------------------------------------------------------------
Api(r) == Enqueue(r) \/ StartThread(r)

Work(w) ==
  \/ Start(w) \/ NextStuckRun(w) \/ EndOfScan(w)
  \/ DequeueRedis(w) \/ SelectPending(w) \/ ClaimPending(w)

Drive(d) == Load(d) \/ Stage(d) \/ NotPrepared(d)

Next ==
  \/ \E r \in Runs : Create(r) \/ Api(r) \/ Resume(r)
  \/ ApiKilled
  \/ \E w \in Workers : Work(w) \/ Killed(w)
  \/ \E d \in Drivers : Drive(d) \/ Raises(d)

Spec == Init /\ [][Next]_vars

(* The API hands on what it accepted, a worker that is down is restarted   *)
(* (restartPolicy of its Deployment), and a process that lives goes on.    *)
FairSpec ==
  /\ Spec
  /\ \A r \in Runs : WF_vars(Api(r))
  /\ \A w \in Workers : WF_vars(Work(w))
  /\ \A d \in Drivers : WF_vars(Drive(d))

-----------------------------------------------------------------------------
(* Properties *)

Used == [kills : 0 .. MaxKills, apiKills : 0 .. MaxApiKills,
         errors : 0 .. MaxErrors, resumes : 0 .. MaxResumes]

Row == [status : RunState, current : 0 .. Steps - 1, ready : BOOLEAN]

(* Every variable has its type. *)
TypeOK ==
  /\ created \in Seq(Runs) /\ row \in [Runs -> Row] /\ retries \in [Runs -> 0 .. MaxRetries]
  /\ accepted \subseteq Runs /\ messages \in Seq(Runs)
  /\ pc \in [Drivers -> Places] /\ todo \in [Workers -> SUBSET Runs]
  /\ run \in [Drivers -> Runs] /\ mem \in [Drivers -> Row]
  /\ claims \in [Runs -> Nat]
  /\ used \in Used

(* The pool was up when the first run arrived, takes its runs from Redis,  *)
(* and so far no worker was killed and nobody resumed a run.               *)
Undisturbed ==
  PoolIsUp /\ Queue = "redis" /\ used.kills = 0 /\ used.resumes = 0

OneDriverEach ==
  \A d, e \in Drivers : AtWork(d) /\ AtWork(e) /\ run[d] = run[e] => d = e

(* Until it is disturbed, the pool has at most one driver on a run, of     *)
(* whatever size it is: BLPOP hands each id to one worker, and a drive     *)
(* that an exception ended is taken up by nobody.                          *)
OneDriverPerRun == Undisturbed => OneDriverEach

Legally(r) ==
  row'[r].status # row[r].status => row'[r].status \in ALLOWED_TRANSITIONS[row[r].status]

(* Until then, what is persisted over a status is one of its successors:   *)
(* the check of _transition, made on a copy, protects the row as well.     *)
RowsMoveLegally == [][ Undisturbed => \A r \in Runs : Legally(r) ]_vars

(* A run is claimed at most once, by whatever number of workers, although  *)
(* claim_pending reads and updates in two statements, and although stale   *)
(* copies of the row are written back by other drivers.                    *)
ClaimedAtMostOnce == \A r \in Runs : claims[r] <= 1

(* A run that was accepted gets a verdict, although the worker that popped *)
(* its id from the queue is killed.                                        *)
NoRunStranded ==
  \A r \in Runs : r \in Known ~> row[r].status \in Terminal

-----------------------------------------------------------------------------
(* What the documents say of the program and the code does not do *)

(* "Enforced by the state machine so an illegal jump ... raises instead of *)
(* silently corrupting a run" (states.py:48): of any row, at any time.     *)
NoIllegalJump == [][ \A r \in Runs : Legally(r) ]_vars

=============================================================================
