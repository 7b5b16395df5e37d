# A TLA+ model of the coding-agent harness

The program takes a task for a git repository, has an LLM plan it as a list of
file edits, applies and verifies the edits one by one, and commits or rolls
back.  Its claim is robustness: the state store is the only source of truth, so
a worker may be killed at any line.  These modules model that claim, and the
two pieces of concurrency around it: who drives a run, and how a client follows
it.  All paths below are relative to the repository.

## The system

| Component | State it keeps | Operations | What is hard | What makes it correct |
|---|---|---|---|---|
| Run state machine (`src/orchestrator/state_machine.py`, `states.py`) | the row of `runs`: status, current_step, plan_json, workspace, tokens | `drive`: one handler per status | every write is durable on its own; a kill between any two; resume | no illegal edge, progress only over verified steps, budgets, one plan |
| LangGraph engine (`graph.py`) | none of its own | routes on the persisted status | must agree with the loop | same stages in the same order |
| Planner, dependency graph (`planner.py`, `analysis/dep_graph.py`) | none; writes plan and step rows | call, validate, sort, number | cycles, repeated files | every step stored, dependencies first |
| Executor, Verifier (`executor.py`, `verifier.py`) | the working tree | apply a patch, run checks | a patch that fails half-way | rollback removes all that git sees of it |
| State store (`storage/`) | tables runs, steps, telemetry, events | single statements in autocommit mode | whole-row writes from old copies | rows move along legal edges |
| Telemetry (`telemetry/tracing.py`) | telemetry rows, `tokens_used` | two writes per span | a kill between them | the budget never counts too much |
| Workspace (`git/repo_manager.py`) | clone, base ref, run branch | prepare, rollback, commit, diff | commands that fail silently; a diff beside a drive | the tree after a verdict |
| Pull requests (`git/github.py`) | branch on the remote, pr_url | push, create or reuse | two runs on one branch | a run names its own PR |
| Worker (`worker.py`) | none | recover, poll, drive, sweep | kill with a run in hand; two workers | no run stranded, one driver |
| Queue (`queue.py`) | the Redis list, or table `runs` | enqueue, BLPOP / claim_pending | lost ids; racing claims | claimed once |
| Event bus (`events.py`) | subscribers and their queues | publish, subscribe | publish outside the lock; Redis loses messages | order, completeness |
| API (`api/server.py`) | background threads, open streams | create, resume, stream (SSE, WebSocket), diff, pr | replay, push and catch-up overlap | a client sees the log once, in order, to its end |
| Retention (`retention.py`) | none | sweep | decides on rows read once, beside drives and other sweeps | never touches a live run, forgets no other |
| Sandboxes (`sandbox/`) | container or pod, dirty flag | select, start, sync, run, teardown, the file tools | a pod that is late; a tree edited behind its back; a daemon that answers differently from one drive to the next | no leak, checks see the edits, untrusted sources isolated |
| LLM client, prompts, CLI, configuration | none | I/O, text | | |

The API inserts a run and either starts a thread of its own (queue `db`) or
pushes the id to Redis; a worker pops the id, or claims a PENDING row, and
drives it: prepare, plan, execute and verify each step, then commit or roll
back.  Every handler logs events, which the bus pushes to the open streams.  A
worker that starts drives every run that is not terminal before it polls.

## The modules

* `RunStates`: statuses, their table of edges, the recovery scan's selection.
* `RunLifecycle`: the abstract promise of a run: accepted, a plan fixed once,
  steps verified in order, completed with all of them or failed and rolled back.
* `RunMachine`: one run and its driver.  A variable for each persisted field,
  the working tree (`applied` and `dirty` for the files git sees, `hidden` for
  edits of files that `.gitignore` names, `committed`), and `pc`, the place inside
  a stage.  A rollback undoes what git sees and leaves `hidden` alone; a
  `_transition` along an edge the table lacks ends the drive (`refused`).  Each action is one durable write, one effect on the tree, or one
  model call; `Crash` and `DriverError` may come between any two.  A driver
  that dies loses `pc`, `planned` and `cost`, which are the only things kept in
  memory.  `RunMachine` refines `RunLifecycle` (`KeepsLifecycle`).
* `WorkerPool`: runs, queue, workers, API threads.  One stage is one read and
  one whole-row write, so that two drivers of one run can interleave; what
  happens inside a stage is `RunMachine`'s subject.
* `EventStream`: the writers of one run's log, the bus, a stream per client,
  the client.  The bus (`get_bus`) and the kind of stream (SSE resumes,
  WebSocket starts again) are chosen at the start of a behaviour.
* `PlanOrder`, `MCPlanOrder`: from the model's plan to step rows.
* `Sandboxes`: the tree of one run and the sandbox of each of its drives.  The
  content of the tree is the number of changes made to it; a pod's copy is the
  number it was sent at.  `at` is the place inside `exec` or the end of a drive,
  `handle` stands for `_container` or `_pod_ready`, `box` for what docker or
  Kubernetes really has, and `left` counts boxes that outlive their drive.  One
  action per call of a backend; what the daemon, the cluster, `tar` and the
  command answer is a choice, and every failure of theirs, like a kill, is a
  `Mishap` with a bound.
* `Retention`: rows and directories of runs, their drives reduced to the writes
  a sweep can meet, and any number of sweeps, some on nodes without the
  directories.  A sweep keeps `listed`, `ids` and `todo` from its start and
  takes one step per effect: rmtree, the write of the row, the event, the
  deletion; then it passes over the directories for orphans.  `rmtree` ignores
  errors: it may fail once (a mishap, like a kill) or always (`stuck`), and row
  and path go regardless.  Time is the age of a row, up to a bound, and whether a directory is
  an hour old; the one thing assumed of it is that no sweep lasts an hour while
  it misses a run that is not purged.
* `RunMachineProofs`, `WorkerPoolProofs`, `EventStreamProofs`,
  `PlanOrderProofs`, `SandboxesProofs`, `RetentionProofs`: the theorems,
  one module for each module they are about.

Definitions named as deliberately wrong are single mistakes in a definition
that a run must detect.

## The runs

| Run | Shows |
|---|---|
| `safety` | 3 steps, 2 retries, budget 5, costs 1 or 2, one kill, one exception, polling workers and any number of resumes: 15 properties of one run, with the refinement |
| `recovers` | 2 steps, 2 kills: a verdict is always reached, and the driver that reaches it rolls back or commits unless it is killed itself |
| `stream_merged` | three buses, both kinds of stream, 2 writers, 2 events, 2 lost connections: order, no repeats, completeness, end of stream |
| `pool_popped` | Redis, 2 workers, 2 runs, one kill, one resume: one driver and legal edges until the pool is disturbed; every run reaches a verdict always |
| `pool_claimed` | queue `db`, 2 workers, an API thread, kill of each, exception, resume: claimed at most once |
| `plan_sorted` | all graphs over four files and all plans of up to three steps: complete, dependencies first, otherwise the plan's order, cycles included |
| `boxes` | all four settings, two drivers on one tree, three changes, one mishap of each driver: checks see their drive's own edits, only mishaps leave boxes behind, untrusted sources are isolated |
| `swept` | one run from INSERT to purge, two sweeps, one without the directory, both orders of the two periods, one kill or removal that fails, one late write, a directory that may be impossible to remove: a live run keeps row and workspace, nothing of another stays for ever that can be removed |
| `step_skipped`, `claims`, `pool_overwritten`, `plan_steps_lost` | what a document promises and the code does not do; see below |

Why the bounds are enough. A kill forgets everything but the durable state, so a
second one adds only what a drive did since the first; `safety` has one kill
with one exception, `recovers` two kills. Two steps show the passage from one to
the next and the end of the plan, the third the middle. Budget and costs are
such that a run can end just within, just over and far over. Two drivers are
what a race needs, two runs what a queue needs; in `pool_popped` a plan has one
step and no retry, `pool_claimed` has two steps and one retry. Two events are
enough for a gap, a repeat or a disorder; in `stream_merged` quiet slices are
counted to 2, so that a stream can end in the first slice after the terminal
status and in a later one. In `boxes` two drivers are what it takes to edit
behind a flag, three changes let each drive edit before and after a transfer and
the other one in between, and one mishap of each lets a box be lost on every
path. In `swept` the rules of a sweep concern one run each, so that one run
suffices; two sweeps are what it takes to meet stale lists, periods of 0 and 1
put either rule first, and one mishap is a kill, or a removal that fails, at
every place a directory can be lost sight of. Deadlock is not checked where the system may rest: a
pool without runs, a closed stream, a stored plan, a setting that refuses the
source, a purged run. In `RunMachine` an operator may always resume, so it is
checked there.

Fairness. A living driver goes on, as a thread or process does; a run that was
handed on is picked up, because the API starts a thread or a worker polls for
ever; a killed worker starts again (its Deployment). Nothing makes an operator
resume a run, a writer write, a client connect, or an exception stay away, so
those have none; the liveness runs of `RunMachine` and `WorkerPool` have no
exceptions. Time passes, and a sweep comes again, because a worker that polls
starts one every interval.

## What is proved

For every value of the constants, with TLAPS; the only assumptions are the
named ones on constants in the modules.

`RunMachineProofs`: type correctness, all safety invariants of `safety`,
`PlanIsFinal` and the refinement of `RunLifecycle`.  Hardly any of the
invariants is inductive by itself (`RetryBudget` is).  `IInv` adds, in parts, what the next driver may rely on: the status
at each `pc` (`StageInv`), plan against rows (`PlanInv`), completed rows against
current_step (`RowInv`), attempts against charged retries and deaths
(`ChargeInv`), tokens against spans and the check (`TokenInv`), the tree before
preparation and after rollback (`TreeInv`).  Each part is disturbed by several
actions only because a kill lands between two of them; lemmas such as
`DeathIsCharged` treat that once.  `PlannerInv` and `PatchInv` rest on `IInv`.
`RetryBudget` and, with `PlannerInv`, `AttemptsAreCharged`, which bounds the
paid calls, follow from `ChargeInv`.  `TransitionsAllowed` is about every call of
`_transition` in every handler: each is made from a status that `StageInv` ties
to the place of the call, so that the table has the edge and no drive is ever
refused.  `RolledBackTreeIsClean` is about the files git sees.

`WorkerPoolProofs`: type correctness; `ClaimedAtMostOnce`, from an invariant
that a claimed run is never PENDING again, neither in its row nor in any
driver's stale copy; and, until the pool is disturbed by a kill or a resume,
one driver for each run and legal edges for each row.  The argument for the
last two is that a run is in one place (accepted, once in the list, or with one
driver), hence the copy a stage reads stays equal to the row.

`EventStreamProofs`: type correctness and both safety invariants.
`ReceivedInOrder` holds on every bus because what a client has is increasing and
not above `last_sent`, and the rows of a batch continue `last_sent` without a
gap (`OrderInv`).  `ClientSeesPrefix` needs, besides, that no push runs ahead of
the log and none is missing: without an overlap the id in flight is the newest
(`NewestInv`), the subscriptions are those of the open streams
(`SubscriptionInv`), and a queue is a segment of the log that ends with the last
id put for its stream and starts no later than what is sent and fetched reaches
(`QueueInv`).  So a pushed event is either a repeat or the next one
(`PrefixInv`).  The last is where subscribing before the replay counts.

`PlanOrderProofs`: type correctness and all invariants of `plan_sorted`, for
plans of any length.  For every plan: each place of the order stands for a step
of its own (`FitInv`, an injection), no file is placed or ready more often than
the plan names it (`CountInv`), and none is lost on the way through the
remainder (`CoverInv`).  For plans with one step per file: the in-degree of a
file is the number of its dependencies not yet placed (`KahnInv`); while the
sort runs every file comes after its dependencies, and what is left when nothing
is ready rests on a cycle, because the files left are themselves the set
`RestsOnCycle` asks for (`DepsInv`); what a file was overtaken by waited or
rests on a cycle (`TieInv`).  `DependenciesFirst` then needs that the number of
a row is the rank of its file (`StepsAreStored`).

`SandboxesProofs`: type correctness and all invariants of `boxes`, for any
number of drivers, changes and mishaps.  `ChecksSeeOwnEdits` rests on
`CopyInv`: a pod whose flag is unset has all changes of its drive or a torn
transfer, whatever other drives did to the tree since.  `BoxesAreAccounted`
needs `HandleInv`, that the handle stands for the box except between the
creation of a pod and its readiness, and `DebtInv`, that a box left without a
handle has already had its mishap, for teardown will not look at it.  An action
of one drive leaves the others' parts alone (`OnlyItsOwn`).

`RetentionProofs`: type correctness and `LiveRunsStayResumable`, for any number
of runs and sweeps.  It needs that a verdict is final, in the row and in every
copy a sweep or a late writer holds (`VerdictInv`), that what a drive prepared
is there when the row is written (`PrepareInv`), and that a directory is old
only after every sweep at work listed its run or the run was purged (`OldInv`):
that is where the age of an orphan counts.  A removal that fails disturbs none
of it (`RmtreeEffect`).

Every invariant of a passing run is thereby proved.  Only model-checked are the
liveness properties: liveness under fairness is outside the prover.

## Where the code and its documents disagree

Each is a run that must find a counterexample; `PROJECT.json` quotes the lines.

* `step_skipped`: a kill between `current_step = next` and the EXECUTING_STEP
  transition makes the recovery verify a step whose patch was never made.
* `claims`: a run claimed by `claim_pending` is PLANNING without a workspace;
  every drive of it raises.
* `pool_overwritten`: a restarting worker drives a run that another is driving,
  and `update_run` puts old statuses back.
* `plan_steps_lost`: two steps for one file lose one or break the insertion.

Met on the way and not given a run:

* A pub/sub message that was lost is skipped for good once a later one arrives
  (`api/server.py:147`; `events.py:18` says it "can always be recovered";
  `Reliable` in `EventStream` excludes it).
* Run records are purged 30 days after the row last changed, and the sweep's own
  removal of the workspace changes it (`retention.py:99`; its docstring says
  "after completion").
* A sweep may write FAILED over the ROLLED_BACK of a run resumed meanwhile, from
  its list.
* `git clean -fd` has no `-x` and `git reset` leaves ignored files alone, so an
  edit of a file that `.gitignore` names is still there after ROLLED_BACK
  (`git/repo_manager.py:95` says "Discard ALL edits since base_ref",
  `docs/ARCHITECTURE.md:90-91` "no partial edits survive";
  `RolledBackTreeIsClean` is about the files git sees).
* The sweep ignores the errors of `rmtree` (`retention.py:97`, 113, 132) and drops
  path or row regardless: a directory that cannot be removed is reported as
  removed and stays for ever, known to no row (`NothingLivesForever` excepts what
  cannot be removed).
* `?after=N` wins over `Last-Event-ID` (`api/server.py:187`): a browser that
  opened such an address sees the events after N again when it reconnects by
  itself (the clients of `EventStream` use one or the other).
* FAILED is persisted before the rollback and is not recovered
  (`state_machine.py:88` says it "always triggers a rollback";
  `FailureIsRolledBack` excludes the kill in between).
* A pod that was created and does not run in time is never deleted
  (`sandbox/k8s_runner.py:213`, whose docstring, line 5, says "the pod is
  deleted on teardown"; `BoxesAreAccounted` counts it as a mishap).
* Edits of another drive and `git reset` do not set the flag of a pod, although
  "checks always run against the latest edit" (`k8s_runner.py:28`), and what
  `tar` returns is not looked at (line 167); `ChecksSeeOwnEdits` excludes both.
* `auto` never tries Kubernetes (`sandbox/__init__.py:30`).
* A step whose row is COMPLETED can be verified again after a kill
  (`state_machine.py:208`).
* The Planner can be called again after a kill (`AttemptsAreCharged` bounds how
  often).
* The token budget is not looked at after planning nor after a failed patch
  (`state_machine.py:193`).
* Two threads that log at once can publish out of order, and the smaller id is
  dropped (`Reliable` in `EventStream` excludes it).
* Quiet slices from before the terminal status count for the grace of a stream's
  end (`api/server.py:155`).
* A file that depends on a cycle, without being on it, may come before its
  dependency (`dep_graph.py:117`; `DependenciesFirst` excludes it).
* With the pool up, a message lost because the API died is not noticed until a
  worker restarts (`pool_popped` has no kill of the API).

## Assumptions and what is left out

`RunMachine` has one driver at a time and git commands that succeed.  Models,
checks and costs are nondeterministic.  Events and error texts of a run are not
in `RunMachine`.  An INSERT into events assigns its id and is visible at once,
as with SQLite; PostgreSQL could show ids out of order.  Heartbeats, snapshots
and read-only endpoints are left out.

`Sandboxes` has no clocks, a rollback that succeeds, and checks of one command.

`Retention` has directories that can be removed by some later sweep or by none,
and one driver of a run at a time (with two, `pool_overwritten`, a
COMPLETED run whose workspace is gone can be put back to work); its rows keep
status, path and age, and a dry run is left out.

Not modelled yet: pull requests, what git does when a command fails, what an
edit does to text.  The LLM client, prompts, CLI and configuration are I/O, text
and values.

## Plan

In order: (1) `Workspace`, a rollback whose git command fails and the diff that
runs `git add` beside it; (2) `PullRequests`, two runs on one branch and two
requests at once; (3) `PatchApply`, an edit as a function on lines.  The first
composes with `RunMachine`'s statuses through `RunStates`; a passing run of each
takes the place of a lesser disagreement.
