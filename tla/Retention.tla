------------------------------ MODULE Retention ------------------------------
(***************************************************************************)
(* The retention sweep (src/retention.py) beside the drives whose runs it  *)
(* cleans up after.  A sweep reads all rows once and decides on that copy; *)
(* it may be overtaken by drives and by the sweeps of other processes: a   *)
(* worker's poll loop, the command cleanup, a CronJob.                     *)
(*                                                                         *)
(* Time is the age of each row since updated_at, and whether a directory   *)
(* is older than _ORPHAN_MIN_AGE_SEC.  Ages grow at any rate, but that no  *)
(* sweep lasts as long as the age of an orphan.  Directories are removed   *)
(* with ignore_errors: some fail to go once, some always, and the sweep    *)
(* goes on as if they were gone.  A run has one driver at a time           *)
(* (WorkerPool tells when), and PLANNING stands for every status between   *)
(* PENDING and a verdict.                                                  *)
(***************************************************************************)
EXTENDS Integers, RunStates

CONSTANTS
  Runs,
  Sweepers,   \* processes that call sweep()
  Elsewhere,  \* those of them on another node, which has no directories
  MaxAge,     \* bound: ages, and the two retention periods
  MaxMishaps, \* bound: kills of drives and of sweeps, and removals that fail once
  MaxWrites   \* bound: rows written after a verdict

ASSUME ConstantsAssumption ==
  /\ Runs # {} /\ Elsewhere \subseteq Sweepers
  /\ MaxAge \in Nat /\ MaxMishaps \in Nat /\ MaxWrites \in Nat

VARIABLES
  ttl,      \* workspace_ttl_hours
  keep,     \* run_retention_days
  row,      \* by run: its row, or only the last status if it was purged
  known,    \* runs with a row in table runs
  purged,   \* runs whose row was deleted
  dir,      \* by run: its directory under workspaces_root exists
  old,      \* by run: that directory has the age of an orphan
  stuck,    \* runs whose directory nobody here is able to remove
  driver,   \* by run: where its driver is
  mem,      \* by run: the row as its driver read it
  at,       \* by sweeper: what its sweep does
  listed,   \* by sweeper: the rows as list_runs returned them
  ids,      \* by sweeper: known_run_ids
  todo,     \* by sweeper: rows, then directories, it has not come to yet
  cur,      \* by sweeper: the run on hand
  used      \* history: mishaps, and rows written after a verdict

policy == << ttl, keep, stuck >>
sweepVars == << at, listed, ids, todo, cur >>
driveVars == << driver, mem >>
vars == << policy, row, known, purged, dir, old, driveVars, sweepVars, used >>

Status == { "PENDING", "PLANNING", "COMPLETED", "FAILED", "ROLLED_BACK" }
Ages == 0 .. MaxAge
Row == [status : Status, path : BOOLEAN, age : Ages]
NewRow == [status |-> "PENDING", path |-> FALSE, age |-> 0]
Live(r) == r \in known \cup purged /\ row[r].status \notin Terminal

Init ==
  /\ ttl \in Ages /\ keep \in Ages /\ stuck \in SUBSET Runs
  /\ row = [r \in Runs |-> NewRow] /\ known = {} /\ purged = {}
  /\ dir = [r \in Runs |-> FALSE] /\ old = [r \in Runs |-> FALSE]
  /\ driver = [r \in Runs |-> "none"] /\ mem = [r \in Runs |-> NewRow]
  /\ at = [s \in Sweepers |-> "idle"]
  /\ listed = [s \in Sweepers |-> [r \in Runs |-> NewRow]]
  /\ ids = [s \in Sweepers |-> {}] /\ todo = [s \in Sweepers |-> {}]
  /\ cur \in [Sweepers -> { CHOOSE r \in Runs : TRUE }]
  /\ used = [mishaps |-> 0, writes |-> 0]

-----------------------------------------------------------------------------
(* Time *)

(* Nobody asks for the age of a row without a verdict, and each update of  *)
(* it starts the age anew.                                                 *)
RowAges(r) ==
  /\ r \in known /\ row[r].status \in Terminal /\ row[r].age < MaxAge
  /\ row' = [row EXCEPT ![r].age = @ + 1]
  /\ UNCHANGED << policy, known, purged, dir, old, driveVars, sweepVars, used >>

(* No sweep that began before the run was created is still at work; that   *)
(* of a purged run may grow old during any.                                *)
DirAges(r) ==
  /\ dir[r] /\ ~old[r]
  /\ r \in purged \/ \A s \in Sweepers : at[s] = "idle" \/ r \in ids[s]
  /\ old' = [old EXCEPT ![r] = TRUE]
  /\ UNCHANGED << policy, row, known, purged, dir, driveVars, sweepVars, used >>

-----------------------------------------------------------------------------
(* The run *)

(* update_run: no row is inserted where there is none. *)
Update(r, out) ==
  row' = IF r \in known THEN [row EXCEPT ![r] = [out EXCEPT !.age = 0]] ELSE row

Create(r) ==
  /\ r \notin known \cup purged
  /\ known' = known \cup { r }
  /\ UNCHANGED << policy, row, purged, dir, old, driveVars, sweepVars, used >>

(* RepoManager.prepare: what a killed drive left is replaced; its rmtree   *)
(* raises where that cannot be removed.                                    *)
Prepare(r) ==
  /\ r \in known /\ driver[r] = "none" /\ row[r].status = "PENDING"
  /\ ~(dir[r] /\ r \in stuck)
  /\ dir' = [dir EXCEPT ![r] = TRUE] /\ old' = [old EXCEPT ![r] = FALSE]
  /\ driver' = [driver EXCEPT ![r] = "prepared"]
  /\ UNCHANGED << policy, row, known, purged, mem, sweepVars, used >>

(* The end of _prepare: workspace_path and the next status. *)
Ready(r) ==
  /\ driver[r] = "prepared"
  /\ Update(r, [row[r] EXCEPT !.status = "PLANNING", !.path = TRUE])
  /\ driver' = [driver EXCEPT ![r] = "none"]
  /\ UNCHANGED << policy, known, purged, dir, old, mem, sweepVars, used >>

Verdict(r) ==
  /\ r \in known /\ row[r].status = "PLANNING"
  /\ \E s \in { "COMPLETED", "FAILED" } : Update(r, [row[r] EXCEPT !.status = s])
  /\ UNCHANGED << policy, known, purged, dir, old, driveVars, sweepVars, used >>

(* The row is read after a verdict: to roll back, or, while there is a     *)
(* workspace, to open a pull request; at once or when somebody asks.       *)
Return(r) ==
  /\ r \in known /\ driver[r] = "none" /\ row[r].status \in { "FAILED", "COMPLETED" }
  /\ row[r].status = "COMPLETED" => row[r].path
  /\ used.writes < MaxWrites
  /\ used' = [used EXCEPT !.writes = @ + 1]
  /\ mem' = [mem EXCEPT ![r] = row[r]]
  /\ driver' = [driver EXCEPT ![r] = "writing"]
  /\ UNCHANGED << policy, row, known, purged, dir, old, sweepVars >>

(* The whole row is written from that copy, with ROLLED_BACK or a pr_url. *)
Write(r) ==
  /\ driver[r] = "writing"
  /\ Update(r, IF mem[r].status = "FAILED"
               THEN [mem[r] EXCEPT !.status = "ROLLED_BACK"] ELSE mem[r])
  /\ driver' = [driver EXCEPT ![r] = "none"] /\ mem' = [mem EXCEPT ![r] = NewRow]
  /\ UNCHANGED << policy, known, purged, dir, old, sweepVars, used >>

DriveKilled(r) ==
  /\ driver[r] # "none" /\ used.mishaps < MaxMishaps
  /\ used' = [used EXCEPT !.mishaps = @ + 1]
  /\ driver' = [driver EXCEPT ![r] = "none"] /\ mem' = [mem EXCEPT ![r] = NewRow]
  /\ UNCHANGED << policy, row, known, purged, dir, old, sweepVars >>

-----------------------------------------------------------------------------
(* The sweep *)

Goes(s, place) == at' = [at EXCEPT ![s] = place]

(* The sweep is over, or died; its lists go with it. *)
Rest(s) ==
  /\ Goes(s, "idle")
  /\ listed' = [listed EXCEPT ![s] = [r \in Runs |-> NewRow]]
  /\ ids' = [ids EXCEPT ![s] = {}] /\ todo' = [todo EXCEPT ![s] = {}]

(* What the sweep has in hand, as it was listed. *)
Held(s) == listed[s][cur[s]]

(* The directory of r, as the sweep's own node has it. *)
Sees(s, r) == dir[r] /\ s \notin Elsewhere

Start(s) ==
  /\ at[s] = "idle"
  /\ listed' = [listed EXCEPT ![s] = row] /\ ids' = [ids EXCEPT ![s] = known]
  /\ todo' = [todo EXCEPT ![s] = known]
  /\ Goes(s, "rows")
  /\ UNCHANGED << policy, row, known, purged, dir, old, driveVars, cur, used >>

(* The next row: one that is not terminal is passed over. *)
Take(s, r) ==
  /\ at[s] = "rows" /\ r \in todo[s]
  /\ cur' = [cur EXCEPT ![s] = r] /\ todo' = [todo EXCEPT ![s] = @ \ { r }]
  /\ Goes(s, IF listed[s][r].status \in Terminal THEN "row" ELSE "rows")
  /\ UNCHANGED << policy, row, known, purged, dir, old, driveVars, listed, ids, used >>

(* rmtree(ignore_errors): what does not go stays, and nobody is told.  To  *)
(* remove a part of it makes the directory young.                          *)
Rmtree(r) ==
  \/ /\ r \notin stuck
     /\ dir' = [dir EXCEPT ![r] = FALSE] /\ old' = [old EXCEPT ![r] = FALSE]
     /\ UNCHANGED used
  \/ /\ r \in stuck \/ used.mishaps < MaxMishaps
     /\ used' = IF r \in stuck THEN used ELSE [used EXCEPT !.mishaps = @ + 1]
     /\ \E young \in BOOLEAN : old' = [old EXCEPT ![r] = @ /\ ~young]
     /\ UNCHANGED dir

Expired(s) == Held(s).path /\ Sees(s, cur[s]) /\ Held(s).age >= ttl

(* The first rule: the workspace expires. *)
RemoveWorkspace(s) ==
  /\ at[s] = "row" /\ Expired(s)
  /\ Rmtree(cur[s])
  /\ Goes(s, "removed")
  /\ UNCHANGED << policy, row, known, purged, driveVars, listed, ids, todo, cur >>

(* The whole row is written from the list, without the path, whether the   *)
(* directory went or not.                                                  *)
ForgetPath(s) ==
  /\ at[s] = "removed"
  /\ listed' = [listed EXCEPT ![s][cur[s]].path = FALSE]
  /\ Update(cur[s], [Held(s) EXCEPT !.path = FALSE])
  /\ Goes(s, "logging")
  /\ UNCHANGED << policy, known, purged, dir, old, driveVars, ids, todo, cur, used >>

(* add_event: without the row its foreign key raises, and the sweep ends. *)
LogRemoval(s) ==
  /\ at[s] = "logging"
  /\ \/ cur[s] \in known /\ Goes(s, "record") /\ UNCHANGED << listed, ids, todo >>
     \/ cur[s] \notin known /\ Rest(s)
  /\ UNCHANGED << policy, row, known, purged, dir, old, driveVars, cur, used >>

KeepWorkspace(s) ==
  /\ at[s] = "row" /\ ~Expired(s)
  /\ Goes(s, "record")
  /\ UNCHANGED << policy, row, known, purged, dir, old, driveVars, listed, ids, todo, cur, used >>

(* The second rule: the record is purged, its workspace before it. *)
PurgeWorkspace(s) ==
  /\ at[s] = "record" /\ Held(s).age >= keep
  /\ IF Held(s).path /\ Sees(s, cur[s]) THEN Rmtree(cur[s]) ELSE UNCHANGED << dir, old, used >>
  /\ Goes(s, "purge")
  /\ UNCHANGED << policy, row, known, purged, driveVars, listed, ids, todo, cur >>

(* Deliberately wrong: a row without a workspace is kept. *)
DeleteWithPath(s) ==
  /\ at[s] = "purge"
  /\ IF Held(s).path THEN known' = known \ { cur[s] } /\ purged' = purged \cup ({ cur[s] } \cap known)
     ELSE UNCHANGED << known, purged >>
  /\ Goes(s, "rows")
  /\ UNCHANGED << policy, row, dir, old, driveVars, listed, ids, todo, cur, used >>

(* Deliberately wrong: what hangs on the run is deleted, its row stays. *)
DeleteChildren(s) ==
  /\ at[s] = "purge"
  /\ purged' = purged \cup { cur[s] }
  /\ Goes(s, "rows")
  /\ UNCHANGED << policy, row, known, dir, old, driveVars, listed, ids, todo, cur, used >>

(* The row, and what hangs on it by ON DELETE CASCADE; its directory may   *)
(* still be there.  Of the row the model keeps the status, as history.     *)
DeleteRun(s) ==
  /\ at[s] = "purge"
  /\ known' = known \ { cur[s] } /\ purged' = purged \cup { cur[s] }
  /\ row' = [row EXCEPT ![cur[s]] = [NewRow EXCEPT !.status = row[cur[s]].status]]
  /\ Goes(s, "rows")
  /\ UNCHANGED << policy, dir, old, driveVars, listed, ids, todo, cur, used >>

KeepRecord(s) ==
  /\ at[s] = "record" /\ ~(Held(s).age >= keep)
  /\ Goes(s, "rows")
  /\ UNCHANGED << policy, row, known, purged, dir, old, driveVars, listed, ids, todo, cur, used >>

(* Deliberately wrong: the age of a directory is not looked at. *)
OrphanOfAnyAge(s, r) == Sees(s, r) /\ r \notin ids[s]

(* The third rule: a directory that none of the listed runs has. *)
Orphan(s, r) == Sees(s, r) /\ r \notin ids[s] /\ old[r]

(* After the rows: the directories under workspaces_root, each seen once.  *)
(* The rows are not looked at any more.                                    *)
ListDirs(s) ==
  /\ at[s] = "rows" /\ todo[s] = {}
  /\ todo' = [todo EXCEPT ![s] = { r \in Runs : Sees(s, r) }]
  /\ listed' = [listed EXCEPT ![s] = [r \in Runs |-> NewRow]]
  /\ Goes(s, "dirs")
  /\ UNCHANGED << policy, row, known, purged, dir, old, driveVars, ids, cur, used >>

Visits(s, r) ==
  /\ at[s] = "dirs" /\ r \in todo[s]
  /\ todo' = [todo EXCEPT ![s] = @ \ { r }]
  /\ UNCHANGED << policy, row, known, purged, driveVars, at, listed, ids, cur >>

RemoveOrphan(s, r) == Visits(s, r) /\ Orphan(s, r) /\ Rmtree(r)

KeepDir(s, r) == Visits(s, r) /\ ~Orphan(s, r) /\ UNCHANGED << dir, old, used >>

End(s) ==
  /\ at[s] = "dirs" /\ todo[s] = {}
  /\ Rest(s)
  /\ UNCHANGED << policy, row, known, purged, dir, old, driveVars, cur, used >>

SweepKilled(s) ==
  /\ at[s] # "idle" /\ used.mishaps < MaxMishaps
  /\ used' = [used EXCEPT !.mishaps = @ + 1]
  /\ Rest(s)
  /\ UNCHANGED << policy, row, known, purged, dir, old, driveVars, cur >>

-----------------------------------------------------------------------------
Time(r) == RowAges(r) \/ DirAges(r)

Drive(r) == Prepare(r) \/ Ready(r) \/ Write(r)

Sweep(s) ==
  \/ Start(s) \/ (\E r \in Runs : Take(s, r) \/ RemoveOrphan(s, r) \/ KeepDir(s, r))
  \/ ListDirs(s) \/ End(s)
  \/ RemoveWorkspace(s) \/ ForgetPath(s) \/ LogRemoval(s) \/ KeepWorkspace(s)
  \/ PurgeWorkspace(s) \/ DeleteRun(s) \/ KeepRecord(s)

Next ==
  \/ \E r \in Runs :
       Time(r) \/ Create(r) \/ Drive(r) \/ Verdict(r) \/ Return(r) \/ DriveKilled(r)
  \/ \E s \in Sweepers : Sweep(s) \/ SweepKilled(s)

Spec == Init /\ [][Next]_vars

(* Time passes, drives that live go on, and sweeps come again and go on. *)
FairSpec ==
  /\ Spec
  /\ \A r \in Runs : WF_vars(RowAges(r)) /\ WF_vars(DirAges(r)) /\ WF_vars(Drive(r))
  /\ \A s \in Sweepers : WF_vars(Sweep(s))

-----------------------------------------------------------------------------
(* Properties *)

(* With a row on hand, and without. *)
AtRow == { "row", "removed", "logging", "record", "purge" }
SweepPlaces == { "idle", "rows", "dirs" } \cup AtRow

(* Every variable has its type, and no run is both known and purged. *)
TypeOK ==
  /\ ttl \in Ages /\ keep \in Ages
  /\ row \in [Runs -> Row] /\ known \subseteq Runs /\ purged \subseteq Runs \ known
  /\ dir \in [Runs -> BOOLEAN] /\ old \in [Runs -> BOOLEAN] /\ stuck \subseteq Runs
  /\ driver \in [Runs -> { "none", "prepared", "writing" }] /\ mem \in [Runs -> Row]
  /\ at \in [Sweepers -> SweepPlaces] /\ listed \in [Sweepers -> [Runs -> Row]]
  /\ ids \in [Sweepers -> SUBSET Runs] /\ todo \in [Sweepers -> SUBSET Runs]
  /\ cur \in [Sweepers -> Runs]
  /\ used \in [mishaps : 0 .. MaxMishaps, writes : 0 .. MaxWrites]

(* Whatever sweeps are at work, on lists however stale: a run without a    *)
(* verdict keeps its row, and its workspace from the moment it has one.    *)
LiveRunsStayResumable ==
  \A r \in Runs : Live(r) => r \in known /\ (row[r].path => dir[r])

(* Of a run with a verdict the row goes in the end, and the directory too  *)
(* unless nobody is able to remove it: a sweep may be killed between any   *)
(* two of its steps, and a removal that fails takes row and path with it   *)
(* but is tried again, by the rule for orphans.                            *)
NothingLivesForever ==
  \A r \in Runs :
    (r \in known /\ row[r].status \in Terminal)
      ~> (r \in purged /\ (dir[r] => r \in stuck))

=============================================================================
