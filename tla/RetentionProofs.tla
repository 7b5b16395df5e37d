--------------------------- MODULE RetentionProofs ---------------------------
(***************************************************************************)
(* Theorems about Retention: its types, and that no sweep, however stale   *)
(* its list, takes the row or the workspace of a run without a verdict.    *)
(***************************************************************************)
EXTENDS Retention, TLAPS

-----------------------------------------------------------------------------
(* Types *)

(* The run that a sweep has on hand at the beginning is a run. *)
LEMMA InitType == Init => TypeOK
  BY ConstantsAssumption DEF Init, TypeOK, Ages, Row, NewRow, Status, SweepPlaces

(* The default row has the type of a row. *)
LEMMA NewRowIsRow == NewRow \in Row
  BY ConstantsAssumption DEF NewRow, Row, Status, Ages

(* A row written by update_run keeps the type of the table. *)
LEMMA UpdateType ==
  ASSUME row \in [Runs -> Row], NEW r, NEW out \in Row, Update(r, out)
  PROVE  row' \in [Runs -> Row]
  <1>1. 0 \in Ages BY ConstantsAssumption DEF Ages
  <1>2. [out EXCEPT !.age = 0] \in Row BY <1>1 DEF Row
  <1> QED BY <1>2 DEF Update

(* A sweep that is over leaves lists of the right type. *)
LEMMA RestType ==
  ASSUME TypeOK, NEW s \in Sweepers, Rest(s)
  PROVE  /\ at' \in [Sweepers -> SweepPlaces]
         /\ listed' \in [Sweepers -> [Runs -> Row]]
         /\ ids' \in [Sweepers -> SUBSET Runs]
         /\ todo' \in [Sweepers -> SUBSET Runs]
  <1>1. [r \in Runs |-> NewRow] \in [Runs -> Row] BY NewRowIsRow
  <1>2. listed' \in [Sweepers -> [Runs -> Row]] BY <1>1 DEF TypeOK, Rest
  <1> QED BY <1>2 DEF TypeOK, Rest, Goes, SweepPlaces

(* rmtree takes the directory or leaves it, and touches no other; at most  *)
(* it makes it young.                                                      *)
LEMMA RmtreeEffect ==
  ASSUME TypeOK, NEW r \in Runs, Rmtree(r)
  PROVE  /\ dir' \in [Runs -> BOOLEAN] /\ old' \in [Runs -> BOOLEAN]
         /\ used' \in [mishaps : 0 .. MaxMishaps, writes : 0 .. MaxWrites]
         /\ \A q \in Runs : (q # r => dir'[q] = dir[q]) /\ (dir'[q] => dir[q]) /\ (old'[q] => old[q])
  <1>0. /\ dir \in [Runs -> BOOLEAN] /\ old \in [Runs -> BOOLEAN]
        /\ used \in [mishaps : 0 .. MaxMishaps, writes : 0 .. MaxWrites]
    BY DEF TypeOK
  <1>1. CASE /\ dir' = [dir EXCEPT ![r] = FALSE] /\ old' = [old EXCEPT ![r] = FALSE]
             /\ UNCHANGED used
    BY <1>0, <1>1
  <1>2. CASE /\ r \in stuck \/ used.mishaps < MaxMishaps
             /\ used' = IF r \in stuck THEN used ELSE [used EXCEPT !.mishaps = @ + 1]
             /\ \E young \in BOOLEAN : old' = [old EXCEPT ![r] = @ /\ ~young]
             /\ UNCHANGED dir
    <2>1. used' \in [mishaps : 0 .. MaxMishaps, writes : 0 .. MaxWrites]
      <3>1. CASE r \in stuck BY <1>0, <1>2, <3>1
      <3>2. CASE r \notin stuck BY <1>0, <1>2, <3>2, ConstantsAssumption
      <3> QED BY <3>1, <3>2
    <2>2. PICK young \in BOOLEAN : old' = [old EXCEPT ![r] = @ /\ ~young] BY <1>2
    <2>3. old' = [old EXCEPT ![r] = old[r] /\ ~young] BY <1>0, <2>2
    <2>4. old' \in [Runs -> BOOLEAN] /\ \A q \in Runs : old'[q] => old[q]
      <3>1. CASE young BY <1>0, <2>3, <3>1
      <3>2. CASE ~young BY <1>0, <2>3, <3>2
      <3> QED BY <3>1, <3>2
    <2> QED BY <1>0, <1>2, <2>1, <2>4
  <1> QED BY <1>1, <1>2 DEF Rmtree

(* The steps of the run keep the types. *)
LEMMA RunType ==
  ASSUME TypeOK, NEW r \in Runs,
         Time(r) \/ Create(r) \/ Drive(r) \/ Verdict(r) \/ Return(r) \/ DriveKilled(r)
  PROVE  TypeOK'
  <1>1. CASE RowAges(r)
    <2>1. row[r] \in Row BY DEF TypeOK
    <2>2. row[r].age + 1 \in Ages BY <1>1, <2>1, ConstantsAssumption DEF RowAges, Row, Ages
    <2>3. row' \in [Runs -> Row] BY <1>1, <2>1, <2>2 DEF RowAges, TypeOK, Row
    <2> QED BY <1>1, <2>3 DEF RowAges, TypeOK, policy, driveVars, sweepVars
  <1>2. CASE DirAges(r)
    BY <1>2 DEF DirAges, TypeOK, policy, driveVars, sweepVars
  <1>3. CASE Create(r)
    BY <1>3 DEF Create, TypeOK, policy, driveVars, sweepVars
  <1>4. CASE Prepare(r)
    BY <1>4 DEF Prepare, TypeOK, policy, driveVars, sweepVars
  <1>5. CASE Ready(r)
    <2>0. row[r] \in Row BY DEF TypeOK
    <2>1. [row[r] EXCEPT !.status = "PLANNING", !.path = TRUE] \in Row
      BY <2>0 DEF Row, Status
    <2>2. row' \in [Runs -> Row] BY <1>5, <2>1, UpdateType DEF Ready, TypeOK
    <2> QED BY <1>5, <2>2 DEF Ready, TypeOK, policy, sweepVars
  <1>6. CASE Verdict(r)
    <2>1. PICK st \in { "COMPLETED", "FAILED" } : Update(r, [row[r] EXCEPT !.status = st])
      BY <1>6 DEF Verdict
    <2>0. row[r] \in Row BY DEF TypeOK
    <2>2. [row[r] EXCEPT !.status = st] \in Row BY <2>0, <2>1 DEF Row, Status
    <2>3. row' \in [Runs -> Row] BY <2>1, <2>2, UpdateType DEF TypeOK
    <2> QED BY <1>6, <2>3 DEF Verdict, TypeOK, policy, driveVars, sweepVars
  <1>7. CASE Return(r)
    <2>1. used' \in [mishaps : 0 .. MaxMishaps, writes : 0 .. MaxWrites]
      BY <1>7, ConstantsAssumption DEF Return, TypeOK
    <2>2. mem' \in [Runs -> Row] BY <1>7 DEF Return, TypeOK
    <2> QED BY <1>7, <2>1, <2>2 DEF Return, TypeOK, policy, sweepVars
  <1>8. CASE Write(r)
    <2>1. mem[r] \in Row BY DEF TypeOK
    <2>2. [mem[r] EXCEPT !.status = "ROLLED_BACK"] \in Row BY <2>1 DEF Row, Status
    <2>3. row' \in [Runs -> Row] BY <1>8, <2>1, <2>2, UpdateType DEF Write, TypeOK
    <2>4. mem' \in [Runs -> Row] BY <1>8, NewRowIsRow DEF Write, TypeOK
    <2> QED BY <1>8, <2>3, <2>4 DEF Write, TypeOK, policy, sweepVars
  <1>9. CASE DriveKilled(r)
    <2>1. used' \in [mishaps : 0 .. MaxMishaps, writes : 0 .. MaxWrites]
      BY <1>9, ConstantsAssumption DEF DriveKilled, TypeOK
    <2>2. mem' \in [Runs -> Row] BY <1>9, NewRowIsRow DEF DriveKilled, TypeOK
    <2> QED BY <1>9, <2>1, <2>2 DEF DriveKilled, TypeOK, policy, sweepVars
  <1> QED BY <1>1, <1>2, <1>3, <1>4, <1>5, <1>6, <1>7, <1>8, <1>9 DEF Time, Drive

(* The steps of a sweep keep the types. *)
LEMMA SweepType ==
  ASSUME TypeOK, NEW s \in Sweepers, Sweep(s) \/ SweepKilled(s)
  PROVE  TypeOK'
  <1>0. cur[s] \in Runs /\ Held(s) \in Row BY DEF TypeOK, Held
  <1>1. CASE Start(s)
    BY <1>1 DEF Start, Goes, TypeOK, SweepPlaces, AtRow, policy, driveVars
  <1>2. ASSUME NEW r \in Runs, Take(s, r)
        PROVE  TypeOK'
    <2>1. at' \in [Sweepers -> SweepPlaces]
      BY <1>2 DEF Take, Goes, TypeOK, SweepPlaces, AtRow
    <2> QED BY <1>2, <2>1 DEF Take, TypeOK, policy, driveVars
  <1>3. ASSUME NEW r \in Runs, RemoveOrphan(s, r)
        PROVE  TypeOK'
    <2>1. Rmtree(r) /\ Visits(s, r) BY <1>3 DEF RemoveOrphan
    <2> QED BY <2>1, RmtreeEffect DEF Visits, TypeOK, policy, driveVars
  <1>13. ASSUME NEW r \in Runs, KeepDir(s, r)
         PROVE  TypeOK'
    BY <1>13 DEF KeepDir, Visits, TypeOK, policy, driveVars
  <1>14. CASE ListDirs(s)
    <2>1. [r \in Runs |-> NewRow] \in [Runs -> Row] BY NewRowIsRow
    <2>2. listed' \in [Sweepers -> [Runs -> Row]] BY <1>14, <2>1 DEF ListDirs, TypeOK
    <2>3. todo' \in [Sweepers -> SUBSET Runs] BY <1>14 DEF ListDirs, TypeOK
    <2> QED BY <1>14, <2>2, <2>3 DEF ListDirs, Goes, TypeOK, SweepPlaces, AtRow, policy, driveVars
  <1>4. CASE End(s)
    <2>1. Rest(s) BY <1>4 DEF End
    <2> QED BY <1>4, <2>1, RestType DEF End, TypeOK, policy, driveVars
  <1>5. CASE RemoveWorkspace(s)
    BY <1>0, <1>5, RmtreeEffect DEF RemoveWorkspace, Goes, TypeOK, SweepPlaces, AtRow, policy, driveVars
  <1>6. CASE ForgetPath(s)
    <2>1. [Held(s) EXCEPT !.path = FALSE] \in Row BY <1>0 DEF Row
    <2>2. row' \in [Runs -> Row] BY <1>0, <1>6, <2>1, UpdateType DEF ForgetPath, TypeOK
    <2>3. [listed[s][cur[s]] EXCEPT !.path = FALSE] \in Row
      BY <1>0 DEF Held, Row
    <2>4. [listed[s] EXCEPT ![cur[s]].path = FALSE] \in [Runs -> Row]
      BY <1>0, <2>3 DEF TypeOK
    <2>5. listed' \in [Sweepers -> [Runs -> Row]]
      BY <1>6, <2>4 DEF ForgetPath, TypeOK
    <2> QED BY <1>6, <2>2, <2>5 DEF ForgetPath, Goes, TypeOK, SweepPlaces, AtRow, policy, driveVars
  <1>7. CASE LogRemoval(s)
    <2>1. CASE Rest(s)
      BY <1>7, <2>1, RestType DEF LogRemoval, TypeOK, policy, driveVars
    <2>2. CASE Goes(s, "record") /\ UNCHANGED << listed, ids, todo >>
      BY <1>7, <2>2 DEF LogRemoval, Goes, TypeOK, SweepPlaces, AtRow, policy, driveVars
    <2> QED BY <1>7, <2>1, <2>2 DEF LogRemoval
  <1>8. CASE KeepWorkspace(s)
    BY <1>8 DEF KeepWorkspace, Goes, TypeOK, SweepPlaces, AtRow, policy, driveVars
  <1>9. CASE PurgeWorkspace(s)
    <2>1. /\ dir' \in [Runs -> BOOLEAN] /\ old' \in [Runs -> BOOLEAN]
          /\ used' \in [mishaps : 0 .. MaxMishaps, writes : 0 .. MaxWrites]
      <3>1. Rmtree(cur[s]) \/ UNCHANGED << dir, old, used >> BY <1>9 DEF PurgeWorkspace
      <3>2. CASE Rmtree(cur[s]) BY <1>0, <3>2, RmtreeEffect
      <3>3. CASE UNCHANGED << dir, old, used >> BY <3>3 DEF TypeOK
      <3> QED BY <3>1, <3>2, <3>3
    <2> QED BY <1>9, <2>1 DEF PurgeWorkspace, Goes, TypeOK, SweepPlaces, AtRow, policy, driveVars
  <1>10. CASE DeleteRun(s)
    <2>1. row[cur[s]] \in Row BY <1>0 DEF TypeOK
    <2>2. [NewRow EXCEPT !.status = row[cur[s]].status] \in Row
      BY <2>1, NewRowIsRow DEF Row
    <2>3. row' \in [Runs -> Row] BY <1>10, <2>2 DEF DeleteRun, TypeOK
    <2> QED BY <1>0, <1>10, <2>3 DEF DeleteRun, Goes, TypeOK, SweepPlaces, AtRow, policy, driveVars
  <1>11. CASE KeepRecord(s)
    BY <1>11 DEF KeepRecord, Goes, TypeOK, SweepPlaces, AtRow, policy, driveVars
  <1>12. CASE SweepKilled(s)
    <2>1. Rest(s) BY <1>12 DEF SweepKilled
    <2>2. used' \in [mishaps : 0 .. MaxMishaps, writes : 0 .. MaxWrites]
      BY <1>12, ConstantsAssumption DEF SweepKilled, TypeOK
    <2> QED BY <1>12, <2>1, <2>2, RestType DEF SweepKilled, TypeOK, policy, driveVars
  <1> QED
    BY <1>1, <1>2, <1>3, <1>4, <1>5, <1>6, <1>7, <1>8, <1>9, <1>10, <1>11, <1>12, <1>13, <1>14 DEF Sweep

(* Every variable keeps its type, for any number of runs and of sweeps at  *)
(* once; in particular no run is known and purged at the same time.        *)
THEOREM TypeCorrect == Spec => []TypeOK
  <1>1. TypeOK /\ [Next]_vars => TypeOK'
    <2> SUFFICES ASSUME TypeOK, [Next]_vars PROVE TypeOK' OBVIOUS
    <2>1. CASE UNCHANGED vars
      BY <2>1 DEF vars, TypeOK, policy, driveVars, sweepVars
    <2>2. CASE Next
      BY <2>2, RunType, SweepType DEF Next
    <2> QED BY <2>1, <2>2
  <1> QED BY <1>1, InitType, PTL DEF Spec

-----------------------------------------------------------------------------
(* A run without a verdict keeps its row and its workspace *)

(* A verdict is final, in the row and in every copy of it: what a sweep    *)
(* listed or has on hand as terminal is terminal, however old its list is. *)
VerdictInv ==
  /\ \A r \in purged : row[r].status \in Terminal
  /\ \A s \in Sweepers, r \in Runs : listed[s][r].status \in Terminal => row[r].status \in Terminal
  /\ \A s \in Sweepers : at[s] \in AtRow => listed[s][cur[s]].status \in Terminal
  /\ \A r \in Runs : driver[r] = "writing" => mem[r].status \in Terminal

(* What a drive prepared is there when it says so in the row. *)
PrepareInv ==
  \A r \in Runs : driver[r] = "prepared" =>
    r \in known /\ row[r].status = "PENDING" /\ dir[r]

(* A directory belongs to a run that was created, and one with the age of  *)
(* an orphan to a run that every sweep at work listed, or to a purged one. *)
OldInv ==
  \A r \in Runs :
    /\ dir[r] \/ old[r] => r \in known \cup purged
    /\ old[r] => \A s \in Sweepers : at[s] = "idle" \/ r \in ids[s] \/ r \in purged

(* A run that was not created has no workspace to name. *)
NewInv == \A r \in Runs : r \notin known \cup purged => ~row[r].path

IInv == TypeOK /\ VerdictInv /\ PrepareInv /\ OldInv /\ NewInv /\ LiveRunsStayResumable

(* What update_run does to the rows, in the parts the invariant looks at. *)
LEMMA UpdateRow ==
  ASSUME row \in [Runs -> Row], NEW r \in Runs, NEW out \in Row, Update(r, out)
  PROVE  /\ \A q \in Runs : q # r \/ r \notin known => row'[q] = row[q]
         /\ r \in known => row'[r].status = out.status /\ row'[r].path = out.path
  <1>1. CASE r \notin known BY <1>1 DEF Update
  <1>2. CASE r \in known
    <2>1. row' = [row EXCEPT ![r] = [out EXCEPT !.age = 0]] BY <1>2 DEF Update
    <2> QED BY <1>2, <2>1 DEF Row
  <1> QED BY <1>1, <1>2

(* Time and the steps of a run keep a verdict. *)
LEMMA RunKeepsVerdicts ==
  ASSUME IInv, NEW r \in Runs,
         Time(r) \/ Create(r) \/ Drive(r) \/ Verdict(r) \/ Return(r) \/ DriveKilled(r),
         NEW q \in Runs, row[q].status \in Terminal
  PROVE  row'[q].status \in Terminal
  <1>0. row \in [Runs -> Row] /\ mem \in [Runs -> Row] BY DEF IInv, TypeOK
  <1>1. CASE RowAges(r)
    <2>1. row' = [row EXCEPT ![r].age = @ + 1] BY <1>1 DEF RowAges
    <2> QED BY <1>0, <2>1 DEF Row
  <1>2. CASE Ready(r)
    <2>1. row[r].status = "PENDING" BY <1>2 DEF Ready, IInv, PrepareInv
    <2>2. q # r BY <2>1 DEF Terminal
    <2>3. [row[r] EXCEPT !.status = "PLANNING", !.path = TRUE] \in Row
      BY <1>0 DEF Row, Status
    <2> QED BY <1>0, <1>2, <2>2, <2>3, UpdateRow DEF Ready
  <1>3. CASE Verdict(r)
    <2>1. PICK st \in { "COMPLETED", "FAILED" } : Update(r, [row[r] EXCEPT !.status = st])
      BY <1>3 DEF Verdict
    <2>2. q # r BY <1>3 DEF Verdict, Terminal
    <2>3. [row[r] EXCEPT !.status = st] \in Row BY <1>0, <2>1 DEF Row, Status
    <2> QED BY <1>0, <2>1, <2>2, <2>3, UpdateRow
  <1>4. CASE Write(r)
    <2> DEFINE out == IF mem[r].status = "FAILED"
                      THEN [mem[r] EXCEPT !.status = "ROLLED_BACK"] ELSE mem[r]
    <2>1. mem[r] \in Row /\ mem[r].status \in Terminal
      BY <1>0, <1>4 DEF Write, IInv, VerdictInv
    <2>2. out \in Row /\ out.status \in Terminal
      BY <2>1 DEF Row, Status, Terminal
    <2>3. Update(r, out) BY <1>4 DEF Write
    <2> HIDE DEF out
    <2> QED BY <1>0, <2>2, <2>3, UpdateRow
  <1>5. CASE DirAges(r) \/ Create(r) \/ Prepare(r) \/ Return(r) \/ DriveKilled(r)
    BY <1>5 DEF DirAges, Create, Prepare, Return, DriveKilled
  <1> QED BY <1>1, <1>2, <1>3, <1>4, <1>5 DEF Time, Drive

(* A sweep writes no row but that of a run it listed with a verdict. *)
LEMMA SweepRows ==
  ASSUME IInv, NEW s \in Sweepers, Sweep(s) \/ SweepKilled(s), NEW q \in Runs
  PROVE  \/ row'[q] = row[q]
         \/ row[q].status \in Terminal /\ row'[q].status \in Terminal
  <1>0. row \in [Runs -> Row] /\ cur[s] \in Runs /\ Held(s) \in Row
    BY DEF IInv, TypeOK, Held
  <1>1. CASE ForgetPath(s)
    <2>1. Held(s).status \in Terminal BY <1>1 DEF ForgetPath, AtRow, IInv, VerdictInv, Held
    <2>2. row[cur[s]].status \in Terminal
      BY <1>0, <2>1 DEF IInv, VerdictInv, Held
    <2>3. [Held(s) EXCEPT !.path = FALSE] \in Row BY <1>0 DEF Row
    <2>4. [Held(s) EXCEPT !.path = FALSE].status = Held(s).status BY <1>0 DEF Row
    <2>5. Update(cur[s], [Held(s) EXCEPT !.path = FALSE]) BY <1>1 DEF ForgetPath
    <2> QED BY <1>0, <2>1, <2>2, <2>3, <2>4, <2>5, UpdateRow
  <1>2. CASE DeleteRun(s)
    <2>1. row[cur[s]].status \in Terminal
      BY <1>0, <1>2 DEF DeleteRun, AtRow, IInv, VerdictInv
    <2>2. [NewRow EXCEPT !.status = row[cur[s]].status].status = row[cur[s]].status
      BY DEF NewRow
    <2>3. row'[q] = row[q] \/ (q = cur[s] /\ row'[q].status = row[q].status)
      BY <1>0, <1>2, <2>2 DEF DeleteRun
    <2> QED BY <2>1, <2>3
  <1>3. CASE ~ForgetPath(s) /\ ~DeleteRun(s)
    BY <1>3 DEF Sweep, SweepKilled, Start, Take, RemoveOrphan, Visits, KeepDir, ListDirs, End,
          RemoveWorkspace,
      LogRemoval, KeepWorkspace, PurgeWorkspace, KeepRecord
  <1> QED BY <1>1, <1>2, <1>3

(* The invariant is kept by time and by the run. *)
LEMMA RunVerdictInv ==
  ASSUME IInv, NEW r \in Runs,
         Time(r) \/ Create(r) \/ Drive(r) \/ Verdict(r) \/ Return(r) \/ DriveKilled(r)
  PROVE  VerdictInv'
  <1>1. purged' = purged /\ listed' = listed /\ at' = at /\ cur' = cur
    BY DEF Time, Drive, RowAges, DirAges, Create, Prepare, Ready, Verdict, Return, Write, DriveKilled, sweepVars
  <1>2. purged \subseteq Runs BY DEF IInv, TypeOK
  <1>3. \A q \in Runs : row[q].status \in Terminal => row'[q].status \in Terminal
    BY RunKeepsVerdicts
  <1>4. ASSUME NEW q \in Runs, driver'[q] = "writing" PROVE mem'[q].status \in Terminal
    <2>1. driver \in [Runs -> { "none", "prepared", "writing" }] /\ mem \in [Runs -> Row]
      BY DEF IInv, TypeOK
    <2>2. CASE Return(r)
      BY <1>4, <2>1, <2>2 DEF Return, Terminal, IInv, VerdictInv
    <2>3. CASE ~Return(r)
      <3>1. driver[q] = "writing" /\ mem'[q] = mem[q]
        BY <1>4, <2>1, <2>3 DEF Time, Drive, RowAges, DirAges, Create, Prepare, Ready, Verdict, Return, Write, DriveKilled, driveVars
      <3> QED BY <3>1 DEF IInv, VerdictInv
    <2> QED BY <2>2, <2>3
  <1> QED BY <1>1, <1>2, <1>3, <1>4 DEF IInv, VerdictInv

(* What a drive prepared stays until the drive goes on. *)
LEMMA RunPrepareInv ==
  ASSUME IInv, NEW r \in Runs,
         Time(r) \/ Create(r) \/ Drive(r) \/ Verdict(r) \/ Return(r) \/ DriveKilled(r)
  PROVE  PrepareInv'
  <1> SUFFICES ASSUME NEW q \in Runs, driver'[q] = "prepared"
               PROVE  q \in known' /\ row'[q].status = "PENDING" /\ dir'[q]
    BY DEF PrepareInv
  <1>0. /\ driver \in [Runs -> { "none", "prepared", "writing" }] /\ row \in [Runs -> Row]
        /\ dir \in [Runs -> BOOLEAN] /\ mem \in [Runs -> Row]
    BY DEF IInv, TypeOK
  <1>1. CASE Prepare(r)
    BY <1>0, <1>1 DEF Prepare, IInv, PrepareInv
  <1>2. CASE ~Prepare(r)
    <2>1. driver[q] = "prepared"
      BY <1>0, <1>2 DEF Time, Drive, RowAges, DirAges, Create, Prepare, Ready, Verdict, Return, Write, DriveKilled, driveVars
    <2>2. q \in known /\ row[q].status = "PENDING" /\ dir[q]
      BY <2>1 DEF IInv, PrepareInv
    <2>3. q \in known' /\ dir'[q]
      BY <1>0, <1>2, <2>2 DEF Time, Drive, RowAges, DirAges, Create, Prepare, Ready, Verdict, Return, Write, DriveKilled
    <2>4. row'[q].status = "PENDING"
      <3>1. CASE RowAges(r)
        <4>1. row' = [row EXCEPT ![r].age = @ + 1] BY <3>1 DEF RowAges
        <4> QED BY <1>0, <2>2, <4>1 DEF Row
      <3>2. CASE Ready(r)
        <4>1. q # r BY <1>0, <3>2 DEF Ready
        <4>2. [row[r] EXCEPT !.status = "PLANNING", !.path = TRUE] \in Row
          BY <1>0 DEF Row, Status
        <4> QED BY <1>0, <2>2, <3>2, <4>1, <4>2, UpdateRow DEF Ready
      <3>3. CASE Verdict(r)
        <4>1. PICK st \in { "COMPLETED", "FAILED" } : Update(r, [row[r] EXCEPT !.status = st])
          BY <3>3 DEF Verdict
        <4>2. q # r BY <2>2, <3>3 DEF Verdict
        <4>3. [row[r] EXCEPT !.status = st] \in Row BY <1>0, <4>1 DEF Row, Status
        <4> QED BY <1>0, <2>2, <4>1, <4>2, <4>3, UpdateRow
      <3>4. CASE Write(r)
        <4>1. q # r BY <1>0, <3>4 DEF Write
        <4> QED BY <1>0, <2>2, <3>4, <4>1 DEF Write, Update
      <3>5. CASE DirAges(r) \/ Create(r) \/ Return(r) \/ DriveKilled(r)
        BY <2>2, <3>5 DEF DirAges, Create, Return, DriveKilled
      <3> QED BY <1>2, <3>1, <3>2, <3>3, <3>4, <3>5 DEF Time, Drive
    <2> QED BY <2>3, <2>4
  <1> QED BY <1>1, <1>2

(* No directory grows old unseen by a sweep that is at work. *)
LEMMA RunOldInv ==
  ASSUME IInv, NEW r \in Runs,
         Time(r) \/ Create(r) \/ Drive(r) \/ Verdict(r) \/ Return(r) \/ DriveKilled(r)
  PROVE  OldInv'
  <1>0. old \in [Runs -> BOOLEAN] /\ dir \in [Runs -> BOOLEAN] BY DEF IInv, TypeOK
  <1>1. purged' = purged /\ at' = at /\ ids' = ids /\ known \subseteq known'
    BY DEF Time, Drive, RowAges, DirAges, Create, Prepare, Ready, Verdict, Return, Write, DriveKilled, sweepVars
  <1>2. CASE DirAges(r)
    <2>1. dir[r] /\ dir' = dir BY <1>2 DEF DirAges
    <2> QED BY <1>0, <1>1, <1>2, <2>1 DEF DirAges, IInv, OldInv
  <1>3. CASE Prepare(r)
    <2>1. r \in known BY <1>3 DEF Prepare
    <2> QED BY <1>0, <1>1, <1>3, <2>1 DEF Prepare, IInv, OldInv
  <1>4. CASE ~DirAges(r) /\ ~Prepare(r)
    <2>1. old' = old /\ dir' = dir
      BY <1>4 DEF Time, Drive, RowAges, Create, Ready, Verdict, Return, Write, DriveKilled
    <2> QED BY <1>1, <2>1 DEF IInv, OldInv
  <1> QED BY <1>2, <1>3, <1>4

(* What a step of a run does to the path in a row. *)
LEMMA RunPaths ==
  ASSUME IInv, NEW r \in Runs,
         Time(r) \/ Create(r) \/ Drive(r) \/ Verdict(r) \/ Return(r) \/ DriveKilled(r),
         NEW q \in Runs
  PROVE  row'[q].path => row[q].path \/ (q \in known /\ dir[q]) \/ (q \in known /\ row'[q].status \in Terminal)
  <1>0. row \in [Runs -> Row] /\ mem \in [Runs -> Row] BY DEF IInv, TypeOK
  <1>1. CASE RowAges(r)
    <2>1. row' = [row EXCEPT ![r].age = @ + 1] BY <1>1 DEF RowAges
    <2> QED BY <1>0, <2>1 DEF Row
  <1>2. CASE Ready(r)
    <2>1. r \in known /\ dir[r] BY <1>2 DEF Ready, IInv, PrepareInv
    <2>2. [row[r] EXCEPT !.status = "PLANNING", !.path = TRUE] \in Row
      BY <1>0 DEF Row, Status
    <2> QED BY <1>0, <1>2, <2>1, <2>2, UpdateRow DEF Ready
  <1>3. CASE Verdict(r)
    <2>1. PICK st \in { "COMPLETED", "FAILED" } : Update(r, [row[r] EXCEPT !.status = st])
      BY <1>3 DEF Verdict
    <2>2. [row[r] EXCEPT !.status = st] \in Row BY <1>0, <2>1 DEF Row, Status
    <2>3. [row[r] EXCEPT !.status = st].path = row[r].path BY <1>0 DEF Row
    <2>4. r \in known BY <1>3 DEF Verdict
    <2> QED BY <1>0, <2>1, <2>2, <2>3, <2>4, UpdateRow
  <1>4. CASE Write(r)
    <2> DEFINE out == IF mem[r].status = "FAILED"
                      THEN [mem[r] EXCEPT !.status = "ROLLED_BACK"] ELSE mem[r]
    <2>1. mem[r] \in Row /\ mem[r].status \in Terminal
      BY <1>0, <1>4 DEF Write, IInv, VerdictInv
    <2>2. out \in Row /\ out.status \in Terminal
      BY <2>1 DEF Row, Status, Terminal
    <2>3. Update(r, out) BY <1>4 DEF Write
    <2> HIDE DEF out
    <2> QED BY <1>0, <2>2, <2>3, UpdateRow
  <1>5. CASE DirAges(r) \/ Create(r) \/ Prepare(r) \/ Return(r) \/ DriveKilled(r)
    BY <1>5 DEF DirAges, Create, Prepare, Return, DriveKilled
  <1> QED BY <1>1, <1>2, <1>3, <1>4, <1>5 DEF Time, Drive

(* Time and the run keep the workspace of a run without a verdict. *)
LEMMA RunLiveInv ==
  ASSUME IInv, NEW r \in Runs,
         Time(r) \/ Create(r) \/ Drive(r) \/ Verdict(r) \/ Return(r) \/ DriveKilled(r)
  PROVE  NewInv' /\ LiveRunsStayResumable'
  <1>0. dir \in [Runs -> BOOLEAN] BY DEF IInv, TypeOK
  <1>1. purged' = purged /\ known \subseteq known'
    BY DEF Time, Drive, RowAges, DirAges, Create, Prepare, Ready, Verdict, Return, Write, DriveKilled
  <1>2. \A q \in Runs : dir[q] => dir'[q]
    BY <1>0 DEF Time, Drive, RowAges, DirAges, Create, Prepare, Ready, Verdict, Return, Write, DriveKilled
  <1>3. ASSUME NEW q \in Runs, q \notin known' \cup purged', row'[q].path
        PROVE  FALSE
    <2>1. row[q].path BY <1>1, <1>3, RunPaths
    <2> QED BY <1>1, <1>3, <2>1 DEF IInv, NewInv
  <1>4. ASSUME NEW q \in Runs, q \in known' \cup purged', row'[q].status \notin Terminal
        PROVE  q \in known' /\ (row'[q].path => dir'[q])
    <2>1. row[q].status \notin Terminal BY <1>4, RunKeepsVerdicts
    <2>2. CASE q \in known \cup purged
      <3>1. q \in known /\ (row[q].path => dir[q])
        BY <2>1, <2>2 DEF IInv, LiveRunsStayResumable, Live
      <3> QED BY <1>1, <1>2, <1>4, <3>1, RunPaths
    <2>3. CASE q \notin known \cup purged
      <3>1. q \in known' BY <1>1, <1>4, <2>3
      <3>2. ~row[q].path BY <2>3 DEF IInv, NewInv
      <3> QED BY <2>3, <3>1, <3>2, RunPaths
    <2> QED BY <2>2, <2>3
  <1> QED BY <1>3, <1>4 DEF NewInv, LiveRunsStayResumable, Live

(* The invariant is kept by a sweep.  What it has on hand has a verdict. *)
LEMMA HeldHasVerdict ==
  ASSUME IInv, NEW s \in Sweepers, at[s] \in AtRow
  PROVE  cur[s] \in Runs /\ row[cur[s]].status \in Terminal
  <1>1. cur[s] \in Runs BY DEF IInv, TypeOK
  <1> QED BY <1>1 DEF IInv, VerdictInv

(* A sweep leaves verdicts as they are, in the rows and in all lists. *)
LEMMA SweepVerdictInv ==
  ASSUME IInv, NEW s \in Sweepers, Sweep(s) \/ SweepKilled(s)
  PROVE  VerdictInv'
  <1>0. /\ row \in [Runs -> Row] /\ at \in [Sweepers -> SweepPlaces]
        /\ listed \in [Sweepers -> [Runs -> Row]] /\ cur \in [Sweepers -> Runs]
        /\ purged \subseteq Runs
    BY DEF IInv, TypeOK
  <1>1. \A q \in Runs : row[q].status \in Terminal => row'[q].status \in Terminal
    BY SweepRows
  <1>2. ASSUME NEW q \in purged' PROVE row'[q].status \in Terminal
    <2>1. CASE DeleteRun(s)
      <3>1. cur[s] \in Runs /\ row[cur[s]].status \in Terminal
        BY <2>1, HeldHasVerdict DEF DeleteRun, AtRow
      <3> QED BY <1>0, <1>1, <1>2, <2>1, <3>1 DEF DeleteRun, IInv, VerdictInv
    <2>2. CASE ~DeleteRun(s)
      <3>1. purged' = purged
        BY <2>2 DEF Sweep, SweepKilled, Start, Take, RemoveOrphan, Visits, KeepDir, ListDirs, End,
          RemoveWorkspace,
          ForgetPath, LogRemoval, KeepWorkspace, PurgeWorkspace, KeepRecord
      <3> QED BY <1>0, <1>1, <1>2, <3>1 DEF IInv, VerdictInv
    <2> QED BY <2>1, <2>2
  <1>3. ASSUME NEW t \in Sweepers, NEW q \in Runs, listed'[t][q].status \in Terminal
        PROVE  row'[q].status \in Terminal
    <2>1. CASE Start(s)
      <3>1. listed'[t][q].status \in Terminal => row[q].status \in Terminal
        BY <1>0, <2>1 DEF Start, IInv, VerdictInv
      <3> QED BY <1>1, <1>3, <3>1
    <2>2. CASE Rest(s) \/ ListDirs(s)
      <3>1. listed'[t][q] = NewRow \/ listed'[t][q] = listed[t][q]
        BY <1>0, <2>2 DEF Rest, ListDirs
      <3>2. NewRow.status \notin Terminal BY DEF NewRow, Terminal
      <3> QED BY <1>1, <1>3, <3>1, <3>2 DEF IInv, VerdictInv
    <2>3. CASE ForgetPath(s)
      <3>1. listed' = [listed EXCEPT ![s] = [listed[s] EXCEPT ![cur[s]].path = FALSE]]
        BY <2>3 DEF ForgetPath
      <3>2. listed[s] \in [Runs -> Row] /\ listed[t] \in [Runs -> Row] BY <1>0
      <3>3. [listed[s] EXCEPT ![cur[s]].path = FALSE][q].status = listed[s][q].status
        BY <3>2 DEF Row
      <3>4. listed'[t][q].status = listed[t][q].status
        BY <1>0, <3>1, <3>3
      <3> QED BY <1>1, <1>3, <3>4 DEF IInv, VerdictInv
    <2>4. CASE ~Start(s) /\ ~Rest(s) /\ ~ListDirs(s) /\ ~ForgetPath(s)
      <3>1. listed' = listed
        BY <2>4 DEF Sweep, SweepKilled, Take, RemoveOrphan, Visits, KeepDir, End, RemoveWorkspace,
          LogRemoval, KeepWorkspace, PurgeWorkspace, DeleteRun, KeepRecord, sweepVars
      <3> QED BY <1>1, <1>3, <3>1 DEF IInv, VerdictInv
    <2> QED BY <2>1, <2>2, <2>3, <2>4
  <1>4. ASSUME NEW t \in Sweepers, at'[t] \in AtRow
        PROVE  listed'[t][cur'[t]].status \in Terminal
    <2>1. CASE t # s
      <3>1. at'[t] = at[t] /\ listed'[t] = listed[t] /\ cur'[t] = cur[t]
        BY <1>0, <2>1 DEF Sweep, SweepKilled, Start, Take, RemoveOrphan, Visits, KeepDir, ListDirs, End,
          RemoveWorkspace,
          ForgetPath, LogRemoval, KeepWorkspace, PurgeWorkspace, DeleteRun, KeepRecord, Rest, Goes,
          sweepVars
      <3> QED BY <1>4, <3>1 DEF IInv, VerdictInv
    <2>2. CASE t = s
      <3>1. ASSUME NEW r \in Runs, Take(s, r)
            PROVE  listed'[s][cur'[s]].status \in Terminal
        BY <1>0, <1>4, <2>2, <3>1 DEF Take, Goes, AtRow
      <3>2. CASE Start(s) \/ Rest(s) \/ ListDirs(s)
        BY <1>0, <1>4, <2>2, <3>2 DEF Start, Rest, ListDirs, Goes, AtRow
      <3>3. CASE ForgetPath(s)
        <4>1. listed[s][cur[s]].status \in Terminal
          BY <3>3 DEF ForgetPath, AtRow, IInv, VerdictInv
        <4>2. listed' = [listed EXCEPT ![s] = [listed[s] EXCEPT ![cur[s]].path = FALSE]] /\ cur' = cur
          BY <3>3 DEF ForgetPath
        <4>3. listed[s] \in [Runs -> Row] /\ cur[s] \in Runs BY <1>0
        <4>4. [listed[s] EXCEPT ![cur[s]].path = FALSE][cur[s]].status = listed[s][cur[s]].status
          BY <4>3 DEF Row
        <4>5. listed'[s] = [listed[s] EXCEPT ![cur[s]].path = FALSE] BY <1>0, <4>2
        <4> QED BY <2>2, <4>1, <4>2, <4>4, <4>5
      <3>4. CASE \E r \in Runs : RemoveOrphan(s, r) \/ KeepDir(s, r)
        BY <1>4, <2>2, <3>4 DEF RemoveOrphan, KeepDir, Visits, AtRow
      <3>5. CASE \/ RemoveWorkspace(s) \/ (LogRemoval(s) /\ ~Rest(s)) \/ KeepWorkspace(s)
                 \/ PurgeWorkspace(s) \/ DeleteRun(s) \/ KeepRecord(s)
        <4>1. at[s] \in AtRow /\ listed' = listed /\ cur' = cur
          BY <3>5 DEF AtRow, RemoveWorkspace, LogRemoval, KeepWorkspace, PurgeWorkspace, DeleteRun, KeepRecord
        <4> QED BY <2>2, <4>1 DEF IInv, VerdictInv
      <3> QED BY <2>2, <3>1, <3>2, <3>3, <3>4, <3>5 DEF Sweep, SweepKilled, End
    <2> QED BY <2>1, <2>2
  <1>5. driver' = driver /\ mem' = mem
    BY DEF Sweep, SweepKilled, Start, Take, RemoveOrphan, Visits, KeepDir, ListDirs, End,
          RemoveWorkspace,
      ForgetPath, LogRemoval, KeepWorkspace, PurgeWorkspace, DeleteRun, KeepRecord, driveVars
  <1> QED BY <1>2, <1>3, <1>4, <1>5 DEF IInv, VerdictInv

(* A sweep removes no directory but that of a run with a verdict, or of a  *)
(* run that was purged.                                                    *)
LEMMA SweepDirs ==
  ASSUME IInv, NEW s \in Sweepers, Sweep(s) \/ SweepKilled(s), NEW q \in Runs
  PROVE  \/ dir'[q] = dir[q]
         \/ ~dir'[q] /\ (row[q].status \in Terminal \/ q \in purged)
  <1>0. dir \in [Runs -> BOOLEAN] BY DEF IInv, TypeOK
  <1>1. CASE RemoveWorkspace(s) \/ PurgeWorkspace(s)
    <2>1. cur[s] \in Runs /\ row[cur[s]].status \in Terminal
      BY <1>1, HeldHasVerdict DEF RemoveWorkspace, PurgeWorkspace, AtRow
    <2>2. Rmtree(cur[s]) \/ dir' = dir
      BY <1>1 DEF RemoveWorkspace, PurgeWorkspace
    <2>3. CASE Rmtree(cur[s])
      <3>1. dir' \in [Runs -> BOOLEAN] /\ (q # cur[s] => dir'[q] = dir[q]) /\ (dir'[q] => dir[q])
        BY <2>1, <2>3, RmtreeEffect DEF IInv
      <3> QED BY <1>0, <2>1, <3>1
    <2> QED BY <2>2, <2>3
  <1>2. ASSUME NEW r \in Runs, RemoveOrphan(s, r)
        PROVE  dir'[q] = dir[q] \/ (~dir'[q] /\ q \in purged)
    <2>1. at[s] = "dirs" /\ old[r] /\ r \notin ids[s] /\ Rmtree(r)
      BY <1>2 DEF RemoveOrphan, Visits, Orphan
    <2>2. r \in purged BY <2>1 DEF IInv, OldInv
    <2>3. dir' \in [Runs -> BOOLEAN] /\ (q # r => dir'[q] = dir[q]) /\ (dir'[q] => dir[q])
      BY <2>1, RmtreeEffect DEF IInv
    <2> QED BY <1>0, <2>2, <2>3
  <1>3. CASE ~RemoveWorkspace(s) /\ ~PurgeWorkspace(s) /\ \A r \in Runs : ~RemoveOrphan(s, r)
    BY <1>3 DEF Sweep, SweepKilled, Start, Take, KeepDir, ListDirs, End, ForgetPath, LogRemoval,
      KeepWorkspace, DeleteRun, KeepRecord
  <1> QED BY <1>1, <1>2, <1>3

(* A sweep lets no directory grow old. *)
LEMMA SweepAges ==
  ASSUME IInv, NEW s \in Sweepers, Sweep(s) \/ SweepKilled(s), NEW q \in Runs, old'[q]
  PROVE  old[q]
  <1>0. TypeOK /\ cur[s] \in Runs BY DEF IInv, TypeOK
  <1>1. CASE Rmtree(cur[s]) BY <1>0, <1>1, RmtreeEffect
  <1>2. ASSUME NEW r \in Runs, Rmtree(r) PROVE old[q] BY <1>0, <1>2, RmtreeEffect
  <1>3. CASE old' = old BY <1>3
  <1> QED
    BY <1>1, <1>2, <1>3 DEF Sweep, SweepKilled, Start, Take, RemoveOrphan, KeepDir, ListDirs, End,
      RemoveWorkspace, ForgetPath, LogRemoval, KeepWorkspace, PurgeWorkspace, DeleteRun, KeepRecord

(* A sweep deletes no row but that of a run with a verdict. *)
LEMMA SweepKnown ==
  ASSUME IInv, NEW s \in Sweepers, Sweep(s) \/ SweepKilled(s)
  PROVE  /\ known \cup purged \subseteq known' \cup purged'
         /\ known' \cup purged' = known \cup purged \/ DeleteRun(s)
         /\ purged \subseteq purged'
         /\ \A q \in known : row[q].status \notin Terminal => q \in known'
  <1>1. CASE DeleteRun(s)
    <2>1. row[cur[s]].status \in Terminal
      BY <1>1, HeldHasVerdict DEF DeleteRun, AtRow
    <2> QED BY <1>1, <2>1 DEF DeleteRun
  <1>2. CASE ~DeleteRun(s)
    <2>1. known' = known /\ purged' = purged
      BY <1>2 DEF Sweep, SweepKilled, Start, Take, RemoveOrphan, Visits, KeepDir, ListDirs, End,
          RemoveWorkspace,
        ForgetPath, LogRemoval, KeepWorkspace, PurgeWorkspace, KeepRecord
    <2> QED BY <2>1
  <1> QED BY <1>1, <1>2

(* A sweep does not come between the preparation and its row. *)
LEMMA SweepPrepareInv ==
  ASSUME IInv, NEW s \in Sweepers, Sweep(s) \/ SweepKilled(s)
  PROVE  PrepareInv'
  <1>1. driver' = driver
    BY DEF Sweep, SweepKilled, Start, Take, RemoveOrphan, Visits, KeepDir, ListDirs, End,
          RemoveWorkspace, ForgetPath,
      LogRemoval, KeepWorkspace, PurgeWorkspace, DeleteRun, KeepRecord, driveVars
  <1>2. ASSUME NEW q \in Runs, driver[q] = "prepared"
        PROVE  q \in known' /\ row'[q].status = "PENDING" /\ dir'[q]
    <2>1. q \in known /\ row[q].status = "PENDING" /\ dir[q]
      BY <1>2 DEF IInv, PrepareInv
    <2>2. row[q].status \notin Terminal BY <2>1 DEF Terminal
    <2>3. q \notin purged BY <2>1 DEF IInv, TypeOK
    <2>4. q \in known' BY <2>1, <2>2, SweepKnown
    <2>5. row'[q].status = "PENDING" BY <2>1, <2>2, SweepRows
    <2>6. dir'[q] BY <2>1, <2>2, <2>3, SweepDirs
    <2> QED BY <2>4, <2>5, <2>6
  <1> QED BY <1>1, <1>2 DEF PrepareInv

(* Every sweep that begins lists the runs that have an old directory. *)
LEMMA SweepOldInv ==
  ASSUME IInv, NEW s \in Sweepers, Sweep(s) \/ SweepKilled(s)
  PROVE  OldInv'
  <1>1. \A q \in Runs : old'[q] => old[q]
    BY SweepAges
  <1>2. ASSUME NEW q \in Runs, dir'[q] \/ old[q] PROVE q \in known' \cup purged'
    <2>1. dir[q] \/ old[q] BY <1>2, SweepDirs
    <2>2. q \in known \cup purged BY <2>1 DEF IInv, OldInv
    <2> QED BY <2>2, SweepKnown
  <1>3. ASSUME NEW q \in Runs, old[q], NEW t \in Sweepers
        PROVE  at'[t] = "idle" \/ q \in ids'[t] \/ q \in purged'
    <2>0. at \in [Sweepers -> SweepPlaces] /\ ids \in [Sweepers -> SUBSET Runs]
      BY DEF IInv, TypeOK
    <2>1. at[t] = "idle" \/ q \in ids[t] \/ q \in purged BY <1>3 DEF IInv, OldInv
    <2>2. CASE q \in purged BY <2>2, SweepKnown
    <2>3. CASE t # s
      <3>1. at'[t] = at[t] /\ ids'[t] = ids[t]
        BY <2>0, <2>3 DEF Sweep, SweepKilled, Start, Take, RemoveOrphan, Visits, KeepDir, ListDirs, End,
          RemoveWorkspace,
          ForgetPath, LogRemoval, KeepWorkspace, PurgeWorkspace, DeleteRun, KeepRecord, Rest, Goes,
          sweepVars
      <3> QED BY <2>1, <2>2, <3>1
    <2>4. CASE t = s /\ Start(s)
      <3>1. q \in known \cup purged BY <1>3 DEF IInv, OldInv
      <3>2. ids'[s] = known BY <2>0, <2>4 DEF Start
      <3> QED BY <2>2, <2>4, <3>1, <3>2
    <2>5. CASE t = s /\ Rest(s)
      BY <2>0, <2>5 DEF Rest, Goes
    <2>6. CASE t = s /\ ~Start(s) /\ ~Rest(s)
      <3>1. ids' = ids /\ at[s] # "idle"
        BY <2>6 DEF AtRow, Sweep, SweepKilled, Take, RemoveOrphan, Visits, KeepDir, ListDirs, End,
          RemoveWorkspace,
          ForgetPath, LogRemoval, KeepWorkspace, PurgeWorkspace, DeleteRun, KeepRecord, sweepVars
      <3> QED BY <2>1, <2>2, <2>6, <3>1
    <2> QED BY <2>3, <2>4, <2>5, <2>6
  <1> QED BY <1>1, <1>2, <1>3 DEF OldInv

(* A sweep leaves the row and the workspace of a run without a verdict. *)
LEMMA SweepLiveInv ==
  ASSUME IInv, NEW s \in Sweepers, Sweep(s) \/ SweepKilled(s)
  PROVE  NewInv' /\ LiveRunsStayResumable'
  <1>1. ASSUME NEW q \in Runs, q \notin known' \cup purged', row'[q].path
        PROVE  FALSE
    <2>1. q \notin known \cup purged BY <1>1, SweepKnown
    <2>2. ~row[q].path BY <2>1 DEF IInv, NewInv
    <2>3. row'[q] = row[q]
      <3>1. CASE ForgetPath(s)
        <4>1. Update(cur[s], [Held(s) EXCEPT !.path = FALSE]) BY <3>1 DEF ForgetPath
        <4>2. row \in [Runs -> Row] BY DEF IInv, TypeOK
        <4> QED BY <2>1, <4>1, <4>2 DEF Update
      <3>2. CASE DeleteRun(s)
        <4>1. q # cur[s] BY <1>1, <3>2 DEF DeleteRun
        <4>2. row \in [Runs -> Row] BY DEF IInv, TypeOK
        <4> QED BY <3>2, <4>1, <4>2 DEF DeleteRun
      <3>3. CASE ~ForgetPath(s) /\ ~DeleteRun(s)
        BY <3>3 DEF Sweep, SweepKilled, Start, Take, RemoveOrphan, Visits, KeepDir, ListDirs, End,
          RemoveWorkspace, LogRemoval, KeepWorkspace, PurgeWorkspace, KeepRecord
      <3> QED BY <3>1, <3>2, <3>3
    <2> QED BY <1>1, <2>2, <2>3
  <1>2. ASSUME NEW q \in Runs, q \in known' \cup purged', row'[q].status \notin Terminal
        PROVE  q \in known' /\ (row'[q].path => dir'[q])
    <2>1. row'[q] = row[q] BY <1>2, SweepRows
    <2>2. row[q].status \notin Terminal BY <1>2, <2>1
    <2>3. q \notin purged BY <2>2 DEF IInv, VerdictInv
    <2>4. q \in known \cup purged
      <3>1. CASE DeleteRun(s)
        <4>1. row[cur[s]].status \in Terminal BY <3>1, HeldHasVerdict DEF DeleteRun, AtRow
        <4> QED BY <1>2, <2>2, <3>1, <4>1 DEF DeleteRun
      <3>2. CASE ~DeleteRun(s) BY <1>2, <3>2, SweepKnown
      <3> QED BY <3>1, <3>2
    <2>5. q \in known /\ (row[q].path => dir[q])
      BY <2>2, <2>4 DEF IInv, LiveRunsStayResumable, Live
    <2>6. q \in known' BY <2>2, <2>5, SweepKnown
    <2>7. row'[q].path => dir'[q] BY <2>1, <2>2, <2>3, <2>5, SweepDirs
    <2> QED BY <2>6, <2>7
  <1> QED BY <1>1, <1>2 DEF NewInv, LiveRunsStayResumable, Live

(* The strengthening is inductive. *)
THEOREM Inductive == Spec => []IInv
  <1>1. Init => IInv
    <2> SUFFICES ASSUME Init PROVE IInv OBVIOUS
    <2>1. TypeOK BY InitType
    <2>2. VerdictInv BY DEF Init, AtRow, VerdictInv, NewRow, Terminal
    <2>3. PrepareInv /\ OldInv BY DEF Init, PrepareInv, OldInv
    <2>4. NewInv /\ LiveRunsStayResumable
      BY DEF Init, NewInv, NewRow, LiveRunsStayResumable, Live
    <2> QED BY <2>1, <2>2, <2>3, <2>4 DEF IInv
  <1>2. IInv /\ [Next]_vars => IInv'
    <2> SUFFICES ASSUME IInv, [Next]_vars PROVE IInv' OBVIOUS
    <2>1. CASE UNCHANGED vars
      BY <2>1 DEF vars, policy, driveVars, sweepVars, IInv, TypeOK, VerdictInv, PrepareInv,
        OldInv, NewInv, LiveRunsStayResumable, Live
    <2>2. ASSUME NEW r \in Runs,
                 Time(r) \/ Create(r) \/ Drive(r) \/ Verdict(r) \/ Return(r) \/ DriveKilled(r)
          PROVE  IInv'
      BY <2>2, RunType, RunVerdictInv, RunPrepareInv, RunOldInv, RunLiveInv DEF IInv
    <2>3. ASSUME NEW s \in Sweepers, Sweep(s) \/ SweepKilled(s) PROVE IInv'
      BY <2>3, SweepType, SweepVerdictInv, SweepPrepareInv, SweepOldInv, SweepLiveInv DEF IInv
    <2> QED BY <2>1, <2>2, <2>3 DEF Next
  <1> QED BY <1>1, <1>2, PTL DEF Spec

(* Whatever sweeps are at work and however stale their lists: a run        *)
(* without a verdict has its row, and its workspace once the row names it. *)
THEOREM LiveRunsAreKept == Spec => []LiveRunsStayResumable
  <1>1. IInv => LiveRunsStayResumable BY DEF IInv
  <1> QED BY <1>1, Inductive, PTL

=============================================================================
