--------------------------- MODULE WorkerPoolProofs ---------------------------
(***************************************************************************)
(* Proofs about WorkerPool for any number of workers, threads, runs,       *)
(* kills, exceptions and resumes.                                          *)
(***************************************************************************)
EXTENDS WorkerPool, TLAPS

(* A stage is only entered for a row drive() has work for. *)
StageInv ==
  \A d \in Drivers : pc[d] = "stage" => mem[d].status \notin { "COMPLETED", "ROLLED_BACK" }

(* While a run is PENDING nobody has claimed it. *)
ClaimInv ==
  \A r \in Runs : claims[r] <= 1 /\ (row[r].status = "PENDING" => claims[r] = 0)

IInv == TypeOK /\ StageInv /\ ClaimInv

(* A row a stage may write over the copy it read. *)
MayWrite(d, out) ==
  /\ out \in Row
  /\ out.status # "PENDING"
  /\ out.status \in ALLOWED_TRANSITIONS[mem[d].status]
  /\ out.status = "RETRYING_STEP" => retries[run[d]] < MaxRetries

-----------------------------------------------------------------------------
(* Every branch of a stage writes a row of its type and never PENDING, and *)
(* moves the status of the copy along the edges of the state machine.      *)
LEMMA StageWrites ==
  ASSUME TypeOK, StageInv, NEW d \in Drivers, Stage(d)
  PROVE  \E out : MayWrite(d, out) /\ Save(d, out)
<1> DEFINE m == mem[d]
           To(s) == [m EXCEPT !.status = s]
<1>0. /\ m \in Row /\ pc[d] = "stage"
      /\ m.status \in RunState \ { "COMPLETED", "ROLLED_BACK" }
  BY DEF TypeOK, StageInv, Stage, Row
<1>1. \A s \in RunState : To(s) \in Row /\ To(s).status = s
  BY <1>0 DEF Row
<1>2. ASSUME NEW s \in RunState \ { "PENDING", "RETRYING_STEP" }, Save(d, To(s)),
             s \in ALLOWED_TRANSITIONS[m.status]
      PROVE  \E out : MayWrite(d, out) /\ Save(d, out)
  BY <1>1, <1>2 DEF MayWrite
<1>3. ASSUME StepFails(d), m.status \in { "EXECUTING_STEP", "RETRYING_STEP", "VERIFYING_STEP" }
      PROVE  \E out : MayWrite(d, out) /\ Save(d, out)
  <2>1. CASE retries[run[d]] < MaxRetries
    <3>1. Save(d, To("RETRYING_STEP"))
      BY <1>3, <2>1 DEF StepFails
    <3> QED
      BY <1>1, <1>3, <2>1, <3>1 DEF MayWrite, ALLOWED_TRANSITIONS, RunState
  <2>2. CASE ~(retries[run[d]] < MaxRetries)
    <3>1. Save(d, To("FAILED"))
      BY <1>3, <2>2 DEF StepFails
    <3> QED
      BY <1>2, <1>3, <3>1 DEF ALLOWED_TRANSITIONS, RunState
  <2> QED
    BY <2>1, <2>2
<1>4. ASSUME StepPasses(d), m.status = "VERIFYING_STEP"
      PROVE  \E out : MayWrite(d, out) /\ Save(d, out)
  <2>1. CASE LastStep(m)
    <3>1. Save(d, To("COMPLETED"))
      BY <1>4, <2>1 DEF StepPasses
    <3> QED
      BY <1>2, <1>4, <3>1 DEF ALLOWED_TRANSITIONS, RunState
  <2>2. CASE ~LastStep(m)
    <3> DEFINE out == [m EXCEPT !.status = "EXECUTING_STEP", !.current = @ + 1]
    <3>1. Save(d, out)
      BY <1>4, <2>2 DEF StepPasses
    <3>2. m.current \in 0 .. Steps - 1 /\ m.current + 1 \in 0 .. Steps - 1
      BY <1>0, <2>2, ConstantsAssumption DEF Row, LastStep
    <3>3. out \in Row /\ out.status = "EXECUTING_STEP"
      BY <1>0, <3>2 DEF Row, RunState
    <3>4. "EXECUTING_STEP" \in ALLOWED_TRANSITIONS[m.status]
      BY <1>4 DEF ALLOWED_TRANSITIONS, RunState
    <3> HIDE DEF out
    <3>5. MayWrite(d, out)
      BY <3>3, <3>4 DEF MayWrite
    <3> QED
      BY <3>1, <3>5
  <2> QED
    BY <2>1, <2>2
<1>5. CASE m.status = "PENDING"
  <2> DEFINE out == [m EXCEPT !.status = "PLANNING", !.ready = TRUE]
  <2>1. Save(d, out)
    BY <1>5 DEF Stage
  <2>2. out \in Row /\ out.status = "PLANNING"
    BY <1>0 DEF Row, RunState
  <2>3. "PLANNING" \in ALLOWED_TRANSITIONS[m.status]
    BY <1>5 DEF ALLOWED_TRANSITIONS, RunState
  <2> HIDE DEF out
  <2>4. MayWrite(d, out)
    BY <2>2, <2>3 DEF MayWrite
  <2> QED
    BY <2>1, <2>4
<1>6. CASE m.status = "PLANNING"
  BY <1>2, <1>6 DEF Stage, ALLOWED_TRANSITIONS, RunState
<1>7. CASE m.status = "PLAN_READY"
  BY <1>2, <1>7 DEF Stage, ALLOWED_TRANSITIONS, RunState
<1>8. CASE m.status \in { "EXECUTING_STEP", "RETRYING_STEP" }
  BY <1>2, <1>3, <1>8 DEF Stage, ALLOWED_TRANSITIONS, RunState
<1>9. CASE m.status = "VERIFYING_STEP"
  BY <1>3, <1>4, <1>9 DEF Stage
<1>10. CASE m.status = "FAILED"
  BY <1>2, <1>10 DEF Stage, ALLOWED_TRANSITIONS, RunState
<1> QED
  BY <1>0, <1>5, <1>6, <1>7, <1>8, <1>9, <1>10 DEF RunState

(* The effect of Save on the typed variables, whatever the branch. *)
LEMMA StageTypes ==
  ASSUME TypeOK, StageInv, NEW d \in Drivers, Stage(d)
  PROVE  /\ TypeOK'
         /\ \E out \in Row : row' = [row EXCEPT ![run[d]] = out] /\ out.status # "PENDING"
         /\ mem' = [mem EXCEPT ![d] = NewRow]
         /\ pc' = [pc EXCEPT ![d] = "load"] \/ pc' = [pc EXCEPT ![d] = AfterDrive(d)]
         /\ UNCHANGED << created, accepted, messages, todo, run, claims, used >>
<1>1. PICK out : MayWrite(d, out) /\ Save(d, out)
  BY StageWrites
<1>2. /\ UNCHANGED << created, accepted, messages, todo, run, claims, used >>
      /\ mem' = [mem EXCEPT ![d] = NewRow]
  BY DEF Stage, Forget
<1>3. /\ row' = [row EXCEPT ![run[d]] = out]
      /\ retries' = [retries EXCEPT ![run[d]] = IF out.status = "RETRYING_STEP" THEN @ + 1 ELSE @]
      /\ pc' = [pc EXCEPT ![d] = "load"] \/ pc' = [pc EXCEPT ![d] = AfterDrive(d)]
  BY <1>1 DEF Save
<1>4. out \in Row /\ out.status # "PENDING" /\ run[d] \in Runs
  BY <1>1 DEF MayWrite, TypeOK
<1>5. row' \in [Runs -> Row]
  BY <1>3, <1>4 DEF TypeOK
<1>6. retries' \in [Runs -> 0 .. MaxRetries]
  <2>1. retries[run[d]] \in 0 .. MaxRetries
    BY <1>4 DEF TypeOK
  <2>2. out.status = "RETRYING_STEP" => retries[run[d]] + 1 \in 0 .. MaxRetries
    BY <1>1, <2>1, ConstantsAssumption DEF MayWrite
  <2> QED
    BY <1>3, <2>1, <2>2 DEF TypeOK
<1>7. pc' \in [Drivers -> Places]
  BY <1>3 DEF TypeOK, AfterDrive, Places
<1>8. NewRow \in Row
  BY ConstantsAssumption DEF NewRow, Row, RunState
<1>9. mem' \in [Drivers -> Row]
  BY <1>2, <1>8 DEF TypeOK
<1>10. TypeOK'
  BY <1>2, <1>5, <1>6, <1>7, <1>9 DEF TypeOK
<1> QED
  BY <1>2, <1>3, <1>4, <1>10

-----------------------------------------------------------------------------
(* The bounded counters stay within their bounds. *)
LEMMA UsedTypes ==
  ASSUME TypeOK,
         \/ used.kills < MaxKills /\ used' = [used EXCEPT !.kills = @ + 1]
         \/ used.apiKills < MaxApiKills /\ used' = [used EXCEPT !.apiKills = @ + 1]
         \/ used.errors < MaxErrors /\ used' = [used EXCEPT !.errors = @ + 1]
         \/ used.resumes < MaxResumes /\ used' = [used EXCEPT !.resumes = @ + 1]
  PROVE  used' \in Used
<1>0. used \in Used
  BY DEF TypeOK
<1> USE <1>0, ConstantsAssumption DEF Used
<1>1. CASE used.kills < MaxKills /\ used' = [used EXCEPT !.kills = @ + 1]
  BY <1>1
<1>2. CASE used.apiKills < MaxApiKills /\ used' = [used EXCEPT !.apiKills = @ + 1]
  BY <1>2
<1>3. CASE used.errors < MaxErrors /\ used' = [used EXCEPT !.errors = @ + 1]
  BY <1>3
<1>4. CASE used.resumes < MaxResumes /\ used' = [used EXCEPT !.resumes = @ + 1]
  BY <1>4
<1> QED
  BY <1>1, <1>2, <1>3, <1>4

(* Type correctness, the stages and the claims hold at first. *)
LEMMA InitInv == Init => IInv
<1> SUFFICES ASSUME Init PROVE IInv
  OBVIOUS
<1>1. NewRow \in Row /\ NewRow.status = "PENDING"
  BY ConstantsAssumption DEF NewRow, Row, RunState
<1>2. run \in [Drivers -> Runs]
  BY ConstantsAssumption DEF Init
<1>3. pc \in [Drivers -> Places] /\ \A d \in Drivers : pc[d] # "stage"
  BY DEF Init, Places
<1>4. TypeOK
  BY <1>1, <1>2, <1>3, ConstantsAssumption DEF Init, TypeOK, Used
<1> QED
  BY <1>1, <1>3, <1>4 DEF Init, IInv, StageInv, ClaimInv

(* Every step keeps them.  The claim is the interesting one: the SELECT    *)
(* promises nothing, the conditional UPDATE is what counts, and no stale   *)
(* copy ever puts PENDING back into a row.                                 *)
LEMMA NextInv == IInv /\ [Next]_vars => IInv'
<1> SUFFICES ASSUME IInv, [Next]_vars PROVE IInv'
  OBVIOUS
<1> USE DEF IInv
<1>0. NewRow \in Row /\ NewRow.status = "PENDING" /\ Drivers = Workers \cup Threads
  BY ConstantsAssumption DEF NewRow, Row, RunState, Drivers
<1>1. ASSUME NEW r \in Runs, Create(r) PROVE IInv'
  BY <1>1 DEF Create, TypeOK, StageInv, ClaimInv
<1>2. ASSUME NEW r \in Runs, Api(r) PROVE IInv'
  <2>1. CASE Enqueue(r)
    BY <2>1 DEF Enqueue, TypeOK, StageInv, ClaimInv
  <2>2. CASE StartThread(r)
    BY <1>0, <2>2 DEF StartThread, Begin, TypeOK, StageInv, ClaimInv, Places
  <2> QED
    BY <1>2, <2>1, <2>2 DEF Api
<1>3. ASSUME NEW r \in Runs, Resume(r) PROVE IInv'
  <2>1. used' \in Used
    BY <1>3, UsedTypes DEF Resume
  <2> QED
    BY <1>3, <2>1 DEF Resume, TypeOK, StageInv, ClaimInv
<1>4. CASE ApiKilled
  <2>1. used' \in Used
    BY <1>4, UsedTypes DEF ApiKilled
  <2>2. pc' \in [Drivers -> Places] /\ mem' \in [Drivers -> Row]
    BY <1>0, <1>4 DEF ApiKilled, TypeOK, Places
  <2>3. StageInv'
    BY <1>0, <1>4 DEF ApiKilled, TypeOK, StageInv
  <2> QED
    BY <1>4, <2>1, <2>2, <2>3 DEF ApiKilled, TypeOK, ClaimInv
<1>5. ASSUME NEW w \in Workers, Work(w) PROVE IInv'
  <2>0. w \in Drivers
    BY <1>0
  <2>1. CASE Start(w)
    BY <2>0, <2>1 DEF Start, TypeOK, StageInv, ClaimInv, Places, Known
  <2>2. CASE NextStuckRun(w)
    BY <2>0, <2>2 DEF NextStuckRun, Begin, Oldest, TypeOK, StageInv, ClaimInv, Places
  <2>3. CASE EndOfScan(w)
    BY <2>0, <2>3 DEF EndOfScan, TypeOK, StageInv, ClaimInv, Places
  <2>4. CASE DequeueRedis(w)
    BY <2>0, <2>4 DEF DequeueRedis, Begin, TypeOK, StageInv, ClaimInv, Places
  <2>5. CASE SelectPending(w)
    <3>1. PICK r \in Known : run' = [run EXCEPT ![w] = r]
      BY <2>5 DEF SelectPending, Oldest
    <3>2. Known \subseteq Runs
      BY DEF Known, TypeOK
    <3>3. run' \in [Drivers -> Runs]
      BY <2>0, <3>1, <3>2 DEF TypeOK
    <3> QED
      BY <2>0, <2>5, <3>3 DEF SelectPending, TypeOK, StageInv, ClaimInv, Places
  <2>6. CASE ClaimPending(w)
    <3>1. run[w] \in Runs /\ row[run[w]] \in Row /\ claims[run[w]] \in Nat
      BY <2>0 DEF TypeOK
    <3>2. StageInv' /\ pc' \in [Drivers -> Places]
      BY <2>0, <2>6 DEF ClaimPending, TypeOK, StageInv, Places
    <3>3. CASE row[run[w]].status = "PENDING"
      <4>1. /\ row' = [row EXCEPT ![run[w]].status = "PLANNING"]
            /\ claims' = [claims EXCEPT ![run[w]] = @ + 1]
        BY <2>6, <3>3 DEF ClaimPending
      <4>2. row' \in [Runs -> Row] /\ row'[run[w]].status = "PLANNING"
        BY <3>1, <4>1 DEF TypeOK, Row, RunState
      <4>3. ClaimInv' /\ claims' \in [Runs -> Nat]
        BY <3>1, <3>3, <4>1, <4>2 DEF ClaimInv, TypeOK
      <4> QED
        BY <2>6, <3>2, <4>2, <4>3 DEF ClaimPending, TypeOK
    <3>4. CASE row[run[w]].status # "PENDING"
      BY <2>6, <3>2, <3>4 DEF ClaimPending, TypeOK, ClaimInv
    <3> QED
      BY <3>3, <3>4
  <2> QED
    BY <1>5, <2>1, <2>2, <2>3, <2>4, <2>5, <2>6 DEF Work
<1>6. ASSUME NEW w \in Workers, Killed(w) PROVE IInv'
  <2>1. used' \in Used
    BY <1>6, UsedTypes DEF Killed
  <2> QED
    BY <1>0, <1>6, <2>1 DEF Killed, TypeOK, StageInv, ClaimInv, Places
<1>7. ASSUME NEW d \in Drivers, Load(d) PROVE IInv'
  <2>1. run[d] \in Runs /\ row[run[d]] \in Row
    BY <1>7 DEF TypeOK
  <2> QED
    BY <1>7, <2>1 DEF Load, AfterDrive, TypeOK, StageInv, ClaimInv, Places
<1>8. ASSUME NEW d \in Drivers, Stage(d) PROVE IInv'
  <2>1. TypeOK'
    BY <1>8, StageTypes
  <2>2. PICK out \in Row : row' = [row EXCEPT ![run[d]] = out] /\ out.status # "PENDING"
    BY <1>8, StageTypes
  <2>3. claims' = claims /\ run[d] \in Runs /\ row \in [Runs -> Row]
    BY <1>8, StageTypes DEF TypeOK
  <2>4. ClaimInv'
    BY <2>2, <2>3 DEF ClaimInv
  <2>5. StageInv'
    BY <1>8, StageTypes DEF StageInv, TypeOK, AfterDrive
  <2> QED
    BY <2>1, <2>4, <2>5
<1>9. ASSUME NEW d \in Drivers, NotPrepared(d) PROVE IInv'
  BY <1>0, <1>9 DEF NotPrepared, Forget, AfterDrive, TypeOK, StageInv, ClaimInv, Places
<1>10. ASSUME NEW d \in Drivers, Raises(d) PROVE IInv'
  <2>1. used' \in Used
    BY <1>10, UsedTypes DEF Raises
  <2> QED
    BY <1>0, <1>10, <2>1 DEF Raises, Forget, AfterDrive, TypeOK, StageInv, ClaimInv, Places
<1>11. CASE UNCHANGED vars
  BY <1>11 DEF vars, TypeOK, StageInv, ClaimInv
<1> QED
  BY <1>1, <1>2, <1>3, <1>4, <1>5, <1>6, <1>7, <1>8, <1>9, <1>10, <1>11 DEF Next, Drive

(* The inductive invariant. *)
LEMMA SpecInv == Spec => []IInv
<1> QED
  BY InitInv, NextInv, PTL DEF Spec

(* Every variable has its type. *)
THEOREM PoolTypeCorrect == Spec => []TypeOK
<1>1. IInv => TypeOK
  BY DEF IInv
<1> QED
  BY <1>1, SpecInv, PTL

(* A run is claimed at most once by any number of workers, although        *)
(* claim_pending reads and updates in two statements, and although other   *)
(* drivers write stale copies of the row back, exceptions end drives, and  *)
(* workers and the API are killed and restarted.                           *)
THEOREM ClaimsAreExclusive == Spec => []ClaimedAtMostOnce
<1>1. IInv => ClaimedAtMostOnce
  BY DEF IInv, ClaimInv, ClaimedAtMostOnce
<1> QED
  BY <1>1, SpecInv, PTL

-----------------------------------------------------------------------------
(* The Redis queue hands each run to one worker of a pool that was up when *)
(* the run arrived.                                                        *)
QueueAlone == Queue = "redis" /\ PoolIsUp

(* Nobody recovers, claims or runs a thread: the queue alone hands on.     *)
PollersOnly ==
  /\ \A w \in Workers : pc[w] \notin { "down", "claim" } /\ todo[w] = {}
  /\ \A t \in Threads : pc[t] = "idle"

(* A run is in one place: accepted, in the list once, or with one driver.  *)
OnePlace ==
  /\ accepted \subseteq Known
  /\ \A i \in DOMAIN messages : messages[i] \in Known \ accepted
  /\ \A i, j \in DOMAIN messages : messages[i] = messages[j] => i = j
  /\ \A d \in Drivers : AtWork(d) =>
       /\ run[d] \in Known \ accepted
       /\ \A i \in DOMAIN messages : messages[i] # run[d]

(* The copy a stage works on is the row. *)
FreshCopies == \A d \in Drivers : pc[d] = "stage" => mem[d] = row[run[d]]

AloneInv == IInv /\ PollersOnly /\ OnePlace /\ OneDriverEach /\ FreshCopies

(* At first the list is empty and nobody is at work. *)
LEMMA AloneInit == ASSUME QueueAlone PROVE Init => AloneInv
<1> SUFFICES ASSUME Init PROVE AloneInv
  OBVIOUS
<1>1. \A d \in Drivers : ~AtWork(d) /\ pc[d] # "stage"
  BY DEF Init, AtWork
<1>2. PollersOnly
  BY ConstantsAssumption DEF QueueAlone, Init, PollersOnly, Drivers
<1>3. OnePlace
  BY <1>1 DEF Init, OnePlace
<1> QED
  BY <1>1, <1>2, <1>3, InitInv DEF AloneInv, OneDriverEach, FreshCopies

(* A step that moves no run and hands none on keeps everything; drivers    *)
(* may only have stopped working, or begun nothing new.                    *)
LEMMA NoHandover ==
  ASSUME AloneInv, IInv', PollersOnly', UNCHANGED << created, messages, run >>,
         accepted' \subseteq accepted,
         \A d \in Drivers : AtWork(d)' => AtWork(d),
         FreshCopies'
  PROVE  AloneInv'
<1>1. Known' = Known
  BY DEF Known
<1>2. OnePlace'
  BY <1>1 DEF AloneInv, OnePlace
<1>3. OneDriverEach'
  BY DEF AloneInv, OneDriverEach
<1> QED
  BY <1>2, <1>3 DEF AloneInv

(* A step that leaves such a pool undisturbed keeps a run in one place, and *)
(* its copies fresh.                                                        *)
LEMMA AloneNext ==
  ASSUME AloneInv, Undisturbed', [Next]_vars
  PROVE  AloneInv'
<1>0. IInv /\ IInv' /\ TypeOK /\ StageInv
  BY NextInv DEF AloneInv, IInv
<1>a. used \in Used /\ used'.kills = 0 /\ used'.resumes = 0 /\ Queue = "redis"
  BY <1>0 DEF TypeOK, Undisturbed
<1>b. Drivers = Workers \cup Threads /\ Workers \cap Threads = {}
  BY ConstantsAssumption DEF Drivers
<1>1. ASSUME NEW r \in Runs, Create(r) PROVE AloneInv'
  <2>1. created \in Seq(Runs) /\ created' = Append(created, r) /\ r \notin Known
    BY <1>0, <1>1 DEF Create, TypeOK
  <2>2. Known' = Known \cup { r }
    BY <2>1 DEF Known
  <2>3. OnePlace'
    BY <1>1, <2>1, <2>2 DEF Create, AloneInv, OnePlace, AtWork
  <2> QED
    BY <1>0, <1>1, <2>3 DEF Create, AloneInv, PollersOnly, OneDriverEach, FreshCopies, AtWork
<1>2. ASSUME NEW r \in Runs, Api(r) PROVE AloneInv'
  <2>1. Enqueue(r)
    BY <1>2, <1>a DEF Api, StartThread
  <2>2. messages \in Seq(Runs) /\ messages' = Append(messages, r) /\ r \in accepted
    BY <1>0, <2>1 DEF Enqueue, TypeOK
  <2>3. Known' = Known /\ accepted' = accepted \ { r }
    BY <2>1 DEF Enqueue, Known
  <2>4. OnePlace'
    <3>1. \A i \in DOMAIN messages' : messages'[i] \in Known' \ accepted'
      BY <2>2, <2>3 DEF AloneInv, OnePlace
    <3>2. \A i, j \in DOMAIN messages' : messages'[i] = messages'[j] => i = j
      BY <2>2 DEF AloneInv, OnePlace
    <3>3. \A d \in Drivers : AtWork(d)' => AtWork(d) /\ run'[d] = run[d]
      BY <2>1 DEF Enqueue, AtWork
    <3>4. \A d \in Drivers : AtWork(d)' =>
             /\ run'[d] \in Known' \ accepted'
             /\ \A i \in DOMAIN messages' : messages'[i] # run'[d]
      BY <2>2, <2>3, <3>3 DEF AloneInv, OnePlace
    <3> QED
      BY <2>3, <3>1, <3>2, <3>4 DEF AloneInv, OnePlace
  <2> QED
    BY <1>0, <2>1, <2>4 DEF Enqueue, AloneInv, PollersOnly, OneDriverEach, FreshCopies, AtWork
<1>3. ASSUME NEW r \in Runs, Resume(r) PROVE AloneInv'
  BY <1>3, <1>a DEF Resume, Used
<1>4. CASE ApiKilled
  <2>1. \A d \in Drivers : pc'[d] = pc[d] /\ (pc[d] = "stage" => mem'[d] = mem[d])
    BY <1>0, <1>4, <1>b DEF ApiKilled, AloneInv, PollersOnly, TypeOK
  <2>2. PollersOnly' /\ FreshCopies'
    BY <1>4, <1>b, <2>1 DEF ApiKilled, AloneInv, PollersOnly, FreshCopies
  <2> QED
    BY <1>0, <1>4, <2>1, <2>2, NoHandover DEF ApiKilled, AtWork
<1>5. ASSUME NEW w \in Workers, Work(w) PROVE AloneInv'
  <2>1. pc[w] \notin { "down", "claim" } /\ todo[w] = {} /\ w \in Drivers
    BY <1>b DEF AloneInv, PollersOnly
  <2>2. EndOfScan(w) \/ DequeueRedis(w)
    BY <1>5, <1>a, <2>1 DEF Work, Start, NextStuckRun, SelectPending, ClaimPending, Oldest
  <2>3. CASE EndOfScan(w)
    <3>1. PollersOnly'
      BY <1>0, <1>b, <2>1, <2>3 DEF EndOfScan, AloneInv, PollersOnly, TypeOK
    <3>2. \A d \in Drivers : AtWork(d)' => AtWork(d)
      BY <1>0, <2>1, <2>3 DEF EndOfScan, AtWork, TypeOK
    <3>3. FreshCopies'
      BY <1>0, <2>1, <2>3 DEF EndOfScan, AloneInv, FreshCopies, TypeOK
    <3> QED
      BY <1>0, <2>3, <3>1, <3>2, <3>3, NoHandover DEF EndOfScan
  <2>4. CASE DequeueRedis(w)
    <3>1. /\ messages \in Seq(Runs) /\ messages # << >> /\ messages' = Tail(messages)
          /\ pc[w] = "poll" /\ pc' = [pc EXCEPT ![w] = "load"]
          /\ run' = [run EXCEPT ![w] = messages[1]]
          /\ UNCHANGED << created, row, accepted, mem, todo >>
      BY <1>0, <2>4 DEF DequeueRedis, Begin, TypeOK
    <3>2. /\ Known' = Known /\ 1 \in DOMAIN messages
          /\ \A i \in DOMAIN messages' : i + 1 \in DOMAIN messages /\ messages'[i] = messages[i + 1] /\ i \in Nat \ {0}
      BY <3>1 DEF Known
    <3>3. \A i \in DOMAIN messages' : messages'[i] # messages[1]
      BY <3>1, <3>2 DEF AloneInv, OnePlace
    <3>4. \A d \in Drivers : d # w => pc'[d] = pc[d] /\ run'[d] = run[d]
      BY <1>0, <2>1, <3>1 DEF TypeOK
    <3>5. pc'[w] = "load" /\ run'[w] = messages[1]
      BY <1>0, <2>1, <3>1 DEF TypeOK
    <3>6. PollersOnly'
      BY <1>b, <3>1, <3>4, <3>5 DEF AloneInv, PollersOnly
    <3>7. OnePlace'
      <4>1. \A i, j \in DOMAIN messages' : messages'[i] = messages'[j] => i = j
        BY <3>2 DEF AloneInv, OnePlace
      <4>2. \A d \in Drivers : AtWork(d)' =>
               /\ run'[d] \in Known' \ accepted'
               /\ \A i \in DOMAIN messages' : messages'[i] # run'[d]
        <5> SUFFICES ASSUME NEW d \in Drivers, AtWork(d)'
                     PROVE  /\ run'[d] \in Known' \ accepted'
                            /\ \A i \in DOMAIN messages' : messages'[i] # run'[d]
          OBVIOUS
        <5>1. CASE d = w
          BY <3>1, <3>2, <3>3, <3>5, <5>1 DEF AloneInv, OnePlace
        <5>2. CASE d # w
          BY <3>1, <3>2, <3>4, <5>2 DEF AloneInv, OnePlace, AtWork
        <5> QED
          BY <5>1, <5>2
      <4> QED
        BY <3>1, <3>2, <4>1, <4>2 DEF AloneInv, OnePlace
    <3>8. OneDriverEach'
      BY <2>1, <3>2, <3>4, <3>5 DEF AloneInv, OnePlace, OneDriverEach, AtWork
    <3>9. FreshCopies'
      BY <3>1, <3>4, <3>5 DEF AloneInv, FreshCopies
    <3> QED
      BY <1>0, <3>6, <3>7, <3>8, <3>9 DEF AloneInv
  <2> QED
    BY <2>2, <2>3, <2>4
<1>6. ASSUME NEW w \in Workers, Killed(w) PROVE AloneInv'
  BY <1>6, <1>a DEF Killed, Used
<1>7. ASSUME NEW d \in Drivers, Load(d) PROVE AloneInv'
  <2>1. pc[d] = "load" /\ d \in Workers
    BY <1>7, <1>b DEF Load, AloneInv, PollersOnly
  <2>2. \A e \in Drivers : e # d => pc'[e] = pc[e] /\ mem'[e] = mem[e]
    BY <1>0, <1>7 DEF Load, TypeOK
  <2>3. \/ pc'[d] = "scan"
        \/ pc'[d] = "stage" /\ mem'[d] = row[run[d]]
    BY <1>0, <1>7, <2>1 DEF Load, AfterDrive, TypeOK
  <2>4. PollersOnly'
    BY <1>b, <1>7, <2>1, <2>2, <2>3 DEF Load, AloneInv, PollersOnly
  <2>5. FreshCopies'
    BY <1>7, <2>2, <2>3 DEF Load, AloneInv, FreshCopies
  <2>6. \A e \in Drivers : AtWork(e)' => AtWork(e)
    BY <2>1, <2>2 DEF AtWork
  <2> QED
    BY <1>0, <1>7, <2>4, <2>5, <2>6, NoHandover DEF Load
<1>8. ASSUME NEW d \in Drivers, Stage(d) PROVE AloneInv'
  <2>1. pc[d] = "stage" /\ d \in Workers /\ run[d] \in Runs
    BY <1>0, <1>8, <1>b DEF Stage, AloneInv, PollersOnly, TypeOK
  <2>2. PICK out \in Row : row' = [row EXCEPT ![run[d]] = out]
    BY <1>0, <1>8, StageTypes
  <2>3. /\ UNCHANGED << created, accepted, messages, todo, run >>
        /\ mem' = [mem EXCEPT ![d] = NewRow]
        /\ pc' = [pc EXCEPT ![d] = "load"] \/ pc' = [pc EXCEPT ![d] = AfterDrive(d)]
    BY <1>0, <1>8, StageTypes
  <2>4. \A e \in Drivers : e # d => pc'[e] = pc[e] /\ mem'[e] = mem[e]
    BY <1>0, <2>3 DEF TypeOK
  <2>5. pc'[d] \in { "load", "scan" }
    BY <1>0, <2>1, <2>3 DEF AfterDrive, TypeOK
  <2>6. PollersOnly'
    BY <1>b, <2>1, <2>3, <2>4, <2>5 DEF AloneInv, PollersOnly
  <2>7. \A e \in Drivers : AtWork(e)' => AtWork(e)
    BY <2>1, <2>4 DEF AtWork
  <2>8. FreshCopies'
    <3> SUFFICES ASSUME NEW e \in Drivers, pc'[e] = "stage" PROVE mem'[e] = row'[run'[e]]
      BY DEF FreshCopies
    <3>1. e # d
      BY <2>5
    <3>2. pc[e] = "stage" /\ mem'[e] = mem[e] /\ run'[e] = run[e]
      BY <2>3, <2>4, <3>1
    <3>3. run[e] # run[d]
      BY <2>1, <3>1, <3>2 DEF AloneInv, OneDriverEach, AtWork
    <3>4. row'[run[e]] = row[run[e]]
      BY <1>0, <2>2, <3>3 DEF TypeOK
    <3> QED
      BY <3>2, <3>4 DEF AloneInv, FreshCopies
  <2> QED
    BY <1>0, <2>3, <2>6, <2>7, <2>8, NoHandover
<1>9. ASSUME NEW d \in Drivers, NotPrepared(d) \/ Raises(d) PROVE AloneInv'
  <2>1. /\ pc[d] = "stage" /\ pc' = [pc EXCEPT ![d] = AfterDrive(d)]
        /\ mem' = [mem EXCEPT ![d] = NewRow]
        /\ UNCHANGED << created, row, accepted, messages, todo, run >>
    BY <1>9 DEF NotPrepared, Raises, Forget
  <2>2. d \in Workers
    BY <1>b, <2>1 DEF AloneInv, PollersOnly
  <2>3. \A e \in Drivers : e # d => pc'[e] = pc[e] /\ mem'[e] = mem[e]
    BY <1>0, <2>1 DEF TypeOK
  <2>4. pc'[d] = "scan"
    BY <1>0, <2>1, <2>2 DEF AfterDrive, TypeOK
  <2>5. PollersOnly'
    BY <1>b, <2>1, <2>2, <2>3, <2>4 DEF AloneInv, PollersOnly
  <2>6. FreshCopies'
    BY <2>1, <2>3, <2>4 DEF AloneInv, FreshCopies
  <2>7. \A e \in Drivers : AtWork(e)' => AtWork(e)
    BY <2>3, <2>4 DEF AtWork
  <2> QED
    BY <1>0, <2>1, <2>5, <2>6, <2>7, NoHandover
<1>10. CASE UNCHANGED vars
  <2>1. PollersOnly' /\ FreshCopies'
    BY <1>10 DEF vars, AloneInv, PollersOnly, FreshCopies
  <2> QED
    BY <1>0, <1>10, <2>1, NoHandover DEF vars, AtWork
<1> QED
  BY <1>1, <1>2, <1>3, <1>4, <1>5, <1>6, <1>7, <1>8, <1>9, <1>10 DEF Next, Drive

(* What was disturbed stays so: kills and resumes are only ever counted up. *)
LEMMA DisturbedForGood == ASSUME TypeOK, [Next]_vars, Undisturbed' PROVE Undisturbed
<1>1. used \in Used
  BY DEF TypeOK
<1>2. CASE UNCHANGED used
  BY <1>2 DEF Undisturbed
<1>3. ASSUME NEW r \in Runs, Resume(r) PROVE FALSE
  BY <1>1, <1>3 DEF Resume, Undisturbed, Used
<1>4. ASSUME NEW w \in Workers, Killed(w) PROVE FALSE
  BY <1>1, <1>4 DEF Killed, Undisturbed, Used
<1>5. ASSUME NEW d \in Drivers, Raises(d) PROVE Undisturbed
  BY <1>1, <1>5 DEF Raises, Undisturbed, Used
<1>6. CASE ApiKilled
  BY <1>1, <1>6 DEF ApiKilled, Undisturbed, Used
<1> QED
  BY <1>2, <1>3, <1>4, <1>5, <1>6
     DEF Next, vars, Create, Api, Enqueue, StartThread, Work, Start, NextStuckRun, EndOfScan,
         DequeueRedis, SelectPending, ClaimPending, Drive, Load, Stage, NotPrepared

UndisturbedInv == IInv /\ (Undisturbed => AloneInv)

LEMMA UndisturbedInvariant == Spec => []UndisturbedInv
<1>1. Init => UndisturbedInv
  BY InitInv, AloneInit DEF UndisturbedInv, Undisturbed, QueueAlone
<1>2. UndisturbedInv /\ [Next]_vars => UndisturbedInv'
  BY NextInv, AloneNext, DisturbedForGood DEF UndisturbedInv, IInv
<1> QED
  BY <1>1, <1>2, PTL DEF Spec

(* A pool that is fed by Redis alone never has two drivers on a run.       *)
THEOREM PoppedRunsHaveOneDriver == Spec => []OneDriverPerRun
<1>1. UndisturbedInv => OneDriverPerRun
  BY DEF UndisturbedInv, AloneInv, OneDriverPerRun
<1> QED
  BY <1>1, UndisturbedInvariant, PTL

(* And what is persisted over a status is one of its successors: the check *)
(* _transition makes on its copy protects the row, because the copy is the *)
(* row for as long as the stage lasts.                                     *)
THEOREM PoppedRunsMoveLegally == Spec => RowsMoveLegally
<1>1. UndisturbedInv /\ [Next]_vars => [ Undisturbed => \A r \in Runs : Legally(r) ]_vars
  <2> SUFFICES ASSUME AloneInv, Next,
                      NEW r \in Runs, row'[r].status # row[r].status
               PROVE  row'[r].status \in ALLOWED_TRANSITIONS[row[r].status]
    BY DEF UndisturbedInv, Legally
  <2>1. TypeOK /\ StageInv
    BY DEF AloneInv, IInv
  <2>2. \A w \in Workers : ~ClaimPending(w)
    BY DEF AloneInv, PollersOnly, ClaimPending
  <2>3. PICK d \in Drivers : Stage(d)
    BY <2>2 DEF Next, Create, Api, Enqueue, StartThread, Resume, ApiKilled, Work, Start,
         NextStuckRun, EndOfScan, DequeueRedis, SelectPending, Killed, Drive, Load,
         NotPrepared, Raises
  <2>4. PICK out : MayWrite(d, out) /\ Save(d, out)
    BY <2>1, <2>3, StageWrites
  <2>5. row' = [row EXCEPT ![run[d]] = out] /\ run[d] \in Runs
    BY <2>1, <2>4 DEF Save, TypeOK
  <2>6. r = run[d] /\ row'[r] = out
    BY <2>1, <2>5 DEF TypeOK
  <2>7. mem[d] = row[run[d]]
    BY <2>3 DEF Stage, AloneInv, FreshCopies
  <2> QED
    BY <2>4, <2>6, <2>7 DEF MayWrite
<1> QED
  BY <1>1, UndisturbedInvariant, PTL DEF Spec, RowsMoveLegally

=============================================================================
