--------------------------- MODULE SandboxesProofs ---------------------------
(***************************************************************************)
(* Proofs about Sandboxes for any number of drivers, edits and mishaps.    *)
(***************************************************************************)
EXTENDS Sandboxes, TLAPS

(* A pod whose flag is not set has the changes of its drive, and the flag  *)
(* is not set when a check begins.                                         *)
CopyInv(d) ==
  /\ mine[d] <= tree
  /\ backend[d] = "k8s" /\ at[d] \notin { "off", "closing" } /\ ~dirty[d] =>
       torn[d] \/ copy[d] >= mine[d]
  /\ backend[d] = "k8s" /\ at[d] = "checking" => ~dirty[d]

(* The handle stands for the box, but for a pod that does not run yet.     *)
HandleInv(d) ==
  /\ at[d] \in { "off", "idle", "syncing", "checking" } => box[d] = handle[d]
  /\ handle[d] => box[d]
  /\ at[d] \in { "starting", "syncing" } => backend[d] = "k8s" /\ box[d]
  /\ backend[d] \in { "none", "local" } => ~box[d]

(* A drive that is about to leave a pod without a handle has had its       *)
(* mishap.                                                                 *)
DebtInv(d) ==
  /\ left[d] <= mishaps[d]
  /\ at[d] = "closing" /\ box[d] /\ ~handle[d] => left[d] + 1 <= mishaps[d]

IInv ==
  /\ TypeOK /\ UntrustedIsIsolated
  /\ \A d \in Drivers : CopyInv(d) /\ HandleInv(d) /\ DebtInv(d)

-----------------------------------------------------------------------------
(* The beginning, and who is disturbed by a step *)

(* No drive is attached at first. *)
LEMMA InitHolds == Init => IInv
<1> SUFFICES ASSUME Init PROVE IInv
  OBVIOUS
<1>1. 0 \in 0 .. MaxEdits /\ 0 \in 0 .. MaxMishaps /\ Nothing \in Nothing .. MaxEdits
  BY ConstantsAssumption DEF Nothing
<1>2. TypeOK
  BY <1>1 DEF Init, TypeOK, Places, Backends
<1>3. UntrustedIsIsolated
  BY DEF Init, UntrustedIsIsolated
<1>4. ASSUME NEW d \in Drivers PROVE CopyInv(d) /\ HandleInv(d) /\ DebtInv(d)
  <2>1. /\ tree = 0 /\ mine[d] = 0 /\ left[d] = 0 /\ mishaps[d] = 0
        /\ at[d] = "off" /\ backend[d] = "none" /\ handle[d] = FALSE /\ box[d] = FALSE
    BY DEF Init
  <2>2. CopyInv(d)
    BY <2>1 DEF CopyInv
  <2>3. HandleInv(d)
    BY <2>1 DEF HandleInv
  <2>4. DebtInv(d)
    BY <2>1 DEF DebtInv
  <2> QED
    BY <2>2, <2>3, <2>4
<1> QED
  BY <1>2, <1>3, <1>4 DEF IInv

(* What a driver does leaves the drives and the boxes of the others alone, *)
(* and the tree only grows.                                                *)
Local(d) ==
  /\ settings' = settings /\ tree' >= tree
  /\ \A e \in Drivers : e # d =>
       /\ at'[e] = at[e] /\ backend'[e] = backend[e] /\ handle'[e] = handle[e]
       /\ dirty'[e] = dirty[e] /\ box'[e] = box[e] /\ copy'[e] = copy[e]
       /\ torn'[e] = torn[e] /\ mine'[e] = mine[e]
       /\ left'[e] = left[e] /\ mishaps'[e] = mishaps[e]

(* The parts of the invariant for one driver. *)
Part(d) == CopyInv(d) /\ HandleInv(d) /\ DebtInv(d)

(* What UntrustedIsIsolated says of one driver. *)
Isolates(d) == backend[d] = "local" => settings.trusted \/ settings.allowed

(* It is enough to look at the driver that moves. *)
LEMMA OnlyItsOwn ==
  ASSUME IInv, NEW d \in Drivers, Local(d), TypeOK', Part(d)',
         Isolates(d)'
  PROVE  IInv'
<1>1. ASSUME NEW e \in Drivers, e # d PROVE Part(e)'
  <2>1. mine[e] \in Int /\ tree \in Int /\ tree' \in Int
    BY <1>1 DEF IInv, TypeOK
  <2> QED
    BY <1>1, <2>1 DEF IInv, Part, Local, CopyInv, HandleInv, DebtInv
<1>2. UntrustedIsIsolated'
  BY DEF IInv, Local, UntrustedIsIsolated, Isolates
<1> QED
  BY <1>1, <1>2 DEF IInv, Part

-----------------------------------------------------------------------------
(* One lemma for each action *)

(* A drive begins with a flag that is set, and knows the tree it found.    *)
LEMMA AttachStep == ASSUME IInv, NEW d \in Drivers, Attach(d) PROVE IInv'
<1>1. TypeOK /\ Part(d) /\ Isolates(d)
  BY DEF IInv, Part, UntrustedIsIsolated, Isolates
<1>2. PICK kind \in Backends :
        /\ backend' = [backend EXCEPT ![d] = kind]
        /\ kind = "local" => settings.trusted \/ settings.allowed
  <2>1. \A daemon : Choice(daemon) # "none" =>
          /\ Choice(daemon) \in Backends
          /\ Choice(daemon) = "local" => settings.trusted \/ settings.allowed
    BY DEF Choice, Backends
  <2> QED
    BY <2>1 DEF Attach, Daemons
<1>8. Local(d)
  BY <1>1, ConstantsAssumption DEF Attach, Goes, Marks, Local, TypeOK
<1>3. TypeOK'
  BY <1>1, <1>2, ConstantsAssumption DEF Attach, Goes, Marks, TypeOK, Places, Backends, Nothing
<1>4. CopyInv(d)'
  BY <1>1, <1>2 DEF Attach, Goes, Marks, TypeOK, Part, CopyInv, Nothing
<1>5. HandleInv(d)'
  BY <1>1, <1>2 DEF Attach, Goes, Marks, TypeOK, Part, HandleInv
<1>6. DebtInv(d)'
  BY <1>1 DEF Attach, Goes, Marks, TypeOK, Part, DebtInv, HandleInv
<1>7. Isolates(d)'
  BY <1>1, <1>2 DEF Attach, Goes, Marks, TypeOK, Isolates
<1> QED
  BY <1>8, <1>3, <1>4, <1>5, <1>6, <1>7, OnlyItsOwn DEF Part

(* A change of the tree sets the flag.                                     *)
LEMMA EditStep == ASSUME IInv, NEW d \in Drivers, Edit(d) PROVE IInv'
<1>1. TypeOK /\ Part(d) /\ Isolates(d)
  BY DEF IInv, Part, UntrustedIsIsolated, Isolates
<1>2. Local(d)
  BY <1>1, ConstantsAssumption DEF Edit, Changes, Marks, Local, TypeOK
<1>3. TypeOK'
  BY <1>1, ConstantsAssumption DEF Edit, Changes, Marks, TypeOK, Places, Backends, Nothing
<1>4. CopyInv(d)'
  BY <1>1 DEF Edit, Changes, Marks, TypeOK, Part, CopyInv, Nothing
<1>5. HandleInv(d)'
  BY <1>1 DEF Edit, Changes, Marks, TypeOK, Part, HandleInv
<1>6. DebtInv(d)'
  BY <1>1 DEF Edit, Changes, Marks, TypeOK, Part, DebtInv, HandleInv
<1>7. Isolates(d)'
  BY <1>1 DEF Edit, Changes, Marks, TypeOK, Isolates
<1> QED
  BY <1>2, <1>3, <1>4, <1>5, <1>6, <1>7, OnlyItsOwn DEF Part

(* A change that raises is checked by nobody.                              *)
LEMMA EditRaisesStep == ASSUME IInv, NEW d \in Drivers, EditRaises(d) PROVE IInv'
<1>1. TypeOK /\ Part(d) /\ Isolates(d)
  BY DEF IInv, Part, UntrustedIsIsolated, Isolates
<1>2. Local(d)
  BY <1>1, ConstantsAssumption DEF EditRaises, Goes, Changes, Local, TypeOK
<1>3. TypeOK'
  BY <1>1, ConstantsAssumption DEF EditRaises, Goes, Changes, TypeOK, Places, Backends, Nothing
<1>4. CopyInv(d)'
  BY <1>1 DEF EditRaises, Goes, Changes, TypeOK, Part, CopyInv, Nothing
<1>5. HandleInv(d)'
  BY <1>1 DEF EditRaises, Goes, Changes, TypeOK, Part, HandleInv
<1>6. DebtInv(d)'
  BY <1>1 DEF EditRaises, Goes, Changes, TypeOK, Part, DebtInv, HandleInv
<1>7. Isolates(d)'
  BY <1>1 DEF EditRaises, Goes, Changes, TypeOK, Isolates
<1> QED
  BY <1>2, <1>3, <1>4, <1>5, <1>6, <1>7, OnlyItsOwn DEF Part

(* The rollback comes after the last check.                                *)
LEMMA RollBackStep == ASSUME IInv, NEW d \in Drivers, RollBack(d) PROVE IInv'
<1>1. TypeOK /\ Part(d) /\ Isolates(d)
  BY DEF IInv, Part, UntrustedIsIsolated, Isolates
<1>2. Local(d)
  BY <1>1, ConstantsAssumption DEF RollBack, Goes, Local, TypeOK
<1>3. TypeOK'
  BY <1>1, ConstantsAssumption DEF RollBack, Goes, TypeOK, Places, Backends, Nothing
<1>4. CopyInv(d)'
  BY <1>1 DEF RollBack, Goes, TypeOK, Part, CopyInv, Nothing
<1>5. HandleInv(d)'
  BY <1>1 DEF RollBack, Goes, TypeOK, Part, HandleInv
<1>6. DebtInv(d)'
  BY <1>1 DEF RollBack, Goes, TypeOK, Part, DebtInv, HandleInv
<1>7. Isolates(d)'
  BY <1>1 DEF RollBack, Goes, TypeOK, Isolates
<1> QED
  BY <1>2, <1>3, <1>4, <1>5, <1>6, <1>7, OnlyItsOwn DEF Part

(* A local command needs no box.                                           *)
LEMMA ExecLocalStep == ASSUME IInv, NEW d \in Drivers, ExecLocal(d) PROVE IInv'
<1>1. TypeOK /\ Part(d) /\ Isolates(d)
  BY DEF IInv, Part, UntrustedIsIsolated, Isolates
<1>2. Local(d)
  BY <1>1, ConstantsAssumption DEF ExecLocal, Goes, Local, TypeOK
<1>3. TypeOK'
  BY <1>1, ConstantsAssumption DEF ExecLocal, Goes, TypeOK, Places, Backends, Nothing
<1>4. CopyInv(d)'
  BY <1>1 DEF ExecLocal, Goes, TypeOK, Part, CopyInv, Nothing
<1>5. HandleInv(d)'
  BY <1>1 DEF ExecLocal, Goes, TypeOK, Part, HandleInv
<1>6. DebtInv(d)'
  BY <1>1 DEF ExecLocal, Goes, TypeOK, Part, DebtInv, HandleInv
<1>7. Isolates(d)'
  BY <1>1 DEF ExecLocal, Goes, TypeOK, Isolates
<1> QED
  BY <1>2, <1>3, <1>4, <1>5, <1>6, <1>7, OnlyItsOwn DEF Part

(* A container has a handle at once.                                       *)
LEMMA ExecInContainerStep == ASSUME IInv, NEW d \in Drivers, ExecInContainer(d) PROVE IInv'
<1>1. TypeOK /\ Part(d) /\ Isolates(d)
  BY DEF IInv, Part, UntrustedIsIsolated, Isolates
<1>2. Local(d)
  BY <1>1, ConstantsAssumption DEF ExecInContainer, Goes, Local, TypeOK
<1>3. TypeOK'
  BY <1>1, ConstantsAssumption DEF ExecInContainer, Goes, TypeOK, Places, Backends, Nothing
<1>4. CopyInv(d)'
  BY <1>1 DEF ExecInContainer, Goes, TypeOK, Part, CopyInv, Nothing
<1>5. HandleInv(d)'
  BY <1>1 DEF ExecInContainer, Goes, TypeOK, Part, HandleInv
<1>6. DebtInv(d)'
  BY <1>1 DEF ExecInContainer, Goes, TypeOK, Part, DebtInv, HandleInv
<1>7. Isolates(d)'
  BY <1>1 DEF ExecInContainer, Goes, TypeOK, Isolates
<1> QED
  BY <1>2, <1>3, <1>4, <1>5, <1>6, <1>7, OnlyItsOwn DEF Part

(* A container that could not be started is a mishap of its own.           *)
LEMMA NoContainerStep == ASSUME IInv, NEW d \in Drivers, NoContainer(d) PROVE IInv'
<1>1. TypeOK /\ Part(d) /\ Isolates(d)
  BY DEF IInv, Part, UntrustedIsIsolated, Isolates
<1>2. Local(d)
  BY <1>1, ConstantsAssumption DEF NoContainer, Goes, Mishap, Local, TypeOK
<1>3. TypeOK'
  BY <1>1, ConstantsAssumption DEF NoContainer, Goes, Mishap, TypeOK, Places, Backends, Nothing
<1>4. CopyInv(d)'
  BY <1>1 DEF NoContainer, Goes, Mishap, TypeOK, Part, CopyInv, Nothing
<1>5. HandleInv(d)'
  BY <1>1 DEF NoContainer, Goes, Mishap, TypeOK, Part, HandleInv
<1>6. DebtInv(d)'
  BY <1>1 DEF NoContainer, Goes, Mishap, TypeOK, Part, DebtInv, HandleInv
<1>7. Isolates(d)'
  BY <1>1 DEF NoContainer, Goes, Mishap, TypeOK, Isolates
<1> QED
  BY <1>2, <1>3, <1>4, <1>5, <1>6, <1>7, OnlyItsOwn DEF Part

(* A pod that is ready was made and has a handle.                          *)
LEMMA ExecInPodStep == ASSUME IInv, NEW d \in Drivers, ExecInPod(d) PROVE IInv'
<1>1. TypeOK /\ Part(d) /\ Isolates(d)
  BY DEF IInv, Part, UntrustedIsIsolated, Isolates
<1>2. Local(d)
  BY <1>1, ConstantsAssumption DEF ExecInPod, Goes, Local, TypeOK
<1>3. TypeOK'
  BY <1>1, ConstantsAssumption DEF ExecInPod, Goes, TypeOK, Places, Backends, Nothing
<1>4. CopyInv(d)'
  BY <1>1 DEF ExecInPod, Goes, TypeOK, Part, CopyInv, Nothing
<1>5. HandleInv(d)'
  BY <1>1 DEF ExecInPod, Goes, TypeOK, Part, HandleInv
<1>6. DebtInv(d)'
  BY <1>1 DEF ExecInPod, Goes, TypeOK, Part, DebtInv, HandleInv
<1>7. Isolates(d)'
  BY <1>1 DEF ExecInPod, Goes, TypeOK, Isolates
<1> QED
  BY <1>2, <1>3, <1>4, <1>5, <1>6, <1>7, OnlyItsOwn DEF Part

(* A new pod has no handle yet.                                            *)
LEMMA CreatePodStep == ASSUME IInv, NEW d \in Drivers, CreatePod(d) PROVE IInv'
<1>1. TypeOK /\ Part(d) /\ Isolates(d)
  BY DEF IInv, Part, UntrustedIsIsolated, Isolates
<1>2. Local(d)
  BY <1>1, ConstantsAssumption DEF CreatePod, Goes, Mishap, Local, TypeOK
<1>3. TypeOK'
  <2>1. mishaps[d] < MaxMishaps => mishaps[d] + 1 \in 0 .. MaxMishaps
    BY <1>1, ConstantsAssumption DEF TypeOK
  <2>2. mishaps' = mishaps \/ Mishap(d)
    BY DEF CreatePod
  <2>4. mishaps' \in [Drivers -> 0 .. MaxMishaps]
    BY <1>1, <2>1, <2>2 DEF Mishap, TypeOK
  <2>5. box' \in [Drivers -> BOOLEAN]
    BY <1>1 DEF CreatePod, TypeOK
  <2>3. /\ at' \in [Drivers -> Places]
        /\ \A e \in Drivers : at'[e] = "off" <=> backend[e] = "none"
    BY <1>1 DEF CreatePod, Goes, TypeOK, Places
  <2> QED
    BY <1>1, <2>3, <2>4, <2>5 DEF CreatePod, TypeOK
<1>4. CopyInv(d)'
  BY <1>1 DEF CreatePod, Goes, Mishap, TypeOK, Part, CopyInv, Nothing
<1>5. HandleInv(d)'
  BY <1>1 DEF CreatePod, Goes, Mishap, TypeOK, Part, HandleInv
<1>6. DebtInv(d)'
  BY <1>1 DEF CreatePod, Goes, Mishap, TypeOK, Part, DebtInv, HandleInv
<1>7. Isolates(d)'
  BY <1>1 DEF CreatePod, Goes, Mishap, TypeOK, Isolates
<1> QED
  BY <1>2, <1>3, <1>4, <1>5, <1>6, <1>7, OnlyItsOwn DEF Part

(* The pod that runs is the one that was made.                             *)
LEMMA PodRunsStep == ASSUME IInv, NEW d \in Drivers, PodRuns(d) PROVE IInv'
<1>1. TypeOK /\ Part(d) /\ Isolates(d)
  BY DEF IInv, Part, UntrustedIsIsolated, Isolates
<1>2. Local(d)
  BY <1>1, ConstantsAssumption DEF PodRuns, Goes, Local, TypeOK
<1>3. TypeOK'
  BY <1>1, ConstantsAssumption DEF PodRuns, Goes, TypeOK, Places, Backends, Nothing
<1>4. CopyInv(d)'
  BY <1>1 DEF PodRuns, Goes, TypeOK, Part, CopyInv, Nothing
<1>5. HandleInv(d)'
  BY <1>1 DEF PodRuns, Goes, TypeOK, Part, HandleInv
<1>6. DebtInv(d)'
  BY <1>1 DEF PodRuns, Goes, TypeOK, Part, DebtInv, HandleInv
<1>7. Isolates(d)'
  BY <1>1 DEF PodRuns, Goes, TypeOK, Isolates
<1> QED
  BY <1>2, <1>3, <1>4, <1>5, <1>6, <1>7, OnlyItsOwn DEF Part

(* The pod that is not deleted is charged when it is given up.             *)
LEMMA PodIsLateStep == ASSUME IInv, NEW d \in Drivers, PodIsLate(d) PROVE IInv'
<1>1. TypeOK /\ Part(d) /\ Isolates(d)
  BY DEF IInv, Part, UntrustedIsIsolated, Isolates
<1>2. Local(d)
  BY <1>1, ConstantsAssumption DEF PodIsLate, Goes, Mishap, Local, TypeOK
<1>3. TypeOK'
  BY <1>1, ConstantsAssumption DEF PodIsLate, Goes, Mishap, TypeOK, Places, Backends, Nothing
<1>4. CopyInv(d)'
  BY <1>1 DEF PodIsLate, Goes, Mishap, TypeOK, Part, CopyInv, Nothing
<1>5. HandleInv(d)'
  BY <1>1 DEF PodIsLate, Goes, Mishap, TypeOK, Part, HandleInv
<1>6. DebtInv(d)'
  BY <1>1 DEF PodIsLate, Goes, Mishap, TypeOK, Part, DebtInv, HandleInv
<1>7. Isolates(d)'
  BY <1>1 DEF PodIsLate, Goes, Mishap, TypeOK, Isolates
<1> QED
  BY <1>2, <1>3, <1>4, <1>5, <1>6, <1>7, OnlyItsOwn DEF Part

(* A transfer takes the tree as it is, which has the changes of the drive. *)
LEMMA SyncStep == ASSUME IInv, NEW d \in Drivers, Sync(d) PROVE IInv'
<1>1. TypeOK /\ Part(d) /\ Isolates(d)
  BY DEF IInv, Part, UntrustedIsIsolated, Isolates
<1>2. Local(d)
  BY <1>1, ConstantsAssumption DEF Sync, Goes, Mishap, Local, TypeOK
<1>3. TypeOK'
  <2>1. /\ Nothing \in Nothing .. MaxEdits /\ tree \in Nothing .. MaxEdits
        /\ mishaps[d] < MaxMishaps => mishaps[d] + 1 \in 0 .. MaxMishaps
    BY <1>1, ConstantsAssumption DEF TypeOK, Nothing
  <2>2. copy' \in [Drivers -> Nothing .. MaxEdits]
    BY <1>1, <2>1 DEF Sync, TypeOK
  <2>3. mishaps' \in [Drivers -> 0 .. MaxMishaps]
    BY <1>1, <2>1 DEF Sync, Mishap, TypeOK
  <2>4. dirty' \in [Drivers -> BOOLEAN] /\ torn' \in [Drivers -> BOOLEAN]
    BY <1>1 DEF Sync, TypeOK
  <2>5. /\ at' \in [Drivers -> Places]
        /\ \A e \in Drivers : at'[e] = "off" <=> backend[e] = "none"
    BY <1>1 DEF Sync, Goes, TypeOK, Places
  <2> QED
    BY <1>1, <2>2, <2>3, <2>4, <2>5 DEF Sync, TypeOK
<1>4. CopyInv(d)'
  BY <1>1 DEF Sync, Goes, Mishap, TypeOK, Part, CopyInv, Nothing
<1>5. HandleInv(d)'
  BY <1>1 DEF Sync, Goes, Mishap, TypeOK, Part, HandleInv
<1>6. DebtInv(d)'
  BY <1>1 DEF Sync, Goes, Mishap, TypeOK, Part, DebtInv, HandleInv
<1>7. Isolates(d)'
  BY <1>1 DEF Sync, Goes, Mishap, TypeOK, Isolates
<1> QED
  BY <1>2, <1>3, <1>4, <1>5, <1>6, <1>7, OnlyItsOwn DEF Part

(* The next check finds what this one found.                               *)
LEMMA CheckEndsStep == ASSUME IInv, NEW d \in Drivers, CheckEnds(d) PROVE IInv'
<1>1. TypeOK /\ Part(d) /\ Isolates(d)
  BY DEF IInv, Part, UntrustedIsIsolated, Isolates
<1>2. Local(d)
  BY <1>1, ConstantsAssumption DEF CheckEnds, Goes, Local, TypeOK
<1>3. TypeOK'
  BY <1>1, ConstantsAssumption DEF CheckEnds, Goes, TypeOK, Places, Backends, Nothing
<1>4. CopyInv(d)'
  BY <1>1 DEF CheckEnds, Goes, TypeOK, Part, CopyInv, Nothing
<1>5. HandleInv(d)'
  BY <1>1 DEF CheckEnds, Goes, TypeOK, Part, HandleInv
<1>6. DebtInv(d)'
  BY <1>1 DEF CheckEnds, Goes, TypeOK, Part, DebtInv, HandleInv
<1>7. Isolates(d)'
  BY <1>1 DEF CheckEnds, Goes, TypeOK, Isolates
<1> QED
  BY <1>2, <1>3, <1>4, <1>5, <1>6, <1>7, OnlyItsOwn DEF Part

(* A drive that leaves keeps its handle for teardown.                      *)
LEMMA LeaveStep == ASSUME IInv, NEW d \in Drivers, Leave(d) PROVE IInv'
<1>1. TypeOK /\ Part(d) /\ Isolates(d)
  BY DEF IInv, Part, UntrustedIsIsolated, Isolates
<1>2. Local(d)
  BY <1>1, ConstantsAssumption DEF Leave, Goes, Local, TypeOK
<1>3. TypeOK'
  BY <1>1, ConstantsAssumption DEF Leave, Goes, TypeOK, Places, Backends, Nothing
<1>4. CopyInv(d)'
  BY <1>1 DEF Leave, Goes, TypeOK, Part, CopyInv, Nothing
<1>5. HandleInv(d)'
  BY <1>1 DEF Leave, Goes, TypeOK, Part, HandleInv
<1>6. DebtInv(d)'
  BY <1>1 DEF Leave, Goes, TypeOK, Part, DebtInv, HandleInv
<1>7. Isolates(d)'
  BY <1>1 DEF Leave, Goes, TypeOK, Isolates
<1> QED
  BY <1>2, <1>3, <1>4, <1>5, <1>6, <1>7, OnlyItsOwn DEF Part

(* No box is left where none was.                                          *)
LEMMA NoTeardownStep == ASSUME IInv, NEW d \in Drivers, NoTeardown(d) PROVE IInv'
<1>1. TypeOK /\ Part(d) /\ Isolates(d)
  BY DEF IInv, Part, UntrustedIsIsolated, Isolates
<1>2. Local(d)
  BY <1>1, ConstantsAssumption DEF NoTeardown, Goes, Forgets, Mishap, Local, TypeOK
<1>9. \E leaves \in BOOLEAN : Forgets(d, leaves)
  BY <1>1 DEF NoTeardown, TypeOK
<1>3. TypeOK'
  <2>1. mishaps' \in [Drivers -> 0 .. MaxMishaps]
    <3>1. mishaps' = mishaps \/ Mishap(d)
      BY DEF NoTeardown
    <3>2. ASSUME Mishap(d) PROVE mishaps[d] + 1 \in 0 .. MaxMishaps
      BY <1>1, <3>2, ConstantsAssumption DEF Mishap, TypeOK
    <3> QED
      BY <1>1, <3>1, <3>2 DEF Mishap, TypeOK
  <2>2. /\ copy' \in [Drivers -> Nothing .. MaxEdits] /\ mine' \in [Drivers -> 0 .. MaxEdits]
        /\ left' \in [Drivers -> Nat]
    BY <1>1, <1>9, ConstantsAssumption DEF Forgets, TypeOK, Nothing
  <2>3. /\ at' \in [Drivers -> Places] /\ backend' \in [Drivers -> Backends \cup { "none" }]
        /\ \A e \in Drivers : at'[e] = "off" <=> backend'[e] = "none"
    BY <1>1, <1>9 DEF Goes, Forgets, TypeOK, Places
  <2>4. /\ handle' \in [Drivers -> BOOLEAN] /\ dirty' \in [Drivers -> BOOLEAN]
        /\ box' \in [Drivers -> BOOLEAN] /\ torn' \in [Drivers -> BOOLEAN]
    BY <1>1, <1>9 DEF Forgets, TypeOK
  <2> QED
    BY <1>1, <2>1, <2>2, <2>3, <2>4 DEF NoTeardown, TypeOK
<1>4. CopyInv(d)'
  BY <1>1 DEF NoTeardown, Goes, Forgets, Mishap, TypeOK, Part, CopyInv, Nothing
<1>5. HandleInv(d)'
  BY <1>1, <1>9 DEF Goes, Forgets, TypeOK, HandleInv
<1>6. DebtInv(d)'
  BY <1>1 DEF NoTeardown, Goes, Forgets, Mishap, TypeOK, Part, DebtInv, HandleInv
<1>7. Isolates(d)'
  BY <1>1 DEF NoTeardown, Goes, Forgets, Mishap, TypeOK, Isolates
<1> QED
  BY <1>2, <1>3, <1>4, <1>5, <1>6, <1>7, OnlyItsOwn DEF Part

(* The container is removed, or there was a mishap.                        *)
LEMMA RemoveContainerStep == ASSUME IInv, NEW d \in Drivers, RemoveContainer(d) PROVE IInv'
<1>1. TypeOK /\ Part(d) /\ Isolates(d)
  BY DEF IInv, Part, UntrustedIsIsolated, Isolates
<1>2. Local(d)
  BY <1>1, ConstantsAssumption DEF RemoveContainer, Goes, Forgets, Mishap, Local, TypeOK
<1>9. \E leaves \in BOOLEAN : Forgets(d, leaves)
  BY <1>1 DEF RemoveContainer, TypeOK
<1>3. TypeOK'
  <2>1. mishaps' \in [Drivers -> 0 .. MaxMishaps]
    <3>1. mishaps' = mishaps \/ Mishap(d)
      BY DEF RemoveContainer
    <3>2. ASSUME Mishap(d) PROVE mishaps[d] + 1 \in 0 .. MaxMishaps
      BY <1>1, <3>2, ConstantsAssumption DEF Mishap, TypeOK
    <3> QED
      BY <1>1, <3>1, <3>2 DEF Mishap, TypeOK
  <2>2. /\ copy' \in [Drivers -> Nothing .. MaxEdits] /\ mine' \in [Drivers -> 0 .. MaxEdits]
        /\ left' \in [Drivers -> Nat]
    BY <1>1, <1>9, ConstantsAssumption DEF Forgets, TypeOK, Nothing
  <2>3. /\ at' \in [Drivers -> Places] /\ backend' \in [Drivers -> Backends \cup { "none" }]
        /\ \A e \in Drivers : at'[e] = "off" <=> backend'[e] = "none"
    BY <1>1, <1>9 DEF Goes, Forgets, TypeOK, Places
  <2>4. /\ handle' \in [Drivers -> BOOLEAN] /\ dirty' \in [Drivers -> BOOLEAN]
        /\ box' \in [Drivers -> BOOLEAN] /\ torn' \in [Drivers -> BOOLEAN]
    BY <1>1, <1>9 DEF Forgets, TypeOK
  <2> QED
    BY <1>1, <2>1, <2>2, <2>3, <2>4 DEF RemoveContainer, TypeOK
<1>4. CopyInv(d)'
  BY <1>1 DEF RemoveContainer, Goes, Forgets, Mishap, TypeOK, Part, CopyInv, Nothing
<1>5. HandleInv(d)'
  BY <1>1, <1>9 DEF Goes, Forgets, TypeOK, HandleInv
<1>6. DebtInv(d)'
  BY <1>1 DEF RemoveContainer, Goes, Forgets, Mishap, TypeOK, Part, DebtInv, HandleInv
<1>7. Isolates(d)'
  BY <1>1 DEF RemoveContainer, Goes, Forgets, Mishap, TypeOK, Isolates
<1> QED
  BY <1>2, <1>3, <1>4, <1>5, <1>6, <1>7, OnlyItsOwn DEF Part

(* The pod is deleted, was never made, or there was a mishap.              *)
LEMMA DeletePodStep == ASSUME IInv, NEW d \in Drivers, DeletePod(d) PROVE IInv'
<1>1. TypeOK /\ Part(d) /\ Isolates(d)
  BY DEF IInv, Part, UntrustedIsIsolated, Isolates
<1>2. Local(d)
  BY <1>1, ConstantsAssumption DEF DeletePod, Goes, Forgets, Mishap, Local, TypeOK
<1>9. \E leaves \in BOOLEAN : Forgets(d, leaves)
  BY <1>1 DEF DeletePod, TypeOK
<1>3. TypeOK'
  <2>1. mishaps' \in [Drivers -> 0 .. MaxMishaps]
    <3>1. mishaps' = mishaps \/ Mishap(d)
      BY DEF DeletePod
    <3>2. ASSUME Mishap(d) PROVE mishaps[d] + 1 \in 0 .. MaxMishaps
      BY <1>1, <3>2, ConstantsAssumption DEF Mishap, TypeOK
    <3> QED
      BY <1>1, <3>1, <3>2 DEF Mishap, TypeOK
  <2>2. /\ copy' \in [Drivers -> Nothing .. MaxEdits] /\ mine' \in [Drivers -> 0 .. MaxEdits]
        /\ left' \in [Drivers -> Nat]
    BY <1>1, <1>9, ConstantsAssumption DEF Forgets, TypeOK, Nothing
  <2>3. /\ at' \in [Drivers -> Places] /\ backend' \in [Drivers -> Backends \cup { "none" }]
        /\ \A e \in Drivers : at'[e] = "off" <=> backend'[e] = "none"
    BY <1>1, <1>9 DEF Goes, Forgets, TypeOK, Places
  <2>4. /\ handle' \in [Drivers -> BOOLEAN] /\ dirty' \in [Drivers -> BOOLEAN]
        /\ box' \in [Drivers -> BOOLEAN] /\ torn' \in [Drivers -> BOOLEAN]
    BY <1>1, <1>9 DEF Forgets, TypeOK
  <2> QED
    BY <1>1, <2>1, <2>2, <2>3, <2>4 DEF DeletePod, TypeOK
<1>4. CopyInv(d)'
  BY <1>1 DEF DeletePod, Goes, Forgets, Mishap, TypeOK, Part, CopyInv, Nothing
<1>5. HandleInv(d)'
  BY <1>1, <1>9 DEF Goes, Forgets, TypeOK, HandleInv
<1>6. DebtInv(d)'
  BY <1>1 DEF DeletePod, Goes, Forgets, Mishap, TypeOK, Part, DebtInv, HandleInv
<1>7. Isolates(d)'
  BY <1>1 DEF DeletePod, Goes, Forgets, Mishap, TypeOK, Isolates
<1> QED
  BY <1>2, <1>3, <1>4, <1>5, <1>6, <1>7, OnlyItsOwn DEF Part

(* A kill is a mishap.                                                     *)
LEMMA KilledStep == ASSUME IInv, NEW d \in Drivers, Killed(d) PROVE IInv'
<1>1. TypeOK /\ Part(d) /\ Isolates(d)
  BY DEF IInv, Part, UntrustedIsIsolated, Isolates
<1>2. Local(d)
  BY <1>1, ConstantsAssumption DEF Killed, Goes, Forgets, Mishap, Local, TypeOK
<1>3. TypeOK'
  BY <1>1, ConstantsAssumption DEF Killed, Goes, Forgets, Mishap, TypeOK, Places, Backends, Nothing
<1>4. CopyInv(d)'
  BY <1>1 DEF Killed, Goes, Forgets, Mishap, TypeOK, Part, CopyInv, Nothing
<1>5. HandleInv(d)'
  BY <1>1 DEF Killed, Goes, Forgets, Mishap, TypeOK, Part, HandleInv
<1>6. DebtInv(d)'
  BY <1>1 DEF Killed, Goes, Forgets, Mishap, TypeOK, Part, DebtInv, HandleInv
<1>7. Isolates(d)'
  BY <1>1 DEF Killed, Goes, Forgets, Mishap, TypeOK, Isolates
<1> QED
  BY <1>2, <1>3, <1>4, <1>5, <1>6, <1>7, OnlyItsOwn DEF Part

-----------------------------------------------------------------------------
(* The theorems *)

(* Every step keeps the invariant. *)
LEMMA StepHolds == IInv /\ [Next]_vars => IInv'
<1> SUFFICES ASSUME IInv, [Next]_vars PROVE IInv'
  OBVIOUS
<1>1. CASE UNCHANGED vars
  BY <1>1 DEF vars, driveVars, IInv, TypeOK, UntrustedIsIsolated, CopyInv, HandleInv, DebtInv
<1>2. CASE Next
  <2>1. PICK d \in Drivers :
          \/ Attach(d) \/ Edit(d) \/ EditRaises(d) \/ RollBack(d)
          \/ Check(d)
          \/ Leave(d) \/ Teardown(d) \/ Killed(d)
    BY <1>2 DEF Next
  <2>2. CASE Attach(d)
    BY <2>2, AttachStep
  <2>3. CASE Edit(d)
    BY <2>3, EditStep
  <2>4. CASE EditRaises(d)
    BY <2>4, EditRaisesStep
  <2>5. CASE RollBack(d)
    BY <2>5, RollBackStep
  <2>6. CASE Check(d)
    BY <2>6, ExecLocalStep, ExecInContainerStep, NoContainerStep, ExecInPodStep,
       CreatePodStep, PodRunsStep, PodIsLateStep, SyncStep, CheckEndsStep DEF Check
  <2>7. CASE Leave(d) \/ Teardown(d) \/ Killed(d)
    BY <2>7, LeaveStep, NoTeardownStep, RemoveContainerStep, DeletePodStep, KilledStep
       DEF Teardown
  <2> QED
    BY <2>1, <2>2, <2>3, <2>4, <2>5, <2>6, <2>7
<1> QED
  BY <1>1, <1>2

(* What the theorems have in common. *)
LEMMA Invariance == Spec => []IInv
  BY InitHolds, StepHolds, PTL DEF Spec

(* Every variable keeps its type, and select_sandbox never leaves a drive  *)
(* to go on without a sandbox.                                             *)
THEOREM TypeCorrect == Spec => []TypeOK
<1>1. IInv => TypeOK
  BY DEF IInv
<1> QED
  BY <1>1, Invariance, PTL

(* However many drives edit one tree, each with a flag of its own: a check *)
(* never misses a change its own drive made or found.                      *)
THEOREM ChecksAreCurrent == Spec => []ChecksSeeOwnEdits
<1>1. IInv => ChecksSeeOwnEdits
  <2> SUFFICES ASSUME IInv, NEW d \in Drivers, at[d] = "checking"
               PROVE  torn[d] \/ Content(d) >= mine[d]
    BY DEF ChecksSeeOwnEdits
  <2>1. mine[d] \in Int /\ tree \in Int /\ CopyInv(d)
    BY DEF IInv, TypeOK
  <2> QED
    BY <2>1 DEF CopyInv, Content
<1> QED
  BY <1>1, Invariance, PTL

(* No way out of a drive but a mishap leaves a container or a pod behind,  *)
(* and none leaves two.                                                    *)
THEOREM BoxesAreRemoved == Spec => []BoxesAreAccounted
<1>1. IInv => BoxesAreAccounted
  BY DEF IInv, DebtInv, BoxesAreAccounted
<1> QED
  BY <1>1, Invariance, PTL

(* select_sandbox fails closed, in every drive of a run.                   *)
THEOREM IsolationHolds == Spec => []UntrustedIsIsolated
<1>1. IInv => UntrustedIsIsolated
  BY DEF IInv
<1> QED
  BY <1>1, Invariance, PTL

=============================================================================
