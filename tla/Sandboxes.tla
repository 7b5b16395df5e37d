------------------------------ MODULE Sandboxes ------------------------------
(***************************************************************************)
(* The working tree of one run and the sandboxes its checks run in.  Every *)
(* drive attaches a sandbox of its own (select_sandbox): a subprocess in   *)
(* the tree, a container with the tree mounted, or a pod with a copy of    *)
(* the tree that is sent before a check while _dirty is set.  Two drives   *)
(* of one run edit the same tree, as a worker that recovers a run another  *)
(* process still drives does.                                              *)
(*                                                                         *)
(* The content of the tree is the number of changes made to it.  What a    *)
(* command does, and what docker and Kubernetes do, is a choice; clocks    *)
(* are left out: a pod runs in time, or it does not.                       *)
(***************************************************************************)
EXTENDS Integers

CONSTANTS
  Drivers,     \* processes that drive the run, one drive after the other
  Modes,       \* values of HARNESS_SANDBOX
  MaxEdits,    \* bound: changes of the tree
  MaxMishaps   \* bound, by driver: kills, failed calls and late pods

ASSUME ConstantsAssumption ==
  /\ Modes \subseteq { "local", "docker", "k8s", "auto" }
  /\ MaxEdits \in Nat /\ MaxMishaps \in Nat

VARIABLES
  settings,  \* HARNESS_SANDBOX, is the source of the run trusted, and
             \* HARNESS_ALLOW_LOCAL_UNTRUSTED
  tree,      \* the working tree on the host
  at,        \* by driver: what its drive does
  backend,   \* by driver: the kind of its sandbox
  handle,    \* by driver: _container is set, or _pod_ready
  dirty,     \* by driver: _dirty
  box,       \* by driver: its sandbox has made a container or pod, not removed
  copy,      \* by driver: the tree its pod has, or Nothing
  torn,      \* by driver: the last transfer into its pod broke unnoticed
  mine,      \* history, by driver: the tree as its drive attached or edited it
  left,      \* history, by driver: boxes that outlive the drive they belong to
  mishaps    \* history, by driver: kills, failed calls and late pods

driveVars == << at, backend, handle, dirty, box, copy, torn, mine >>
vars == << settings, tree, driveVars, left, mishaps >>

Places == { "off", "idle", "starting", "syncing", "checking", "closing" }
Backends == { "local", "docker", "k8s" }
Nothing == -1

Init ==
  /\ settings \in [mode : Modes, trusted : BOOLEAN, allowed : BOOLEAN]
  /\ tree = 0
  /\ at = [d \in Drivers |-> "off"] /\ backend = [d \in Drivers |-> "none"]
  /\ handle = [d \in Drivers |-> FALSE] /\ dirty = [d \in Drivers |-> FALSE]
  /\ box = [d \in Drivers |-> FALSE] /\ copy = [d \in Drivers |-> Nothing]
  /\ torn = [d \in Drivers |-> FALSE] /\ mine = [d \in Drivers |-> 0]
  /\ left = [d \in Drivers |-> 0] /\ mishaps = [d \in Drivers |-> 0]

-----------------------------------------------------------------------------
(* Helpers *)

Goes(d, place) == at' = [at EXCEPT ![d] = place]

Mishap(d) ==
  /\ mishaps[d] < MaxMishaps
  /\ mishaps' = [mishaps EXCEPT ![d] = @ + 1]

(* The pod does not have the tree.  Only that of a pod is ever looked at. *)
Marks(d) == dirty' = [dirty EXCEPT ![d] = TRUE]

(* The tree becomes n by the hand of d. *)
Changes(d, n) ==
  /\ n <= MaxEdits
  /\ tree' = n /\ mine' = [mine EXCEPT ![d] = n]

(* Nothing of the sandbox object remains; its box may. *)
Forgets(d, leaves) ==
  /\ Goes(d, "off") /\ backend' = [backend EXCEPT ![d] = "none"]
  /\ handle' = [handle EXCEPT ![d] = FALSE] /\ dirty' = [dirty EXCEPT ![d] = FALSE]
  /\ box' = [box EXCEPT ![d] = FALSE] /\ copy' = [copy EXCEPT ![d] = Nothing]
  /\ torn' = [torn EXCEPT ![d] = FALSE] /\ mine' = [mine EXCEPT ![d] = 0]
  /\ left' = [left EXCEPT ![d] = IF leaves THEN @ + 1 ELSE @]

-----------------------------------------------------------------------------
(* Attaching: _attach_sandbox and select_sandbox *)

(* What docker may answer: no daemon, no image, or the image. *)
Daemons == { "down", "bare", "image" }

(* Deliberately wrong: without docker any source falls back to local. *)
ChoiceOfAny(daemon) ==
  CASE settings.mode = "k8s" -> "k8s"
    [] settings.mode \in { "docker", "auto" } /\ daemon = "image" -> "docker"
    [] settings.mode \in { "local", "auto" } -> "local"
    [] OTHER -> "none"

(* The kind of sandbox, or "none" when select_sandbox raises. *)
Choice(daemon) ==
  CASE settings.mode = "k8s" -> "k8s"
    [] settings.mode \in { "docker", "auto" } /\ daemon = "image" -> "docker"
    [] settings.mode \in { "local", "auto" } /\ (settings.trusted \/ settings.allowed) -> "local"
    [] OTHER -> "none"

(* Deliberately wrong: a refusal is not noticed. *)
AttachAnyway(d) ==
  /\ at[d] = "off"
  /\ \E daemon \in Daemons :
       backend' = [backend EXCEPT ![d] = Choice(daemon)]
  /\ Goes(d, "idle") /\ Marks(d) /\ mine' = [mine EXCEPT ![d] = tree]
  /\ UNCHANGED << settings, tree, handle, box, copy, torn, left, mishaps >>

Attach(d) ==
  /\ at[d] = "off"
  /\ \E daemon \in Daemons :
       /\ Choice(daemon) # "none"
       /\ backend' = [backend EXCEPT ![d] = Choice(daemon)]
  /\ Goes(d, "idle") /\ Marks(d) /\ mine' = [mine EXCEPT ![d] = tree]
  /\ UNCHANGED << settings, tree, handle, box, copy, torn, left, mishaps >>

-----------------------------------------------------------------------------
(* The tree: the file tools of the Executor, and git *)

(* Deliberately wrong: the pod is not told of an edit. *)
EditUnmarked(d) ==
  /\ at[d] = "idle"
  /\ \E n \in { tree, tree + 1 } : Changes(d, n)
  /\ UNCHANGED << settings, at, backend, handle, dirty, box, copy, torn, left, mishaps >>

(* write_file or delete_file, one edit of a patch each; to delete a file   *)
(* that is not there changes nothing and sets the flag as well.            *)
Edit(d) ==
  /\ at[d] = "idle"
  /\ \E n \in { tree, tree + 1 } : Changes(d, n)
  /\ Marks(d)
  /\ UNCHANGED << settings, at, backend, handle, box, copy, torn, left, mishaps >>

(* The write itself raises, a file cut short perhaps, before the flag is   *)
(* set: no ToolResult and no ExecError, the drive ends.                    *)
EditRaises(d) ==
  /\ at[d] = "idle"
  /\ \E n \in { tree, tree + 1 } : Changes(d, n)
  /\ Goes(d, "closing")
  /\ UNCHANGED << settings, backend, handle, dirty, box, copy, torn, left, mishaps >>

(* RepoManager.rollback, of a drive that FAILED, and the end of the drive: *)
(* git changes the tree behind every sandbox.                              *)
RollBack(d) ==
  /\ at[d] = "idle" /\ tree < MaxEdits
  /\ tree' = tree + 1
  /\ Goes(d, "closing")
  /\ UNCHANGED << settings, backend, handle, dirty, box, copy, torn, mine, left, mishaps >>

-----------------------------------------------------------------------------
(* A check: exec *)

(* A subprocess, or a group of them that is killed at the timeout. *)
ExecLocal(d) ==
  /\ at[d] = "idle" /\ backend[d] = "local"
  /\ Goes(d, "checking")
  /\ UNCHANGED << settings, tree, backend, handle, dirty, box, copy, torn, mine, left, mishaps >>

(* The container there is, or the one that containers.run returns. *)
ExecInContainer(d) ==
  /\ at[d] = "idle" /\ backend[d] = "docker"
  /\ handle' = [handle EXCEPT ![d] = TRUE] /\ box' = [box EXCEPT ![d] = TRUE]
  /\ Goes(d, "checking")
  /\ UNCHANGED << settings, tree, backend, dirty, copy, torn, mine, left, mishaps >>

(* containers.run raises, and may have made what it could not start. *)
NoContainer(d) ==
  /\ at[d] = "idle" /\ backend[d] = "docker" /\ ~handle[d]
  /\ Mishap(d)
  /\ \E n \in { left[d], left[d] + 1 } : left' = [left EXCEPT ![d] = n]
  /\ Goes(d, "closing")
  /\ UNCHANGED << settings, tree, backend, handle, dirty, box, copy, torn, mine >>

(* The pod is ready: the tree is sent before the command. *)
ExecInPod(d) ==
  /\ at[d] = "idle" /\ backend[d] = "k8s" /\ handle[d]
  /\ Goes(d, "syncing")
  /\ UNCHANGED << settings, tree, backend, handle, dirty, box, copy, torn, mine, left, mishaps >>

(* create_namespaced_pod returns a pod that does not run yet, or raises. *)
CreatePod(d) ==
  /\ at[d] = "idle" /\ backend[d] = "k8s" /\ ~handle[d]
  /\ \/ Goes(d, "starting") /\ box' = [box EXCEPT ![d] = TRUE] /\ mishaps' = mishaps
     \/ Goes(d, "closing") /\ box' = box /\ Mishap(d)
  /\ UNCHANGED << settings, tree, backend, handle, dirty, copy, torn, mine, left >>

PodRuns(d) ==
  /\ at[d] = "starting"
  /\ handle' = [handle EXCEPT ![d] = TRUE]
  /\ Goes(d, "syncing")
  /\ UNCHANGED << settings, tree, backend, dirty, box, copy, torn, mine, left, mishaps >>

(* The pod ended, or k8s_pod_startup_sec passed: RuntimeError. *)
PodIsLate(d) ==
  /\ at[d] = "starting"
  /\ Mishap(d)
  /\ Goes(d, "closing")
  /\ UNCHANGED << settings, tree, backend, handle, dirty, box, copy, torn, mine, left >>

(* _sync_workspace: nothing, or the whole tree.  Nobody looks at what tar  *)
(* returns, and the stream is closed without waiting for it.               *)
Sync(d) ==
  /\ at[d] = "syncing"
  /\ \/ ~dirty[d] /\ UNCHANGED << dirty, copy, torn, mishaps >>
     \/ /\ dirty[d] /\ dirty' = [dirty EXCEPT ![d] = FALSE]
        /\ \/ /\ copy' = [copy EXCEPT ![d] = tree]
              /\ torn' = [torn EXCEPT ![d] = FALSE] /\ mishaps' = mishaps
           \/ /\ copy' = [copy EXCEPT ![d] = Nothing]
              /\ torn' = [torn EXCEPT ![d] = TRUE] /\ Mishap(d)
  /\ Goes(d, "checking")
  /\ UNCHANGED << settings, tree, backend, handle, box, mine, left >>

(* An exit code, or the timeout; the sandbox stays for the next check. *)
CheckEnds(d) ==
  /\ at[d] = "checking"
  /\ Goes(d, "idle")
  /\ UNCHANGED << settings, tree, backend, handle, dirty, box, copy, torn, mine, left, mishaps >>

-----------------------------------------------------------------------------
(* The end of a drive *)

(* A verdict, or an exception of a transfer, a check or a model call. *)
Leave(d) ==
  /\ at[d] \in { "idle", "syncing", "checking" }
  /\ Goes(d, "closing")
  /\ UNCHANGED << settings, tree, backend, handle, dirty, box, copy, torn, mine, left, mishaps >>

(* There is nothing to release for a local sandbox. *)
NoTeardown(d) ==
  /\ at[d] = "closing" /\ backend[d] = "local"
  /\ Forgets(d, FALSE)
  /\ UNCHANGED << settings, tree, mishaps >>

(* The container is removed; when that raises, the handle is gone as well. *)
RemoveContainer(d) ==
  /\ at[d] = "closing" /\ backend[d] = "docker"
  /\ \/ Forgets(d, FALSE) /\ mishaps' = mishaps
     \/ handle[d] /\ Forgets(d, TRUE) /\ Mishap(d)
  /\ UNCHANGED << settings, tree >>

(* Deliberately wrong: teardown is left to the end of the pod itself. *)
PodIsKept(d) ==
  /\ at[d] = "closing" /\ backend[d] = "k8s"
  /\ Forgets(d, box[d])
  /\ UNCHANGED << settings, tree, mishaps >>

(* A pod that was never ready is not looked at; a call that fails is       *)
(* swallowed, and the handle is given up.                                  *)
DeletePod(d) ==
  /\ at[d] = "closing" /\ backend[d] = "k8s"
  /\ \/ ~handle[d] /\ Forgets(d, box[d]) /\ mishaps' = mishaps
     \/ handle[d] /\ Forgets(d, FALSE) /\ mishaps' = mishaps
     \/ handle[d] /\ Forgets(d, TRUE) /\ Mishap(d)
  /\ UNCHANGED << settings, tree >>

(* The process is killed: no finally. *)
Killed(d) ==
  /\ at[d] # "off"
  /\ Mishap(d)
  /\ Forgets(d, box[d])
  /\ UNCHANGED << settings, tree >>

-----------------------------------------------------------------------------
Check(d) ==
  \/ ExecLocal(d) \/ ExecInContainer(d) \/ NoContainer(d)
  \/ ExecInPod(d) \/ CreatePod(d) \/ PodRuns(d) \/ PodIsLate(d) \/ Sync(d)
  \/ CheckEnds(d)

(* The finally of drive(). *)
Teardown(d) == NoTeardown(d) \/ RemoveContainer(d) \/ DeletePod(d)

Next ==
  \E d \in Drivers :
    \/ Attach(d) \/ Edit(d) \/ EditRaises(d) \/ RollBack(d)
    \/ Check(d)
    \/ Leave(d) \/ Teardown(d) \/ Killed(d)

Spec == Init /\ [][Next]_vars

-----------------------------------------------------------------------------
(* Properties *)

(* Every variable has its type; a drive that goes on has a sandbox. *)
TypeOK ==
  /\ settings \in [mode : Modes, trusted : BOOLEAN, allowed : BOOLEAN]
  /\ tree \in 0 .. MaxEdits
  /\ at \in [Drivers -> Places] /\ backend \in [Drivers -> Backends \cup { "none" }]
  /\ handle \in [Drivers -> BOOLEAN] /\ dirty \in [Drivers -> BOOLEAN]
  /\ box \in [Drivers -> BOOLEAN] /\ torn \in [Drivers -> BOOLEAN]
  /\ copy \in [Drivers -> Nothing .. MaxEdits] /\ mine \in [Drivers -> 0 .. MaxEdits]
  /\ left \in [Drivers -> Nat] /\ mishaps \in [Drivers -> 0 .. MaxMishaps]
  /\ \A d \in Drivers : at[d] = "off" <=> backend[d] = "none"

(* What the commands of a check find. *)
Content(d) == IF backend[d] = "k8s" THEN copy[d] ELSE tree

(* A check finds the tree as its drive attached it or changed it last, or  *)
(* a later one: the flag is set by every edit and cleared by no other      *)
(* drive.  Only the changes of another drive may be missing from a pod,    *)
(* and what a transfer that broke lost.                                    *)
ChecksSeeOwnEdits ==
  \A d \in Drivers : at[d] = "checking" => torn[d] \/ Content(d) >= mine[d]

(* As many boxes are left behind as there were kills, failed calls and     *)
(* pods that came late, and no more: whatever way a drive ends otherwise,  *)
(* its box is removed.                                                     *)
BoxesAreAccounted == \A d \in Drivers : left[d] <= mishaps[d]

(* A source that is not trusted is never checked without isolation, unless *)
(* the operator allows it, although what docker answers may change from    *)
(* one drive of a run to the next.                                         *)
UntrustedIsIsolated ==
  \A d \in Drivers : backend[d] = "local" => settings.trusted \/ settings.allowed

=============================================================================
