----------------------------- MODULE Deployment -----------------------------
(***************************************************************************)
(* The installer (src/src/deployment.ts, run by firstmate-gateway-install):*)
(* it builds a verified artifact in a private staging directory, renames   *)
(* the result into `versions`, freezes it and points the `active` link at  *)
(* it; rollback points the link at a version that is already there.  Each  *)
(* action is one file-system call or a group of calls only the process     *)
(* itself can see, so other installers and a crash fall between any two.   *)
(*                                                                         *)
(* A version directory is three parts: the package metadata, the marker    *)
(* with the artifact's digest, and the code, everything else.  The parts   *)
(* matter because rm removes them one by one.                              *)
(***************************************************************************)
EXTENDS Naturals

CONSTANTS
  Process,     \* invocations of the installer; each does one job
  Runtime,     \* names of version directories; an artifact determines its name
  NoRuntime,   \* the active link does not exist
  NoProcess,   \* nobody has placed a directory
  Regimes      \* circumstances to consider: do installers overlap, what may fail

Regime == [overlap : BOOLEAN, faults : SUBSET {"io", "crash"}]

ASSUME DeploymentAssumption == NoRuntime \notin Runtime /\ NoProcess \notin Process /\ Regimes \subseteq Regime

Part == {"package", "marker", "code"}

Job == [kind : {"install", "rollback"}, runtime : Runtime]
NoJob == [kind |-> "none"]

VARIABLES
  regime,     \* the circumstances; they never change
  there,      \* the version directories there are
  parts,      \* what is in each of them
  frozen,     \* each is read-only throughout
  active,     \* where the active link points
  step,       \* the await each process is at
  job,        \* what it was called for
  staging,    \* its staging directory is on disk
  created,    \* it has put its version directory in place and answers for it
  result,     \* what it reported: "none", "ok" or "failed"
  served,     \* the versions the link has ever pointed to
  placer      \* whose rename put each version directory where it is

versions == <<there, parts, frozen, placer>>
vars == <<regime, there, parts, frozen, active, step, job, staging, created, result, served, placer>>

Step == {"ready", "build", "look", "package", "marker", "place", "freeze", "lookup",
         "inspect", "switch", "sweep", "undo", "remove", "rmdir", "clean", "ended", "crashed"}

Running(p) == step[p] \notin {"ready", "ended", "crashed"}

Init ==
  /\ regime \in Regimes
  /\ there = [r \in Runtime |-> FALSE]
  /\ parts = [r \in Runtime |-> {}]
  /\ frozen = [r \in Runtime |-> FALSE]
  /\ active = NoRuntime
  /\ step = [p \in Process |-> "ready"]
  /\ job = [p \in Process |-> NoJob]
  /\ staging = [p \in Process |-> FALSE]
  /\ created = [p \in Process |-> FALSE]
  /\ result = [p \in Process |-> "none"]
  /\ served = {}
  /\ placer = [r \in Runtime |-> NoProcess]

Goto(p, next) == step' = [step EXCEPT ![p] = next]
Report(p, r) == result' = [result EXCEPT ![p] = r]

(* A rejected await of an install ends in its catch block; a rollback has  *)
(* nothing to undo.                                                        *)
Reject(p) ==
  \/ job[p].kind = "install" /\ Goto(p, "undo") /\ UNCHANGED result
  \/ job[p].kind = "rollback" /\ Goto(p, "ended") /\ Report(p, "failed")

(* Once the link is set an install gives up its claim on the version and   *)
(* has its staging directory to sweep; a rollback is done.                 *)
Activated(p) ==
  \/ /\ job[p].kind = "install"
     /\ Goto(p, "sweep")
     /\ created' = [created EXCEPT ![p] = FALSE]
     /\ UNCHANGED result
  \/ /\ job[p].kind = "rollback"
     /\ Goto(p, "ended")
     /\ Report(p, "ok")
     /\ UNCHANGED created

-----------------------------------------------------------------------------
Begin(p) ==
  /\ step[p] = "ready"
  /\ regime.overlap \/ \A q \in Process : ~Running(q)
  /\ \E j \in Job :
       /\ job' = [job EXCEPT ![p] = j]
       /\ \/ j.kind = "install" /\ Goto(p, "build") /\ staging' = [staging EXCEPT ![p] = TRUE]
          \/ j.kind = "rollback" /\ Goto(p, "package") /\ UNCHANGED staging
  /\ UNCHANGED <<regime, versions, active, created, result, served>>

(* Copy, check the digest, npm install, read the metadata.                 *)
Build(p) ==
  /\ step[p] = "build"
  /\ Goto(p, "look")
  /\ UNCHANGED <<regime, versions, active, job, staging, created, result, served>>

(* The artifact is missing, is not the one named by the digest, does not   *)
(* install or is not this package.                                         *)
RefuseArtifact(p) ==
  /\ step[p] = "build"
  /\ Reject(p)
  /\ UNCHANGED <<regime, versions, active, job, staging, created, served>>

Look(p) ==
  /\ step[p] = "look"
  /\ \/ there[job[p].runtime] /\ Goto(p, "package")
     \/ ~there[job[p].runtime] /\ Goto(p, "place")
  /\ UNCHANGED <<regime, versions, active, job, staging, created, result, served>>

(* An install that finds its version already there, and every rollback,    *)
(* checks the metadata and then the marker.                                *)
Check(p, part, next) ==
  /\ step[p] = part
  /\ \/ part \in parts[job[p].runtime] /\ Goto(p, next) /\ UNCHANGED result
     \/ part \notin parts[job[p].runtime] /\ Reject(p)
  /\ UNCHANGED <<regime, versions, active, job, staging, created, served>>

CheckPackage(p) == Check(p, "package", "marker")
CheckMarker(p) == Check(p, "marker", "lookup")

(* Mutant: the directory is claimed before the rename succeeds.            *)
PlaceClaimsEarly(p) ==
  LET r == job[p].runtime
  IN /\ step[p] = "place"
     /\ created' = [created EXCEPT ![p] = TRUE]
     /\ \/ /\ parts[r] = {}
           /\ there' = [there EXCEPT ![r] = TRUE]
           /\ parts' = [parts EXCEPT ![r] = Part]
           /\ frozen' = [frozen EXCEPT ![r] = FALSE]
           /\ placer' = [placer EXCEPT ![r] = p]
           /\ Goto(p, "freeze")
           /\ UNCHANGED result
        \/ /\ parts[r] # {}
           /\ Reject(p)
           /\ UNCHANGED versions
     /\ UNCHANGED <<regime, active, job, staging, served>>

(* rename moves a directory to a free name or over an empty directory, and *)
(* fails with ENOTEMPTY otherwise.                                         *)
Place(p) ==
  LET r == job[p].runtime
  IN /\ step[p] = "place"
     /\ \/ /\ parts[r] = {}
           /\ there' = [there EXCEPT ![r] = TRUE]
           /\ parts' = [parts EXCEPT ![r] = Part]
           /\ frozen' = [frozen EXCEPT ![r] = FALSE]
           /\ placer' = [placer EXCEPT ![r] = p]
           /\ created' = [created EXCEPT ![p] = TRUE]
           /\ Goto(p, "freeze")
           /\ UNCHANGED result
        \/ /\ parts[r] # {}
           /\ Reject(p)
           /\ UNCHANGED <<versions, created>>
     /\ UNCHANGED <<regime, active, job, staging, served>>

Freeze(p) ==
  LET r == job[p].runtime
  IN /\ step[p] = "freeze"
     /\ \/ /\ there[r]
           /\ frozen' = [frozen EXCEPT ![r] = TRUE]
           /\ Goto(p, "lookup")
           /\ UNCHANGED result
        \/ /\ ~there[r]
           /\ Reject(p)
           /\ UNCHANGED frozen
     /\ UNCHANGED <<regime, there, parts, placer, active, job, staging, created, served>>

(* atomicallyActivate: the directory is there; where does the link point;  *)
(* a new link renamed over the old one.                                    *)
Lookup(p) ==
  /\ step[p] = "lookup"
  /\ \/ there[job[p].runtime] /\ Goto(p, "inspect") /\ UNCHANGED result
     \/ ~there[job[p].runtime] /\ Reject(p)
  /\ UNCHANGED <<regime, versions, active, job, staging, created, served>>

Inspect(p) ==
  /\ step[p] = "inspect"
  /\ \/ active = job[p].runtime /\ Activated(p)
     \/ active # job[p].runtime /\ Goto(p, "switch") /\ UNCHANGED <<created, result>>
  /\ UNCHANGED <<regime, versions, active, job, staging, served>>

(* Mutant: the claim on the directory outlives the switch.                 *)
SwitchKeepsClaim(p) ==
  /\ step[p] = "switch"
  /\ active' = job[p].runtime
  /\ served' = served \cup {job[p].runtime}
  /\ \/ job[p].kind = "install" /\ Goto(p, "sweep") /\ UNCHANGED result
     \/ job[p].kind = "rollback" /\ Goto(p, "ended") /\ Report(p, "ok")
  /\ UNCHANGED <<regime, versions, job, staging, created>>

Switch(p) ==
  /\ step[p] = "switch"
  /\ active' = job[p].runtime
  /\ served' = served \cup {job[p].runtime}
  /\ Activated(p)
  /\ UNCHANGED <<regime, versions, job, staging>>

Sweep(p) ==
  /\ step[p] = "sweep"
  /\ staging' = [staging EXCEPT ![p] = FALSE]
  /\ Goto(p, "ended")
  /\ Report(p, "ok")
  /\ UNCHANGED <<regime, versions, active, job, created, served>>

-----------------------------------------------------------------------------
(* The catch block.  makeTreeRemovable thaws the directory the process     *)
(* answers for, rm removes what is in it and then the directory, unless    *)
(* another installer has renamed its own over the empty one meanwhile, and *)
(* the staging directory goes last.                                        *)

Undo(p) ==
  LET r == job[p].runtime
  IN /\ step[p] = "undo"
     /\ \/ /\ created[p] /\ there[r]
           /\ frozen' = [frozen EXCEPT ![r] = FALSE]
           /\ Goto(p, "remove")
        \/ /\ ~created[p] \/ ~there[r]
           /\ Goto(p, "clean")
           /\ UNCHANGED frozen
     /\ UNCHANGED <<regime, there, parts, placer, active, job, staging, created, result, served>>

Remove(p) ==
  LET r == job[p].runtime
  IN /\ step[p] = "remove"
     /\ \E part \in parts[r] :
          /\ parts' = [parts EXCEPT ![r] = @ \ {part}]
          /\ \/ parts[r] = {part} /\ Goto(p, "rmdir")
             \/ parts[r] # {part} /\ UNCHANGED step
     /\ UNCHANGED <<regime, there, frozen, placer, active, job, staging, created, result, served>>

RemoveDirectory(p) ==
  LET r == job[p].runtime
  IN /\ step[p] = "rmdir"
     /\ there' = [there EXCEPT ![r] = parts[r] # {}]
     /\ Goto(p, "clean")
     /\ UNCHANGED <<regime, parts, frozen, placer, active, job, staging, created, result, served>>

Clean(p) ==
  /\ step[p] = "clean"
  /\ staging' = [staging EXCEPT ![p] = FALSE]
  /\ Goto(p, "ended")
  /\ Report(p, "failed")
  /\ UNCHANGED <<regime, versions, active, job, created, served>>

-----------------------------------------------------------------------------
(* Any call may fail.  Inside the catch block a failure skips what is left *)
(* of that step and the rest goes on.                                      *)
Fail(p) ==
  /\ "io" \in regime.faults
  /\ \/ /\ step[p] \in {"look", "package", "marker", "place", "freeze", "lookup",
                        "inspect", "switch", "sweep"}
        /\ Reject(p)
     \/ /\ step[p] \in {"undo", "remove", "rmdir"}
        /\ Goto(p, "clean")
        /\ UNCHANGED result
     \/ /\ step[p] = "clean"
        /\ Goto(p, "ended")
        /\ Report(p, "failed")
  /\ UNCHANGED <<regime, versions, active, job, staging, created, served>>

(* The process is killed or the machine goes down.                         *)
Crash(p) ==
  /\ "crash" \in regime.faults
  /\ Running(p)
  /\ Goto(p, "crashed")
  /\ UNCHANGED <<regime, versions, active, job, staging, created, result, served>>

Proceed(p) ==
  \/ Build(p) \/ RefuseArtifact(p) \/ Look(p) \/ CheckPackage(p) \/ CheckMarker(p)
  \/ Place(p) \/ Freeze(p) \/ Lookup(p) \/ Inspect(p) \/ Switch(p) \/ Sweep(p)
  \/ Undo(p) \/ Remove(p) \/ RemoveDirectory(p) \/ Clean(p)

Next == \E p \in Process : Begin(p) \/ Proceed(p) \/ Fail(p) \/ Crash(p)

Spec == Init /\ [][Next]_vars

-----------------------------------------------------------------------------
TypeOK ==
  /\ regime \in Regimes
  /\ there \in [Runtime -> BOOLEAN]
  /\ parts \in [Runtime -> SUBSET Part]
  /\ frozen \in [Runtime -> BOOLEAN]
  /\ active \in Runtime \cup {NoRuntime}
  /\ step \in [Process -> Step]
  /\ job \in [Process -> Job \cup {NoJob}]
  /\ staging \in [Process -> BOOLEAN]
  /\ created \in [Process -> BOOLEAN]
  /\ result \in [Process -> {"none", "ok", "failed"}]
  /\ served \subseteq Runtime
  /\ placer \in [Runtime -> Process \cup {NoProcess}]

(* The installer that put the directory there is taking back its work.     *)
TakenBack(r) == \E p \in Process : placer[r] = p /\ step[p] \in {"undo", "remove"}

(* A version directory only ever loses something, a part or its            *)
(* immutability, to the installer whose rename put it there; losing a race *)
(* for the name, failing, or coming after a crash never takes away what    *)
(* another installer has put there (createdRuntimeDirectory in             *)
(* installPackedArtifact).                                                 *)
OnlyTheCreatorRemoves ==
  [][\A r \in Runtime :
       parts[r] # {} /\ ~TakenBack(r) =>
         parts[r] \subseteq parts'[r] /\ (frozen[r] => frozen'[r])]_vars

(* While installers do not overlap, a version the link has ever pointed to *)
(* keeps its metadata and marker, whatever fails and whenever a process    *)
(* dies: the link never dangles and a rollback to it is always accepted    *)
(* (atomicallyActivate, rollbackRuntime).                                  *)
ServedRemains ==
  ~regime.overlap => \A r \in served : {"package", "marker"} \subseteq parts[r]

(* If nothing fails, installers may overlap as they like: when all are     *)
(* done, every version directory is complete and frozen and no staging     *)
(* directory is left, whoever lost the race to place it                    *)
(* (installPackedArtifact).                                                *)
QuietIsClean ==
  regime.faults = {} /\ (\A p \in Process : ~Running(p)) =>
    /\ \A r \in Runtime : there[r] => parts[r] = Part /\ frozen[r]
    /\ \A p \in Process : ~staging[p]
    /\ \A r \in served : there[r]

(* Why: what a process may still do, by where it is.  It removes only what *)
(* it answers for, and it answers only for what it placed and has not      *)
(* activated.                                                              *)
OwnClaim(p) ==
  /\ step[p] \in {"remove", "rmdir"} => created[p]
  /\ step[p] = "ready" => ~created[p]
  /\ Running(p) /\ job[p].kind = "rollback" =>
       step[p] \in {"package", "marker", "lookup", "inspect", "switch"}
  /\ created[p] /\ Running(p) =>
       /\ step[p] \in {"freeze", "lookup", "inspect", "switch", "undo", "remove", "rmdir", "clean"}
       /\ job[p].kind = "install"

(* The directory it answers for is the one its rename put there.           *)
OwnDirectory(p) ==
  created[p] /\ step[p] \in {"freeze", "lookup", "inspect", "switch", "undo", "remove"} =>
       /\ job[p].runtime \in Runtime
       /\ placer[job[p].runtime] = p
       /\ parts[job[p].runtime] # {}

(* Of installers that do not overlap, the one that runs knows what is in   *)
(* the directory it is about to serve, and has not served what it may yet  *)
(* remove.                                                                 *)
Verified(r) == {"package", "marker"} \subseteq parts[r]

AloneKnows(p) ==
  ~regime.overlap /\ Running(p) =>
    /\ \A q \in Process : Running(q) => q = p
    /\ created[p] => job[p].runtime \notin served
    /\ step[p] = "marker" => "package" \in parts[job[p].runtime]
    /\ step[p] \in {"freeze", "lookup", "inspect", "switch"} => Verified(job[p].runtime)

(* If nothing fails nothing is ever removed, whoever else is running, and  *)
(* a directory that is not frozen is about to be.                          *)
CalmDirectory(r) ==
  /\ IF there[r] THEN parts[r] = Part ELSE parts[r] = {}
  /\ there[r] /\ ~frozen[r] =>
       \E p \in Process : step[p] = "freeze" /\ job[p].runtime = r
  /\ r \in served => there[r]

CalmProcess(p) ==
  /\ step[p] \notin {"remove", "rmdir", "crashed"}
  /\ step[p] = "undo" => ~created[p]
  /\ staging[p] => Running(p)
  /\ staging[p] => job[p].kind = "install"
  /\ step[p] \in {"freeze", "lookup", "inspect", "switch"} => there[job[p].runtime]
  /\ Running(p) /\ job[p].kind = "install" /\ step[p] \in {"package", "marker"} =>
       there[job[p].runtime]

Calmness ==
  regime.faults = {} =>
    (\A r \in Runtime : CalmDirectory(r)) /\ (\A p \in Process : CalmProcess(p))

Custody ==
  /\ \A p \in Process : Running(p) => job[p] \in Job
  /\ \A p \in Process : OwnClaim(p)
  /\ \A p \in Process : OwnDirectory(p)
  /\ \A p \in Process : AloneKnows(p)
  /\ ServedRemains
  /\ Calmness

(* "point the user service at its immutable active version"                *)
(* (docs/operator-guide.md, Stable supervised deployment).  It is not so   *)
(* after a crash between the rename and the end of makeRuntimeImmutable:   *)
(* the next install of the artifact accepts the directory as it is.        *)
ActiveIsImmutable == active # NoRuntime => frozen[active]

(* "Every installed version remains in `versions`" (same section).  An     *)
(* installer that fails after another has installed the version it put in  *)
(* place removes it.                                                       *)
InstalledRemains ==
  \A p \in Process : job[p].kind = "install" /\ result[p] = "ok" => there[job[p].runtime]

=============================================================================
