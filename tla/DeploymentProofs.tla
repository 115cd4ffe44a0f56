-------------------------- MODULE DeploymentProofs --------------------------
(***************************************************************************)
(* Theorems about the installer, for any number of invocations and version *)
(* directories and any circumstances.  Custody, the inductive invariant,   *)
(* has a part for each of them: OwnClaim is why only the creator of a      *)
(* directory removes it, AloneKnows why installers that do not overlap     *)
(* never lose a version that was served, Calmness why overlapping ones     *)
(* that meet no failure leave the root clean.                              *)
(***************************************************************************)
EXTENDS Deployment, TLAPS

USE DeploymentAssumption DEF Regime, Job, NoJob, Step

Typed == TypeOK /\ \A p \in Process : Running(p) => job[p] \in Job

-----------------------------------------------------------------------------
(* Types.                                                                  *)

LEMMA TypedInit == Init => Typed
BY DEF Init, Typed, TypeOK, Running

LEMMA TypedBegin ==
  ASSUME Typed, NEW p \in Process, Begin(p)
  PROVE  Typed'
<1>1. PICK j \in Job :
        /\ job' = [job EXCEPT ![p] = j]
        /\ \/ j.kind = "install" /\ Goto(p, "build") /\ staging' = [staging EXCEPT ![p] = TRUE]
           \/ j.kind = "rollback" /\ Goto(p, "package") /\ UNCHANGED staging
  BY DEF Begin
<1>2. TypeOK'
  BY <1>1 DEF Typed, TypeOK, Begin, Goto, versions
<1>3. \A q \in Process : Running(q)' => job'[q] \in Job
  BY <1>1 DEF Typed, TypeOK, Running, Goto
<1> QED BY <1>2, <1>3 DEF Typed

LEMMA TypedPrepare ==
  ASSUME Typed, NEW p \in Process,
         Build(p) \/ RefuseArtifact(p) \/ Look(p) \/ CheckPackage(p) \/ CheckMarker(p)
  PROVE  Typed'
BY DEF Typed, TypeOK, Running, Build, RefuseArtifact, Look, CheckPackage, CheckMarker, Check,
       Goto, Report, Reject, versions

LEMMA TypedPlace ==
  ASSUME Typed, NEW p \in Process, Place(p) \/ Freeze(p)
  PROVE  Typed'
<1> USE DEF Typed, TypeOK, Running, Goto, Report, Reject, versions
<1>1. CASE Place(p)
  <2>5. parts' \in [Runtime -> SUBSET Part]
    BY <1>1 DEF Place
  <2>6. there' \in [Runtime -> BOOLEAN] /\ frozen' \in [Runtime -> BOOLEAN]
    BY <1>1 DEF Place
  <2>1. placer' \in [Runtime -> Process \cup {NoProcess}]
    BY <1>1 DEF Place
  <2>2. step' \in [Process -> Step] /\ created' \in [Process -> BOOLEAN]
    BY <1>1 DEF Place
  <2>3. result' \in [Process -> {"none", "ok", "failed"}]
    BY <1>1 DEF Place
  <2>4. \A q \in Process : Running(q)' => job'[q] \in Job
    BY <1>1 DEF Place
  <2> QED BY <1>1, <2>1, <2>2, <2>3, <2>4, <2>5, <2>6 DEF Place
<1>2. CASE Freeze(p)
  BY <1>2 DEF Freeze
<1> QED BY <1>1, <1>2

LEMMA TypedActivate ==
  ASSUME Typed, NEW p \in Process, Lookup(p) \/ Inspect(p) \/ Switch(p) \/ Sweep(p)
  PROVE  Typed'
BY DEF Typed, TypeOK, Running, Lookup, Inspect, Switch, Sweep, Activated, Goto, Report, Reject,
       versions

LEMMA TypedUndo ==
  ASSUME Typed, NEW p \in Process, Undo(p) \/ Remove(p) \/ RemoveDirectory(p) \/ Clean(p) \/ Fail(p) \/ Crash(p)
  PROVE  Typed'
<1> USE DEF Typed, TypeOK, Running, Goto, Report, Reject, versions
<1>1. CASE Undo(p)
  BY <1>1 DEF Undo
<1>2. CASE Remove(p)
  <2>1. parts' \in [Runtime -> SUBSET Part]
    BY <1>2 DEF Remove
  <2>2. there' \in [Runtime -> BOOLEAN] /\ step' \in [Process -> Step]
    BY <1>2 DEF Remove
  <2>3. \A q \in Process : Running(q)' => job'[q] \in Job
    BY <1>2 DEF Remove
  <2> QED BY <1>2, <2>1, <2>2, <2>3 DEF Remove
<1>3. CASE RemoveDirectory(p) \/ Clean(p) \/ Fail(p) \/ Crash(p)
  BY <1>3 DEF RemoveDirectory, Clean, Fail, Crash
<1> QED BY <1>1, <1>2, <1>3

LEMMA TypedNext == Typed /\ [Next]_vars => Typed'
<1> SUFFICES ASSUME Typed, [Next]_vars PROVE Typed'
  OBVIOUS
<1>1. CASE UNCHANGED vars
  BY <1>1 DEF vars, Typed, TypeOK, Running
<1>2. CASE Next
  BY <1>2, TypedBegin, TypedPrepare, TypedPlace, TypedActivate, TypedUndo DEF Next, Proceed
<1> QED BY <1>1, <1>2

-----------------------------------------------------------------------------
(* What each process answers for.                                          *)

Owned == \A p \in Process : OwnClaim(p)

LEMMA OwnedInit == Init => Owned
BY DEF Init, Owned, OwnClaim, Running

LEMMA OwnedNext == Typed /\ Owned /\ [Next]_vars => Owned'
<1> SUFFICES ASSUME Typed, Owned, [Next]_vars PROVE Owned'
  OBVIOUS
<1> USE DEF Typed, TypeOK, Owned, OwnClaim, Running, Goto, Report, Reject, Activated
<1>1. CASE UNCHANGED vars
  BY <1>1 DEF vars
<1>2. ASSUME NEW p \in Process, Begin(p) PROVE Owned'
  BY <1>2 DEF Begin
<1>3. ASSUME NEW p \in Process,
             Build(p) \/ RefuseArtifact(p) \/ Look(p) \/ CheckPackage(p) \/ CheckMarker(p)
      PROVE  Owned'
  BY <1>3 DEF Build, RefuseArtifact, Look, CheckPackage, CheckMarker, Check
<1>4. ASSUME NEW p \in Process, Place(p) PROVE Owned'
  BY <1>4 DEF Place
<1>7. ASSUME NEW p \in Process, Freeze(p) PROVE Owned'
  BY <1>7 DEF Freeze
<1>5. ASSUME NEW p \in Process, Lookup(p) \/ Inspect(p) \/ Switch(p) \/ Sweep(p) PROVE Owned'
  BY <1>5 DEF Lookup, Inspect, Switch, Sweep
<1>6. ASSUME NEW p \in Process, Undo(p) \/ Remove(p) \/ RemoveDirectory(p) \/ Clean(p) \/ Fail(p) \/ Crash(p)
      PROVE  Owned'
  BY <1>6 DEF Undo, Remove, RemoveDirectory, Clean, Fail, Crash
<1> QED BY <1>1, <1>2, <1>3, <1>4, <1>5, <1>6, <1>7 DEF Next, Proceed

Placed == \A p \in Process : OwnDirectory(p)

LEMMA PlacedInit == Init => Placed
BY DEF Init, Placed, OwnDirectory

LEMMA PlacedNext == Typed /\ Owned /\ Placed /\ [Next]_vars => Placed'
<1> SUFFICES ASSUME Typed, Owned, Placed, [Next]_vars PROVE Placed'
  OBVIOUS
<1> USE DEF Typed, TypeOK, Owned, OwnClaim, Placed, OwnDirectory, Running, Goto, Report, Reject,
            Activated
<1>1. CASE UNCHANGED vars
  BY <1>1 DEF vars, versions
<1>2. ASSUME NEW p \in Process, Begin(p) PROVE Placed'
  BY <1>2 DEF Begin, versions
<1>3. ASSUME NEW p \in Process, Build(p) \/ RefuseArtifact(p) \/ Look(p) PROVE Placed'
  BY <1>3 DEF Build, RefuseArtifact, Look, versions
<1>4. ASSUME NEW p \in Process, CheckPackage(p) \/ CheckMarker(p) PROVE Placed'
  BY <1>4 DEF CheckPackage, CheckMarker, Check, versions
<1>5. ASSUME NEW p \in Process, Place(p) PROVE Placed'
  <2>1. CASE UNCHANGED <<versions, created>> /\ Reject(p)
    BY <1>5, <2>1 DEF Place, versions
  <2>2. CASE parts[job[p].runtime] = {} /\ Goto(p, "freeze")
    <3>1. ASSUME NEW q \in Process, q # p PROVE OwnDirectory(q)'
      BY <1>5, <2>2, <3>1 DEF Place
    <3>2. OwnDirectory(p)'
      <4>1. job[p].kind = "install" /\ job[p].runtime \in Runtime
        BY <1>5 DEF Place
      <4>2. placer'[job[p].runtime] = p /\ UNCHANGED job
        BY <1>5, <2>2, <4>1 DEF Place
      <4>3. parts'[job[p].runtime] = Part
        BY <1>5, <2>2, <4>1 DEF Place
      <4>4. Part # {}
        BY DEF Part
      <4> QED BY <4>1, <4>2, <4>3, <4>4
    <3> QED BY <3>1, <3>2
  <2> QED BY <1>5, <2>1, <2>2 DEF Place
<1>6. ASSUME NEW p \in Process, Freeze(p) PROVE Placed'
  BY <1>6 DEF Freeze
<1>7. ASSUME NEW p \in Process, Lookup(p) \/ Inspect(p) PROVE Placed'
  BY <1>7 DEF Lookup, Inspect, versions
<1>8. ASSUME NEW p \in Process, Switch(p) \/ Sweep(p) PROVE Placed'
  BY <1>8 DEF Switch, Sweep, versions
<1>9. ASSUME NEW p \in Process, RemoveDirectory(p) \/ Clean(p) \/ Fail(p) \/ Crash(p)
      PROVE  Placed'
  BY <1>9 DEF RemoveDirectory, Clean, Fail, Crash, versions
<1>10. ASSUME NEW p \in Process, Undo(p) PROVE Placed'
  BY <1>10 DEF Undo
<1>11. ASSUME NEW p \in Process, Remove(p) PROVE Placed'
  BY <1>11 DEF Remove
<1> QED BY <1>1, <1>2, <1>3, <1>4, <1>5, <1>6, <1>7, <1>8, <1>9, <1>10, <1>11 DEF Next, Proceed

(* A version directory only loses something to the running installer that  *)
(* put it there (OnlyTheCreatorRemoves: the catch block of                 *)
(* installPackedArtifact against everything else).                         *)
THEOREM Removal == Spec => OnlyTheCreatorRemoves
<1> DEFINE Kept == \A r \in Runtime :
                     parts[r] # {} /\ ~TakenBack(r) =>
                       parts[r] \subseteq parts'[r] /\ (frozen[r] => frozen'[r])
<1>1. Typed /\ Owned /\ Placed /\ [Next]_vars => [Kept]_vars
  <2> SUFFICES ASSUME Typed, Owned, Placed, Next PROVE Kept
    BY DEF vars
  <2> USE DEF Typed, TypeOK, Owned, OwnClaim, Placed, OwnDirectory, TakenBack
  <2>1. CASE UNCHANGED <<parts, frozen>>
    BY <2>1
  <2>2. ASSUME NEW p \in Process, Place(p) PROVE Kept
    BY <2>2 DEF Place, versions
  <2>3. ASSUME NEW p \in Process, Freeze(p) PROVE Kept
    BY <2>3 DEF Freeze
  <2>4. ASSUME NEW p \in Process, Undo(p) PROVE Kept
    BY <2>4 DEF Undo
  <2>5. ASSUME NEW p \in Process, Remove(p) PROVE Kept
    BY <2>5 DEF Remove
  <2>6. ASSUME NEW p \in Process,
               ~ (Place(p) \/ Freeze(p) \/ Undo(p) \/ Remove(p)),
               Begin(p) \/ Proceed(p) \/ Fail(p) \/ Crash(p)
        PROVE  UNCHANGED <<parts, frozen>>
    BY <2>6 DEF Proceed, Begin, Build, RefuseArtifact, Look, CheckPackage, CheckMarker, Check,
                Lookup, Inspect, Switch, Sweep, RemoveDirectory, Clean, Fail, Crash, versions
  <2> QED BY <2>1, <2>2, <2>3, <2>4, <2>5, <2>6 DEF Next
<1> HIDE DEF Kept
<1>2. Spec => [][Kept]_vars
  BY <1>1, TypedInit, TypedNext, OwnedInit, OwnedNext, PlacedInit, PlacedNext, PTL DEF Spec
<1> QED BY <1>2 DEF Kept, OnlyTheCreatorRemoves

-----------------------------------------------------------------------------
(* Installers that do not overlap.                                         *)

Alone == ServedRemains /\ \A p \in Process : AloneKnows(p)

LEMMA AloneInit == Init => Alone
BY DEF Init, Alone, ServedRemains, AloneKnows, Running, Verified

LEMMA AloneNext == Typed /\ Owned /\ Alone /\ [Next]_vars => Alone'
<1> SUFFICES ASSUME Typed, Owned, Alone, [Next]_vars, ~regime.overlap PROVE Alone'
  BY DEF Alone, ServedRemains, AloneKnows, Next, vars, Proceed, Begin, Build, RefuseArtifact, Look,
         CheckPackage, CheckMarker, Check, Place, Freeze, Lookup, Inspect, Switch, Sweep, Undo,
         Remove, RemoveDirectory, Clean, Fail, Crash
<1> USE DEF Typed, TypeOK, Owned, OwnClaim, Alone, ServedRemains, AloneKnows, Running, Verified,
            Goto, Report, Reject, Activated
<1>1. CASE UNCHANGED vars
  BY <1>1 DEF vars, versions
<1>2. ASSUME NEW p \in Process, Begin(p) PROVE Alone'
  BY <1>2 DEF Begin, versions
<1>3. ASSUME NEW p \in Process, Build(p) \/ RefuseArtifact(p) \/ Look(p) PROVE Alone'
  BY <1>3 DEF Build, RefuseArtifact, Look, versions
<1>4. ASSUME NEW p \in Process, CheckPackage(p) \/ CheckMarker(p) PROVE Alone'
  BY <1>4 DEF CheckPackage, CheckMarker, Check, versions
<1>5. ASSUME NEW p \in Process, Place(p) PROVE Alone'
  BY <1>5 DEF Place, versions, Part
<1>6. ASSUME NEW p \in Process, Freeze(p) PROVE Alone'
  BY <1>6 DEF Freeze
<1>7. ASSUME NEW p \in Process, Lookup(p) \/ Inspect(p) PROVE Alone'
  BY <1>7 DEF Lookup, Inspect, versions
<1>8. ASSUME NEW p \in Process, Switch(p) PROVE Alone'
  BY <1>8 DEF Switch, versions
<1>9. ASSUME NEW p \in Process, Sweep(p) \/ RemoveDirectory(p) \/ Clean(p) \/ Fail(p) \/ Crash(p) PROVE Alone'
  BY <1>9 DEF Sweep, RemoveDirectory, Clean, Fail, Crash, versions
<1>10. ASSUME NEW p \in Process, Undo(p) PROVE Alone'
  BY <1>10 DEF Undo
<1>11. ASSUME NEW p \in Process, Remove(p) PROVE Alone'
  BY <1>11 DEF Remove
<1> QED BY <1>1, <1>2, <1>3, <1>4, <1>5, <1>6, <1>7, <1>8, <1>9, <1>10, <1>11 DEF Next, Proceed

(* A version that was ever active keeps its metadata and its marker, and   *)
(* can be rolled back to, whatever fails and whenever an installer dies,   *)
(* as long as installers do not overlap (ServedRemains).                   *)
THEOREM NeverLost == Spec => []ServedRemains
<1>1. Spec => []Alone
  BY TypedInit, TypedNext, OwnedInit, OwnedNext, AloneInit, AloneNext, PTL DEF Spec
<1> QED BY <1>1, PTL DEF Alone

-----------------------------------------------------------------------------
(* Installers that meet no failure.                                        *)

LEMMA CalmInit == Init => Calmness
BY DEF Init, Calmness, CalmDirectory, CalmProcess, Running

LEMMA CalmNext == Typed /\ Owned /\ Calmness /\ [Next]_vars => Calmness'
<1> SUFFICES ASSUME Typed, Owned, [Next]_vars, regime.faults = {}, Calmness, regime' = regime
             PROVE  Calmness'
  BY DEF Calmness, Next, vars, Proceed, Begin, Build, RefuseArtifact, Look,
         CheckPackage, CheckMarker, Check, Place, Freeze, Lookup, Inspect, Switch, Sweep, Undo,
         Remove, RemoveDirectory, Clean, Fail, Crash
<1> USE DEF Typed, TypeOK, Owned, OwnClaim, Calmness, CalmDirectory, CalmProcess, Running,
            Goto, Report, Reject, Activated
<1>1. CASE UNCHANGED vars
  BY <1>1 DEF vars, versions
<1>2. ASSUME NEW p \in Process, Begin(p) PROVE Calmness'
  BY <1>2 DEF Begin, versions
<1>3. ASSUME NEW p \in Process, Build(p) \/ RefuseArtifact(p) \/ Look(p) PROVE Calmness'
  BY <1>3 DEF Build, RefuseArtifact, Look, versions
<1>4. ASSUME NEW p \in Process, CheckPackage(p) \/ CheckMarker(p) PROVE Calmness'
  BY <1>4 DEF CheckPackage, CheckMarker, Check, versions, Part
<1>5. ASSUME NEW p \in Process, Place(p) PROVE Calmness'
  BY <1>5 DEF Place, versions, Part
<1>6. ASSUME NEW p \in Process, Freeze(p) PROVE Calmness'
  BY <1>6 DEF Freeze
<1>7. ASSUME NEW p \in Process, Lookup(p) \/ Inspect(p) PROVE Calmness'
  BY <1>7 DEF Lookup, Inspect, versions
<1>8. ASSUME NEW p \in Process, Switch(p) PROVE Calmness'
  BY <1>8 DEF Switch, versions
<1>9. ASSUME NEW p \in Process, Sweep(p) \/ RemoveDirectory(p) \/ Clean(p) \/ Fail(p) \/ Crash(p) PROVE Calmness'
  BY <1>9 DEF Sweep, RemoveDirectory, Clean, Fail, Crash, versions
<1>10. ASSUME NEW p \in Process, Undo(p) PROVE Calmness'
  BY <1>10 DEF Undo
<1>11. ASSUME NEW p \in Process, Remove(p) PROVE Calmness'
  BY <1>11 DEF Remove
<1> QED BY <1>1, <1>2, <1>3, <1>4, <1>5, <1>6, <1>7, <1>8, <1>9, <1>10, <1>11 DEF Next, Proceed

(* Installers that meet no failure leave every version complete and        *)
(* read-only and no staging directory behind, whoever won which race       *)
(* (QuietIsClean).                                                         *)
THEOREM QuietClean == Spec => []QuietIsClean
<1>1. Typed /\ Calmness => QuietIsClean
  BY DEF Typed, TypeOK, Calmness, CalmDirectory, CalmProcess, QuietIsClean, Running
<1> QED BY <1>1, TypedInit, TypedNext, OwnedInit, OwnedNext, CalmInit, CalmNext, PTL DEF Spec

(* The whole inductive invariant (Custody), of which the theorems above    *)
(* are consequences.                                                       *)
THEOREM CustodyHolds == Spec => [](TypeOK /\ Custody)
<1>1. Typed /\ Owned /\ Placed /\ Alone /\ Calmness => TypeOK /\ Custody
  BY DEF Typed, Owned, Placed, Alone, Custody
<1> QED BY <1>1, TypedInit, TypedNext, OwnedInit, OwnedNext, PlacedInit, PlacedNext, AloneInit, AloneNext,
           CalmInit, CalmNext, PTL DEF Spec

=============================================================================
