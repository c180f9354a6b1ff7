-------------------------- MODULE TenantTypeProofs --------------------------
(***************************************************************************)
(* The inductive invariant of TenantOperator, facts about its constants and*)
(* operators, the proof of its type invariant, and its conjuncts Control   *)
(* and ChildControl: which pass runs over which Tenant, and what the       *)
(* passes of the child controllers rely on.  TenantProofs goes on from     *)
(* here.                                                                   *)
(***************************************************************************)
EXTENDS TenantOperator, TLAPS, SequenceTheorems

\* Most leaves are first-order; the others, arithmetic and records, name SMT.
USE Zenon

Positions == DOMAIN ChildCreationOrder

Up == {"steps", "children", "patch"}

Down == {"backup", "remove", "teardown", "closing", "finalizer"}

\* Where a pass is in its list, and the counters that stay below a bound.
PositionsOK ==
    /\ at.pc = "steps" => at.i \in 1..Len(Provisioning)
    /\ at.pc = "children" => at.i \in 1..Len(ChildCreationOrder)
    /\ at.pc = "remove" => at.i \in 0..Len(ChildCreationOrder)
    /\ at.pc = "teardown" => at.i \in 1..Len(Teardown)
    /\ backup.st = "none" => backup.n = 0
    /\ edited => child[DataPlane].gen < MaxGeneration

TypeInv == TenantTypeOK /\ PositionsOK

Saved == namespace # "active" \/ backup.st = "completed"

\* Which pass runs over which Tenant, and what it may rely on.
Control ==
    /\ at.pc \in Down => life = "deleting"
    /\ life = "deleting" => fin
    /\ at.pc # "idle" => fin
    /\ life = "gone" => at.pc = "idle"
    /\ ~fin /\ life = "live" => namespace = "absent"
    /\ namespace = "terminating" => life # "live" /\ at.pc \notin Up
    /\ life = "live" /\ status.ns => namespace = "active"
    /\ at.pc \in Up /\ mem.ns => namespace = "active"
    /\ at.pc \in Down \ {"backup"} => Saved
    /\ life = "gone" => Saved
    /\ reported = "down" => life # "live" /\ at.pc \notin Up

\* What the pass of a child controller may rely on.
ChildControl ==
    \A k \in Kinds :
        /\ pass[k].at \in {"deprovision", "finalize"} => child[k].st = "deleting"
        /\ pass[k].at \in {"provision", "changed"} => Exists(k) /\ child[k].fin
        /\ k # Identity /\ pass[k].at = "finalize" => outer[k] = Nothing
        /\ k # Identity /\ outer[k] # Nothing => Exists(k) /\ child[k].fin

\* How far a pass over the children has come, and the order they are left in.
Ordered ==
    /\ life = "live" \/ at.pc \in Up => \A k \in Kinds : child[k].st # "deleting"
    /\ at.pc = "children" =>
           \A j \in Positions : j < at.i => Exists(ChildCreationOrder[j])
    /\ at.pc = "remove" /\ mem.ns =>
           \A j \in Positions : j > at.i => ~Exists(ChildCreationOrder[j])
    /\ at.pc = "teardown" /\ mem.ns => NoChild
    /\ life # "gone" =>
           \A i, j \in Positions :
               i < j /\ child[ChildCreationOrder[i]].st = "deleting"
                  => ~Exists(ChildCreationOrder[j])
    /\ ChildrenAreAPrefix
    /\ NamespaceOutlivesChildren

IInv == TypeInv /\ Control /\ ChildControl /\ Ordered

-----------------------------------------------------------------------------
(* Facts about the constants and the operators on a status.                *)

LEMMA OrderFacts ==
    /\ Len(ChildCreationOrder) \in Nat \ {0}
    /\ Positions = 1..Len(ChildCreationOrder)
    /\ \A i \in Positions : ChildCreationOrder[i] \in Kinds
    /\ \A k \in Kinds : \E i \in Positions : ChildCreationOrder[i] = k
    /\ \A i, j \in Positions : ChildCreationOrder[i] = ChildCreationOrder[j] => i = j
  <1>1. ChildCreationOrder \in Seq(STRING)
    BY OrderAssumption
  <1>2. Len(ChildCreationOrder) \in Nat /\ Positions = 1..Len(ChildCreationOrder)
    BY <1>1, LenProperties DEF Positions
  <1>3. Positions # {}
    BY DataPlaneAssumption DEF Kinds, Positions
  <1> QED
    BY <1>2, <1>3, OrderAssumption, SMT DEF Kinds, Positions

LEMMA StepsFacts ==
    /\ Len(Provisioning) \in Nat \ {0}
    /\ \A i \in 1..Len(Provisioning) : Provisioning[i] \in Steps
    /\ Len(Teardown) \in Nat \ {0}
    /\ \A i \in 1..Len(Teardown) : Teardown[i] \in Steps
    /\ \A i \in 1..Len(Provisioning) :
           Provisioning[i] # "Namespace" => Provisioning[i] \in Injected
  <1> DEFINE T == STRING \cup {"Namespace", "DeleteNamespace"}
  <1>1. \A x \in T : <<x>> \in Seq(T) /\ Len(<<x>>) = 1 /\ <<x>>[1] = x
    <2> HIDE DEF T
    <2> QED BY SMT
  <1>2. /\ <<"Namespace">> \in Seq(T) /\ <<"DeleteNamespace">> \in Seq(T)
        /\ Len(<<"Namespace">>) = 1 /\ Len(<<"DeleteNamespace">>) = 1
        /\ <<"Namespace">>[1] = "Namespace"
    BY <1>1, Zenon
  <1>3. ProvisionSteps \in Seq(T) /\ TeardownSteps \in Seq(T)
    <2>1. \A A, B : A \subseteq B => \A q \in Seq(A) : q \in Seq(B)
      BY SMT
    <2> QED
      BY <2>1, StepsAssumption, SMT
  <1> HIDE DEF T
  <1>4. /\ Len(ProvisionSteps) \in Nat /\ Len(TeardownSteps) \in Nat
        /\ DOMAIN ProvisionSteps = 1..Len(ProvisionSteps)
    BY <1>3, LenProperties
  <1>5. /\ Provisioning \in Seq(T)
        /\ Len(Provisioning) = 1 + Len(ProvisionSteps)
        /\ \A i \in 1 .. 1 + Len(ProvisionSteps) : Provisioning[i] =
               IF i <= 1 THEN <<"Namespace">>[i] ELSE ProvisionSteps[i - 1]
    BY <1>2, <1>3, ConcatProperties, SMT DEF Provisioning
  <1>6. /\ Teardown \in Seq(T)
        /\ Len(Teardown) = Len(TeardownSteps) + 1
    BY <1>2, <1>3, ConcatProperties, SMT DEF Teardown
  <1>7. /\ DOMAIN Provisioning = 1..Len(Provisioning)
        /\ DOMAIN Teardown = 1..Len(Teardown)
    BY <1>5, <1>6, LenProperties
  <1>8. ASSUME NEW i \in 1..Len(Provisioning), Provisioning[i] # "Namespace"
        PROVE  Provisioning[i] \in Injected
    <2>1. i # 1
      BY <1>2, <1>4, <1>5, <1>8, SMT
    <2>2. i - 1 \in DOMAIN ProvisionSteps /\ Provisioning[i] = ProvisionSteps[i - 1]
      BY <1>4, <1>5, <1>8, <2>1, SMT
    <2> QED
      BY <2>2 DEF Injected
  <1>9. /\ \A i \in 1..Len(Provisioning) : Provisioning[i] \in Steps
        /\ \A i \in 1..Len(Teardown) : Teardown[i] \in Steps
    BY <1>7, Zenon DEF Steps
  <1> QED
    BY <1>4, <1>5, <1>6, <1>8, <1>9, SMT

\* The operators of the saga runner keep a status a status, and its namespace.
LEMMA StatusOps ==
    ASSUME NEW st \in Status, NEW s \in Steps
    PROVE  /\ Lower(st, s) \in Status /\ Lower(st, s).ns = st.ns
           /\ StepDone(st, s) \in Status /\ StepDone(st, s).ns = st.ns
           /\ StepInProgress(st, s) \in Status /\ StepInProgress(st, s).ns = st.ns
           /\ StepFailed(st, s) \in Status /\ StepFailed(st, s).ns = st.ns
           /\ StepBlocked(st, s) \in Status /\ StepBlocked(st, s).ns = st.ns
           /\ Noted(st, s) \in Status
           /\ Noted(st, s).ns => st.ns \/ s = "Namespace"
  <1>1. Lower(st, s) \in Status /\ Lower(st, s).ns = st.ns
    BY DEF Lower, Status, Condition
  <1>2. StepDone(st, s) \in Status /\ StepDone(st, s).ns = st.ns
    BY DEF StepDone, Status, Condition
  <1>3. StepFailed(st, s) \in Status /\ StepFailed(st, s).ns = st.ns
    BY <1>1, Zenon DEF StepFailed, Status
  <1>4. StepBlocked(st, s) \in Status /\ StepBlocked(st, s).ns = st.ns
    BY <1>1, Zenon DEF StepBlocked, Status
  <1>5. Noted(st, s) \in Status /\ (Noted(st, s).ns => st.ns \/ s = "Namespace")
    BY Zenon DEF Noted, Status
  <1> QED
    BY <1>1, <1>2, <1>3, <1>4, <1>5 DEF StepInProgress

LEMMA CompleteOps ==
    ASSUME NEW st \in Status
    PROVE  /\ Provisioned(st) \in Status /\ Provisioned(st).ns = st.ns
           /\ Complete(st, "Terminated") \in Status /\ Complete(st, "Terminated").ns = st.ns
           /\ Age(st) \in Status /\ Age(st).ns = st.ns
  <1>1. Provisioned(st) \in Status /\ Provisioned(st).ns = st.ns
    BY Zenon DEF Provisioned, Complete, Status, Phase
  <1>2. Complete(st, "Terminated") \in Status /\ Complete(st, "Terminated").ns = st.ns
    BY Zenon DEF Complete, Status, Phase
  <1>3. Age(st) \in Status /\ Age(st).ns = st.ns
    BY DEF Age, Status, Condition
  <1> QED
    BY <1>1, <1>2, <1>3

-----------------------------------------------------------------------------
(* Type correctness.                                                       *)

\* An object that is created, removed, or changed by its controller is an object;
\* only a removal or a creation changes its generation.
LEMMA ObjectFacts ==
    /\ NoObject \in Object
    /\ [NoObject EXCEPT !.st = "live"] \in Object
    /\ \A o \in Object : Removed(o) \in Object
    /\ \A o \in Object : Removed(o).gen = o.gen \/ Removed(o).gen = 0
    /\ NoObject.gen = 0 /\ [NoObject EXCEPT !.st = "live"].gen = 0
  <1>1. 0 \in 0..MaxGeneration /\ -1 \in -1..MaxGeneration
    BY GenerationAssumption, SMT
  <1>2. NoObject \in Object /\ NoObject.gen = 0
    BY <1>1 DEF NoObject, Object
  <1>3. [NoObject EXCEPT !.st = "live"] \in Object /\ [NoObject EXCEPT !.st = "live"].gen = 0
    BY <1>2 DEF Object
  <1>4. ASSUME NEW o \in Object
        PROVE  Removed(o) \in Object /\ (Removed(o).gen = o.gen \/ Removed(o).gen = 0)
    BY <1>2 DEF Removed, Object
  <1> QED
    BY <1>2, <1>3, <1>4

LEMMA ChildStepType ==
    ASSUME ChildTypeOK, NEW k \in Kinds, ChildStep(k) \/ ChildFault(k)
    PROVE  /\ ChildTypeOK'
           /\ \A j \in Kinds : child'[j].gen = child[j].gen \/ child'[j].gen = 0
  <1>0. /\ child \in [Kinds -> Object] /\ outer \in [Kinds -> Outer]
        /\ pass \in [Kinds -> Pass]
    BY DEF ChildTypeOK
  <1>a. child[k] \in Object /\ pass[k] \in Pass
    BY <1>0
  <1>b. NotReady(k) \in [Kinds -> Object]
        /\ \A j \in Kinds : NotReady(k)[j].gen = child[j].gen
    BY <1>0, <1>a, Zenon DEF NotReady, Object
  <1>c. Idle \in Pass /\ Nothing \in Outer /\ Partly \in Outer
    BY GenerationAssumption, SMT DEF Idle, Pass, Nothing, Partly, Outer
  <1>1. CASE EnsureFinalizer(k)
    BY <1>0, <1>a, <1>1, Zenon DEF EnsureFinalizer, ChildTypeOK, Object
  <1>2. CASE BeginProvision(k)
    <2>1. child' \in [Kinds -> Object] /\ \A j \in Kinds : child'[j].gen = child[j].gen
      BY <1>0, <1>a, <1>2, Zenon DEF BeginProvision, Object
    <2>2. [at |-> "provision", gen |-> child[k].gen] \in Pass
      BY <1>a DEF Object, Pass
    <2> QED
      BY <1>0, <1>2, <2>1, <2>2 DEF BeginProvision, ChildTypeOK
  <1>3. CASE Provision(k)
    <2>1. pass[k].gen \in Outer
      BY <1>a DEF Pass, Outer
    <2>2. pass' \in [Kinds -> Pass]
      BY <1>0, <1>a, <1>3 DEF Provision, Pass
    <2> QED
      BY <1>0, <1>3, <2>1, <2>2 DEF Provision, ChildTypeOK
  <1>4. CASE ProvisionFails(k)
    BY <1>0, <1>b, <1>c, <1>4 DEF ProvisionFails, ChildTypeOK
  <1>5. CASE MarkReady(k)
    <2>1. pass[k].gen \in -1..MaxGeneration
      BY <1>a, GenerationAssumption, SMT DEF Pass
    <2>2. child' \in [Kinds -> Object] /\ \A j \in Kinds : child'[j].gen = child[j].gen
      BY <1>0, <1>a, <1>5, <2>1, Zenon DEF MarkReady, Object
    <2> QED
      BY <1>0, <1>c, <1>5, <2>2 DEF MarkReady, ChildTypeOK
  <1>6. CASE StatusLost(k)
    BY <1>0, <1>c, <1>6 DEF StatusLost, ChildTypeOK
  <1>7. CASE BeginDeprovision(k)
    <2>1. pass' \in [Kinds -> Pass]
      BY <1>0, <1>a, <1>7 DEF BeginDeprovision, Pass
    <2> QED
      BY <1>0, <1>b, <1>7, <2>1 DEF BeginDeprovision, ChildTypeOK
  <1>8. CASE Deprovision(k)
    <2>1. pass' \in [Kinds -> Pass]
      BY <1>0, <1>a, <1>8 DEF Deprovision, Pass
    <2> QED
      BY <1>0, <1>c, <1>8, <2>1 DEF Deprovision, ChildTypeOK
  <1>9. CASE DeprovisionFails(k)
    BY <1>0, <1>c, <1>9 DEF DeprovisionFails, ChildTypeOK
  <1>10. CASE Finalize(k)
    BY <1>0, <1>c, <1>10, ObjectFacts DEF Finalize, ChildTypeOK
  <1>11. CASE FinalizeFails(k)
    BY <1>0, <1>c, <1>11 DEF FinalizeFails, ChildTypeOK
  <1> QED
    BY <1>1, <1>2, <1>3, <1>4, <1>5, <1>6, <1>7, <1>8, <1>9, <1>10, <1>11
       DEF ChildStep, ChildFault

\* The end of a pass, and a move of it.
LEMMA PassFacts ==
    /\ NewStatus \in Status /\ NewStatus.ns = FALSE
    /\ Resting \in At /\ Resting.pc = "idle"
    /\ \A pc \in {"steps", "children", "patch", "backup", "remove", "teardown", "closing",
                  "finalizer"} : \A i \in Nat : [pc |-> pc, i |-> i] \in At
  BY DEF NewStatus, Status, Phase, Condition, Resting, At

\* A step that leaves the children alone and ends the pass.
LEMMA EndPassType ==
    ASSUME TypeInv, EndPass, UNCHANGED <<child, outer, pass, namespace, made, edited>>,
           life' \in {"live", "deleting", "gone"}, fin' \in BOOLEAN, status' \in Status,
           backup' \in Backup, backup'.st = "none" => backup'.n = 0,
           reported' \in {"none", "up", "down"}, faults' \in Int
    PROVE  TypeInv'
  BY PassFacts DEF TypeInv, TenantTypeOK, PositionsOK, ChildTypeOK, EndPass

LEMMA FaultType == ASSUME faults \in Int, Fault PROVE faults' \in Int
  BY SMT DEF Fault

LEMMA InitTypeInv == Init => TypeInv
  <1> SUFFICES ASSUME Init PROVE TypeInv
    OBVIOUS
  <1>1. ChildTypeOK
    BY ObjectFacts, GenerationAssumption, SMT
       DEF Init, ChildInit, ChildTypeOK, Outer, Nothing, Idle, Pass
  <1>2. backup \in Backup
    BY AttemptsAssumption, SMT DEF Init, Backup
  <1> QED
    BY <1>1, <1>2, PassFacts, FaultsAssumption, Zenon DEF Init, TypeInv, TenantTypeOK, PositionsOK

\* The steps of a pass over a live Tenant.
LEMMA ProvisioningType ==
    ASSUME TypeInv,
           \/ AddFinalizer \/ StartPass \/ ProvisionStep \/ ProvisionStepFails
           \/ EnsureChild \/ EnsureChildFails \/ PatchStatus \/ PatchStatusFails
    PROVE  TypeInv'
  <1> USE DEF TypeInv, TenantTypeOK, PositionsOK, childVars, world
  <1>0. status \in Status /\ mem \in Status /\ at \in At /\ at.i \in Nat
    BY DEF At
  <1>1. CASE AddFinalizer
    BY <1>1 DEF AddFinalizer, ChildTypeOK
  <1>2. CASE StartPass
    <2>1. mem' \in Status
      BY <1>0, <1>2 DEF StartPass, Status, Phase
    <2>2. at' \in At /\ at'.pc = "steps" /\ at'.i = 1
      BY <1>2, PassFacts DEF StartPass, Go
    <2> QED
      BY <1>2, <2>1, <2>2, StepsFacts, SMT DEF StartPass, ChildTypeOK
  <1>3. CASE ProvisionStep
    <2> DEFINE s == Provisioning[at.i]
    <2> DEFINE st == StepDone(Noted(mem, s), s)
    <2>1. s \in Steps /\ (s # "Namespace" => s \in Injected)
      BY <1>3, StepsFacts DEF ProvisionStep
    <2>2. st \in Status
      BY <1>0, <2>1, StatusOps
    <2>3. namespace' \in {"absent", "active", "terminating"} /\ made' \in SUBSET Injected
      BY <1>3, <2>1 DEF ProvisionStep, Makes
    <2>4. /\ mem' \in Status /\ at' \in At
          /\ at'.pc = "steps" => at'.i \in 1..Len(Provisioning)
          /\ at'.pc = "children" => at'.i = 1
          /\ at'.pc \in {"steps", "children"}
      <3>1. CASE at.i < Len(Provisioning)
        BY <1>0, <1>3, <2>2, <3>1, PassFacts, StepsFacts, SMT DEF ProvisionStep, Go
      <3>2. CASE ~(at.i < Len(Provisioning))
        BY <1>3, <2>2, <3>2, PassFacts, CompleteOps, SMT DEF ProvisionStep, Go
      <3> QED
        BY <3>1, <3>2
    <2> QED
      BY <1>3, <2>3, <2>4, OrderFacts, SMT DEF ProvisionStep, ChildTypeOK
  <1>4. CASE ProvisionStepFails
    <2> DEFINE s == Provisioning[at.i]
    <2>1. s \in Steps /\ (s # "Namespace" => s \in Injected)
      BY <1>4, StepsFacts DEF ProvisionStepFails
    <2>2. StepBlocked(mem, s) \in Status /\ StepFailed(mem, s) \in Status
      BY <1>0, <2>1, StatusOps, Zenon
    <2>3. namespace' \in {"absent", "active", "terminating"} /\ made' \in SUBSET Injected
      BY <1>4, <2>1 DEF ProvisionStepFails, Makes
    <2>4. /\ mem' \in Status /\ at' \in At /\ failed' \in {failed, "error"}
          /\ (at'.pc = "children" /\ at'.i = 1) \/ at'.pc = "patch"
      BY <1>4, <2>2, PassFacts, SMT DEF ProvisionStepFails, Go
    <2> QED
      BY <1>4, <2>3, <2>4, OrderFacts, FaultType, SMT DEF ProvisionStepFails, ChildTypeOK
  <1>5. ASSUME NEW k \in Kinds, Synced(k)
        PROVE  /\ child' \in [Kinds -> Object] /\ edited' \in BOOLEAN
               /\ edited' => child'[DataPlane].gen < MaxGeneration
    <2>1. CASE k = DataPlane /\ edited
      <3>1. child[k] \in Object /\ child[k].gen + 1 \in 0..MaxGeneration
        BY <1>5, <2>1, GenerationAssumption, SMT DEF ChildTypeOK, Object
      <3>2. child' = [child EXCEPT ![k] = [child[k] EXCEPT !.gen = child[k].gen + 1]]
        BY <1>5, <2>1 DEF Synced
      <3>3. [child[k] EXCEPT !.gen = child[k].gen + 1] \in Object
        BY <3>1, SMTT(30) DEF Object
      <3> QED
        BY <1>5, <2>1, <3>2, <3>3, Zenon DEF Synced, ChildTypeOK
    <2>2. CASE ~(k = DataPlane /\ edited)
      BY <1>5, <2>2 DEF Synced, ChildTypeOK
    <2> QED
      BY <2>1, <2>2
  <1>6. ASSUME NEW k \in Kinds, NewChild(k)
        PROVE  /\ child' \in [Kinds -> Object]
               /\ edited => child'[DataPlane].gen < MaxGeneration
    <2>1. child \in [Kinds -> Object] /\ child[DataPlane].gen \in 0..MaxGeneration
      BY DataPlaneAssumption DEF ChildTypeOK, Object
    <2> QED
      BY <1>6, <2>1, ObjectFacts, DataPlaneAssumption, GenerationAssumption, SMT DEF NewChild
  <1>7. CASE EnsureChild
    <2> DEFINE k == ChildCreationOrder[at.i]
    <2>1. k \in Kinds /\ at.i \in 1..Len(ChildCreationOrder)
      BY <1>7, OrderFacts DEF EnsureChild
    <2>2. /\ child' \in [Kinds -> Object] /\ edited' \in BOOLEAN
          /\ edited' => child'[DataPlane].gen < MaxGeneration
      <3>1. Synced(k) \/ (NewChild(k) /\ UNCHANGED edited) \/ UNCHANGED <<child, edited>>
        BY <1>7 DEF EnsureChild
      <3> QED
        BY <1>5, <1>6, <2>1, <3>1, SMT DEF ChildTypeOK
    <2>3. ChildrenNotReady => mem' \in Status /\ at' \in At /\ at'.pc = "patch"
      BY <1>0, PassFacts, SMT DEF ChildrenNotReady, Status, Phase, Go
    <2>4. /\ mem' \in Status /\ at' \in At
          /\ \/ at'.pc = "children" /\ at'.i \in 1..Len(ChildCreationOrder)
             \/ at'.pc = "patch"
      BY <1>0, <1>7, <2>1, <2>3, OrderFacts, PassFacts, SMT DEF EnsureChild, Go
    <2> QED
      BY <1>7, <2>2, <2>4, SMT DEF EnsureChild, ChildTypeOK
  <1>8. CASE EnsureChildFails
    <2> DEFINE k == ChildCreationOrder[at.i]
    <2>1. k \in Kinds
      BY <1>8, OrderFacts DEF EnsureChildFails
    <2>2. /\ child' \in [Kinds -> Object] /\ edited' \in BOOLEAN
          /\ edited' => child'[DataPlane].gen < MaxGeneration
      <3>1. Synced(k) \/ (NewChild(k) /\ UNCHANGED edited) \/ UNCHANGED <<child, edited>>
        BY <1>8 DEF EnsureChildFails
      <3> QED
        BY <1>5, <1>6, <2>1, <3>1, SMT DEF ChildTypeOK
    <2>3. at' \in At /\ at'.pc = "patch"
      BY <1>8, PassFacts DEF EnsureChildFails, Go
    <2> QED
      BY <1>8, <2>2, <2>3, FaultType DEF EnsureChildFails, ChildTypeOK
  <1>9. CASE PatchStatus
    BY <1>0, <1>9, EndPassType DEF PatchStatus, Report
  <1>10. CASE PatchStatusFails
    BY <1>0, <1>10, EndPassType, FaultType DEF PatchStatusFails, Report
  <1> QED
    BY <1>1, <1>2, <1>3, <1>4, <1>7, <1>8, <1>9, <1>10

\* Deleting a child leaves an object or none.
LEMMA DeletedType ==
    ASSUME TypeInv, NEW k \in Kinds, Deleted(k) \/ child' = [child EXCEPT ![k] = Removed(@)]
    PROVE  /\ child' \in [Kinds -> Object]
           /\ edited => child'[DataPlane].gen < MaxGeneration
  <1>1. /\ child \in [Kinds -> Object] /\ child[k] \in Object
        /\ child[DataPlane].gen \in 0..MaxGeneration
    BY DataPlaneAssumption DEF TypeInv, TenantTypeOK, ChildTypeOK, Object
  <1>2. child' = [child EXCEPT ![k] = Removed(child[k])] \/ child' = child
    BY <1>1 DEF Deleted
  <1>3. Removed(child[k]) \in Object
        /\ (Removed(child[k]).gen = child[k].gen \/ Removed(child[k]).gen = 0)
    BY <1>1, ObjectFacts
  <1>4. child'[DataPlane].gen = child[DataPlane].gen \/ child'[DataPlane].gen = 0
    BY <1>1, <1>2, <1>3, DataPlaneAssumption
  <1> QED
    BY <1>1, <1>2, <1>3, <1>4, GenerationAssumption, SMT DEF TypeInv, PositionsOK

\* The steps of a pass over a Tenant marked for deletion.
LEMMA TeardownType ==
    ASSUME TypeInv,
           \/ StartDelete \/ EnsureBackup \/ EnsureBackupFails \/ DeleteChild
           \/ DeleteChildFails \/ TeardownStep \/ TeardownStepFails \/ CloseTeardown
           \/ CloseTeardownFails \/ RemoveFinalizer \/ RemoveFinalizerFails
    PROVE  TypeInv'
  <1> USE DEF TypeInv, TenantTypeOK, PositionsOK, childVars, world
  <1>0. status \in Status /\ mem \in Status /\ at \in At /\ at.i \in Nat
    BY DEF At
  <1>a. ~BackupDone /\ AttemptIsDue =>
            NextAttempt \in Backup /\ NextAttempt.st # "none"
    BY AttemptsAssumption, SMT DEF AttemptIsDue, NextAttempt, Backup
  <1>1. CASE StartDelete
    <2>1. mem' \in Status
      BY <1>0, <1>1 DEF StartDelete, Status, Phase
    <2>2. at' \in At /\ at'.pc = "backup"
      BY <1>1, PassFacts DEF StartDelete, Go
    <2> QED
      BY <1>1, <2>1, <2>2, SMT DEF StartDelete, Report, ChildTypeOK
  <1>2. CASE EnsureBackup
    <2>1. CASE Go("remove", Len(ChildCreationOrder)) /\ UNCHANGED <<mem, failed, backup>>
      <3>1. at' \in At /\ at'.pc = "remove" /\ at'.i \in 0..Len(ChildCreationOrder)
        BY <2>1, PassFacts, OrderFacts, SMT DEF Go
      <3> QED
        BY <1>2, <2>1, <3>1, SMT DEF EnsureBackup, ChildTypeOK
    <2>2. CASE EndPass /\ backup' = backup
      BY <1>0, <1>2, <2>2, EndPassType DEF EnsureBackup
    <2>3. CASE EndPass /\ ~BackupDone /\ AttemptIsDue /\ backup' = NextAttempt
      BY <1>0, <1>2, <1>a, <2>3, EndPassType DEF EnsureBackup
    <2> QED
      BY <1>2, <2>1, <2>2, <2>3 DEF EnsureBackup
  <1>3. CASE EnsureBackupFails
    <2>1. backup' \in Backup /\ (backup'.st = "none" => backup'.n = 0)
      BY <1>3, <1>a DEF EnsureBackupFails
    <2> QED
      BY <1>0, <1>3, <2>1, EndPassType, FaultType DEF EnsureBackupFails
  <1>4. CASE DeleteChild
    <2> DEFINE k == ChildCreationOrder[at.i]
    <2>1. at.i > 0 => k \in Kinds
      BY <1>4, OrderFacts, SMT DEF DeleteChild
    <2>2. child' \in [Kinds -> Object] /\ (edited => child'[DataPlane].gen < MaxGeneration)
      BY <1>4, <2>1, DeletedType DEF DeleteChild, ChildTypeOK
    <2>3. \/ Go("teardown", 1) /\ UNCHANGED <<mem, failed>>
          \/ Go("remove", at.i - 1) /\ at.i > 0 /\ UNCHANGED <<mem, failed>>
          \/ EndPass
      BY <1>4 DEF DeleteChild
    <2>4. at' \in At /\ mem' \in Status /\ failed' \in {failed, "no"}
          /\ \/ at'.pc = "teardown" /\ at'.i = 1
             \/ at'.pc = "remove" /\ at'.i \in 0..Len(ChildCreationOrder)
             \/ at'.pc = "idle"
      BY <1>0, <1>4, <2>3, PassFacts, OrderFacts, SMT DEF DeleteChild, Go, EndPass
    <2> QED
      BY <1>4, <2>2, <2>4, StepsFacts, SMT DEF DeleteChild, ChildTypeOK
  <1>5. CASE DeleteChildFails
    <2>1. ChildCreationOrder[at.i] \in Kinds
      BY <1>5, OrderFacts, SMT DEF DeleteChildFails
    <2>2. child' \in [Kinds -> Object] /\ (edited => child'[DataPlane].gen < MaxGeneration)
      BY <1>5, <2>1, DeletedType DEF DeleteChildFails, ChildTypeOK
    <2>3. status' \in Status
      BY <1>0, <1>5 DEF DeleteChildFails, Status, Phase
    <2> QED
      BY <1>5, <2>2, <2>3, PassFacts, FaultType, SMT DEF DeleteChildFails, EndPass, ChildTypeOK
  <1>6. ASSUME at.pc = "teardown", AfterStep(Teardown[at.i])
        PROVE  /\ mem' \in Status /\ at' \in At /\ failed' \in {failed, "no"}
               /\ \/ at'.pc = "teardown" /\ at'.i \in 1..Len(Teardown)
                  \/ at'.pc = "closing"
    <2>1. StepDone(mem, Teardown[at.i]) \in Status
      BY <1>0, <1>6, StepsFacts, StatusOps
    <2> QED
      BY <1>0, <1>6, <2>1, StepsFacts, PassFacts, CompleteOps, SMT DEF AfterStep, Go
  <1>7. CASE TeardownStep
    <2>1. namespace' \in {"absent", "active", "terminating"} /\ made' \in SUBSET Injected
      BY <1>7 DEF TeardownStep, Removes
    <2>2. CASE Waits(Teardown[at.i])
      <3>1. mem' \in Status /\ at' \in At /\ at'.pc = "closing"
        BY <1>0, <1>7, <2>2, StepsFacts, StatusOps, PassFacts, SMT DEF TeardownStep, Go
      <3> QED
        BY <1>7, <2>1, <2>2, <3>1 DEF TeardownStep, ChildTypeOK
    <2>3. CASE ~Waits(Teardown[at.i])
      <3>1. at.pc = "teardown" /\ AfterStep(Teardown[at.i])
        BY <1>7, <2>3 DEF TeardownStep
      <3> QED
        BY <1>6, <1>7, <2>1, <3>1, SMT DEF TeardownStep, ChildTypeOK
    <2> QED
      BY <2>2, <2>3
  <1>8. CASE TeardownStepFails
    <2>1. namespace' \in {"absent", "active", "terminating"} /\ made' \in SUBSET Injected
      BY <1>8 DEF TeardownStepFails, Removes
    <2>2. CASE AfterStep(Teardown[at.i])
      <3>1. at.pc = "teardown" /\ faults' \in Int
        BY <1>8, FaultType DEF TeardownStepFails
      <3> QED
        BY <1>6, <1>8, <2>1, <2>2, <3>1, SMT DEF TeardownStepFails, ChildTypeOK
    <2>3. CASE ~AfterStep(Teardown[at.i])
      <3>1. StepBlocked(mem, Teardown[at.i]) \in Status /\ StepFailed(mem, Teardown[at.i]) \in Status
        BY <1>0, <1>8, StepsFacts, StatusOps, Zenon DEF TeardownStepFails
      <3>2. mem' \in Status /\ at' \in At /\ at'.pc = "closing"
            /\ failed' \in {"blocked", "requeue"}
        BY <1>8, <2>3, <3>1, PassFacts, SMT DEF TeardownStepFails, Go
      <3> QED
        BY <1>8, <2>1, <3>2, FaultType DEF TeardownStepFails, ChildTypeOK
    <2> QED
      BY <2>2, <2>3
  <1>9. AfterClosing => mem' \in Status /\ at' \in At /\ failed' \in {failed, "no"}
                        /\ at'.pc \in {"idle", "finalizer"}
    BY <1>0, PassFacts, SMT DEF AfterClosing, EndPass, Go
  <1>10. CASE CloseTeardown
    <2>1. status' \in Status
      BY <1>0, <1>10 DEF CloseTeardown, Closed, Status
    <2> QED
      BY <1>9, <1>10, <2>1, SMT DEF CloseTeardown, ChildTypeOK
  <1>11. CASE CloseTeardownFails
    BY <1>9, <1>11, FaultType, SMT DEF CloseTeardownFails, ChildTypeOK
  <1>12. CASE RemoveFinalizer
    BY <1>0, <1>12, EndPassType, Zenon DEF RemoveFinalizer, Report
  <1>13. CASE RemoveFinalizerFails
    BY <1>0, <1>13, EndPassType, FaultType DEF RemoveFinalizerFails, Report
  <1> QED
    BY <1>1, <1>2, <1>3, <1>4, <1>5, <1>7, <1>8, <1>10, <1>11, <1>12, <1>13

LEMMA NextTypeInv == TypeInv /\ [Next]_vars => TypeInv'
  <1> SUFFICES ASSUME TypeInv, [Next]_vars PROVE TypeInv'
    OBVIOUS
  <1> USE DEF TypeInv, TenantTypeOK, PositionsOK, childVars, world, tenantVars
  <1>0. status \in Status /\ mem \in Status
    OBVIOUS
  <1>1. CASE Reconcile \/ ReconcileFails
    BY <1>1, ProvisioningType, TeardownType DEF Reconcile, ReconcileFails
  <1>2. ASSUME NEW k \in Kinds, Children(k) PROVE TypeInv'
    <2>1. ChildStep(k) \/ ChildFault(k)
      BY <1>2 DEF Children
    <2>2. /\ ChildTypeOK'
          /\ child'[DataPlane].gen = child[DataPlane].gen \/ child'[DataPlane].gen = 0
      BY <2>1, ChildStepType, DataPlaneAssumption
    <2>3. edited => child'[DataPlane].gen < MaxGeneration
      BY <2>2, DataPlaneAssumption, GenerationAssumption, SMT DEF ChildTypeOK, Object
    <2>4. faults' \in Int
      BY <1>2, FaultType DEF Children
    <2>5. UNCHANGED <<life, fin, status, mem, at, failed, namespace, made, backup, reported,
                      edited>>
      BY <1>2 DEF Children
    <2> QED
      BY <2>2, <2>3, <2>4, <2>5, SMTT(30)
  <1>3. ASSUME NEW k \in Kinds, GarbageCollect(k) PROVE TypeInv'
    <2>1. child' \in [Kinds -> Object] /\ (edited => child'[DataPlane].gen < MaxGeneration)
      BY <1>3, DeletedType, Zenon DEF GarbageCollect
    <2> QED
      BY <1>3, <2>1, SMT DEF GarbageCollect, ChildTypeOK
  <1>4. CASE RequestDelete
    BY <1>4, SMT DEF RequestDelete, ChildTypeOK
  <1>5. CASE EditSpec
    BY <1>5, SMT DEF EditSpec, ChildTypeOK
  <1>6. CASE BackupEnds \/ BackupAges
    <2>1. backup' \in Backup /\ backup'.st # "none"
      BY <1>6, Zenon DEF BackupEnds, BackupAges, AttemptFailed, Backup
    <2> QED
      BY <1>6, <2>1, SMT DEF BackupEnds, BackupAges, ChildTypeOK
  <1>7. CASE NamespaceCascade
    BY <1>7, SMT DEF NamespaceCascade, ChildTypeOK
  <1>8. CASE TimePasses
    <2>1. status' \in Status /\ mem' \in Status
      BY <1>0, <1>8, CompleteOps DEF TimePasses
    <2> QED
      BY <1>8, <2>1, SMT DEF TimePasses, ChildTypeOK
  <1>9. CASE Crash
    <2>1. Idle \in Pass
      BY GenerationAssumption, SMT DEF Idle, Pass
    <2>2. pass' \in [Kinds -> Pass]
      BY <1>9, <2>1, Zenon DEF Crash
    <2> QED
      BY <1>9, <2>2, PassFacts, FaultType DEF Crash, EndPass, ChildTypeOK
  <1>10. CASE UNCHANGED vars
    BY <1>10, SMT DEF vars, ChildTypeOK
  <1> QED
    BY <1>1, <1>2, <1>3, <1>4, <1>5, <1>6, <1>7, <1>8, <1>9, <1>10 DEF Next

\* Type correctness, for every value of the constants.
THEOREM TenantTypeCorrect == Spec => []TenantTypeOK
  <1>1. Init => TypeInv
    BY InitTypeInv
  <1>2. TypeInv /\ [Next]_vars => TypeInv'
    BY NextTypeInv
  <1>3. TypeInv => TenantTypeOK
    BY DEF TypeInv
  <1> QED
    BY <1>1, <1>2, <1>3, PTL DEF Spec


-----------------------------------------------------------------------------
(* Which pass runs over which Tenant.                                      *)

LEMMA InitControl == Init => Control
  BY SMT DEF Init, Control, Up, Down, Resting, NewStatus, Saved

LEMMA ProvisioningControl ==
    ASSUME TypeInv, Control,
           \/ AddFinalizer \/ StartPass \/ ProvisionStep \/ ProvisionStepFails
           \/ EnsureChild \/ EnsureChildFails \/ PatchStatus \/ PatchStatusFails
    PROVE  Control'
  <1> USE DEF Control, Up, Down, Saved, childVars, world
  <1>0. status \in Status /\ mem \in Status
    BY DEF TypeInv, TenantTypeOK
  <1>1. CASE AddFinalizer
    BY <1>1 DEF AddFinalizer
  <1>2. CASE StartPass
    <2>1. mem'.ns = status.ns
      BY <1>0, <1>2 DEF StartPass, Status
    <2> QED
      BY <1>2, <2>1 DEF StartPass, Go
  <1>3. ASSUME NEW s \in Steps, Makes(s), at.pc = "steps"
        PROVE  /\ namespace # "absent" => namespace' = namespace
               /\ namespace' \in {namespace, "active"}
               /\ s = "Namespace" => namespace' = "active"
    BY <1>3 DEF Makes, TypeInv, TenantTypeOK
  <1>4. CASE ProvisionStep
    <2> DEFINE s == Provisioning[at.i]
    <2>1. at.pc = "steps" /\ s \in Steps /\ Makes(s)
      BY <1>4, StepsFacts DEF ProvisionStep, TypeInv, PositionsOK
    <2> DEFINE st == StepDone(Noted(mem, s), s)
    <2>a. Noted(mem, s) \in Status /\ (Noted(mem, s).ns => mem.ns \/ s = "Namespace")
      BY <1>0, <2>1, StatusOps
    <2>b. st \in Status /\ st.ns = Noted(mem, s).ns
      BY <2>1, <2>a, StatusOps
    <2>c. Provisioned(st).ns = st.ns
      BY <2>b, CompleteOps
    <2>d. mem' = st \/ mem' = Provisioned(st)
      BY <1>4 DEF ProvisionStep
    <2>2. mem'.ns => mem.ns \/ s = "Namespace"
      BY <2>a, <2>b, <2>c, <2>d
    <2>3. at'.pc \in {"steps", "children"}
      BY <1>4, SMT DEF ProvisionStep, Go
    <2>4. UNCHANGED <<life, fin, status, backup, reported>>
      BY <1>4 DEF ProvisionStep
    <2> QED
      BY <1>3, <2>1, <2>2, <2>3, <2>4
  <1>5. CASE ProvisionStepFails
    <2> DEFINE s == Provisioning[at.i]
    <2>1. at.pc = "steps" /\ s \in Steps /\ (Makes(s) \/ UNCHANGED <<namespace, made>>)
      BY <1>5, StepsFacts DEF ProvisionStepFails, TypeInv, PositionsOK
    <2>a. StepBlocked(mem, s).ns = mem.ns /\ StepFailed(mem, s).ns = mem.ns
      BY <1>0, <2>1, StatusOps, Zenon
    <2>b. mem' = StepBlocked(mem, s) \/ mem' = StepFailed(mem, s)
      BY <1>5 DEF ProvisionStepFails
    <2>2. mem'.ns = mem.ns
      BY <2>a, <2>b
    <2>3. at'.pc \in {"patch", "children"}
      BY <1>5, SMT DEF ProvisionStepFails, Go
    <2>4. UNCHANGED <<life, fin, status, backup, reported>>
      BY <1>5 DEF ProvisionStepFails
    <2> QED
      BY <1>3, <2>1, <2>2, <2>3, <2>4
  <1>6. CASE EnsureChild
    <2>1. mem'.ns = mem.ns /\ at'.pc \in {"patch", "children"} /\ at.pc = "children"
      BY <1>0, <1>6, SMT DEF EnsureChild, ChildrenNotReady, Go, Status
    <2> QED
      BY <1>6, <2>1 DEF EnsureChild
  <1>7. CASE EnsureChildFails
    <2>1. mem' = mem /\ at'.pc = "patch" /\ at.pc = "children"
      BY <1>7 DEF EnsureChildFails, Go
    <2> QED
      BY <1>7, <2>1 DEF EnsureChildFails
  <1>8. CASE PatchStatus
    BY <1>8 DEF PatchStatus, Report, EndPass, Resting
  <1>9. CASE PatchStatusFails
    BY <1>9 DEF PatchStatusFails, Report, EndPass, Resting
  <1> QED
    BY <1>1, <1>2, <1>4, <1>5, <1>6, <1>7, <1>8, <1>9

LEMMA TeardownControl ==
    ASSUME TypeInv, Control,
           \/ StartDelete \/ EnsureBackup \/ EnsureBackupFails \/ DeleteChild
           \/ DeleteChildFails \/ TeardownStep \/ TeardownStepFails \/ CloseTeardown
           \/ CloseTeardownFails \/ RemoveFinalizer \/ RemoveFinalizerFails
    PROVE  Control'
  <1> USE DEF Control, Up, Down, Saved, childVars, world
  <1>1. CASE StartDelete
    BY <1>1 DEF StartDelete, Report, Go
  <1>2. CASE EnsureBackup
    BY <1>2, SMT DEF EnsureBackup, BackupDone, Go, EndPass, Resting
  <1>3. CASE EnsureBackupFails
    BY <1>3 DEF EnsureBackupFails, EndPass, Resting
  <1>4. CASE DeleteChild
    <2>1. at.pc = "remove" /\ at'.pc \in {"remove", "teardown", "idle"}
      BY <1>4, SMT DEF DeleteChild, Go, EndPass, Resting
    <2> QED
      BY <1>4, <2>1 DEF DeleteChild
  <1>5. CASE DeleteChildFails
    BY <1>5 DEF DeleteChildFails, EndPass, Resting
  <1>6. ASSUME NEW s, Removes(s) \/ UNCHANGED namespace
        PROVE  namespace' = namespace \/ namespace' = "terminating"
    BY <1>6 DEF Removes
  <1>7. CASE TeardownStep
    <2>1. /\ at.pc = "teardown" /\ at'.pc \in {"teardown", "closing"}
          /\ namespace' = namespace \/ namespace' = "terminating"
      BY <1>6, <1>7, SMT DEF TeardownStep, AfterStep, Go
    <2> QED
      BY <1>7, <2>1 DEF TeardownStep
  <1>8. CASE TeardownStepFails
    <2>1. /\ at.pc = "teardown" /\ at'.pc \in {"teardown", "closing"}
          /\ namespace' = namespace \/ namespace' = "terminating"
      BY <1>6, <1>8, SMT DEF TeardownStepFails, AfterStep, Go
    <2> QED
      BY <1>8, <2>1 DEF TeardownStepFails
  <1>9. AfterClosing => at'.pc \in {"idle", "finalizer"}
    BY SMT DEF AfterClosing, EndPass, Resting, Go
  <1>10. CASE CloseTeardown
    BY <1>9, <1>10 DEF CloseTeardown
  <1>11. CASE CloseTeardownFails
    BY <1>9, <1>11 DEF CloseTeardownFails
  <1>12. CASE RemoveFinalizer
    BY <1>12 DEF RemoveFinalizer, EndPass, Resting
  <1>13. CASE RemoveFinalizerFails
    BY <1>13 DEF RemoveFinalizerFails, Report, EndPass, Resting
  <1> QED
    BY <1>1, <1>2, <1>3, <1>4, <1>5, <1>7, <1>8, <1>10, <1>11, <1>12, <1>13

LEMMA NextControl == TypeInv /\ Control /\ [Next]_vars => Control'
  <1> SUFFICES ASSUME TypeInv, Control, [Next]_vars PROVE Control'
    OBVIOUS
  <1> USE DEF Control, Up, Down, Saved, childVars, world, tenantVars
  <1>0. status \in Status /\ mem \in Status /\ life \in {"live", "deleting", "gone"}
    BY DEF TypeInv, TenantTypeOK
  <1>1. CASE Reconcile \/ ReconcileFails
    BY <1>1, ProvisioningControl, TeardownControl DEF Reconcile, ReconcileFails
  <1>2. ASSUME NEW k \in Kinds, Children(k) \/ GarbageCollect(k) PROVE Control'
    BY <1>2 DEF Children, GarbageCollect
  <1>3. CASE RequestDelete
    BY <1>3 DEF RequestDelete
  <1>4. CASE EditSpec
    BY <1>4 DEF EditSpec
  <1>5. CASE BackupEnds
    BY <1>5 DEF BackupEnds
  <1>6. CASE BackupAges
    <2>1. backup.st = "completed" => backup'.st = "completed"
      BY <1>6 DEF BackupAges, AttemptFailed
    <2> QED
      BY <1>6, <2>1 DEF BackupAges
  <1>7. CASE NamespaceCascade
    BY <1>7 DEF NamespaceCascade
  <1>8. CASE TimePasses
    <2>1. status'.ns = status.ns /\ mem'.ns = mem.ns
      BY <1>0, <1>8, CompleteOps DEF TimePasses
    <2> QED
      BY <1>8, <2>1 DEF TimePasses
  <1>9. CASE Crash
    BY <1>9 DEF Crash, EndPass, Resting
  <1>10. CASE UNCHANGED vars
    BY <1>10 DEF vars
  <1> QED
    BY <1>1, <1>2, <1>3, <1>4, <1>5, <1>6, <1>7, <1>8, <1>9, <1>10 DEF Next

-----------------------------------------------------------------------------
(* What the passes of the child controllers rely on.                       *)

LEMMA InitChildControl == Init => ChildControl
  BY SMT DEF Init, ChildInit, ChildControl, Idle

\* A pass of a child controller touches one kind, and of the life of its object
\* only the end of a deletion.
LEMMA ChildStepControl ==
    ASSUME TypeInv, ChildControl, NEW k \in Kinds, ChildStep(k) \/ ChildFault(k)
    PROVE  /\ ChildControl'
           /\ \A j \in Kinds : \/ child'[j].st = child[j].st
                               \/ child[j].st = "deleting" /\ child'[j].st = "absent"
  <1>0. /\ child \in [Kinds -> Object] /\ outer \in [Kinds -> Outer]
        /\ pass \in [Kinds -> Pass] /\ child[k] \in Object /\ pass[k] \in Pass
    BY DEF TypeInv, TenantTypeOK, ChildTypeOK
  <1>a. \A j \in Kinds : /\ NotReady(k)[j].st = child[j].st
                        /\ NotReady(k)[j].fin = child[j].fin
    BY <1>0 DEF NotReady, Object
  <1> USE DEF ChildControl, Exists
  <1>1. CASE EnsureFinalizer(k)
    <2>1. /\ \A j \in Kinds : child'[j].st = child[j].st
          /\ \A j \in Kinds : child[j].fin => child'[j].fin
      BY <1>0, <1>1 DEF EnsureFinalizer, Object
    <2> QED
      BY <1>1, <2>1 DEF EnsureFinalizer
  <1>2. CASE BeginProvision(k)
    <2>1. \A j \in Kinds : child'[j].st = child[j].st /\ child'[j].fin = child[j].fin
      BY <1>0, <1>2 DEF BeginProvision, Object
    <2>2. pass'[k].at = "provision" /\ \A j \in Kinds \ {k} : pass'[j] = pass[j]
      BY <1>0, <1>2 DEF BeginProvision
    <2> QED
      BY <1>2, <2>1, <2>2, SMT DEF BeginProvision
  <1>3. CASE Provision(k)
    <2>1. pass'[k].at = "changed" /\ \A j \in Kinds \ {k} : pass'[j] = pass[j]
      BY <1>0, <1>3 DEF Provision, Pass
    <2>2. \A j \in Kinds \ {k} : outer'[j] = outer[j]
      BY <1>0, <1>3 DEF Provision
    <2> QED
      BY <1>3, <2>1, <2>2, SMT DEF Provision
  <1>4. CASE ProvisionFails(k)
    <2>1. \A j \in Kinds : child'[j].st = child[j].st /\ child'[j].fin = child[j].fin
      BY <1>4, <1>a, SMT DEF ProvisionFails
    <2>2. pass'[k].at = "idle" /\ \A j \in Kinds \ {k} : pass'[j] = pass[j]
      BY <1>0, <1>4 DEF ProvisionFails, Idle
    <2>3. \A j \in Kinds \ {k} : outer'[j] = outer[j]
      BY <1>0, <1>4 DEF ProvisionFails
    <2> QED
      BY <1>4, <2>1, <2>2, <2>3, SMT DEF ProvisionFails
  <1>5. CASE MarkReady(k)
    <2>1. \A j \in Kinds : child'[j].st = child[j].st /\ child'[j].fin = child[j].fin
      BY <1>0, <1>5 DEF MarkReady, Object
    <2>2. pass'[k].at = "idle" /\ \A j \in Kinds \ {k} : pass'[j] = pass[j]
      BY <1>0, <1>5 DEF MarkReady, Idle
    <2> QED
      BY <1>5, <2>1, <2>2, SMT DEF MarkReady
  <1>6. CASE StatusLost(k) \/ FinalizeFails(k)
    <2>1. pass'[k].at = "idle" /\ \A j \in Kinds \ {k} : pass'[j] = pass[j]
      BY <1>0, <1>6, SMT DEF StatusLost, FinalizeFails, Idle
    <2> QED
      BY <1>6, <2>1 DEF StatusLost, FinalizeFails
  <1>7. CASE BeginDeprovision(k)
    <2>1. \A j \in Kinds : child'[j].st = child[j].st /\ child'[j].fin = child[j].fin
      BY <1>7, <1>a DEF BeginDeprovision
    <2>2. pass'[k].at = "deprovision" /\ \A j \in Kinds \ {k} : pass'[j] = pass[j]
      BY <1>0, <1>7 DEF BeginDeprovision, Pass
    <2> QED
      BY <1>7, <2>1, <2>2, SMT DEF BeginDeprovision
  <1>8. CASE Deprovision(k)
    <2>1. pass'[k].at = "finalize" /\ \A j \in Kinds \ {k} : pass'[j] = pass[j]
      BY <1>0, <1>8 DEF Deprovision, Pass
    <2>2. /\ \A j \in Kinds \ {k} : outer'[j] = outer[j]
          /\ k # Identity => outer'[k] = Nothing
      BY <1>0, <1>8 DEF Deprovision, Finds
    <2> QED
      BY <1>8, <2>1, <2>2, SMT DEF Deprovision
  <1>9. CASE DeprovisionFails(k)
    <2>1. pass'[k].at = "idle" /\ \A j \in Kinds \ {k} : pass'[j] = pass[j]
      BY <1>0, <1>9 DEF DeprovisionFails, Idle
    <2>2. /\ \A j \in Kinds \ {k} : outer'[j] = outer[j]
          /\ outer'[k] # Nothing => outer[k] # Nothing
      BY <1>0, <1>9 DEF DeprovisionFails
    <2> QED
      BY <1>9, <2>1, <2>2, SMT DEF DeprovisionFails
  <1>10. CASE Finalize(k)
    <2>1. pass'[k].at = "idle" /\ \A j \in Kinds \ {k} : pass'[j] = pass[j]
      BY <1>0, <1>10 DEF Finalize, Idle
    <2>2. child'[k].st = "absent" /\ \A j \in Kinds \ {k} : child'[j] = child[j]
      BY <1>0, <1>10 DEF Finalize, NoObject
    <2> QED
      BY <1>10, <2>1, <2>2, SMT DEF Finalize
  <1> QED
    BY <1>1, <1>2, <1>3, <1>4, <1>5, <1>6, <1>7, <1>8, <1>9, <1>10, Zenon
       DEF ChildStep, ChildFault

\* What a creation and a deletion of an object leave.
LEMMA NewChildControl ==
    ASSUME TypeInv, ChildControl, NEW k \in Kinds, ~Exists(k), NewChild(k),
           UNCHANGED <<outer, pass>>
    PROVE  /\ ChildControl' /\ child'[k].st = "live"
           /\ \A j \in Kinds \ {k} : child'[j] = child[j]
  <1>1. child'[k].st = "live" /\ \A j \in Kinds \ {k} : child'[j] = child[j]
    BY DEF NewChild, NoObject, TypeInv, TenantTypeOK, ChildTypeOK
  <1> QED
    BY <1>1 DEF ChildControl, Exists

LEMMA RemovedControl ==
    ASSUME TypeInv, ChildControl, NEW k \in Kinds,
           \/ Deleted(k)
           \/ child[k].st = "live" /\ child' = [child EXCEPT ![k] = Removed(@)],
           UNCHANGED <<outer, pass>>
    PROVE  /\ ChildControl'
           /\ \A j \in Kinds \ {k} : child'[j] = child[j]
           /\ child'[k].st \in {"absent", "deleting"}
  <1>0. child \in [Kinds -> Object] /\ child[k] \in Object
    BY DEF TypeInv, TenantTypeOK, ChildTypeOK
  <1>1. CASE child[k].st = "live"
    <2>1. child' = [child EXCEPT ![k] = Removed(child[k])]
      BY <1>0, <1>1 DEF Deleted
    <2>2. /\ child'[k] = Removed(child[k])
          /\ \A j \in Kinds \ {k} : child'[j] = child[j]
      BY <1>0, <2>1
    <2>3. CASE child[k].fin
      <3>1. child'[k].st = "deleting" /\ child'[k].fin
        BY <1>0, <2>2, <2>3 DEF Removed, Object
      <3> QED
        BY <1>1, <2>2, <3>1, SMT DEF ChildControl, Exists
    <2>4. CASE ~child[k].fin
      <3>1. child'[k].st = "absent"
        BY <2>2, <2>4, SMT DEF Removed, NoObject
      <3> QED
        BY <1>1, <2>2, <2>4, <3>1 DEF ChildControl, Exists
    <2> QED
      BY <2>3, <2>4
  <1>2. CASE child[k].st # "live"
    <2>1. child' = child
      BY <1>0, <1>2 DEF Deleted
    <2> QED
      BY <1>0, <1>2, <2>1 DEF ChildControl, Exists, Object
  <1> QED
    BY <1>1, <1>2

LEMMA SyncedControl ==
    ASSUME TypeInv, ChildControl, NEW k \in Kinds, Synced(k), UNCHANGED <<outer, pass>>
    PROVE  ChildControl' /\ \A j \in Kinds : child'[j].st = child[j].st
  <1>1. \A j \in Kinds : child'[j].st = child[j].st /\ child'[j].fin = child[j].fin
    BY SMT DEF Synced, TypeInv, TenantTypeOK, ChildTypeOK, Object
  <1> QED
    BY <1>1 DEF ChildControl, Exists
=============================================================================
