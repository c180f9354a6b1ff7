---------------------------- MODULE TenantProofs ----------------------------
(***************************************************************************)
(* Theorems about TenantOperator, for every order of children, every list  *)
(* of steps, every number of backup attempts and every number of faults.   *)
(***************************************************************************)
EXTENDS TenantTypeProofs

\* Most leaves are first-order; the others, arithmetic and records, name SMT.
USE Zenon

-----------------------------------------------------------------------------
(* The order of the children.                                              *)

LEMMA InitOrdered == Init => Ordered
  BY OrderFacts, SMT DEF Init, ChildInit, Ordered, Up, Resting, NoObject, Exists, NoChild, Positions,
        ChildrenAreAPrefix, NamespaceOutlivesChildren

\* A step that changes the life of no child, and starts no pass over them, keeps
\* the order.
LEMMA SameChildren ==
    ASSUME Ordered, \A k \in Kinds : child'[k].st = child[k].st,
           life' = "live" => life = "live",
           life' # "gone" => life # "gone",
           at'.pc \in Up => life = "live" \/ at.pc \in Up,
           \/ at'.pc \notin {"children", "remove", "teardown"}
           \/ at' = at /\ mem'.ns = mem.ns
           \/ at'.pc = "children" /\ at'.i = 1
           \/ at'.pc = "remove" /\ at'.i = Len(ChildCreationOrder)
           \/ at'.pc = "teardown" /\ (mem'.ns => NoChild),
           namespace' # "active" => NoChild
    PROVE  Ordered'
  <1>1. \A i \in Positions : ChildCreationOrder[i] \in Kinds
    BY OrderFacts
  <1>2. \A i \in Positions : ~(i < 1) /\ ~(i > Len(ChildCreationOrder))
    BY OrderFacts, SMT
  <1>3. NoChild => NoChild'
    BY DEF NoChild, Exists
  <1>4. \A i \in Positions : /\ child'[ChildCreationOrder[i]].st = child[ChildCreationOrder[i]].st
                             /\ Exists(ChildCreationOrder[i])' <=> Exists(ChildCreationOrder[i])
    BY <1>1 DEF Exists
  <1>5. ChildrenAreAPrefix'
    BY <1>4 DEF Ordered, ChildrenAreAPrefix, Positions
  <1>6. NamespaceOutlivesChildren'
    BY <1>3 DEF NamespaceOutlivesChildren
  <1>7. life' = "live" \/ at'.pc \in Up => \A k \in Kinds : child'[k].st # "deleting"
    BY DEF Ordered
  <1>8. at'.pc = "children" =>
           \A j \in Positions : j < at'.i => Exists(ChildCreationOrder[j])'
    BY <1>2, <1>4 DEF Ordered
  <1>9. at'.pc = "remove" /\ mem'.ns =>
           \A j \in Positions : j > at'.i => ~Exists(ChildCreationOrder[j])'
    BY <1>2, <1>4, Zenon DEF Ordered
  <1>10. at'.pc = "teardown" /\ mem'.ns => NoChild'
    BY <1>3, Zenon DEF Ordered
  <1>11. life' # "gone" =>
           \A i, j \in Positions :
               i < j /\ child'[ChildCreationOrder[i]].st = "deleting"
                  => ~Exists(ChildCreationOrder[j])'
    BY <1>4 DEF Ordered
  <1> QED
    BY <1>5, <1>6, <1>7, <1>8, <1>9, <1>10, <1>11 DEF Ordered, Positions

\* A pass creates a child when its predecessors exist and none is being deleted.
LEMMA EnsureChildOrdered ==
    ASSUME IInv, EnsureChild \/ EnsureChildFails
    PROVE  ChildControl' /\ Ordered'
  <1> DEFINE k == ChildCreationOrder[at.i]
  <1>0. /\ k \in Kinds /\ at.i \in Positions /\ at.pc = "children"
        /\ mem \in Status
    BY OrderFacts DEF IInv, TypeInv, TenantTypeOK, PositionsOK, EnsureChild, EnsureChildFails
  <1>1. /\ UNCHANGED <<outer, pass, life, namespace>> /\ mem'.ns = mem.ns
        /\ \/ at'.pc = "patch"
           \/ /\ at'.pc = "children" /\ at'.i = at.i + 1 /\ Exists(k) /\ Synced(k)
    BY <1>0, SMT DEF EnsureChild, EnsureChildFails, ChildrenNotReady, Go, Status, world
  <1>2. \/ Synced(k)
        \/ UNCHANGED child
        \/ ~Exists(k) /\ NewChild(k) /\ mem.ns /\ at'.pc = "patch"
    BY SMT DEF EnsureChild, EnsureChildFails, ChildrenNotReady, Go
  <1>3. CASE Synced(k) \/ UNCHANGED child
    <2>1. ChildControl' /\ \A j \in Kinds : child'[j].st = child[j].st
      <3>1. CASE Synced(k)
        BY <1>0, <1>1, <3>1, SyncedControl DEF IInv
      <3>2. CASE UNCHANGED child
        BY <1>1, <3>2 DEF IInv, ChildControl, Exists
      <3> QED
        BY <1>3, <3>1, <3>2
    <2>2. CASE at'.pc = "patch"
      BY <1>0, <1>1, <2>1, <2>2, SameChildren
         DEF IInv, Up, Ordered, NamespaceOutlivesChildren
    <2>3. CASE at'.pc = "children" /\ at'.i = at.i + 1 /\ Exists(k)
      <3>1. \A i \in Positions :
                /\ child'[ChildCreationOrder[i]].st = child[ChildCreationOrder[i]].st
                /\ Exists(ChildCreationOrder[i])' <=> Exists(ChildCreationOrder[i])
        BY <2>1, OrderFacts DEF Exists
      <3>2. \A j \in Positions : j < at.i + 1 => j < at.i \/ j = at.i
        BY <1>0, OrderFacts, SMT
      <3>3. \A j \in Positions : j < at'.i => Exists(ChildCreationOrder[j])'
        BY <1>0, <2>3, <3>1, <3>2 DEF IInv, Ordered
      <3>4. ChildrenAreAPrefix'
        BY <1>1, <3>1 DEF IInv, Ordered, ChildrenAreAPrefix, Positions
      <3>5. NamespaceOutlivesChildren'
        BY <1>1, <2>1 DEF IInv, Ordered, NamespaceOutlivesChildren, NoChild, Exists
      <3>6. \A j \in Kinds : child'[j].st # "deleting"
        BY <1>0, <2>1 DEF IInv, Ordered, Up
      <3> QED
        BY <2>1, <2>3, <3>3, <3>4, <3>5, <3>6, OrderFacts DEF Ordered, Positions
    <2> QED
      BY <1>1, <2>1, <2>2, <2>3
  <1>4. CASE ~Exists(k) /\ NewChild(k) /\ mem.ns /\ at'.pc = "patch"
    <2>1. /\ ChildControl' /\ child'[k].st = "live"
          /\ \A j \in Kinds \ {k} : child'[j] = child[j]
      BY <1>0, <1>1, <1>4, NewChildControl DEF IInv
    <2>2. namespace' = "active"
      BY <1>0, <1>1, <1>4 DEF IInv, Control, Up
    <2>3. \A j \in Kinds : child'[j].st # "deleting"
      BY <1>0, <2>1 DEF IInv, Ordered, Up
    <2>4. \A i \in Positions : Exists(ChildCreationOrder[i])' <=>
                               i = at.i \/ Exists(ChildCreationOrder[i])
      BY <1>0, <2>1, OrderFacts, SMT DEF Exists
    <2>5. ASSUME life' # "gone", NEW i \in Positions, NEW j \in Positions,
                 i < j, Exists(ChildCreationOrder[j])'
          PROVE  Exists(ChildCreationOrder[i])'
      <3>1. CASE j = at.i
        BY <1>0, <2>4, <2>5, <3>1 DEF IInv, Ordered
      <3>2. CASE j # at.i
        BY <1>1, <2>4, <2>5, <3>2 DEF IInv, Ordered, ChildrenAreAPrefix, Positions
      <3> QED
        BY <3>1, <3>2
    <2>6. ChildrenAreAPrefix' /\ NamespaceOutlivesChildren'
      BY <2>2, <2>5 DEF ChildrenAreAPrefix, NamespaceOutlivesChildren, Positions
    <2> QED
      BY <1>4, <2>1, <2>3, <2>6, OrderFacts DEF Ordered, Positions
  <1> QED
    BY <1>2, <1>3, <1>4

\* A pass deletes a child when its successors are gone.
LEMMA DeleteChildOrdered ==
    ASSUME IInv, DeleteChild \/ DeleteChildFails
    PROVE  ChildControl' /\ Ordered'
  <1>0. /\ at.pc = "remove" /\ at.i \in 0..Len(ChildCreationOrder) /\ life = "deleting"
        /\ UNCHANGED <<outer, pass, life, namespace>>
        /\ \A i \in Positions : ChildCreationOrder[i] \in Kinds
    BY OrderFacts DEF IInv, TypeInv, PositionsOK, Control, Down, DeleteChild, DeleteChildFails,
                      world
  <1>1. CASE UNCHANGED <<child, mem>> /\ at'.pc = "teardown" /\ (at.i = 0 \/ ~mem.ns)
    <2>1. mem'.ns => NoChild
      <3>1. mem'.ns => \A j \in Positions : j > 0 => ~Exists(ChildCreationOrder[j])
        BY <1>0, <1>1 DEF IInv, Ordered
      <3>2. \A j \in Positions : j > 0
        BY OrderFacts, SMT
      <3> QED
        BY <3>1, <3>2, OrderFacts, SMT DEF NoChild
    <2> QED
      BY <1>0, <1>1, <2>1, SameChildren
         DEF IInv, Up, Ordered, NamespaceOutlivesChildren, ChildControl, Exists
  <1>2. CASE /\ UNCHANGED <<child, mem>> /\ at.i > 0 /\ ~Exists(ChildCreationOrder[at.i])
             /\ at'.pc = "remove" /\ at'.i = at.i - 1
    <2>1. \A j \in Positions : j > at.i - 1 => j > at.i \/ j = at.i
      BY <1>0, OrderFacts, SMT
    <2>2. mem'.ns => \A j \in Positions : j > at'.i => ~Exists(ChildCreationOrder[j])'
      BY <1>0, <1>2, <2>1 DEF IInv, Ordered, Exists
    <2>3. ChildrenAreAPrefix' /\ NamespaceOutlivesChildren' /\ ChildControl'
      BY <1>0, <1>2 DEF IInv, Ordered, ChildrenAreAPrefix, NamespaceOutlivesChildren,
                        NoChild, Exists, ChildControl
    <2>4. \A i, j \in Positions :
              i < j /\ child'[ChildCreationOrder[i]].st = "deleting"
                 => ~Exists(ChildCreationOrder[j])'
      BY <1>0, <1>2 DEF IInv, Ordered, Exists
    <2> QED
      BY <1>0, <1>2, <2>2, <2>3, <2>4 DEF Ordered, Up, Positions
  <1>3. CASE UNCHANGED child /\ at'.pc = "idle"
    BY <1>0, <1>3, SameChildren
       DEF IInv, Up, Ordered, NamespaceOutlivesChildren, ChildControl, Exists
  <1>4. CASE /\ at.i > 0 /\ mem.ns /\ at'.pc = "idle"
             /\ Deleted(ChildCreationOrder[at.i])
    <2> DEFINE k == ChildCreationOrder[at.i]
    <2>0. at.i \in Positions /\ k \in Kinds
      BY <1>0, <1>4, OrderFacts, SMT
    <2>1. /\ ChildControl' /\ \A j \in Kinds \ {k} : child'[j] = child[j]
          /\ child'[k].st \in {"absent", "deleting"}
      BY <1>0, <1>4, <2>0, RemovedControl DEF IInv
    <2>2. \A i \in Positions : i # at.i =>
              /\ child'[ChildCreationOrder[i]] = child[ChildCreationOrder[i]]
              /\ Exists(ChildCreationOrder[i])' <=> Exists(ChildCreationOrder[i])
      BY <2>0, <2>1, OrderFacts DEF Exists
    <2>3. child'[k].st # "absent" => Exists(k)
      BY <1>4, <2>0 DEF Exists, Deleted, IInv, TypeInv, TenantTypeOK, ChildTypeOK
    <2>4. \A j \in Positions : j > at.i => ~Exists(ChildCreationOrder[j])
      BY <1>0, <1>4 DEF IInv, Ordered
    <2>5. ASSUME NEW i \in Positions, NEW j \in Positions, i < j,
                 Exists(ChildCreationOrder[j])'
          PROVE  Exists(ChildCreationOrder[i])' /\ child'[ChildCreationOrder[i]].st # "deleting"
      <3>1. Exists(ChildCreationOrder[j]) /\ ~(j > at.i)
        <4>1. CASE j = at.i
          BY <1>0, <2>0, <2>3, <2>5, <4>1, OrderFacts, SMT DEF Exists
        <4>2. CASE j # at.i
          BY <2>2, <2>4, <2>5, <4>2
        <4> QED
          BY <4>1, <4>2
      <3>2. i # at.i
        BY <1>0, <2>5, <3>1, OrderFacts
      <3> QED
        BY <1>0, <2>2, <2>5, <3>1, <3>2 DEF IInv, Ordered, ChildrenAreAPrefix, Positions
    <2>6. ChildrenAreAPrefix'
      BY <2>5 DEF ChildrenAreAPrefix, Positions
    <2>7. NamespaceOutlivesChildren'
      BY <1>0, <2>0, <2>1, <2>3 DEF IInv, Ordered, NamespaceOutlivesChildren, NoChild, Exists
    <2> QED
      BY <1>0, <1>4, <2>1, <2>5, <2>6, <2>7 DEF Ordered, Up, Positions
  <1>5. CASE DeleteChild
    BY <1>1, <1>2, <1>3, <1>4, <1>5, SMT DEF DeleteChild, Go, EndPass, Resting
  <1>6. CASE DeleteChildFails
    BY <1>3, <1>4, <1>6 DEF DeleteChildFails, EndPass, Resting
  <1> QED
    BY <1>5, <1>6

LEMMA NextOrdered == IInv /\ [Next]_vars => ChildControl' /\ Ordered'
  <1> SUFFICES ASSUME IInv, [Next]_vars PROVE ChildControl' /\ Ordered'
    OBVIOUS
  <1>0. /\ status \in Status /\ mem \in Status /\ life \in {"live", "deleting", "gone"}
        /\ namespace # "active" => NoChild
        /\ TypeInv /\ Control /\ ChildControl /\ Ordered
    BY DEF IInv, TypeInv, TenantTypeOK, Ordered, NamespaceOutlivesChildren
  <1>a. UNCHANGED childVars => ChildControl' /\ \A k \in Kinds : child'[k].st = child[k].st
    BY <1>0 DEF childVars, ChildControl, Exists
  <1>1. CASE AddFinalizer \/ StartPass \/ PatchStatus \/ PatchStatusFails
    <2>1. /\ UNCHANGED <<childVars, life, namespace>>
          /\ at'.pc \in Up => life = "live"
          /\ at'.pc \notin {"children", "remove", "teardown"}
      BY <1>1, SMT DEF AddFinalizer, StartPass, PatchStatus, PatchStatusFails, Go, EndPass, Resting,
                  Up, world
    <2> QED
      BY <1>0, <1>a, <2>1, SameChildren
  <1>2. CASE ProvisionStep \/ ProvisionStepFails
    <2>1. /\ UNCHANGED <<childVars, life>> /\ at.pc \in Up
          /\ namespace' # "active" => namespace # "active"
          /\ \/ at'.pc \notin {"children", "remove", "teardown"}
             \/ at'.pc = "children" /\ at'.i = 1
      BY <1>2, SMT DEF ProvisionStep, ProvisionStepFails, Makes, Go, Up
    <2> QED
      BY <1>0, <1>a, <2>1, SameChildren
  <1>3. CASE EnsureChild \/ EnsureChildFails
    BY <1>3, EnsureChildOrdered
  <1>4. CASE StartDelete \/ EnsureBackup \/ EnsureBackupFails
    <2>1. /\ UNCHANGED <<childVars, life, namespace>>
          /\ at'.pc \notin Up
          /\ \/ at'.pc \notin {"children", "remove", "teardown"}
             \/ at'.pc = "remove" /\ at'.i = Len(ChildCreationOrder)
      BY <1>4, SMT DEF StartDelete, EnsureBackup, EnsureBackupFails, Go, EndPass, Resting, Up, world
    <2> QED
      BY <1>0, <1>a, <2>1, SameChildren
  <1>5. CASE DeleteChild \/ DeleteChildFails
    BY <1>5, DeleteChildOrdered
  <1>6. CASE TeardownStep \/ TeardownStepFails
    <2> DEFINE s == Teardown[at.i]
    <2>1. s \in Steps /\ at.pc = "teardown"
      BY <1>0, <1>6, StepsFacts DEF TypeInv, PositionsOK, TeardownStep, TeardownStepFails
    <2>2. namespace' # "active" => namespace # "active" \/ mem.ns
      BY <1>6 DEF TeardownStep, TeardownStepFails, Removes
    <2>3. mem.ns => NoChild
      BY <1>0, <2>1 DEF Ordered
    <2>4. StepDone(mem, s).ns = mem.ns
      BY <1>0, <2>1, StatusOps
    <2>5. at'.pc = "teardown" => mem' = StepDone(mem, s)
      BY <1>6, SMT DEF TeardownStep, TeardownStepFails, AfterStep, Go
    <2>6. UNCHANGED <<childVars, life>> /\ at'.pc \in {"teardown", "closing"}
      BY <1>6, SMT DEF TeardownStep, TeardownStepFails, AfterStep, Go
    <2> QED
      BY <1>0, <1>a, <2>2, <2>3, <2>4, <2>5, <2>6, SameChildren DEF Up
  <1>7. CASE CloseTeardown \/ CloseTeardownFails \/ RemoveFinalizer \/ RemoveFinalizerFails
    <2>1. /\ UNCHANGED <<childVars, namespace>> /\ life' \in {life, "gone"}
          /\ at'.pc \in {"idle", "finalizer"}
      BY <1>7, SMT DEF CloseTeardown, CloseTeardownFails, RemoveFinalizer, RemoveFinalizerFails,
                  AfterClosing, Go, EndPass, Resting, world
    <2>2. life # "gone"
      BY <1>0, <1>7 DEF Control, CloseTeardown, CloseTeardownFails, RemoveFinalizer,
                        RemoveFinalizerFails
    <2> QED
      BY <1>0, <1>a, <2>1, <2>2, SameChildren DEF Up
  <1>8. ASSUME NEW k \in Kinds, Children(k) PROVE ChildControl' /\ Ordered'
    <2>1. ChildStep(k) \/ ChildFault(k)
      BY <1>8 DEF Children
    <2>2. /\ ChildControl'
          /\ \A j \in Kinds : \/ child'[j].st = child[j].st
                              \/ child[j].st = "deleting" /\ child'[j].st = "absent"
      BY <1>0, <2>1, ChildStepControl
    <2>3. UNCHANGED <<life, at, mem, namespace>>
      BY <1>8 DEF Children, tenantVars, world
    <2>4. \A i \in Positions :
              LET c == ChildCreationOrder[i] IN
              \/ child'[c].st = child[c].st
              \/ child[c].st = "deleting" /\ child'[c].st = "absent"
      BY <2>2, OrderFacts
    <2>5. \A i \in Positions :
              LET c == ChildCreationOrder[i] IN
              /\ child'[c].st # "absent" => Exists(c)
              /\ Exists(c) /\ child'[c].st = "absent" => child[c].st = "deleting"
              /\ child'[c].st = "deleting" => child[c].st = "deleting"
      BY <2>4 DEF Exists
    <2>6. ASSUME life # "gone", NEW i \in Positions, NEW j \in Positions, i < j,
                 child'[ChildCreationOrder[j]].st # "absent"
          PROVE  /\ child'[ChildCreationOrder[i]].st # "absent"
                 /\ child'[ChildCreationOrder[i]].st # "deleting"
      BY <1>0, <2>5, <2>6 DEF Ordered, ChildrenAreAPrefix, Positions
    <2>7. ChildrenAreAPrefix'
      BY <2>3, <2>6 DEF ChildrenAreAPrefix, Positions, Exists
    <2>8. (NoChild => NoChild') /\ NamespaceOutlivesChildren'
      BY <1>0, <2>2, <2>3 DEF NamespaceOutlivesChildren, NoChild, Exists
    <2>9. life' = "live" \/ at'.pc \in Up => \A j \in Kinds : child'[j].st # "deleting"
      BY <1>0, <2>2, <2>3 DEF Ordered
    <2>10. at'.pc = "children" =>
              \A j \in Positions : j < at'.i => Exists(ChildCreationOrder[j])'
      BY <1>0, <2>3, <2>5, OrderFacts, SMT DEF Ordered, Exists, Up
    <2>11. at'.pc = "remove" /\ mem'.ns =>
              \A j \in Positions : j > at'.i => ~Exists(ChildCreationOrder[j])'
      BY <1>0, <2>3, <2>5 DEF Ordered, Exists
    <2> QED
      BY <1>0, <2>2, <2>3, <2>6, <2>7, <2>8, <2>9, <2>10, <2>11 DEF Ordered, Positions, Exists
  <1>9. ASSUME NEW k \in Kinds, GarbageCollect(k) PROVE ChildControl' /\ Ordered'
    <2>1. /\ life = "gone" /\ at.pc = "idle"
          /\ UNCHANGED <<outer, pass, life, at, mem, namespace>>
      BY <1>0, <1>9 DEF GarbageCollect, Control, tenantVars
    <2>2. /\ ChildControl' /\ \A j \in Kinds \ {k} : child'[j] = child[j]
      BY <1>0, <1>9, <2>1, RemovedControl, Zenon DEF GarbageCollect
    <2>3. NamespaceOutlivesChildren'
      BY <1>0, <1>9, <2>1, <2>2 DEF NamespaceOutlivesChildren, NoChild, Exists, GarbageCollect
    <2> QED
      BY <2>1, <2>2, <2>3 DEF Ordered, Up, ChildrenAreAPrefix
  <1>10. CASE \/ RequestDelete \/ EditSpec \/ BackupEnds \/ BackupAges \/ NamespaceCascade
              \/ TimePasses \/ UNCHANGED vars
    <2>1. /\ UNCHANGED <<childVars, at>>
          /\ namespace' # "active" => namespace # "active"
          /\ life' = life \/ (life = "live" /\ life' # "live")
      BY <1>10 DEF RequestDelete, EditSpec, BackupEnds, BackupAges, NamespaceCascade, TimePasses,
                   vars, tenantVars, world
    <2>2. mem'.ns = mem.ns
      BY <1>0, <1>10, CompleteOps
         DEF RequestDelete, EditSpec, BackupEnds, BackupAges, NamespaceCascade, TimePasses,
             vars, tenantVars
    <2> QED
      BY <1>0, <1>a, <2>1, <2>2, SameChildren
  <1>11. CASE Crash
    <2>1. /\ UNCHANGED <<child, outer, life, namespace>> /\ at'.pc = "idle"
          /\ \A k \in Kinds : pass'[k].at = "idle"
      BY <1>11 DEF Crash, EndPass, Resting, Idle, world
    <2>2. ChildControl'
      BY <1>0, <2>1 DEF ChildControl, Exists
    <2> QED
      BY <1>0, <2>1, <2>2, SameChildren DEF Up
  <1> QED
    BY <1>1, <1>2, <1>3, <1>4, <1>5, <1>6, <1>7, <1>8, <1>9, <1>10, <1>11, SMT
       DEF Next, Reconcile, ReconcileFails

-----------------------------------------------------------------------------
(* What Ready means: of a Tenant, and of a child.                          *)

Consistent(st) == ~(st.ready /\ st.blocked)

\* A pass over a live Tenant works on a copy that is as sound as the status it
\* came from.
SagaInv ==
    /\ life = "live" => Consistent(status)
    /\ at.pc \in Up => Consistent(mem)

\* A pass of a child controller may be behind the spec, but a child that says it
\* is ready for its spec is not passed by an older one.
AppliedInv ==
    \A k \in Kinds :
        /\ child[k].observed <= child[k].gen
        /\ pass[k].at \in {"provision", "changed"} =>
              /\ pass[k].gen <= child[k].gen
              /\ AlreadyReady(k) => pass[k].gen = child[k].gen
        /\ pass[k].at = "changed" => outer[k] = pass[k].gen
        /\ child[k].st = "live" /\ AlreadyReady(k) => outer[k] = child[k].gen

LEMMA ConsistentOps ==
    ASSUME NEW st \in Status, NEW s \in Steps
    PROVE  /\ Consistent(st) => Consistent(StepDone(st, s)) /\ Consistent(Noted(st, s))
           /\ Consistent(StepFailed(st, s)) /\ Consistent(StepBlocked(st, s))
           /\ Consistent(Provisioned(st))
           /\ Consistent(st) => Consistent(Age(st))
  <1>1. StepDone(st, s).ready = st.ready /\ StepDone(st, s).blocked = st.blocked
    BY DEF StepDone, Status
  <1>2. Noted(st, s).ready = st.ready /\ Noted(st, s).blocked = st.blocked
    BY DEF Noted, Status
  <1>3. Lower(st, s) \in Status
    BY StatusOps
  <1>4. ~StepFailed(st, s).ready /\ ~StepBlocked(st, s).ready
    BY <1>3, Zenon DEF StepFailed, StepBlocked, Status
  <1>5. ~Provisioned(st).blocked
    BY Zenon DEF Provisioned, Complete, Status
  <1>6. Age(st).ready = st.ready /\ Age(st).blocked = st.blocked
    BY DEF Age, Status
  <1> QED
    BY <1>1, <1>2, <1>4, <1>5, <1>6 DEF Consistent

LEMMA NextSagaInv == IInv /\ SagaInv /\ [Next]_vars => SagaInv'
  <1> SUFFICES ASSUME IInv, SagaInv, [Next]_vars PROVE SagaInv'
    OBVIOUS
  <1>0. /\ status \in Status /\ mem \in Status /\ TypeInv /\ Control
        /\ at.pc \in Down => life # "live"
        /\ life \in {"live", "deleting", "gone"}
    BY DEF IInv, TypeInv, TenantTypeOK, Control
  <1> USE DEF SagaInv, Up, Down
  <1>1. CASE StartPass
    <2>1. mem'.ready = status.ready /\ mem'.blocked = status.blocked
      BY <1>0, <1>1 DEF StartPass, Status
    <2> QED
      BY <1>1, <2>1 DEF StartPass, Go, Consistent
  <1>2. CASE ProvisionStep
    <2> DEFINE s == Provisioning[at.i]
               st == StepDone(Noted(mem, s), s)
    <2>1. s \in Steps /\ at.pc = "steps"
      BY <1>0, <1>2, StepsFacts DEF ProvisionStep, TypeInv, PositionsOK
    <2>2. Noted(mem, s) \in Status /\ st \in Status
      BY <1>0, <2>1, StatusOps
    <2>3. Consistent(st) /\ Consistent(Provisioned(st))
      BY <1>0, <2>1, <2>2, ConsistentOps
    <2>4. mem' = st \/ mem' = Provisioned(st)
      BY <1>2 DEF ProvisionStep
    <2>5. UNCHANGED <<life, status>>
      BY <1>2 DEF ProvisionStep
    <2> QED
      BY <2>3, <2>4, <2>5
  <1>3. CASE ProvisionStepFails
    <2> DEFINE s == Provisioning[at.i]
    <2>1. s \in Steps
      BY <1>0, <1>3, StepsFacts DEF ProvisionStepFails, TypeInv, PositionsOK
    <2>2. Consistent(StepBlocked(mem, s)) /\ Consistent(StepFailed(mem, s))
      BY <1>0, <2>1, ConsistentOps
    <2>3. mem' = StepBlocked(mem, s) \/ mem' = StepFailed(mem, s)
      BY <1>3 DEF ProvisionStepFails
    <2>4. UNCHANGED <<life, status>>
      BY <1>3 DEF ProvisionStepFails
    <2> QED
      BY <2>2, <2>3, <2>4
  <1>4. CASE EnsureChild \/ EnsureChildFails
    <2>1. at.pc = "children" /\ UNCHANGED <<life, status>>
      BY <1>4 DEF EnsureChild, EnsureChildFails
    <2>2. mem'.ready = mem.ready /\ mem'.blocked = mem.blocked
      BY <1>0, <1>4 DEF EnsureChild, EnsureChildFails, ChildrenNotReady, Status
    <2> QED
      BY <2>1, <2>2 DEF Consistent
  <1>5. CASE PatchStatus \/ PatchStatusFails
    BY <1>5, SMT DEF PatchStatus, PatchStatusFails, EndPass, Resting
  <1>6. CASE TimePasses
    <2>1. Consistent(status) => Consistent(status')
      BY <1>0, <1>6, ConsistentOps, StepsFacts, SMT DEF TimePasses
    <2>2. Consistent(mem) => Consistent(mem')
      BY <1>0, <1>6, ConsistentOps, StepsFacts, SMT DEF TimePasses
    <2> QED
      BY <1>6, <2>1, <2>2 DEF TimePasses
  <1>7. CASE RequestDelete
    BY <1>7 DEF RequestDelete
  <1>8. CASE \/ StartDelete \/ EnsureBackup \/ EnsureBackupFails \/ DeleteChild
             \/ DeleteChildFails \/ TeardownStep \/ TeardownStepFails \/ CloseTeardown
             \/ CloseTeardownFails \/ RemoveFinalizer \/ RemoveFinalizerFails
    <2>1. life # "live" /\ life' # "live"
      BY <1>0, <1>8 DEF StartDelete, EnsureBackup, EnsureBackupFails, DeleteChild,
         DeleteChildFails, TeardownStep, TeardownStepFails, CloseTeardown,
         CloseTeardownFails, RemoveFinalizer, RemoveFinalizerFails
    <2>2. at'.pc \notin Up
      <3>1. CASE StartDelete \/ EnsureBackup \/ EnsureBackupFails
        BY <1>0, <3>1, SMT DEF StartDelete, EnsureBackup, EnsureBackupFails, Go, EndPass, Resting
      <3>2. CASE DeleteChild \/ DeleteChildFails
        BY <1>0, <3>2, SMT DEF DeleteChild, DeleteChildFails, Go, EndPass, Resting
      <3>3. CASE TeardownStep \/ TeardownStepFails
        BY <1>0, <3>3, SMT DEF TeardownStep, TeardownStepFails, AfterStep, Go, EndPass, Resting
      <3>4. CASE CloseTeardown \/ CloseTeardownFails
        BY <1>0, <3>4, SMT DEF CloseTeardown, CloseTeardownFails, AfterClosing, Go, EndPass, Resting
      <3>5. CASE RemoveFinalizer \/ RemoveFinalizerFails
        BY <1>0, <3>5, SMT DEF RemoveFinalizer, RemoveFinalizerFails, Go, EndPass, Resting
      <3> QED
        BY <1>8, <3>1, <3>2, <3>3, <3>4, <3>5
    <2> QED
      BY <2>1, <2>2
  <1>9. CASE Crash
    BY <1>9 DEF Crash, EndPass, Resting
  <1>10. CASE UNCHANGED <<life, status, mem, at>>
    BY <1>10
  <1> QED
    BY <1>1, <1>2, <1>3, <1>4, <1>5, <1>6, <1>7, <1>8, <1>9, <1>10, ZenonT(60)
       DEF Next, Reconcile, ReconcileFails, AddFinalizer, Children, GarbageCollect,
           EditSpec, BackupEnds, BackupAges, NamespaceCascade, vars, tenantVars

\* A pass of a child controller keeps AppliedInv of its kind: what it applies is
\* the generation it began with, and it says so of no other.
LEMMA ChildStepApplied ==
    ASSUME IInv, AppliedInv, NEW k \in Kinds, ChildStep(k) \/ ChildFault(k)
    PROVE  AppliedInv'
  <1>0. /\ child \in [Kinds -> Object] /\ outer \in [Kinds -> Outer]
        /\ pass \in [Kinds -> Pass] /\ child[k] \in Object /\ pass[k] \in Pass
        /\ ChildControl
    BY DEF IInv, TypeInv, TenantTypeOK, ChildTypeOK
  <1>a. /\ \A j \in Kinds \ {k} : NotReady(k)[j] = child[j]
        /\ NotReady(k)[k].gen = child[k].gen /\ NotReady(k)[k].observed = child[k].observed
        /\ ~NotReady(k)[k].phaseReady /\ NotReady(k)[k].st = child[k].st
    BY <1>0 DEF NotReady, Object
  <1>b. 0 \in Int /\ NoObject.observed = -1 /\ NoObject.gen = 0 /\ ~NoObject.phaseReady
        /\ NoObject.st = "absent"
    BY SMT DEF NoObject
  <1> USE DEF AppliedInv, AlreadyReady
  <1>1. CASE EnsureFinalizer(k)
    <2>1. /\ \A j \in Kinds \ {k} : child'[j] = child[j]
          /\ child'[k].gen = child[k].gen /\ child'[k].observed = child[k].observed
          /\ child'[k].phaseReady = child[k].phaseReady /\ child'[k].st = child[k].st
      BY <1>0, <1>1 DEF EnsureFinalizer, Object
    <2> QED
      BY <1>1, <2>1, SMT DEF EnsureFinalizer
  <1>2. CASE BeginProvision(k)
    <2>1. /\ \A j \in Kinds \ {k} : child'[j] = child[j] /\ pass'[j] = pass[j]
          /\ child'[k].gen = child[k].gen /\ child'[k].observed = child[k].observed
          /\ child'[k].phaseReady => child[k].phaseReady
          /\ child'[k].st = child[k].st
          /\ pass'[k].at = "provision" /\ pass'[k].gen = child[k].gen
      BY <1>0, <1>2 DEF BeginProvision, Object
    <2>2. child[k].gen \in Int
      BY <1>0, SMT DEF Object
    <2> QED
      BY <1>2, <2>1, <2>2, SMT DEF BeginProvision
  <1>3. CASE Provision(k)
    <2>1. /\ \A j \in Kinds \ {k} : outer'[j] = outer[j] /\ pass'[j] = pass[j]
          /\ outer'[k] = pass[k].gen
          /\ pass'[k].at = "changed" /\ pass'[k].gen = pass[k].gen
          /\ UNCHANGED child /\ pass[k].at = "provision"
      BY <1>0, <1>3 DEF Provision, Pass
    <2> QED
      BY <2>1, SMT
  <1>4. CASE ProvisionFails(k)
    <2>1. /\ \A j \in Kinds \ {k} : outer'[j] = outer[j] /\ pass'[j] = pass[j]
                                    /\ child'[j] = child[j]
          /\ child'[k].gen = child[k].gen /\ child'[k].observed = child[k].observed
          /\ child'[k].phaseReady => child[k].phaseReady
          /\ child'[k].st = child[k].st
          /\ pass'[k].at = "idle" /\ pass[k].at = "provision"
          /\ outer[k] = pass[k].gen => outer'[k] = outer[k]
      BY <1>0, <1>4, <1>a DEF ProvisionFails, Idle
    <2> QED
      BY <2>1, SMT
  <1>5. CASE MarkReady(k)
    <2>1. /\ \A j \in Kinds \ {k} : child'[j] = child[j] /\ pass'[j] = pass[j]
          /\ child'[k].gen = child[k].gen /\ child'[k].observed = pass[k].gen
          /\ child'[k].st = child[k].st
          /\ pass'[k].at = "idle" /\ pass[k].at = "changed" /\ UNCHANGED outer
      BY <1>0, <1>5 DEF MarkReady, Idle, Object
    <2>2. pass[k].gen <= child[k].gen /\ outer[k] = pass[k].gen
      BY <2>1
    <2> SUFFICES ASSUME NEW j \in Kinds
                 PROVE  AppliedInv!(j)'
      BY Zenon
    <2>3. CASE j = k
      BY <2>1, <2>2, <2>3
    <2>4. CASE j # k
      BY <2>1, <2>4, SMT
    <2> QED
      BY <2>3, <2>4
  <1>6. CASE StatusLost(k) \/ FinalizeFails(k)
    <2>1. /\ \A j \in Kinds \ {k} : pass'[j] = pass[j]
          /\ pass'[k].at = "idle" /\ UNCHANGED <<child, outer>>
      BY <1>0, <1>6, SMT DEF StatusLost, FinalizeFails, Idle
    <2> QED
      BY <2>1, SMT
  <1>7. CASE BeginDeprovision(k)
    <2>1. /\ \A j \in Kinds \ {k} : child'[j] = child[j] /\ pass'[j] = pass[j]
          /\ child'[k].gen = child[k].gen /\ child'[k].observed = child[k].observed
          /\ child'[k].st = "deleting"
          /\ pass'[k].at = "deprovision" /\ UNCHANGED outer
      BY <1>0, <1>7, <1>a DEF BeginDeprovision, Pass
    <2> QED
      BY <2>1, SMT
  <1>8. CASE Deprovision(k) \/ DeprovisionFails(k)
    <2>1. /\ \A j \in Kinds \ {k} : outer'[j] = outer[j] /\ pass'[j] = pass[j]
          /\ pass'[k].at \in {"finalize", "idle"} /\ UNCHANGED child
          /\ child[k].st = "deleting"
      BY <1>0, <1>8, SMT DEF Deprovision, DeprovisionFails, Idle, Pass, ChildControl
    <2> QED
      BY <2>1, SMT
  <1>9. CASE Finalize(k)
    <2>1. /\ \A j \in Kinds \ {k} : child'[j] = child[j] /\ pass'[j] = pass[j]
          /\ child'[k] = NoObject /\ pass'[k].at = "idle" /\ UNCHANGED outer
      BY <1>0, <1>9 DEF Finalize, Idle
    <2> QED
      BY <1>b, <2>1, SMT
  <1> QED
    BY <1>1, <1>2, <1>3, <1>4, <1>5, <1>6, <1>7, <1>8, <1>9 DEF ChildStep, ChildFault

\* The Tenant controller creates, removes and edits one object.
LEMMA ObjectStepApplied ==
    ASSUME IInv, AppliedInv, NEW k \in Kinds, UNCHANGED <<outer, pass>>,
           \/ ~Exists(k) /\ NewChild(k)
           \/ Deleted(k)
           \/ child[k].st = "live" /\ child' = [child EXCEPT ![k] = Removed(@)]
           \/ Exists(k) /\ Synced(k)
           \/ UNCHANGED child
    PROVE  AppliedInv'
  <1>0. /\ child \in [Kinds -> Object] /\ pass \in [Kinds -> Pass]
        /\ child[k] \in Object /\ pass[k] \in Pass /\ ChildControl
    BY DEF IInv, TypeInv, TenantTypeOK, ChildTypeOK
  <1>b. NoObject.observed = -1 /\ NoObject.gen = 0 /\ ~NoObject.phaseReady
        /\ NoObject.st = "absent"
    BY DEF NoObject
  <1> USE DEF AppliedInv, AlreadyReady
  <1>1. CASE ~Exists(k) /\ NewChild(k)
    <2>1. /\ \A j \in Kinds \ {k} : child'[j] = child[j]
          /\ child'[k].observed = -1 /\ child'[k].gen = 0 /\ ~child'[k].phaseReady
      BY <1>0, <1>1 DEF NewChild, NoObject
    <2>2. pass[k].at \notin {"provision", "changed"}
      BY <1>0, <1>1 DEF ChildControl
    <2> QED
      BY <2>1, <2>2, SMT
  <1>2. CASE \/ Deleted(k)
             \/ child[k].st = "live" /\ child' = [child EXCEPT ![k] = Removed(@)]
    <2>1. CASE child[k].st = "live"
      <3>1. child'[k] = Removed(child[k]) /\ \A j \in Kinds \ {k} : child'[j] = child[j]
        BY <1>0, <1>2, <2>1 DEF Deleted
      <3>2. CASE child[k].fin
        <4>1. /\ child'[k].st = "deleting" /\ child'[k].gen = child[k].gen
              /\ child'[k].observed = child[k].observed
              /\ child'[k].phaseReady = child[k].phaseReady
          BY <1>0, <3>1, <3>2 DEF Removed, Object
        <4> QED
          BY <3>1, <4>1, SMT
      <3>3. CASE ~child[k].fin
        <4>1. child'[k] = NoObject /\ pass[k].at \notin {"provision", "changed"}
          BY <1>0, <3>1, <3>3 DEF Removed, ChildControl
        <4> QED
          BY <1>b, <3>1, <4>1, SMT
      <3> QED
        BY <3>2, <3>3
    <2>2. CASE child[k].st # "live"
      <3>1. child' = child
        BY <1>0, <1>2, <2>2 DEF Deleted
      <3> QED
        BY <3>1
    <2> QED
      BY <2>1, <2>2
  <1>3. CASE Synced(k) /\ k = DataPlane /\ edited
    <2>1. /\ \A j \in Kinds \ {k} : child'[j] = child[j]
          /\ child'[k].gen = child[k].gen + 1 /\ child'[k].observed = child[k].observed
          /\ child[k].gen \in Int /\ child[k].observed \in Int /\ pass[k].gen \in Int
      BY <1>0, <1>3, SMT DEF Synced, Object, Pass
    <2> QED
      BY <2>1, SMT
  <1>4. CASE UNCHANGED child
    BY <1>4
  <1> QED
    BY <1>1, <1>2, <1>3, <1>4 DEF Synced

LEMMA NextAppliedInv == IInv /\ AppliedInv /\ [Next]_vars => AppliedInv'
  <1> SUFFICES ASSUME IInv, AppliedInv, [Next]_vars PROVE AppliedInv'
    OBVIOUS
  <1>0. /\ TypeInv
        /\ at.pc = "children" => ChildCreationOrder[at.i] \in Kinds
        /\ at.pc = "remove" /\ at.i > 0 => ChildCreationOrder[at.i] \in Kinds
    BY OrderFacts, SMT DEF IInv, TypeInv, PositionsOK
  <1>1. CASE EnsureChild \/ EnsureChildFails
    <2> DEFINE k == ChildCreationOrder[at.i]
    <2>1. k \in Kinds /\ UNCHANGED <<outer, pass>>
      BY <1>0, <1>1 DEF EnsureChild, EnsureChildFails
    <2>2. (~Exists(k) /\ NewChild(k)) \/ (Exists(k) /\ Synced(k)) \/ UNCHANGED child
      BY <1>1 DEF EnsureChild, EnsureChildFails
    <2> QED
      BY <2>1, <2>2, ObjectStepApplied
  <1>2. CASE DeleteChild \/ DeleteChildFails
    <2> DEFINE k == ChildCreationOrder[at.i]
    <2>1. UNCHANGED <<outer, pass>>
      BY <1>2 DEF DeleteChild, DeleteChildFails
    <2>2. UNCHANGED child \/ (k \in Kinds /\ Deleted(k))
      BY <1>0, <1>2 DEF DeleteChild, DeleteChildFails
    <2> QED
      BY <2>1, <2>2, ObjectStepApplied, DataPlaneAssumption
  <1>3. ASSUME NEW k \in Kinds, Children(k) \/ GarbageCollect(k) PROVE AppliedInv'
    <2>1. CASE Children(k)
      BY <2>1, ChildStepApplied DEF Children
    <2>2. CASE GarbageCollect(k)
      BY <2>2, ObjectStepApplied DEF GarbageCollect
    <2> QED
      BY <1>3, <2>1, <2>2
  <1>4. CASE Crash
    <2>1. UNCHANGED <<child, outer>> /\ \A k \in Kinds : pass'[k].at = "idle"
      BY <1>4 DEF Crash, Idle
    <2> QED
      BY <2>1 DEF AppliedInv, AlreadyReady
  <1>5. CASE UNCHANGED childVars
    BY <1>5 DEF childVars, AppliedInv, AlreadyReady
  <1> QED
    BY <1>1, <1>2, <1>3, <1>4, <1>5, ZenonT(60)
       DEF Next, Reconcile, ReconcileFails, AddFinalizer, StartPass, ProvisionStep,
           ProvisionStepFails, PatchStatus, PatchStatusFails, StartDelete, EnsureBackup,
           EnsureBackupFails, TeardownStep, TeardownStepFails, CloseTeardown,
           CloseTeardownFails, RemoveFinalizer, RemoveFinalizerFails, RequestDelete,
           EditSpec, BackupEnds, BackupAges, NamespaceCascade, TimePasses, vars

-----------------------------------------------------------------------------
(* The theorems.                                                           *)

\* The inductive invariant: it holds at first and every step keeps it.
LEMMA Invariance == Spec => []IInv
  <1>1. Init => IInv
    BY InitTypeInv, InitControl, InitChildControl, InitOrdered DEF IInv
  <1>2. IInv /\ [Next]_vars => IInv'
    BY NextTypeInv, NextControl, NextOrdered DEF IInv
  <1> QED
    BY <1>1, <1>2, PTL DEF Spec

\* While the Tenant exists its children are the first ones of the dependency
\* order, whatever call fails and wherever the operator crashes (reconcileChildren,
\* deleteChildrenInReverse).
THEOREM ChildrenStayAPrefix == Spec => []ChildrenAreAPrefix
  <1>1. IInv => ChildrenAreAPrefix
    BY DEF IInv, Ordered
  <1> QED
    BY <1>1, Invariance, PTL

\* No child is ever in a namespace that is being deleted (reconcileDelete).
THEOREM NamespaceIsLast == Spec => []NamespaceOutlivesChildren
  <1>1. IInv => NamespaceOutlivesChildren
    BY DEF IInv, Ordered
  <1> QED
    BY <1>1, Invariance, PTL

\* What a child controller made outside never outlives the object whose finalizer
\* removes it, except the organization of the identity (the finalizers of the
\* child controllers).
THEOREM NothingIsOrphaned == Spec => []NoOrphanResource
  <1>1. IInv => NoOrphanResource
    BY DEF IInv, ChildControl, NoOrphanResource
  <1> QED
    BY <1>1, Invariance, PTL

\* Nothing is removed before the last backup completed (finalbackup.Ensure).
THEOREM BackupComesFirst == Spec => BackedUpFirst
  <1> DEFINE Loss == \/ \E k \in Kinds : child[k].st = "live" /\ child'[k].st # "live"
                     \/ namespace = "active" /\ namespace' # "active"
                     \/ ~(made \subseteq made')
  <1>1. ASSUME IInv, [Next]_vars, Loss
        PROVE  Saved
    <2>0. /\ TypeInv /\ Control /\ ChildControl
          /\ at.pc \in {"remove", "teardown"} => Saved
          /\ life = "gone" => Saved
      BY <1>1 DEF IInv, Control, Down
    <2>1. CASE at.pc \in {"remove", "teardown"} \/ life = "gone"
      BY <2>0, <2>1
    <2>2. CASE at.pc \notin {"remove", "teardown"} /\ life # "gone"
      <3> DEFINE Keeps == /\ \A k \in Kinds : child[k].st = "live" => child'[k].st = "live"
                          /\ namespace = "active" => namespace' = "active"
                          /\ made \subseteq made'
      <3>1. CASE EnsureChild \/ EnsureChildFails
        <4> DEFINE k == ChildCreationOrder[at.i]
        <4>1. k \in Kinds
          BY <2>0, <3>1, OrderFacts
             DEF TypeInv, PositionsOK, EnsureChild, EnsureChildFails
        <4>2. Synced(k) \/ (~Exists(k) /\ NewChild(k)) \/ UNCHANGED child
          BY <3>1 DEF EnsureChild, EnsureChildFails
        <4>3. UNCHANGED <<outer, pass, namespace, made>>
          BY <3>1 DEF EnsureChild, EnsureChildFails, world
        <4>4. \A j \in Kinds : child[j].st = "live" => child'[j].st = "live"
          BY <2>0, <4>1, <4>2, <4>3, SyncedControl, NewChildControl
        <4> QED
          BY <1>1, <4>3, <4>4
      <3>2. CASE ProvisionStep \/ ProvisionStepFails
        BY <1>1, <3>2 DEF ProvisionStep, ProvisionStepFails, Makes, childVars
      <3>3. ASSUME NEW k \in Kinds, Children(k)
            PROVE  Saved
        <4>1. ChildStep(k) \/ ChildFault(k)
          BY <3>3 DEF Children
        <4>2. \A j \in Kinds : child[j].st = "live" => child'[j].st = "live"
          BY <2>0, <4>1, ChildStepControl
        <4>3. UNCHANGED <<namespace, made>>
          BY <3>3 DEF Children, tenantVars, world
        <4> QED
          BY <1>1, <4>2, <4>3
      <3>4. CASE UNCHANGED <<child, namespace, made>>
        BY <1>1, <3>4
      <3>5. CASE NamespaceCascade
        BY <1>1, <3>5 DEF NamespaceCascade, childVars, Saved
      <3> QED
        BY <1>1, <2>2, <3>1, <3>2, <3>3, <3>4, <3>5, ZenonT(60)
           DEF Next, Reconcile, ReconcileFails, AddFinalizer, StartPass, PatchStatus,
               PatchStatusFails, StartDelete, EnsureBackup, EnsureBackupFails, DeleteChild,
               DeleteChildFails, TeardownStep, TeardownStepFails, CloseTeardown,
               CloseTeardownFails, RemoveFinalizer, RemoveFinalizerFails, RequestDelete,
               EditSpec, BackupEnds, BackupAges, TimePasses, Crash, GarbageCollect, vars,
               tenantVars, childVars, world
    <2> QED
      BY <2>1, <2>2
  <1>2. IInv /\ [Next]_vars =>
            [Loss => namespace # "active" \/ backup.st = "completed"]_vars
    BY <1>1 DEF Saved
  <1> QED
    BY <1>2, Invariance, PTL DEF Spec, BackedUpFirst

\* Once told that a tenant terminates, the daemon is never told that it is up
\* (reportTeardownToDaemon).
THEOREM TeardownIsReportedForGood == Spec => TeardownReportIsFinal
  <1>1. ASSUME IInv, [Next]_vars
        PROVE  [reported = "down" => reported' = "down"]_vars
    <2>1. reported = "down" => at.pc # "patch"
      BY <1>1 DEF IInv, Control, Up
    <2>2. reported' = reported \/ reported' = "down" \/ at.pc = "patch"
      <3>1. CASE PatchStatus \/ PatchStatusFails
        BY <3>1 DEF PatchStatus, PatchStatusFails
      <3>2. CASE StartDelete \/ RemoveFinalizer \/ RemoveFinalizerFails
        BY <3>2 DEF StartDelete, RemoveFinalizer, RemoveFinalizerFails, Report
      <3> QED
        BY <1>1, <3>1, <3>2
           DEF Next, Reconcile, ReconcileFails, AddFinalizer, StartPass, ProvisionStep,
               ProvisionStepFails, EnsureChild, EnsureChildFails, EnsureBackup,
               EnsureBackupFails, DeleteChild, DeleteChildFails, TeardownStep,
               TeardownStepFails, CloseTeardown, CloseTeardownFails, Children, RequestDelete,
               EditSpec, BackupEnds, BackupAges, NamespaceCascade, TimePasses, Crash,
               GarbageCollect, vars, tenantVars
    <2> QED
      BY <2>1, <2>2
  <1> QED
    BY <1>1, Invariance, PTL DEF Spec, TeardownReportIsFinal

\* A child that says Ready for the generation of its spec has that generation
\* applied, also when the spec was edited in the middle of a pass (alreadyReady,
\* markReady).
THEOREM ReadyIsApplied == Spec => []ReadyMeansApplied
  <1>1. Init => AppliedInv
    BY SMT DEF Init, ChildInit, AppliedInv, AlreadyReady, NoObject, Idle
  <1>2. AppliedInv => ReadyMeansApplied
    BY DEF AppliedInv, ReadyMeansApplied
  <1> QED
    BY <1>1, <1>2, NextAppliedInv, Invariance, PTL DEF Spec

\* No Tenant says Ready and Blocked at once, across passes that block, fail and
\* complete (clearBlockedOnSuccess).
THEOREM ReadyClearsBlocked == Spec => []ReadyIsNotBlocked
  <1>1. Init => SagaInv
    BY SMT DEF Init, SagaInv, Consistent, NewStatus, Resting, Up
  <1>2. SagaInv => ReadyIsNotBlocked
    BY DEF SagaInv, Consistent, ReadyIsNotBlocked
  <1> QED
    BY <1>1, <1>2, NextSagaInv, Invariance, PTL DEF Spec
=============================================================================
