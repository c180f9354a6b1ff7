---------------------------- MODULE TenantOperator ----------------------------
(***************************************************************************)
(* The tenant operator (operators/tenant): the reconciler of one Tenant,   *)
(* the saga runner it drives (pkg/platform/saga), the last backup          *)
(* (finalbackup) and the controllers of the owned objects (TenantChild).   *)
(*                                                                         *)
(* A pass reads the Tenant, works on a copy in memory and writes the       *)
(* status of that copy at its end; each call to the API server, to a       *)
(* store or to the backup is a step, a crash of the operator may come      *)
(* after each, and each may fail.  One Tenant has at most one pass at a    *)
(* time.  A pass may start at any moment: every one that leaves work ends  *)
(* in a requeue, and an event or a resync may start another.               *)
(*                                                                         *)
(* Time is kept as what the code asks of it: a condition that has been     *)
(* False for StepMaxAttempts times InitialBackoff is "Stale", an           *)
(* unfinished backup past its Timeout is "late", and one that failed (or   *)
(* was late) RetryDelay ago is "due" for the next attempt.                 *)
(***************************************************************************)
EXTENDS TenantChild, FiniteSets

CONSTANTS
    DataPlane,          \* the kind whose spec follows the Tenant spec
    ProvisionSteps,     \* the injected steps that follow the namespace step
    TeardownSteps,      \* the injected steps that come before the namespace step
    Undoes,             \* the provision step whose work a teardown step removes
    MaxAttempts,        \* finalbackup.MaxAttempts
    MaxFaults,          \* bound on failed calls and crashes; Unbounded for none
    Unbounded

ASSUME StepsAssumption ==
    /\ ProvisionSteps \in Seq(STRING)
    /\ TeardownSteps \in Seq(STRING)
    /\ "Namespace" \notin {ProvisionSteps[i] : i \in DOMAIN ProvisionSteps}
    /\ "DeleteNamespace" \notin {TeardownSteps[i] : i \in DOMAIN TeardownSteps}

ASSUME AttemptsAssumption == MaxAttempts \in Nat \ {0}

ASSUME DataPlaneAssumption == DataPlane \in Kinds

ASSUME FaultsAssumption == MaxFaults \in Int

\* provisioningSteps and teardownSteps.
Provisioning == <<"Namespace">> \o ProvisionSteps

Teardown == TeardownSteps \o <<"DeleteNamespace">>

Injected == {ProvisionSteps[i] : i \in DOMAIN ProvisionSteps}

Steps == {Provisioning[i] : i \in DOMAIN Provisioning}
             \cup {Teardown[i] : i \in DOMAIN Teardown}

VARIABLES
    life,       \* the Tenant: "live", "deleting" (marked for deletion), "gone"
    fin,        \* the Tenant carries the operator's finalizer
    status,     \* its status on the API server
    mem,        \* the status of the copy a pass works on
    at,         \* where the pass is, and its position in steps or children
    failed,     \* the error the pass carries to its end
    namespace,  \* the tenant namespace: "absent", "active", "terminating"
    made,       \* the injected provision steps whose work exists
    backup,     \* the newest attempt of the last backup
    reported,   \* what the daemon was last told: "none", "up" (provisioning or
                \* ready), "down" (terminating or terminated)
    edited,     \* the Tenant spec differs from that of the data plane
    faults      \* failures still to come

world == <<namespace, made, backup>>
tenantVars == <<life, fin, status, mem, at, failed, namespace, made, backup, reported,
                edited, faults>>
vars == <<tenantVars, childVars>>

Phase == {"none", "Provisioning", "Ready", "Terminating", "Terminated"}

Condition == {"none", "True", "False", "Stale"}

Status == [phase : Phase,
           ns : BOOLEAN,               \* Status.Namespace is set
           cond : [Steps -> Condition],
           ready : BOOLEAN,            \* the Ready condition
           blocked : BOOLEAN]          \* the Blocked condition

At == [pc : {"idle", "steps", "children", "patch",
             "backup", "remove", "teardown", "closing", "finalizer"},
       i : Nat]

Backup == [n : 0..MaxAttempts,
           st : {"none", "running", "failed", "completed"},
           age : {"young", "late", "due"}]

NewStatus == [phase |-> "none", ns |-> FALSE, cond |-> [s \in Steps |-> "none"],
              ready |-> FALSE, blocked |-> FALSE]

Resting == [pc |-> "idle", i |-> 0]

TenantTypeOK ==
    /\ ChildTypeOK
    /\ life \in {"live", "deleting", "gone"}
    /\ fin \in BOOLEAN
    /\ status \in Status
    /\ mem \in Status
    /\ at \in At
    /\ failed \in {"no", "requeue", "error", "blocked"}
    /\ namespace \in {"absent", "active", "terminating"}
    /\ made \in SUBSET Injected
    /\ backup \in Backup
    /\ reported \in {"none", "up", "down"}
    /\ edited \in BOOLEAN
    /\ faults \in Int

Init ==
    /\ ChildInit
    /\ life = "live" /\ fin = FALSE
    /\ status = NewStatus /\ mem = NewStatus
    /\ at = Resting /\ failed = "no"
    /\ namespace = "absent" /\ made = {}
    /\ backup = [n |-> 0, st |-> "none", age |-> "young"]
    /\ reported = "none" /\ edited = FALSE
    /\ faults = MaxFaults

\* A call fails, or the operator crashes.
Fault ==
    /\ faults # 0
    /\ faults' = IF faults = Unbounded THEN faults ELSE faults - 1

\* A pass ends; the copy in memory is dropped.
EndPass == at' = Resting /\ mem' = NewStatus /\ failed' = "no"

Go(pc, i) == at' = [pc |-> pc, i |-> i]

-----------------------------------------------------------------------------
(* The saga runner.                                                        *)

\* SetCondition keeps the LastTransitionTime of a status that does not change.
Lower(st, s) ==
    [st EXCEPT !.cond[s] = IF @ \in {"False", "Stale"} THEN @ ELSE "False"]

\* attemptsForStep counts by time: an error on a condition that has been False
\* long enough is over the budget.
OverBudget(st, s) == st.cond[s] = "Stale"

StepDone(st, s) == [st EXCEPT !.cond[s] = "True"]

StepInProgress(st, s) == Lower(st, s)

StepFailed(st, s) == [Lower(st, s) EXCEPT !.ready = FALSE]

StepBlocked(st, s) == [Lower(st, s) EXCEPT !.ready = FALSE, !.blocked = TRUE]

Complete(st, phase) == [st EXCEPT !.ready = TRUE, !.phase = phase]

\* A step whose condition has been False for a while.
Age(st) ==
    [st EXCEPT !.cond = [s \in Steps |-> IF @[s] = "False" THEN "Stale" ELSE @[s]]]

TimePasses ==
    /\ Age(status) # status \/ Age(mem) # mem
    /\ status' = Age(status)
    /\ mem' = Age(mem)
    /\ UNCHANGED <<childVars, life, fin, at, failed, world, reported, edited, faults>>

-----------------------------------------------------------------------------
(* A pass over a live Tenant.                                              *)

AddFinalizer ==
    /\ life = "live" /\ at.pc = "idle" /\ ~fin
    /\ fin' = TRUE
    /\ UNCHANGED <<childVars, life, status, mem, at, failed, world, reported, edited,
                   faults>>

\* Mutant: a Tenant marked for deletion is provisioned like any other.
StartPassAnyway ==
    /\ life # "gone" /\ at.pc = "idle" /\ fin
    /\ mem' = [status EXCEPT !.phase = IF @ = "Ready" THEN @ ELSE "Provisioning"]
    /\ Go("steps", 1)
    /\ UNCHANGED <<childVars, life, fin, status, failed, world, reported, edited, faults>>

\* Mutant: a blocked Tenant is left alone.
StartPassUnlessBlocked ==
    /\ life = "live" /\ at.pc = "idle" /\ fin /\ ~status.blocked
    /\ mem' = [status EXCEPT !.phase = IF @ = "Ready" THEN @ ELSE "Provisioning"]
    /\ Go("steps", 1)
    /\ UNCHANGED <<childVars, life, fin, status, failed, world, reported, edited, faults>>

\* The phase Pending is set and replaced in memory only.
StartPass ==
    /\ life = "live" /\ at.pc = "idle" /\ fin
    /\ mem' = [status EXCEPT !.phase = IF @ = "Ready" THEN @ ELSE "Provisioning"]
    /\ Go("steps", 1)
    /\ UNCHANGED <<childVars, life, fin, status, failed, world, reported, edited, faults>>

\* What a provision step makes.  The namespace step also notes the namespace, in
\* the copy in memory.
Makes(s) ==
    IF s = "Namespace"
    THEN namespace' = (IF namespace = "absent" THEN "active" ELSE namespace) /\ UNCHANGED made
    ELSE made' = made \cup {s} /\ UNCHANGED namespace

Noted(st, s) == IF s = "Namespace" THEN [st EXCEPT !.ns = TRUE] ELSE st

\* Mutant: the Blocked condition stays.
ProvisionedAndBlocked(st) == Complete(st, "Ready")

\* After the last step: the runner completes the saga and Run drops a Blocked
\* condition that an earlier pass left.
Provisioned(st) == [Complete(st, "Ready") EXCEPT !.blocked = FALSE]

ProvisionStep ==
    /\ at.pc = "steps"
    /\ LET s == Provisioning[at.i]
           st == StepDone(Noted(mem, s), s)
       IN /\ Makes(s)
          /\ IF at.i < Len(Provisioning)
             THEN mem' = st /\ Go("steps", at.i + 1)
             ELSE mem' = Provisioned(st) /\ Go("children", 1)
    /\ UNCHANGED <<childVars, life, fin, status, failed, backup, reported, edited, faults>>

\* A blocked saga ends Run with no error, so the children are reconciled; a
\* transient error goes straight to the status patch.
ProvisionStepFails ==
    /\ at.pc = "steps"
    /\ Fault
    /\ LET s == Provisioning[at.i] IN
       /\ \/ UNCHANGED <<namespace, made>>
          \/ Makes(s)
       /\ \/ /\ mem' = StepBlocked(mem, s)
             /\ Go("children", 1)
             /\ UNCHANGED failed
          \/ /\ ~OverBudget(mem, s)
             /\ mem' = StepFailed(mem, s)
             /\ Go("patch", 0)
             /\ failed' = "error"
    /\ UNCHANGED <<childVars, life, fin, status, backup, reported, edited>>

\* reconcileChildren found a child that is not ready: a Tenant that reached Ready
\* goes back to Provisioning.
ChildrenNotReady ==
    /\ mem' = [mem EXCEPT !.phase = IF @ = "Ready" THEN "Provisioning" ELSE @]
    /\ Go("patch", 0)

\* Mutant: every child spec is fixed at creation.
NotSynced(k) == UNCHANGED <<child, edited>>

\* syncDataPlaneResources carries an edit of the Tenant spec to the data plane.
Synced(k) ==
    IF k = DataPlane /\ edited
    THEN /\ child' = [child EXCEPT ![k].gen = @ + 1]
         /\ edited' = FALSE
    ELSE UNCHANGED <<child, edited>>

EnsureChild ==
    /\ at.pc = "children"
    /\ LET k == ChildCreationOrder[at.i] IN
       \/ /\ ~mem.ns
          /\ ChildrenNotReady
          /\ UNCHANGED <<child, edited>>
       \/ /\ mem.ns /\ ~Exists(k)
          /\ NewChild(k)
          /\ ChildrenNotReady
          /\ UNCHANGED edited
       \/ /\ mem.ns /\ Exists(k)
          /\ Synced(k)
          /\ IF ~child[k].ready
             THEN ChildrenNotReady
             ELSE /\ UNCHANGED mem
                  /\ IF at.i < Len(ChildCreationOrder)
                     THEN Go("children", at.i + 1)
                     ELSE Go("patch", 0)
    /\ UNCHANGED <<outer, pass, life, fin, status, failed, world, reported, faults>>

\* The error skips the test that takes the phase back from Ready.  A call may fail
\* after the API server did it.
EnsureChildFails ==
    /\ at.pc = "children" /\ mem.ns
    /\ Fault
    /\ LET k == ChildCreationOrder[at.i] IN
       \/ UNCHANGED <<child, edited>>
       \/ ~Exists(k) /\ NewChild(k) /\ UNCHANGED edited
       \/ Exists(k) /\ Synced(k)
    /\ failed' = "error"
    /\ Go("patch", 0)
    /\ UNCHANGED <<outer, pass, life, fin, status, mem, world, reported>>

\* A report to the daemon is best-effort.
Report(what) == reported' \in {reported, what}

PatchStatus ==
    /\ at.pc = "patch"
    /\ status' = mem
    /\ Report("up")
    /\ EndPass
    /\ UNCHANGED <<childVars, life, fin, world, edited, faults>>

\* With no other error the failed patch ends the pass before the report.
PatchStatusFails ==
    /\ at.pc = "patch"
    /\ Fault
    /\ IF failed = "no" THEN UNCHANGED reported ELSE Report("up")
    /\ EndPass
    /\ UNCHANGED <<childVars, life, fin, status, world, edited>>

-----------------------------------------------------------------------------
(* A pass over a Tenant marked for deletion.                               *)

StartDelete ==
    /\ life = "deleting" /\ at.pc = "idle"
    /\ mem' = [status EXCEPT !.phase = "Terminating"]
    /\ Report("down")
    /\ Go("backup", 0)
    /\ UNCHANGED <<childVars, life, fin, status, failed, world, edited, faults>>

\* Mutant: an attempt that never ends has not failed.
AttemptFailedByItself == backup.st = "failed"

\* Ensure: no attempt can still complete, or the newest one failed.
AttemptFailed == backup.st = "failed" \/ (backup.st = "running" /\ backup.age # "young")

NextAttempt == [n |-> backup.n + 1, st |-> "running", age |-> "young"]

AttemptIsDue ==
    \/ backup.st = "none"
    \/ AttemptFailed /\ backup.n < MaxAttempts /\ backup.age = "due"

\* Mutant: a backup that ended is enough.
BackupEnded == namespace # "active" \/ backup.st \in {"completed", "failed"}

\* The gate is the namespace itself, not the one the status names.
BackupDone == namespace # "active" \/ backup.st = "completed"

EnsureBackup ==
    /\ at.pc = "backup"
    /\ \/ /\ BackupDone
          /\ Go("remove", Len(ChildCreationOrder))
          /\ UNCHANGED <<mem, failed, backup>>
       \/ /\ ~BackupDone /\ AttemptIsDue
          /\ backup' = NextAttempt
          /\ EndPass
       \/ /\ ~BackupDone /\ ~AttemptIsDue
          /\ EndPass
          /\ UNCHANGED backup
    /\ UNCHANGED <<childVars, life, fin, status, namespace, made, reported, edited, faults>>

EnsureBackupFails ==
    /\ at.pc = "backup"
    /\ Fault
    /\ \/ UNCHANGED backup
       \/ ~BackupDone /\ AttemptIsDue /\ backup' = NextAttempt
    /\ EndPass
    /\ UNCHANGED <<childVars, life, fin, status, namespace, made, reported, edited>>

Deleted(k) == child' = [child EXCEPT ![k] = IF @.st = "live" THEN Removed(@) ELSE @]

\* Mutant: the children are deleted in the order of their creation.
DeleteChildInOrder ==
    /\ at.pc = "remove"
    /\ \/ /\ at.i = 0 \/ ~mem.ns
          /\ Go("teardown", 1)
          /\ UNCHANGED <<mem, failed, child>>
       \/ /\ at.i > 0 /\ mem.ns
          /\ LET k == ChildCreationOrder[Len(ChildCreationOrder) + 1 - at.i] IN
             IF Exists(k)
             THEN Deleted(k) /\ EndPass
             ELSE /\ Go("remove", at.i - 1)
                  /\ UNCHANGED <<mem, failed, child>>
    /\ UNCHANGED <<outer, pass, life, fin, status, world, reported, edited, faults>>

\* Mutant: the last delete is not waited for.
DeleteChildOnceIssued ==
    /\ at.pc = "remove"
    /\ \/ /\ at.i = 0 \/ ~mem.ns
          /\ Go("teardown", 1)
          /\ UNCHANGED <<mem, failed, child>>
       \/ /\ at.i > 0 /\ mem.ns
          /\ LET k == ChildCreationOrder[at.i] IN
             IF Exists(k)
             THEN /\ Deleted(k)
                  /\ IF at.i = 1 THEN Go("teardown", 1) /\ UNCHANGED <<mem, failed>> ELSE EndPass
             ELSE /\ Go("remove", at.i - 1)
                  /\ UNCHANGED <<mem, failed, child>>
    /\ UNCHANGED <<outer, pass, life, fin, status, world, reported, edited, faults>>

\* deleteChildrenInReverse: one child per pass, and the next only when it is gone.
\* With no namespace in the status it looks at none.
DeleteChild ==
    /\ at.pc = "remove"
    /\ \/ /\ at.i = 0 \/ ~mem.ns
          /\ Go("teardown", 1)
          /\ UNCHANGED <<mem, failed, child>>
       \/ /\ at.i > 0 /\ mem.ns
          /\ LET k == ChildCreationOrder[at.i] IN
             IF Exists(k)
             THEN Deleted(k) /\ EndPass
             ELSE /\ Go("remove", at.i - 1)
                  /\ UNCHANGED <<mem, failed, child>>
    /\ UNCHANGED <<outer, pass, life, fin, status, world, reported, edited, faults>>

\* The only patch that writes the phase Terminating.  It may fail too.
DeleteChildFails ==
    /\ at.pc = "remove" /\ at.i > 0 /\ mem.ns
    /\ Fault
    /\ UNCHANGED child \/ Deleted(ChildCreationOrder[at.i])
    /\ status' \in {status, [status EXCEPT !.phase = "Terminating"]}
    /\ EndPass
    /\ UNCHANGED <<outer, pass, life, fin, world, reported, edited>>

\* What a teardown step removes.  The namespace step does nothing when the status
\* names no namespace.
Removes(s) ==
    IF s = "DeleteNamespace"
    THEN /\ namespace' = IF mem.ns /\ namespace = "active" THEN "terminating" ELSE namespace
         /\ UNCHANGED made
    ELSE made' = made \ {Undoes[s]} /\ UNCHANGED namespace

\* The namespace is waited for until it is gone.
Waits(s) == s = "DeleteNamespace" /\ mem.ns /\ namespace # "absent"

AfterStep(s) ==
    LET st == StepDone(mem, s) IN
    IF at.i < Len(Teardown)
    THEN mem' = st /\ Go("teardown", at.i + 1) /\ UNCHANGED failed
    ELSE mem' = Complete(st, "Terminated") /\ Go("closing", 0) /\ failed' = "no"

TeardownStep ==
    /\ at.pc = "teardown"
    /\ LET s == Teardown[at.i] IN
       /\ Removes(s)
       /\ IF Waits(s)
          THEN mem' = StepInProgress(mem, s) /\ Go("closing", 0) /\ failed' = "requeue"
          ELSE AfterStep(s)
    /\ UNCHANGED <<childVars, life, fin, status, backup, reported, edited, faults>>

\* bestEffortStep turns a permanent error into success, and what the step should
\* have removed stays.  A transient error asks for another pass until the budget
\* of the step is spent, and then blocks the saga.
TeardownStepFails ==
    /\ at.pc = "teardown"
    /\ Fault
    /\ LET s == Teardown[at.i] IN
       \/ /\ AfterStep(s)
          /\ UNCHANGED <<namespace, made>>
       \/ /\ UNCHANGED <<namespace, made>> \/ Removes(s)
          /\ Go("closing", 0)
          /\ IF OverBudget(mem, s)
             THEN mem' = StepBlocked(mem, s) /\ failed' = "blocked"
             ELSE mem' = StepFailed(mem, s) /\ failed' = "requeue"
    /\ UNCHANGED <<childVars, life, fin, status, backup, reported, edited>>

\* The base of this patch already has the phase Terminating, so the patch writes
\* a phase only when the saga completed.
Closed(st) == [mem EXCEPT !.phase = IF @ = "Terminating" THEN st.phase ELSE @]

AfterClosing ==
    IF failed = "requeue" THEN EndPass ELSE Go("finalizer", 0) /\ UNCHANGED <<mem, failed>>

CloseTeardown ==
    /\ at.pc = "closing"
    /\ status' = Closed(status)
    /\ AfterClosing
    /\ UNCHANGED <<childVars, life, fin, world, reported, edited, faults>>

\* The error is dropped: a lost status must not keep the finalizer.
CloseTeardownFails ==
    /\ at.pc = "closing"
    /\ Fault
    /\ AfterClosing
    /\ UNCHANGED <<childVars, life, fin, status, world, reported, edited>>

\* All steps done, or blocked.  The API server removes the Tenant with its last
\* finalizer.
RemoveFinalizer ==
    /\ at.pc = "finalizer"
    /\ Report("down")
    /\ life' = "gone" /\ fin' = FALSE
    /\ EndPass
    /\ UNCHANGED <<childVars, status, world, edited, faults>>

RemoveFinalizerFails ==
    /\ at.pc = "finalizer"
    /\ Fault
    /\ Report("down")
    /\ EndPass
    /\ UNCHANGED <<childVars, life, fin, status, world, edited>>

-----------------------------------------------------------------------------
(* The users, the cluster and the backup system.                           *)

\* The API server removes a Tenant that carries no finalizer at once.
RequestDelete ==
    /\ life = "live"
    /\ life' = IF fin THEN "deleting" ELSE "gone"
    /\ UNCHANGED <<childVars, fin, status, mem, at, failed, world, reported, edited, faults>>

EditSpec ==
    /\ life = "live" /\ ~edited
    /\ Exists(DataPlane) /\ child[DataPlane].gen < MaxGeneration
    /\ edited' = TRUE
    /\ UNCHANGED <<childVars, life, fin, status, mem, at, failed, world, reported, faults>>

BackupEnds ==
    /\ backup.st = "running"
    /\ \E st \in {"completed", "failed"} :
           backup' = [backup EXCEPT !.st = st, !.age = "young"]
    /\ UNCHANGED <<childVars, life, fin, status, mem, at, failed, namespace, made, reported,
                   edited, faults>>

BackupAges ==
    /\ \/ backup.st = "running" /\ backup.age = "young" /\ backup' = [backup EXCEPT !.age = "late"]
       \/ AttemptFailed /\ backup.age # "due" /\ backup' = [backup EXCEPT !.age = "due"]
    /\ UNCHANGED <<childVars, life, fin, status, mem, at, failed, namespace, made, reported,
                   edited, faults>>

\* The cluster removes a terminating namespace when it is empty.
NamespaceCascade ==
    /\ namespace = "terminating" /\ NoChild
    /\ namespace' = "absent"
    /\ UNCHANGED <<childVars, life, fin, status, mem, at, failed, made, backup, reported,
                   edited, faults>>

\* The cluster deletes the objects of an owner that is gone, in any order.
GarbageCollect(k) ==
    /\ life = "gone" /\ child[k].st = "live"
    /\ child' = [child EXCEPT ![k] = Removed(@)]
    /\ UNCHANGED <<outer, pass, tenantVars>>

\* The process ends: every pass stops where it is.
Crash ==
    /\ at.pc # "idle" \/ \E k \in Kinds : pass[k].at # "idle"
    /\ Fault
    /\ EndPass
    /\ pass' = [k \in Kinds |-> Idle]
    /\ UNCHANGED <<child, outer, life, fin, status, world, reported, edited>>

-----------------------------------------------------------------------------

Reconcile ==
    \/ AddFinalizer \/ StartPass \/ ProvisionStep \/ EnsureChild \/ PatchStatus
    \/ StartDelete \/ EnsureBackup \/ DeleteChild \/ TeardownStep \/ CloseTeardown
    \/ RemoveFinalizer

ReconcileFails ==
    \/ ProvisionStepFails \/ EnsureChildFails \/ PatchStatusFails
    \/ EnsureBackupFails \/ DeleteChildFails \/ TeardownStepFails \/ CloseTeardownFails
    \/ RemoveFinalizerFails

Children(k) ==
    \/ ChildStep(k) /\ UNCHANGED tenantVars
    \/ /\ ChildFault(k) /\ Fault
       /\ UNCHANGED <<life, fin, status, mem, at, failed, world, reported, edited>>

Next ==
    \/ Reconcile \/ ReconcileFails
    \/ \E k \in Kinds : Children(k) \/ GarbageCollect(k)
    \/ RequestDelete \/ EditSpec \/ BackupEnds \/ BackupAges \/ NamespaceCascade
    \/ TimePasses \/ Crash

Spec == Init /\ [][Next]_vars

\* A pass that leaves work ends in a requeue or an error that controller-runtime
\* retries, a change of an object starts a pass over it, the cluster removes what
\* nothing holds, and time passes.  The backup system may never finish.
FairSpec ==
    /\ Spec
    /\ WF_vars(Reconcile)
    /\ \A k \in Kinds : WF_vars(ChildStep(k) /\ UNCHANGED tenantVars)
    /\ WF_vars(NamespaceCascade)
    /\ WF_vars(BackupAges)

-----------------------------------------------------------------------------
(* Safety.                                                                 *)

\* Each child is created only after its predecessor reports Ready, and removed
\* only after its successors are gone, across lost calls, crashes and a delete
\* request that comes during a provisioning pass: while the Tenant exists, the
\* children that exist are the first ones of the dependency order
\* (reconcileChildren, deleteChildrenInReverse).
ChildrenAreAPrefix ==
    life # "gone" =>
        \A i, j \in DOMAIN ChildCreationOrder :
            i < j /\ Exists(ChildCreationOrder[j]) => Exists(ChildCreationOrder[i])

\* "The namespace must outlive the namespaced children" (reconcileDelete): no
\* child exists in a namespace that is being deleted, so none is removed out of
\* order by the cascade.
NamespaceOutlivesChildren == namespace # "active" => NoChild

\* What a child controller made outside the cluster never outlives the object
\* whose finalizer removes it.  The identity is left out: its organization is
\* found again only by the id in its status, and a lost status write loses it.
NoOrphanResource ==
    \A k \in Kinds \ {Identity} : outer[k] # Nothing => Exists(k) /\ child[k].fin

\* A child that says Ready for the generation of its spec has that generation
\* applied, also when the spec was edited in the middle of a pass (the guard
\* alreadyReady and the ObservedGeneration of markReady).
ReadyMeansApplied ==
    \A k \in Kinds : child[k].st = "live" /\ AlreadyReady(k) => outer[k] = child[k].gen

\* A saga that completes leaves no Blocked condition of an earlier pass beside
\* its Ready condition (clearBlockedOnSuccess).
ReadyIsNotBlocked == life = "live" => ~(status.ready /\ status.blocked)

\* The delete flow removes nothing of a tenant whose namespace holds data before
\* the last backup completed: no child, no key, no namespace (reconcileDelete,
\* finalbackup.Ensure).
BackedUpFirst ==
    [][(\/ \E k \in Kinds : child[k].st = "live" /\ child'[k].st # "live"
        \/ namespace = "active" /\ namespace' # "active"
        \/ ~(made \subseteq made'))
       => namespace # "active" \/ backup.st = "completed"]_vars

\* Once the daemon was told that a tenant terminates, it is never told again
\* that the tenant is up (reportTeardownToDaemon).
TeardownReportIsFinal ==
    [][reported = "down" => reported' = "down"]_vars

-----------------------------------------------------------------------------
(* Liveness.                                                               *)

FullyProvisioned ==
    /\ status.phase = "Ready" /\ namespace = "active" /\ made = Injected
    /\ \A k \in Kinds : child[k].ready /\ outer[k] = child[k].gen

\* A Tenant that stays gets all it needs, whatever call failed on the way.  A step
\* that blocks after the children are ready ends in no requeue (Reconcile).
TenantConverges ==
    life = "live" ~> \/ life # "live" \/ FullyProvisioned
                     \/ status.blocked /\ \A k \in Kinds : child[k].ready

\* A delete request ends with the Tenant gone, or waits for a person because the
\* last attempt of the backup failed (reconcileDelete, finalbackup.Ensure).
DeletionEnds ==
    life = "deleting" ~> life = "gone" \/ (backup.n = MaxAttempts /\ AttemptFailed)

\* An edit of the Tenant spec reaches the store of the data plane, also when it
\* comes in the middle of a pass (syncDataPlaneResources, alreadyReady).
EditIsApplied ==
    edited ~> \/ life # "live"
              \/ ~edited /\ outer[DataPlane] = child[DataPlane].gen

=============================================================================
