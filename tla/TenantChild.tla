----------------------------- MODULE TenantChild -----------------------------
(***************************************************************************)
(* The four objects a Tenant owns (TenantIdentity, TenantSecretsBackend,   *)
(* TenantGrants, TenantDataPlane) and the controllers that reconcile them  *)
(* (operators/tenant/internal/controller).  The controllers have one       *)
(* control flow, written four times; they differ in what they provision    *)
(* outside the cluster and in how they find it again to remove it.         *)
(*                                                                         *)
(* A pass of a controller is a sequence of calls to the API server and to  *)
(* the outside, and each call is a step: the Tenant controller, a crash    *)
(* of the operator or a failed call may come between any two of them.      *)
(* One object has at most one pass at a time (controller-runtime).         *)
(***************************************************************************)
EXTENDS Integers, Sequences

CONSTANTS
    ChildCreationOrder,   \* the kinds, in dependency order
    Identity,             \* the kind found again by the id in its own status
    MaxGeneration         \* bound: the last generation a spec edit makes

ASSUME OrderAssumption ==
    /\ ChildCreationOrder \in Seq(STRING)
    /\ \A i, j \in DOMAIN ChildCreationOrder :
           ChildCreationOrder[i] = ChildCreationOrder[j] => i = j

ASSUME GenerationAssumption == MaxGeneration \in Nat

Kinds == {ChildCreationOrder[i] : i \in DOMAIN ChildCreationOrder}

VARIABLES
    child,      \* the objects on the API server, by kind
    outer,      \* what exists outside for a kind: Nothing, Partly, or all of it,
                \* as the generation of the spec that was applied
    pass        \* the pass of each controller: where it is, and the generation
                \* it has in memory

childVars == <<child, outer, pass>>

Object == [st : {"absent", "live", "deleting"},
           fin : BOOLEAN,             \* the finalizer of the controller
           phaseReady : BOOLEAN,      \* Status.Phase is Ready
           ready : BOOLEAN,           \* Status.Ready
           org : BOOLEAN,             \* Status.ZitadelOrgID is set
           gen : 0..MaxGeneration,
           observed : -1..MaxGeneration]

Pass == [at : {"idle", "provision", "changed", "deprovision", "finalize"},
         gen : 0..MaxGeneration]

Nothing == -2

Partly == -1

Outer == {Nothing, Partly} \cup 0..MaxGeneration

NoObject == [st |-> "absent", fin |-> FALSE, phaseReady |-> FALSE, ready |-> FALSE,
             org |-> FALSE, gen |-> 0, observed |-> -1]

Idle == [at |-> "idle", gen |-> 0]

ChildTypeOK ==
    /\ child \in [Kinds -> Object]
    /\ outer \in [Kinds -> Outer]
    /\ pass \in [Kinds -> Pass]

ChildInit ==
    /\ child = [k \in Kinds |-> NoObject]
    /\ outer = [k \in Kinds |-> Nothing]
    /\ pass = [k \in Kinds |-> Idle]

Exists(k) == child[k].st # "absent"

NoChild == \A k \in Kinds : ~Exists(k)

-----------------------------------------------------------------------------
(* What the Tenant controller does to an object.                           *)

NewChild(k) == child' = [child EXCEPT ![k] = [NoObject EXCEPT !.st = "live"]]

\* The API server removes an object with no finalizer at once, and marks one
\* that has a finalizer.
Removed(o) == IF o.fin THEN [o EXCEPT !.st = "deleting"] ELSE NoObject

-----------------------------------------------------------------------------
(* A pass that provisions.                                                 *)

\* The first pass adds the finalizer and comes back.
EnsureFinalizer(k) ==
    /\ pass[k].at = "idle"
    /\ child[k].st = "live" /\ ~child[k].fin
    /\ child' = [child EXCEPT ![k].fin = TRUE]
    /\ UNCHANGED <<outer, pass>>

\* The status fail writes, and the one a pass that deprovisions begins with.
NotReady(k) == [child EXCEPT ![k] = [@ EXCEPT !.phaseReady = FALSE, !.ready = FALSE]]

AlreadyReady(k) == child[k].phaseReady /\ child[k].observed = child[k].gen

\* markProvisioning leaves Status.Ready as it is.  Its patch returns the object
\* of the server, so the pass goes on with the generation of that moment.  A
\* failed patch ends the pass with nothing changed.
BeginProvision(k) ==
    /\ pass[k].at = "idle"
    /\ child[k].st = "live" /\ child[k].fin
    /\ child' = IF AlreadyReady(k) THEN child ELSE [child EXCEPT ![k].phaseReady = FALSE]
    /\ pass' = [pass EXCEPT ![k] = [at |-> "provision", gen |-> child[k].gen]]
    /\ UNCHANGED outer

\* The provisioner, under its audit record.  It is idempotent: it applies the
\* spec of the pass whatever it finds.
Provision(k) ==
    /\ pass[k].at = "provision"
    /\ outer' = [outer EXCEPT ![k] = pass[k].gen]
    /\ pass' = [pass EXCEPT ![k].at = "changed"]
    /\ UNCHANGED child

\* It fails before it changes anything (the audit record too), or part way: an
\* organization without its grant or its mapping, a store without its role.
\* What a generation already has, a failed repetition leaves in place.  fail
\* then records the failure, and no organization id; the error of its patch is
\* dropped.
ProvisionFails(k) ==
    /\ pass[k].at = "provision"
    /\ \/ UNCHANGED outer
       \/ /\ outer[k] # pass[k].gen
          /\ outer' = [outer EXCEPT ![k] = Partly]
    /\ child' \in {child, NotReady(k)}
    /\ pass' = [pass EXCEPT ![k] = Idle]

\* Mutant: the generation is read from the server when the pass ends.
MarkReadyAtTheEnd(k) ==
    /\ pass[k].at = "changed"
    /\ child' = [child EXCEPT ![k] = [@ EXCEPT !.phaseReady = TRUE, !.ready = TRUE,
                                               !.org = (k = Identity),
                                               !.observed = child[k].gen]]
    /\ pass' = [pass EXCEPT ![k] = Idle]
    /\ UNCHANGED outer

\* markReady records the generation in memory, and for the identity the id of
\* the organization.
MarkReady(k) ==
    /\ pass[k].at = "changed"
    /\ child' = [child EXCEPT ![k] = [@ EXCEPT !.phaseReady = TRUE, !.ready = TRUE,
                                               !.org = (k = Identity),
                                               !.observed = pass[k].gen]]
    /\ pass' = [pass EXCEPT ![k] = Idle]
    /\ UNCHANGED outer

\* Its patch fails: the error is dropped.
StatusLost(k) ==
    /\ pass[k].at = "changed"
    /\ pass' = [pass EXCEPT ![k] = Idle]
    /\ UNCHANGED <<child, outer>>

-----------------------------------------------------------------------------
(* A pass that deprovisions.                                               *)

\* The status patch may fail: the pass goes on.
BeginDeprovision(k) ==
    /\ pass[k].at = "idle"
    /\ child[k].st = "deleting"
    /\ child' \in {child, NotReady(k)}
    /\ pass' = [pass EXCEPT ![k].at = "deprovision"]
    /\ UNCHANGED outer

\* Every provisioner removes what the tenant id names, except that of the
\* identity: RemoveOrg removes the organization its status names, and with no
\* id in the status it removes nothing and reports success.
Finds(k) == k = Identity => child[k].org

Deprovision(k) ==
    /\ pass[k].at = "deprovision"
    /\ outer' = IF Finds(k) THEN [outer EXCEPT ![k] = Nothing] ELSE outer
    /\ pass' = [pass EXCEPT ![k].at = "finalize"]
    /\ UNCHANGED child

\* Mutant: an error of the provisioner is logged and the finalizer dropped.
DeprovisionFailsQuietly(k) ==
    /\ pass[k].at = "deprovision"
    /\ pass' = [pass EXCEPT ![k].at = "finalize"]
    /\ UNCHANGED <<child, outer>>

\* An error keeps the finalizer; the next pass tries again.
DeprovisionFails(k) ==
    /\ pass[k].at = "deprovision"
    /\ \/ UNCHANGED outer
       \/ /\ Finds(k) /\ outer[k] # Nothing
          /\ outer' = [outer EXCEPT ![k] = Partly]
    /\ pass' = [pass EXCEPT ![k] = Idle]
    /\ UNCHANGED child

\* The API server removes a deleting object with its last finalizer.
Finalize(k) ==
    /\ pass[k].at = "finalize"
    /\ child' = [child EXCEPT ![k] = NoObject]
    /\ pass' = [pass EXCEPT ![k] = Idle]
    /\ UNCHANGED outer

FinalizeFails(k) ==
    /\ pass[k].at = "finalize"
    /\ pass' = [pass EXCEPT ![k] = Idle]
    /\ UNCHANGED <<child, outer>>

-----------------------------------------------------------------------------

ChildStep(k) ==
    \/ EnsureFinalizer(k) \/ BeginProvision(k) \/ Provision(k) \/ MarkReady(k)
    \/ BeginDeprovision(k) \/ Deprovision(k) \/ Finalize(k)

ChildFault(k) ==
    \/ ProvisionFails(k) \/ StatusLost(k) \/ DeprovisionFails(k) \/ FinalizeFails(k)

=============================================================================
