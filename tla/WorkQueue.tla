------------------------------ MODULE WorkQueue ------------------------------
(***************************************************************************)
(* Work dispatched to remote components: the harness puts a work item on a *)
(* stream and waits for its result, a worker takes it with PollWork and    *)
(* answers with SubmitResult (internal/platform/component), and a wait     *)
(* with no clock of its own is bounded by the registration of a worker     *)
(* (internal/engine/harness/work_wait.go).                                 *)
(*                                                                         *)
(* The modelled workers are processes of one component (one kind and       *)
(* name): some belong to a tenant, some to the shared tenant _system.      *)
(* Every call to Redis is a step of its own where another process can      *)
(* tell.  Ids of work items are unique, so a work id stands for the result *)
(* key and the channel its owner binding names.                            *)
(***************************************************************************)
EXTENDS Integers, Sequences, FiniteSets

CONSTANTS
    Works,           \* work items
    Workers,         \* worker processes
    Tenants,         \* the tenants that dispatch work
    System,          \* systemTenant: its workers serve every tenant
    None,
    TenantOf,        \* the tenant that dispatches an item
    HomeOf,          \* the tenant a worker is registered under
    SubjectOf,       \* the authenticated principal of a worker
    GraceProbes,     \* livenessGraceProbes
    MaxInstance      \* bound: registrations

ASSUME WorkAssumption ==
    /\ TenantOf \in [Works -> Tenants]
    /\ HomeOf \in [Workers -> Tenants \cup {System}]
    /\ System \notin Tenants
    /\ None \notin Works \cup Workers \cup Tenants \cup (Workers \X (1..MaxInstance))
    /\ None \notin {SubjectOf[p] : p \in Workers}
    /\ GraceProbes \in Nat \ {0} /\ MaxInstance \in Nat

VARIABLES
    queue,      \* the streams: by tenant, the items not yet delivered
    owner,      \* the owner binding of an item: none yet, bound, or aged out
    claimant,   \* the claim binding of an item
    result,     \* the items whose result key holds an answer
    live,       \* the instance keys in the registry
    issued,     \* the number of registrations so far: the next id
    worker,     \* the processes
    wait,       \* the dispatch of an item and its wait
    missed      \* history: items whose notification or GET was lost to an error

vars == <<queue, owner, claimant, result, live, issued, worker, wait, missed>>

Instances == Workers \X (1..MaxInstance)

Subjects == {SubjectOf[p] : p \in Workers}

Worker == [at : {"down", "idle", "polling", "claimed", "working", "stored"},
           w : Works \cup {None},          \* the item in its hands
           stream : Tenants \cup {None},   \* the stream its poll blocks on
           inst : 0..MaxInstance]          \* its last registration, 0 for none

Wait == [at : {"new", "bind", "add", "lookup", "fetch", "listen", "probe", "over"},
         clock : BOOLEAN,                  \* bounded by a clock, not by liveness
         inst : Instances \cup {None},     \* the instance a dispatch recorded
         absent : 0..GraceProbes,
         note : BOOLEAN,                   \* a message in the subscription
         why : {"waiting", "answered", "timeout", "gone", "unknown", "error"}]

TypeOK ==
    /\ queue \in [Tenants -> Seq(Works)]
    /\ owner \in [Works -> {"none", "bound", "aged"}]
    /\ claimant \in [Works -> Subjects \cup {None}]
    /\ result \subseteq Works
    /\ live \subseteq Instances
    /\ issued \in 0..MaxInstance
    /\ worker \in [Workers -> Worker]
    /\ wait \in [Works -> Wait]
    /\ missed \subseteq Works

Down == [at |-> "down", w |-> None, stream |-> None, inst |-> 0]

NewWait == [at |-> "new", clock |-> FALSE, inst |-> None, absent |-> 0, note |-> FALSE,
            why |-> "waiting"]

Init ==
    /\ queue = [t \in Tenants |-> <<>>]
    /\ owner = [w \in Works |-> "none"]
    /\ claimant = [w \in Works |-> None]
    /\ result = {}
    /\ live = {}
    /\ issued = 0
    /\ worker = [p \in Workers |-> Down]
    /\ wait = [w \in Works |-> NewWait]
    /\ missed = {}

-----------------------------------------------------------------------------
(* The registry: one key per registration, with a time to live that the    *)
(* heartbeats of the process refresh.                                      *)

Instance(p) == <<p, worker[p].inst>>

Registered(p) == Instance(p) \in live

Up(p) == IF worker[p].at = "down" THEN "idle" ELSE worker[p].at

\* Every registration gets an id of its own.  A process registers when it
\* starts, and again when a heartbeat or a poll tells it that its key is gone:
\* what it has in its hands it keeps.
Register(p) ==
    /\ worker[p].at = "down" \/ ~Registered(p)
    /\ issued < MaxInstance
    /\ issued' = issued + 1
    /\ live' = live \cup {<<p, issued'>>}
    /\ worker' = [worker EXCEPT ![p] =
                     [@ EXCEPT !.inst = issued', !.at = Up(p)]]
    /\ UNCHANGED <<queue, owner, claimant, result, wait, missed>>

\* The key expires: the process is gone, or its heartbeats are late.  RefreshTTL
\* never makes a key again.
InstanceExpires(i) ==
    /\ i \in live
    /\ live' = live \ {i}
    /\ UNCHANGED <<queue, owner, claimant, result, worker, wait, missed, issued>>

\* A clean stop removes the key; a crash leaves it to its time to live.  The end
\* of a process cancels the call it is in.
Stop(p) ==
    /\ worker[p].at # "down"
    /\ live' \in {live, live \ {Instance(p)}}
    /\ worker' = [worker EXCEPT ![p] = Down]
    /\ missed' = IF worker[p].at = "stored" THEN missed \cup {worker[p].w} ELSE missed
    /\ UNCHANGED <<queue, owner, claimant, result, wait, issued>>

\* Discover: the instances of the tenant, then those of _system.
Discover(t) == {i \in live : HomeOf[i[1]] \in {t, System}}

\* The first of them is taken; the order of SCAN within a tenant is any.
FirstOf(t) ==
    LET own == {i \in live : HomeOf[i[1]] = t}
    IN  IF own # {} THEN own ELSE Discover(t)

-----------------------------------------------------------------------------
(* Dispatch: dispatchWorkAndWait up to the wait, and Enqueue.              *)

\* A call that returns keeps nothing but its reason, and for errWorkerGone the
\* instance that was probed.
EndWait(w, why) ==
    LET probed == IF why = "gone" THEN wait[w].inst ELSE None
    IN  [wait EXCEPT ![w] = [NewWait EXCEPT !.at = "over", !.why = why, !.inst = probed]]

\* A dispatch starts from a live instance.  A tool and a node with a timeout wait
\* under a clock; for an agent node with none, the instance is probed.
Dispatch(w) ==
    /\ wait[w].at = "new"
    /\ \E i \in FirstOf(TenantOf[w]), clock \in BOOLEAN :
           wait' = [wait EXCEPT ![w] = [@ EXCEPT !.at = "bind", !.clock = clock,
                                                 !.inst = IF clock THEN None ELSE i]]
    /\ UNCHANGED <<queue, owner, claimant, result, live, issued, worker, missed>>

\* Mutant: the binding is left to a later step.
BindLater(w) ==
    /\ wait[w].at = "bind"
    /\ wait' = [wait EXCEPT ![w].at = "add"]
    /\ UNCHANGED <<queue, owner, claimant, result, live, issued, worker, missed>>

\* The owner, and with it the run and the slot pins, before the XADD.
BindOwner(w) ==
    /\ wait[w].at = "bind"
    /\ owner' = [owner EXCEPT ![w] = "bound"]
    /\ wait' = [wait EXCEPT ![w].at = "add"]
    /\ UNCHANGED <<queue, claimant, result, live, issued, worker, missed>>

Appended(w) == [queue EXCEPT ![TenantOf[w]] = Append(@, w)]

Enqueue(w) ==
    /\ wait[w].at = "add"
    /\ queue' = Appended(w)
    /\ wait' = [wait EXCEPT ![w].at = "lookup"]
    /\ UNCHANGED <<owner, claimant, result, live, issued, worker, missed>>

\* Any failure ends the dispatch.  The write that failed may have been made.
EnqueueFails(w) ==
    /\ \/ /\ wait[w].at = "bind"
          /\ owner' \in {owner, [owner EXCEPT ![w] = "bound"]}
          /\ UNCHANGED queue
       \/ /\ wait[w].at = "add"
          /\ queue' \in {queue, Appended(w)}
          /\ UNCHANGED owner
    /\ wait' = EndWait(w, "error")
    /\ UNCHANGED <<claimant, result, live, issued, worker, missed>>

\* The owner binding ages out (workOwnerTTL, hours): that long, a dispatch only
\* listens.  The claim binding is younger and is read only after this one.
OwnerExpires(w) ==
    /\ owner[w] = "bound" /\ wait[w].at \in {"listen", "over"}
    /\ owner' = [owner EXCEPT ![w] = "aged"]
    /\ UNCHANGED <<queue, claimant, result, live, issued, worker, wait, missed>>

-----------------------------------------------------------------------------
(* A worker: PollWork, then SubmitResult.                                  *)

\* PollWork reads the registry, then Claim blocks on a stream: that of the
\* tenant, or for _system the first of a shuffled sweep over all of them (its
\* BLOCK 0 has no timeout).  All the streams exist: an earlier dispatch or poll
\* of their tenant made them.
PollWork(p) ==
    /\ worker[p].at = "idle" /\ Registered(p)
    /\ \E t \in Tenants :
          /\ HomeOf[p] \in {t, System}
          /\ worker' = [worker EXCEPT ![p] = [@ EXCEPT !.at = "polling", !.stream = t]]
    /\ UNCHANGED <<queue, owner, claimant, result, live, issued, wait, missed>>

\* The timeout of the poll, or an error of the read.
PollEnds(p) ==
    /\ worker[p].at = "polling"
    /\ worker' = [worker EXCEPT ![p] = [@ EXCEPT !.at = "idle", !.stream = None]]
    /\ UNCHANGED <<queue, owner, claimant, result, live, issued, wait, missed>>

Takes(p, w) ==
    [worker EXCEPT ![p] = [@ EXCEPT !.at = "claimed", !.w = w, !.stream = None]]

\* Mutant: the read does not move the group past the item.
ClaimAgain(p) ==
    /\ worker[p].at = "polling"
    /\ queue[worker[p].stream] # <<>>
    /\ worker' = Takes(p, Head(queue[worker[p].stream]))
    /\ UNCHANGED <<queue, owner, claimant, result, live, issued, wait, missed>>

\* XREADGROUP with NOACK: the item leaves the stream for good, and no list of
\* pending entries names it.
Claim(p) ==
    /\ worker[p].at = "polling"
    /\ LET t == worker[p].stream IN
          /\ queue[t] # <<>>
          /\ worker' = Takes(p, Head(queue[t]))
          /\ queue' = [queue EXCEPT ![t] = Tail(@)]
    /\ UNCHANGED <<owner, claimant, result, live, issued, wait, missed>>

Bound(p) == [claimant EXCEPT ![worker[p].w] = SubjectOf[p]]

\* The claim is bound and the item returned; a failed bind is only logged.
ReturnWork(p) ==
    /\ worker[p].at = "claimed"
    /\ claimant' \in {claimant, Bound(p)}
    /\ worker' = [worker EXCEPT ![p].at = "working"]
    /\ UNCHANGED <<queue, owner, result, live, issued, wait, missed>>

Free(p) == [worker EXCEPT ![p] = [@ EXCEPT !.at = "idle", !.w = None]]

\* The answer to the poll is lost on its way: so is the item.
PollLost(p) ==
    /\ worker[p].at = "claimed"
    /\ claimant' \in {claimant, Bound(p)}
    /\ worker' = Free(p)
    /\ UNCHANGED <<queue, owner, result, live, issued, wait, missed>>

\* resolveClaimedWork and the first half of DeliverResult.  Registration plays
\* no part.
SubmitResult(p) ==
    /\ worker[p].at = "working"
    /\ owner[worker[p].w] = "bound"
    /\ claimant[worker[p].w] = SubjectOf[p]
    /\ result' = result \cup {worker[p].w}
    /\ worker' = [worker EXCEPT ![p].at = "stored"]
    /\ UNCHANGED <<queue, owner, claimant, live, issued, wait, missed>>

Subscribed(w) == wait[w].at \in {"fetch", "listen"}

\* The second half: the message reaches a subscriber and nobody else.
Publish(p) ==
    /\ worker[p].at = "stored"
    /\ wait' = [wait EXCEPT ![worker[p].w].note = @ \/ Subscribed(worker[p].w)]
    /\ worker' = Free(p)
    /\ missed' = missed \ {worker[p].w}
    /\ UNCHANGED <<queue, owner, claimant, result, live, issued>>

\* A failed PUBLISH is returned to the worker, which may submit again.
PublishFails(p) ==
    /\ worker[p].at = "stored"
    /\ worker' = [worker EXCEPT ![p].at = "working"]
    /\ missed' = missed \cup {worker[p].w}
    /\ UNCHANGED <<queue, owner, claimant, result, live, issued, wait>>

\* A submission was refused or failed, and the worker moves on.
GiveUp(p) ==
    /\ worker[p].at = "working"
    /\ worker' = Free(p)
    /\ UNCHANGED <<queue, owner, claimant, result, live, issued, wait, missed>>

\* The result key ages out.  A wait with no clock reads it again within a slice,
\* which is shorter than resultTTL; a listener with a message reads it at once.
ResultExpires(w) ==
    /\ w \in result
    /\ \/ wait[w].at = "over"
       \/ wait[w].at = "listen" /\ wait[w].clock /\ ~wait[w].note
    /\ \A p \in Workers : worker[p].w = w => worker[p].at # "stored"
    /\ result' = result \ {w}
    /\ UNCHANGED <<queue, owner, claimant, live, issued, worker, wait, missed>>

-----------------------------------------------------------------------------
(* The wait: WaitForResult in slices (waitForWorkResult).                  *)

\* The owner is looked up, then the subscription made.  An id with no owner
\* ends the wait.
Subscribe(w) ==
    /\ wait[w].at = "lookup"
    /\ wait' = IF owner[w] = "bound"
               THEN [wait EXCEPT ![w].at = "fetch"]
               ELSE EndWait(w, "unknown")
    /\ UNCHANGED <<queue, owner, claimant, result, live, issued, worker, missed>>

\* The parent context is cancelled, or Redis fails.
WaitFails(w) ==
    /\ wait[w].at \in {"lookup", "fetch", "listen", "probe"}
    /\ wait' = EndWait(w, "error")
    /\ UNCHANGED <<queue, owner, claimant, result, live, issued, worker, missed>>

FetchResult(w) ==
    /\ wait[w].at = "fetch"
    /\ wait' = IF w \in result
               THEN EndWait(w, "answered")
               ELSE [wait EXCEPT ![w].at = "listen"]
    /\ UNCHANGED <<queue, owner, claimant, result, live, issued, worker, missed>>

\* A GET that fails counts as no result yet.
FetchFails(w) ==
    /\ wait[w].at = "fetch"
    /\ wait' = [wait EXCEPT ![w].at = "listen"]
    /\ missed' = missed \cup {w}
    /\ UNCHANGED <<queue, owner, claimant, result, live, issued, worker>>

\* Mutant: the message is taken and the key not read.
NotifiedOnly(w) ==
    /\ wait[w].at = "listen" /\ wait[w].note
    /\ wait' = [wait EXCEPT ![w].note = FALSE]
    /\ UNCHANGED <<queue, owner, claimant, result, live, issued, worker, missed>>

Notified(w) ==
    /\ wait[w].at = "listen" /\ wait[w].note
    /\ wait' = [wait EXCEPT ![w] = [@ EXCEPT !.at = "fetch", !.note = FALSE]]
    /\ UNCHANGED <<queue, owner, claimant, result, live, issued, worker, missed>>

\* Mutant: a wait with no clock is one call with no end.
ElapsesByClock(w) ==
    /\ wait[w].clock
    /\ wait[w].at = "listen" \/ (wait[w].at = "lookup" /\ owner[w] = "bound")
    /\ wait' = EndWait(w, "timeout")
    /\ UNCHANGED <<queue, owner, claimant, result, live, issued, worker, missed>>

\* The clock of the wait, or the end of a slice.  A message that came at the
\* same time may lose the race.  The handshake of the subscription may take all
\* of the time.
Elapses(w) ==
    /\ wait[w].at = "listen" \/ (wait[w].at = "lookup" /\ owner[w] = "bound")
    /\ wait' = IF wait[w].clock
               THEN EndWait(w, "timeout")
               ELSE [wait EXCEPT ![w] = [@ EXCEPT !.at = "probe", !.note = FALSE]]
    /\ UNCHANGED <<queue, owner, claimant, result, live, issued, worker, missed>>

\* Mutant: any live instance of the component counts.
ProbeAny(w) ==
    /\ wait[w].at = "probe"
    /\ wait' = IF Discover(TenantOf[w]) # {}
               THEN [wait EXCEPT ![w] = [@ EXCEPT !.at = "lookup", !.absent = 0]]
               ELSE IF wait[w].absent + 1 < GraceProbes
               THEN [wait EXCEPT ![w] = [@ EXCEPT !.at = "lookup", !.absent = wait[w].absent + 1]]
               ELSE EndWait(w, "gone")
    /\ UNCHANGED <<queue, owner, claimant, result, live, issued, worker, missed>>

\* workerAlive: the recorded instance itself.
Probe(w) ==
    /\ wait[w].at = "probe"
    /\ wait' = IF wait[w].inst \in Discover(TenantOf[w])
               THEN [wait EXCEPT ![w] = [@ EXCEPT !.at = "lookup", !.absent = 0]]
               ELSE IF wait[w].absent + 1 < GraceProbes
               THEN [wait EXCEPT ![w] = [@ EXCEPT !.at = "lookup", !.absent = wait[w].absent + 1]]
               ELSE EndWait(w, "gone")
    /\ UNCHANGED <<queue, owner, claimant, result, live, issued, worker, missed>>

\* Mutant: a probe that fails counts as an absence.
ProbeFailureCounts(w) ==
    /\ wait[w].at = "probe"
    /\ wait' = IF wait[w].absent + 1 < GraceProbes
               THEN [wait EXCEPT ![w] = [@ EXCEPT !.at = "lookup", !.absent = wait[w].absent + 1]]
               ELSE EndWait(w, "gone")
    /\ UNCHANGED <<queue, owner, claimant, result, live, issued, worker, missed>>

\* A probe that cannot answer is no evidence.
ProbeFails(w) ==
    /\ wait[w].at = "probe"
    /\ wait' = [wait EXCEPT ![w].at = "lookup"]
    /\ UNCHANGED <<queue, owner, claimant, result, live, issued, worker, missed>>

-----------------------------------------------------------------------------

WorkerStep(p) ==
    \/ Register(p) \/ Stop(p)
    \/ PollWork(p) \/ PollEnds(p) \/ Claim(p) \/ ReturnWork(p) \/ PollLost(p)
    \/ SubmitResult(p) \/ Publish(p) \/ PublishFails(p) \/ GiveUp(p)

WaitStep(w) ==
    \/ Dispatch(w) \/ BindOwner(w) \/ Enqueue(w) \/ EnqueueFails(w)
    \/ Subscribe(w) \/ FetchResult(w) \/ FetchFails(w) \/ Notified(w)
    \/ Elapses(w) \/ Probe(w) \/ ProbeFails(w) \/ WaitFails(w)

Next ==
    \/ \E p \in Workers : WorkerStep(p)
    \/ \E w \in Works : WaitStep(w) \/ OwnerExpires(w) \/ ResultExpires(w)
    \/ \E i \in Instances : InstanceExpires(i)

Spec == Init /\ [][Next]_vars

Waiting(w) == wait[w].at \in {"lookup", "fetch", "listen", "probe"}

\* The daemon's goroutine of a wait goes on and its timers fire.  A store that
\* fails now and then answers again and again.
Fairness ==
    \A w \in Works :
        /\ WF_vars(BindOwner(w)) /\ WF_vars(Enqueue(w))
        /\ WF_vars(Elapses(w)) /\ SF_vars(Subscribe(w))
        /\ SF_vars(FetchResult(w)) /\ SF_vars(Probe(w))

LiveSpec == Spec /\ Fairness

-----------------------------------------------------------------------------
(* What the queue promises.                                                *)

Queued(w) == \E i \in DOMAIN queue[TenantOf[w]] : queue[TenantOf[w]][i] = w

Holds(p, w) == worker[p].w = w

\* An item is in at most one place: once on its stream, with no claim and no
\* answer, or in the hands of one worker.  Claims, crashes, lost polls and
\* repeated submissions never make a second execution of it.
TakenOnce ==
    \A w \in Works :
        /\ \A p, q \in Workers : Holds(p, w) /\ Holds(q, w) => p = q
        /\ \A i, j \in DOMAIN queue[TenantOf[w]] :
               queue[TenantOf[w]][i] = w /\ queue[TenantOf[w]][j] = w => i = j
        /\ Queued(w) => /\ \A p \in Workers : ~Holds(p, w)
                        /\ claimant[w] = None /\ w \notin result

\* An item that can be taken or is in work has its owner binding, so its result
\* can be routed, until that ages out.
QueuedIsBound ==
    \A w \in Works :
        Queued(w) \/ (\E p \in Workers : Holds(p, w)) => owner[w] # "none"

\* No lost wake-up: a wait that listens while the result is stored has a message
\* in its subscription, or the PUBLISH is still to come, unless an error lost
\* the PUBLISH or the GET.  (WaitForResult subscribes before it reads the key.)
ListenerIsNotified ==
    \A w \in Works :
        wait[w].at = "listen" /\ w \in result =>
            \/ wait[w].note \/ w \in missed
            \/ \E p \in Workers : Holds(p, w) /\ worker[p].at = "stored"

\* A probe counts against a worker, and a wait ends with errWorkerGone, only
\* when the recorded instance is out of the registry, where it never comes back.
AbsentMeansGone ==
    \A w \in Works :
        wait[w].absent > 0 \/ wait[w].why = "gone" => wait[w].inst \notin live

\* A wait whose result is stored ends, also when the message was lost: every
\* slice reads the key again, and every clock runs out.
StoredAnswerEndsTheWait ==
    \A w \in Works : Waiting(w) /\ w \in result ~> wait[w].at = "over"

\* A dispatch ends, unless it waits with no clock for an instance that stays
\* registered: also when probes and reads of the key fail now and then.
DispatchEnds ==
    \A w \in Works :
        wait[w].at # "new" /\ wait[w].inst \notin live ~> wait[w].at = "over"
=============================================================================
