------------------------------ MODULE JobStore ------------------------------
(***************************************************************************)
(* The jobs, job_inputs and job_events tables of one tenant database       *)
(* (internal/platform/job/store_postgres.go), beside the bank_members      *)
(* table of BankStore that the slot check reads.  Every mutating operation *)
(* of the store runs in one transaction that locks the job row first, so   *)
(* each is one action here.  The callers are any number of clients,        *)
(* members, scorers and the reconciler, in any order.                      *)
(***************************************************************************)
EXTENDS BankStore, Sequences, FiniteSets

CONSTANTS
    Jobs,         \* job ids; types.NewID never returns one twice
    NoMember,     \* jobs.member_id = '' : the job waits in the bank queue
    MaxInputs,    \* bound: inputs ever sent
    MaxEvents     \* bound: events in the log of one job

ASSUME NoMemberAssumption == NoMember \notin Members
ASSUME JobsAssumption == IsFiniteSet(Jobs)
ASSUME BoundsAssumption == MaxInputs \in Nat /\ MaxEvents \in Nat

VARIABLES
    jobs,         \* the jobs rows, by job id
    inputs,       \* the job_inputs rows in sent_at order; the index is the id
    events        \* the job_events rows of each job, in seq order

storeVars == <<members, jobs, inputs, events>>

JobState    == {"open", "working", "waiting", "closed"}
Verdicts    == {"accomplished", "failed", "abandoned"}
NoVerdict   == ""
InputKinds  == {"turn", "answer", "wrap_up"}
EventKinds  == {"opened", "input", "state", "deliverable", "closed"}
NoState     == ""

JobRow  == [st : JobState \cup {"none"},       \* "none": no such row
            member : Members \cup {NoMember},
            verdict : Verdicts \cup {NoVerdict},
            opened : Nat,                      \* opened_at, as a rank
            stale : BOOLEAN]                   \* last_input_at is past the stale limit
Input   == [job : Jobs, kind : InputKinds, acked : BOOLEAN]
Event   == [kind : EventKinds, state : JobState \cup {NoState}]

TypeOK ==
    /\ BankStoreTypeOK
    /\ jobs \in [Jobs -> JobRow]
    /\ inputs \in Seq(Input)
    /\ events \in [Jobs -> Seq(Event)]

NoJob == [st |-> "none", member |-> NoMember, verdict |-> NoVerdict,
          opened |-> 0, stale |-> FALSE]

StoreInit ==
    /\ BankStoreInit
    /\ jobs = [j \in Jobs |-> NoJob]
    /\ inputs = <<>>
    /\ events = [j \in Jobs |-> <<>>]

-----------------------------------------------------------------------------
(* Reads.                                                                  *)

Exists(j) == jobs[j].st # "none"
IsOpen(j) == jobs[j].st \in JobState \ {"closed"}

\* The jobs that name a member, and those of them that are not closed.
Assigned(m) == {j \in Jobs : Exists(j) /\ jobs[j].member = m}
Held(m)     == {j \in Jobs : IsOpen(j) /\ jobs[j].member = m}

\* Mutant of Queue: a job that a member holds is handed out again.
QueueWithHeld == {j \in Jobs : IsOpen(j)}

\* Unassigned counts this set and Claim takes the oldest of it.
Queue == {j \in Jobs : IsOpen(j) /\ jobs[j].member = NoMember}

Oldest(S) == CHOOSE j \in S : \A k \in S : jobs[j].opened <= jobs[k].opened

\* PendingInputs without its LIMIT: the unacknowledged inputs of a member.
PendingInputs(m) ==
    {i \in 1..Len(inputs) : ~inputs[i].acked /\ jobs[inputs[i].job].member = m}

\* Stale lists the open jobs of the bank past its stale limit.
StaleJobs == {j \in Jobs : IsOpen(j) /\ jobs[j].stale}

-----------------------------------------------------------------------------
(* Writes.                                                                 *)

ev(k, s) == [kind |-> k, state |-> s]

AppendEvents(j, s) ==
    /\ Len(events[j]) + Len(s) <= MaxEvents
    /\ events' = [events EXCEPT ![j] = @ \o s]

AppendInput(j, k) ==
    /\ Len(inputs) < MaxInputs
    /\ inputs' = Append(inputs, [job |-> j, kind |-> k, acked |-> FALSE])

Open(j, m) ==
    /\ ~Exists(j)
    /\ m # NoMember => MemberHasFreeSlot(m)
    /\ jobs' = [jobs EXCEPT ![j] =
          [st |-> "open", member |-> m, verdict |-> NoVerdict, stale |-> FALSE,
           opened |-> 1 + Cardinality({k \in Jobs : Exists(k)})]]
    /\ AppendEvents(j, <<ev("opened", "open")>>)
    /\ UNCHANGED <<members, inputs>>

\* Mutant of Send: a closed job takes any input.
SendAfterClose(j, k) ==
    /\ Exists(j)
    /\ AppendInput(j, k)
    /\ IF jobs[j].st = "closed"
       THEN /\ jobs' = [jobs EXCEPT ![j].stale = FALSE]
            /\ AppendEvents(j, <<ev("input", NoState)>>)
       ELSE /\ jobs' = [jobs EXCEPT ![j].st = "working", ![j].stale = FALSE]
            /\ AppendEvents(j, <<ev("input", NoState), ev("state", "working")>>)
    /\ UNCHANGED members

\* The wrap-up is the one input a closed job accepts, and it moves no state.
Send(j, k) ==
    /\ Exists(j)
    /\ jobs[j].st = "closed" => k = "wrap_up"
    /\ AppendInput(j, k)
    /\ IF jobs[j].st = "closed"
       THEN /\ jobs' = [jobs EXCEPT ![j].stale = FALSE]
            /\ AppendEvents(j, <<ev("input", NoState)>>)
       ELSE /\ jobs' = [jobs EXCEPT ![j].st = "working", ![j].stale = FALSE]
            /\ AppendEvents(j, <<ev("input", NoState), ev("state", "working")>>)
    /\ UNCHANGED members

\* Mutant of Close: the state is not read before the verdict is written.
CloseUnchecked(j, v) ==
    /\ Exists(j)
    /\ jobs' = [jobs EXCEPT ![j].st = "closed", ![j].verdict = v]
    /\ AppendInput(j, "wrap_up")
    /\ AppendEvents(j, <<ev("input", NoState), ev("closed", "closed")>>)
    /\ UNCHANGED members

\* The verdict and the wrap-up input go in together.
Close(j, v) ==
    /\ IsOpen(j)
    /\ jobs' = [jobs EXCEPT ![j].st = "closed", ![j].verdict = v]
    /\ AppendInput(j, "wrap_up")
    /\ AppendEvents(j, <<ev("input", NoState), ev("closed", "closed")>>)
    /\ UNCHANGED members

\* FOR UPDATE SKIP LOCKED: the rows that other transactions hold at the moment
\* are passed over, so the job taken is the oldest of the rest.
Claim(m, locked) ==
    /\ MemberHasFreeSlot(m)
    /\ Queue \ locked # {}
    /\ jobs' = [jobs EXCEPT ![Oldest(Queue \ locked)].member = m]
    /\ UNCHANGED <<members, inputs, events>>

Acknowledge(i) ==
    /\ i \in 1..Len(inputs)
    /\ inputs' = [inputs EXCEPT ![i].acked = TRUE]
    /\ UNCHANGED <<members, jobs, events>>

\* Mutant of SetState: no event is appended.
SetStateSilent(j, s) ==
    /\ s # "closed"
    /\ IsOpen(j)
    /\ jobs' = [jobs EXCEPT ![j].st = s]
    /\ UNCHANGED <<members, inputs, events>>

SetState(j, s) ==
    /\ s # "closed"
    /\ IsOpen(j)
    /\ jobs' = [jobs EXCEPT ![j].st = s]
    /\ AppendEvents(j, <<ev("state", s)>>)
    /\ UNCHANGED <<members, inputs>>

\* No state is asked for: a wrap-up turn delivers to a closed job.
AddDeliverable(j) ==
    /\ Exists(j)
    /\ AppendEvents(j, <<ev("deliverable", NoState)>>)
    /\ UNCHANGED <<members, jobs, inputs>>

\* Mutants of ReleaseMember: closed jobs are released too; the inputs of the
\* released jobs are put up for delivery again.
ReleaseMemberClosedToo(m) ==
    /\ jobs' = [j \in Jobs |-> IF j \in Assigned(m)
                               THEN [jobs[j] EXCEPT !.member = NoMember]
                               ELSE jobs[j]]
    /\ UNCHANGED <<members, inputs, events>>

ReleaseMemberReplayed(m) ==
    /\ jobs' = [j \in Jobs |-> IF j \in Held(m)
                               THEN [jobs[j] EXCEPT !.member = NoMember]
                               ELSE jobs[j]]
    /\ inputs' = [i \in 1..Len(inputs) |-> IF inputs[i].job \in Held(m)
                               THEN [inputs[i] EXCEPT !.acked = FALSE]
                               ELSE inputs[i]]
    /\ UNCHANGED <<members, events>>

\* A closed job keeps its member, an open one goes back to the queue.
ReleaseMember(m) ==
    /\ jobs' = [j \in Jobs |-> IF j \in Held(m)
                               THEN [jobs[j] EXCEPT !.member = NoMember]
                               ELSE jobs[j]]
    /\ UNCHANGED <<members, inputs, events>>

\* Time passes without an input: last_input_at falls behind the stale limit.
InputAges(j) ==
    /\ IsOpen(j)
    /\ ~jobs[j].stale
    /\ jobs' = [jobs EXCEPT ![j].stale = TRUE]
    /\ UNCHANGED <<members, inputs, events>>

-----------------------------------------------------------------------------
(* The store under any calls.  A client sends turns and answers: SendInput *)
(* refuses wrap_up, the job node and a delegation send turns.  A member    *)
(* reports working or waiting.                                             *)

ClientKinds == {"turn", "answer"}
MemberReports == {"working", "waiting"}

\* The bank_members table moves under the job store's feet.  These are the
\* operations that change what the slot check reads; a member reports the jobs
\* it has noticed, which are some of those that name it.
BankStep ==
    /\ \E m \in Members :
          \/ AddMember(m, "launching")
          \/ \E n \in 0..Cardinality(Assigned(m)) :
                UpdateMemberStatus(m, IF n < JobCap THEN "idle" ELSE "busy", n)
          \/ RemoveMember(m)
    /\ UNCHANGED <<jobs, inputs, events>>

StoreNext ==
    \/ \E j \in Jobs, m \in Members \cup {NoMember} : Open(j, m)
    \/ \E j \in Jobs, k \in ClientKinds : Send(j, k)
    \/ \E j \in Jobs, v \in Verdicts : Close(j, v)
    \/ \E m \in Members, locked \in SUBSET Queue : Claim(m, locked)
    \/ \E i \in 1..Len(inputs) : Acknowledge(i)
    \/ \E j \in Jobs, s \in MemberReports : SetState(j, s)
    \/ \E j \in Jobs : AddDeliverable(j)
    \/ \E m \in Members : ReleaseMember(m)
    \/ \E j \in Jobs : InputAges(j)
    \/ BankStep

StoreSpec == StoreInit /\ [][StoreNext]_storeVars

-----------------------------------------------------------------------------
(* Properties.                                                             *)

\* The close is the last word on a job: once Close committed, no later call, of
\* a member, a scorer or the stale sweep, moves its state, its verdict or the
\* member that owes the wrap-up.
ClosedIsFinal ==
    [][\A j \in Jobs : jobs[j].st = "closed" =>
          /\ jobs'[j].st = "closed"
          /\ jobs'[j].verdict = jobs[j].verdict
          /\ jobs'[j].member = jobs[j].member]_storeVars

WrapUps(j) == {i \in 1..Len(inputs) : inputs[i].job = j /\ inputs[i].kind = "wrap_up"}

\* "a job cannot be closed twice and cannot be closed without its wrap-up":
\* a closed job has a verdict and exactly one wrap-up input, and a job that is
\* not closed has neither.
ClosedWithOneWrapUp ==
    \A j \in Jobs :
        /\ (jobs[j].st = "closed") <=> (jobs[j].verdict # NoVerdict)
        /\ (jobs[j].st = "closed") <=> (WrapUps(j) # {})
        /\ \A a, b \in WrapUps(j) : a = b

\* The event log replays to the row: the last event that carries a state carries
\* the state of the job, so a reader of the log (WaitForTurn, StreamJobEvents)
\* and a reader of the row agree on where the job is.
LogAgrees ==
    \A j \in Jobs : Exists(j) =>
        \E n \in 1..Len(events[j]) :
            /\ events[j][n].state = jobs[j].st
            /\ \A k \in (n+1)..Len(events[j]) : events[j][k].state = NoState

\* StreamJobEvents ends after the closing event.  What a follower misses by that
\* is deliverables only: the job it tells of is closed, and no input, no state
\* and no second close comes after it.
ClosingEventEndsTheStory ==
    \A j \in Jobs : \A n \in 1..Len(events[j]) :
        events[j][n].kind = "closed" =>
            /\ jobs[j].st = "closed"
            /\ \A k \in (n+1)..Len(events[j]) : events[j][k].kind = "deliverable"

\* An acknowledged input is never pending again, and inputs keep their place:
\* no call reopens the redelivery window of an input the member has run.
AcknowledgedForGood ==
    [][/\ Len(inputs) <= Len(inputs')
       /\ \A i \in 1..Len(inputs) :
             /\ inputs'[i].job = inputs[i].job
             /\ inputs[i].acked => inputs'[i].acked]_storeVars

\* The four invariants together are inductive: each is kept by a step because
\* the others hold before it.
StoreInv == TypeOK /\ ClosedWithOneWrapUp /\ LogAgrees /\ ClosingEventEndsTheStory

-----------------------------------------------------------------------------
(* The store implements JobLifecycle.                                      *)

phaseMap   == [j \in Jobs |-> CASE jobs[j].st = "none" -> "unopened"
                              [] jobs[j].st = "closed" -> "settled"
                              [] OTHER -> "live"]
holderMap  == [j \in Jobs |-> jobs[j].member]
verdictMap == [j \in Jobs |-> jobs[j].verdict]

Lifecycle == INSTANCE JobLifecycle
                 WITH phase <- phaseMap, holder <- holderMap, verdict <- verdictMap

\* Whatever the calls and their order, the tables move only as a job may:
\* opened once, held by one member at a time, handed on only through the queue,
\* and settled once.
ImplementsLifecycle == Lifecycle!Spec

-----------------------------------------------------------------------------
\* "two concurrent opens cannot both take the last slot" (the comment on Open):
\* a member never holds more open jobs than its cap.
SlotsRespected == \A m \in Rows : Cardinality(Held(m)) <= JobCap
=============================================================================
