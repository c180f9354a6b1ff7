----------------------------- MODULE MemberInbox -----------------------------
(***************************************************************************)
(* How an input reaches the member that holds its job, and how it is       *)
(* acknowledged (internal/engine/harness/callback_job.go).  A member reads *)
(* its inbox over a stream that polls the store; the report of a job state *)
(* acknowledges the inputs of that job.  Polls, sends, the steps of a      *)
(* report and the operations of the clients and the reconciler interleave  *)
(* freely: each store call is one transaction, a handler is several.       *)
(*                                                                         *)
(* The jobs table is taken through JobLifecycle, which JobStore            *)
(* implements.  A job state below "live" matters to no one here.           *)
(*                                                                         *)
(* A stream writes nothing that another stream, a report or the store      *)
(* reads.  So it is enough to follow the streams of some members, Watched, *)
(* while all of them pull, report and are released.                        *)
(***************************************************************************)
EXTENDS Naturals, Sequences, FiniteSets, FiniteSetsExt, Functions

CONSTANTS
    Members,      \* the members of the bank, each with one driver process
    NoMember,     \* jobs.member_id = ''
    Watched,      \* the members whose stream is followed, see below
    Jobs,
    Verdicts,     \* what a scorer may say; no step here depends on it
    InboxBatch,   \* memberInboxBatch: the LIMIT of one inbox read
    MaxInputs,    \* bound: inputs ever sent
    MaxBreaks     \* bound: streams that break and reports that fail

NoVerdict == ""

ASSUME InboxAssumption ==
    /\ NoMember \notin Members
    /\ Watched \subseteq Members
    /\ NoVerdict \notin Verdicts
    /\ InboxBatch \in Nat \ {0}
    /\ MaxInputs \in Nat
    /\ MaxBreaks \in Nat

VARIABLES
    phase, holder, verdict,   \* the jobs, as JobLifecycle has them
    inputs,       \* the job_inputs rows in sent_at order; the index is the id
    stream,       \* the SubscribeInput call of each member
    report,       \* the ReportJobState call of each member
    breaks        \* how often a connection has failed

lifecycle == <<phase, holder, verdict>>
inboxVars == <<phase, holder, verdict, inputs, stream, report, breaks>>

Life == INSTANCE JobLifecycle

Ids   == 1..MaxInputs
Input == [job : Jobs, kind : {"turn", "wrap_up"}, acked : BOOLEAN]

\* line is what the stream has sent, in order; the member has received the
\* first n of it.  todo is the rest of the batch that is being sent.
Stream == [on : BOOLEAN, todo : SUBSET Ids, line : Seq(Ids), n : Nat]

\* at is the next call of the handler; acks is what it is acknowledging.
NoReport == [at |-> "idle"]
Report   == {NoReport}
            \cup [at : {"set", "read"}, job : Jobs]
            \cup [at : {"ack"}, job : Jobs, acks : SUBSET Ids]

Offline  == [on |-> FALSE, todo |-> {}, line |-> <<>>, n |-> 0]

InboxTypeOK ==
    /\ phase \in [Jobs -> {"unopened", "live", "settled"}]
    /\ holder \in [Jobs -> Members \cup {NoMember}]
    /\ verdict \in [Jobs -> Verdicts \cup {NoVerdict}]
    /\ inputs \in Seq(Input) /\ Len(inputs) <= MaxInputs
    /\ stream \in [Members -> Stream]
    /\ \A m \in Members : /\ stream[m].n <= Len(stream[m].line)
                          /\ ~stream[m].on => stream[m] = Offline
    /\ report \in [Members -> Report]
    /\ breaks \in 0..MaxBreaks

InboxInit ==
    /\ Life!Init
    /\ inputs = <<>>
    /\ stream = [m \in Members |-> Offline]
    /\ report = [m \in Members |-> NoReport]
    /\ breaks = 0

-----------------------------------------------------------------------------
(* The inbox read.                                                         *)

Pending(m) ==
    {i \in 1..Len(inputs) : ~inputs[i].acked /\ holder[inputs[i].job] = m}

\* Mutant of PendingInputs: a LIMIT one too small.
PendingInputsShort(m) ==
    {i \in Pending(m) : Cardinality({k \in Pending(m) : k < i}) < InboxBatch - 1}

\* ORDER BY sent_at ASC LIMIT InboxBatch, over all jobs of the member.
PendingInputs(m) ==
    {i \in Pending(m) : Cardinality({k \in Pending(m) : k < i}) < InboxBatch}

-----------------------------------------------------------------------------
(* SubscribeInput.                                                         *)

Subscribe(m) ==
    /\ ~stream[m].on
    /\ stream' = [stream EXCEPT ![m] = [Offline EXCEPT !.on = TRUE]]
    /\ UNCHANGED <<lifecycle, inputs, report, breaks>>

\* One turn of the loop reads a batch and skips what this stream has sent.
Poll(m) ==
    /\ stream[m].on /\ stream[m].todo = {}
    /\ stream' = [stream EXCEPT ![m].todo = PendingInputs(m) \ Range(stream[m].line)]
    /\ UNCHANGED <<lifecycle, inputs, report, breaks>>

\* Mutant of Deliver: the newest of the batch goes out first.
DeliverNewestFirst(m) ==
    /\ stream[m].todo # {}
    /\ LET i == Max(stream[m].todo)
       IN stream' = [stream EXCEPT ![m].todo = @ \ {i}, ![m].line = Append(@, i)]
    /\ UNCHANGED <<lifecycle, inputs, report, breaks>>

\* The batch goes out in the order it was read.  Nobody asks again who holds
\* the job.
Deliver(m) ==
    /\ stream[m].todo # {}
    /\ LET i == Min(stream[m].todo)
       IN stream' = [stream EXCEPT ![m].todo = @ \ {i}, ![m].line = Append(@, i)]
    /\ UNCHANGED <<lifecycle, inputs, report, breaks>>

\* External: the member driver takes the next message off the connection.
Receive(m) ==
    /\ stream[m].n < Len(stream[m].line)
    /\ stream' = [stream EXCEPT ![m].n = @ + 1]
    /\ UNCHANGED <<lifecycle, inputs, report, breaks>>

\* The connection ends: a send fails, the member goes away or the daemon stops.
\* What was on the way is lost, with the memory of what was sent.
Break(m) ==
    /\ stream[m].on
    /\ breaks < MaxBreaks
    /\ breaks' = breaks + 1
    /\ stream' = [stream EXCEPT ![m] = Offline]
    /\ UNCHANGED <<lifecycle, inputs, report>>

-----------------------------------------------------------------------------
(* ReportJobState: four store calls, each of which may find that the world *)
(* has moved.                                                              *)

Returned(m) == report' = [report EXCEPT ![m] = NoReport]

\* assertJobHeldByMember.
ReportJobState(m, j) ==
    /\ report[m] = NoReport
    /\ phase[j] # "unopened" /\ holder[j] = m
    /\ report' = [report EXCEPT ![m] = [at |-> "set", job |-> j]]
    /\ UNCHANGED <<lifecycle, inputs, stream, breaks>>

\* SetState refuses a closed job, and the report ends with that error.
ReportSet(m) ==
    /\ report[m].at = "set"
    /\ IF phase[report[m].job] = "settled"
       THEN Returned(m)
       ELSE report' = [report EXCEPT ![m].at = "read"]
    /\ UNCHANGED <<lifecycle, inputs, stream, breaks>>

\* Mutant of ReportRead: nothing is acknowledged.
ReportReadNothing(m) ==
    /\ report[m].at = "read"
    /\ Returned(m)
    /\ UNCHANGED <<lifecycle, inputs, stream, breaks>>

\* acknowledgeInputsFor reads the inbox again.
ReportRead(m) ==
    /\ report[m].at = "read"
    /\ LET acks == {i \in PendingInputs(m) : inputs[i].job = report[m].job}
       IN IF acks = {} THEN Returned(m)
          ELSE report' = [report EXCEPT ![m] =
                             [at |-> "ack", job |-> report[m].job, acks |-> acks]]
    /\ UNCHANGED <<lifecycle, inputs, stream, breaks>>

ReportAck(m) ==
    /\ report[m].at = "ack"
    /\ LET i == Min(report[m].acks)
       IN /\ inputs' = [inputs EXCEPT ![i].acked = TRUE]
          /\ IF report[m].acks = {i} THEN Returned(m)
             ELSE report' = [report EXCEPT ![m].acks = @ \ {i}]
    /\ UNCHANGED <<lifecycle, stream, breaks>>

\* A store call fails or the member hangs up: the handler stops where it is.
ReportFails(m) ==
    /\ report[m] # NoReport
    /\ breaks < MaxBreaks
    /\ breaks' = breaks + 1
    /\ Returned(m)
    /\ UNCHANGED <<lifecycle, inputs, stream>>
-----------------------------------------------------------------------------
(* The job store, as far as it touches inputs and holders.                 *)

rest == <<stream, report, breaks>>

Open(j, m) == Life!Begin(j, m) /\ UNCHANGED <<inputs, rest>>

PullJob(m, j) == Life!Take(j, m) /\ UNCHANGED <<inputs, rest>>

\* markDead puts the jobs of a member back in the queue.
ReleaseMember(m) == Life!GiveBack(m) /\ UNCHANGED <<inputs, rest>>

AppendInput(j, k) ==
    /\ Len(inputs) < MaxInputs
    /\ inputs' = Append(inputs, [job |-> j, kind |-> k, acked |-> FALSE])

SendInput(j) ==
    /\ phase[j] = "live"
    /\ AppendInput(j, "turn")
    /\ UNCHANGED <<lifecycle, rest>>

CloseJob(j, v) ==
    /\ Life!Settle(j, v)
    /\ AppendInput(j, "wrap_up")
    /\ UNCHANGED rest

StreamStep(m) == Subscribe(m) \/ Poll(m) \/ Deliver(m) \/ Receive(m)

ReportStep(m) == ReportSet(m) \/ ReportRead(m) \/ ReportAck(m)

InboxNext ==
    \/ \E m \in Watched : StreamStep(m) \/ Break(m)
    \/ \E m \in Members : ReportStep(m) \/ ReportFails(m)
    \/ \E m \in Members, j \in Jobs : ReportJobState(m, j) \/ PullJob(m, j)
    \/ \E m \in Members : ReleaseMember(m)
    \/ \E j \in Jobs, m \in Members \cup {NoMember} : Open(j, m)
    \/ \E j \in Jobs : SendInput(j)
    \/ \E j \in Jobs, v \in Verdicts : CloseJob(j, v)

InboxSpec == InboxInit /\ [][InboxNext]_inboxVars

\* A live goroutine runs on: the ticker fires, the handler returns.  A member
\* whose connection is gone dials again, and it reports on every job it holds
\* again and again, at the start and at the end of each turn.  Clients send and
\* close when they please, and the number of failures is finite.
InboxFairness ==
    /\ \A m \in Watched : WF_inboxVars(StreamStep(m))
    /\ \A m \in Members :
          /\ WF_inboxVars(ReportStep(m))
          /\ \A j \in Jobs : SF_inboxVars(ReportJobState(m, j))

FairInboxSpec == InboxSpec /\ InboxFairness

-----------------------------------------------------------------------------
(* Properties.                                                             *)

\* "the messages sent to a job, in order": on one connection the inputs of a
\* job arrive in the order they were sent and none arrives twice, whatever is
\* sent, acknowledged, released and pulled again between two polls.
DeliveredInOrder ==
    \A m \in Watched : LET line == stream[m].line IN
        \A a, b \in 1..Len(line) :
            (a < b /\ inputs[line[a]].job = inputs[line[b]].job) => line[a] < line[b]

Got(m) == {stream[m].line[k] : k \in 1..stream[m].n}

\* inboxPollInterval: the poll "cannot miss an input".  What is pending for a
\* member arrives on its connection of the time, unless it is acknowledged or
\* the job leaves the member first; a broken connection starts over.
PendingIsDelivered ==
    \A m \in Watched, i \in Ids :
        (i \in Pending(m)) ~> (i \in Got(m) \/ i \notin Pending(m))

\* ReportJobState stops "a reconnect from replaying a turn the model already
\* took": an input of a live job does not stay pending on the member that
\* keeps reporting on the job.
TurnIsAcknowledged ==
    \A m \in Watched, i \in Ids :
        (i \in Pending(m)) ~> (i \notin Pending(m) \/ phase[inputs[i].job] = "settled")

-----------------------------------------------------------------------------
(* The inductive invariant.                                                *)

\* What the stream of a member has sent or has read to send.
Sent(m) == Range(stream[m].line) \cup stream[m].todo

SameJob(i, k) == inputs[i].job = inputs[k].job

\* The line is in order, the rest of the batch comes after it, and an earlier
\* input of the same job that was passed over has been acknowledged: what is
\* acknowledged is never read again, so nothing can come in between later.
LineInv(m) ==
    /\ Sent(m) \subseteq 1..Len(inputs)
    /\ \A a, b \in 1..Len(stream[m].line) :
          (a < b /\ SameJob(stream[m].line[a], stream[m].line[b]))
             => stream[m].line[a] < stream[m].line[b]
    /\ \A a \in 1..Len(stream[m].line), i \in stream[m].todo :
          SameJob(stream[m].line[a], i) => stream[m].line[a] < i
    /\ \A i \in Sent(m) : \A k \in 1..i-1 :
          SameJob(k, i) => k \in Sent(m) \/ inputs[k].acked

\* A report acknowledges inputs that exist.
AcksInv(m) == report[m].at = "ack" =>
                 report[m].acks # {} /\ report[m].acks \subseteq 1..Len(inputs)

InboxInv == InboxTypeOK /\ \A m \in Members : LineInv(m) /\ AcksInv(m)
=============================================================================
