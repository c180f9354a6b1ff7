----------------------------- MODULE JobDrivers -----------------------------
(***************************************************************************)
(* The two callers of the daemon that drive a job by its event log: the    *)
(* job node of a mission (internal/engine/jobnode), which opens a job,     *)
(* has each turn judged and closes it, and a delegation to a bank or to a  *)
(* job (callback_delegate_target.go), which waits for one turn.  Both wait *)
(* with WaitForTurn, which polls the log of JobStore.  Between two of      *)
(* their calls the member reports and delivers, clients send and close,    *)
(* and the bound of the caller may end.                                    *)
(*                                                                         *)
(* Claim, ReleaseMember, Acknowledge and the member rows change neither    *)
(* the log nor the state of a job, so they are left to JobStore.           *)
(***************************************************************************)
EXTENDS JobStore

CONSTANTS
    MaxPasses,    \* acceptance.max_passes, at least 1
    EventBatch,   \* eventBatch and MaxPageSize: the events of one read
    MaxDelivered  \* bound: deliverables of a job

ASSUME DriversAssumption ==
    MaxPasses \in Nat \ {0} /\ EventBatch \in Nat \ {0} /\ MaxDelivered \in Nat

VARIABLES
    node,         \* the locals of jobnode.Run
    call          \* the locals of delegateToTarget

driverVars == <<members, jobs, inputs, events, node, call>>

None == "none"

\* How Run returned: with its own close, with somebody else's, with the error
\* that made abandon close the job, with that error and the one of abandon's
\* close, or with another error.
Outcomes == {"running", "scored", "elsewhere", "abandoned", "unabandoned", "error"}

Node == [pc : {"start", "wait", "read", "judge", "close", "send", "abandon", "done"},
         job : Jobs \cup {None}, since : Nat, pass : 1..MaxPasses,
         verdict : Verdicts \cup {NoVerdict}, outcome : Outcomes]

Call == [pc : {"start", "send", "wait", "done"}, job : Jobs \cup {None}, since : Nat]

DriversTypeOK == TypeOK /\ node \in Node /\ call \in Call

DriversInit ==
    /\ StoreInit
    /\ node = [pc |-> "start", job |-> None, since |-> 0, pass |-> 1,
               verdict |-> NoVerdict, outcome |-> "running"]
    /\ call = [pc |-> "start", job |-> None, since |-> 0]

-----------------------------------------------------------------------------
(* WaitForTurn.                                                            *)

\* One read of the log after since, at most EventBatch events of it.
Window(j, since) ==
    {n \in 1..Len(events[j]) : since < n /\ n <= since + EventBatch}

EndsTurn(e) == e.kind = "closed" \/ (e.kind = "state" /\ e.state = "waiting")

\* The events of the read that the loop goes through: up to the first that ends
\* the turn, or all.
Walked(j, since) ==
    {n \in Window(j, since) : \A k \in since+1..n-1 : ~EndsTurn(events[j][k])}

Last(S, since) == CHOOSE n \in S \cup {since} : \A k \in S \cup {since} : k <= n

\* Mutant of Cursor: the whole read is consumed.
CursorOfRead(j, since) == Last(Window(j, since), since)

\* Mutant of Cursor: a read that does not end the turn leaves since alone.
CursorStuck(j, since) ==
    LET n == Last(Walked(j, since), since)
    IN IF n > since /\ EndsTurn(events[j][n]) THEN n ELSE since

\* since after the read.
Cursor(j, since) == Last(Walked(j, since), since)

\* The read saw the turn end.
TurnEnded(j, since) ==
    \E n \in Walked(j, since) : n = Cursor(j, since) /\ EndsTurn(events[j][n])

-----------------------------------------------------------------------------
(* jobnode.Run.                                                            *)

NodeAt(pc) == node.pc = pc

NodeReturns(outcome, v) ==
    node' = [node EXCEPT !.pc = "done", !.outcome = outcome, !.verdict = v]

NodeOpen(j) ==
    /\ NodeAt("start")
    /\ Open(j, NoMember)
    /\ node' = [node EXCEPT !.pc = "wait", !.job = j]
    /\ UNCHANGED call

NodeWait ==
    /\ NodeAt("wait")
    /\ LET n == Cursor(node.job, node.since)
       IN node' = [node EXCEPT !.since = n,
                      !.pc = IF ~TurnEnded(node.job, node.since) THEN "wait"
                             ELSE IF events[node.job][n].kind = "closed" THEN "read"
                             ELSE "judge"]
    /\ UNCHANGED <<storeVars, call>>

\* Somebody else closed the job: their verdict is the outcome.
NodeElsewhere ==
    /\ NodeAt("read")
    /\ \/ NodeReturns("elsewhere", jobs[node.job].verdict)
       \/ NodeReturns("error", NoVerdict)
    /\ UNCHANGED <<storeVars, call>>

\* The verifier accepts, or rejects, or fails.  A spec without a verifier
\* accepts the first turn.
NodeJudge ==
    /\ NodeAt("judge")
    /\ \/ node' = [node EXCEPT !.pc = "close", !.verdict = "accomplished"]
       \/ /\ node.pass >= MaxPasses
          /\ node' = [node EXCEPT !.pc = "close", !.verdict = "failed"]
       \/ /\ node.pass < MaxPasses
          /\ node' = [node EXCEPT !.pc = "send"]
       \/ node' = [node EXCEPT !.pc = "abandon"]
    /\ UNCHANGED <<storeVars, call>>

\* Mutant of NodeClose: a close that is refused counts as the node's own.
NodeCloseBlind ==
    /\ NodeAt("close")
    /\ \/ Close(node.job, node.verdict)
       \/ ~IsOpen(node.job) /\ UNCHANGED storeVars
    /\ NodeReturns("scored", node.verdict)
    /\ UNCHANGED call

\* closeWith.  An error of Close ends the run there: the job was closed in the
\* meantime, the store is down, or the bound of the node has ended.
NodeClose ==
    /\ NodeAt("close")
    /\ \/ Close(node.job, node.verdict) /\ NodeReturns("scored", node.verdict)
       \/ UNCHANGED storeVars /\ NodeReturns("error", NoVerdict)
    /\ UNCHANGED call

\* The report is the next turn.
NodeSend ==
    /\ NodeAt("send")
    /\ \/ /\ Send(node.job, "turn")
          /\ node' = [node EXCEPT !.pc = "wait", !.pass = @ + 1]
       \/ UNCHANGED storeVars /\ node' = [node EXCEPT !.pc = "abandon"]
    /\ UNCHANGED call

\* The bound ends in the wait, or a read of the log fails.
NodeGivesUp ==
    /\ NodeAt("wait")
    /\ node' = [node EXCEPT !.pc = "abandon"]
    /\ UNCHANGED <<storeVars, call>>

\* The close of abandon runs on a bound of its own.  It fails on a closed job
\* or when the store is down.
NodeAbandon ==
    /\ NodeAt("abandon")
    /\ \/ Close(node.job, "abandoned") /\ NodeReturns("abandoned", "abandoned")
       \/ UNCHANGED storeVars /\ NodeReturns("unabandoned", NoVerdict)
    /\ UNCHANGED call

NodeStep ==
    \/ NodeWait \/ NodeElsewhere \/ NodeJudge \/ NodeClose \/ NodeSend \/ NodeAbandon
-----------------------------------------------------------------------------
(* delegateToBank and delegateToJob.                                       *)

CallAt(pc) == call.pc = pc

DelegateToBank(j) ==
    /\ CallAt("start")
    /\ Open(j, NoMember)
    /\ call' = [call EXCEPT !.pc = "wait", !.job = j]
    /\ UNCHANGED node

\* The log is read for its last event.  The page is clamped to EventBatch,
\* whatever the caller asks for.
DelegateToJob(j) ==
    /\ CallAt("start")
    /\ Exists(j)
    /\ call' = [call EXCEPT !.pc = "send", !.job = j, !.since = Last(Window(j, 0), 0)]
    /\ UNCHANGED <<storeVars, node>>

\* A closed job refuses the turn, and the delegation fails.
DelegateSend ==
    /\ CallAt("send")
    /\ \/ /\ Send(call.job, "turn")
          /\ call' = [call EXCEPT !.pc = "wait"]
       \/ UNCHANGED storeVars /\ call' = [call EXCEPT !.pc = "done"]
    /\ UNCHANGED node

DelegateWait ==
    /\ CallAt("wait")
    /\ LET n == Cursor(call.job, call.since)
       IN call' = IF TurnEnded(call.job, call.since)
                  THEN [call EXCEPT !.since = n, !.pc = "done"]
                  ELSE [call EXCEPT !.since = n]
    /\ UNCHANGED <<storeVars, node>>

\* The timeout of the task, or a read that fails.
DelegateGivesUp ==
    /\ CallAt("wait")
    /\ call' = [call EXCEPT !.pc = "done"]
    /\ UNCHANGED <<storeVars, node>>

DelegateStep == DelegateSend \/ DelegateWait

-----------------------------------------------------------------------------
(* The member that works on the job, its clients and the stale sweep.  An  *)
(* answer differs from a turn in its kind alone, which no driver reads.    *)

Delivered(j) == {n \in 1..Len(events[j]) : events[j][n].kind = "deliverable"}

OtherStep ==
    /\ \E j \in Jobs :
          \/ \E s \in MemberReports : SetState(j, s)
          \/ Cardinality(Delivered(j)) < MaxDelivered /\ AddDeliverable(j)
          \/ Send(j, "turn")
          \/ \E v \in Verdicts : Close(j, v)
    /\ UNCHANGED <<node, call>>

DriversNext ==
    \/ \E j \in Jobs : NodeOpen(j) \/ DelegateToBank(j) \/ DelegateToJob(j)
    \/ NodeStep \/ NodeGivesUp
    \/ DelegateStep \/ DelegateGivesUp
    \/ OtherStep

DriversSpec == DriversInit /\ [][DriversNext]_driverVars

\* The two goroutines run on: the ticker fires and every call returns.  Nothing
\* is asked of the bounds, the member or the clients.
DriversFairness == WF_driverVars(NodeStep) /\ WF_driverVars(DelegateStep)

FairDriversSpec == DriversSpec /\ DriversFairness

-----------------------------------------------------------------------------
(* Properties.                                                             *)

\* The node "reports that close as its outcome rather than overwrite it": the
\* verdict a mission reads off the node is the verdict of the job, whoever
\* closed it and whatever raced with the judging.
OutcomeIsTheClose ==
    node.outcome \in {"scored", "elsewhere", "abandoned"} =>
        /\ jobs[node.job].st = "closed"
        /\ node.verdict = jobs[node.job].verdict

\* A waiting driver has not read past the end of a job: the cursor it polls with
\* never moves over the closing event, so the wait cannot miss it.
CursorKeepsTheClose ==
    /\ node.pc \in {"wait", "judge", "close", "send", "abandon"} =>
          \A n \in 1..node.since : events[node.job][n].kind # "closed"
    /\ call.pc = "wait" =>
          \A n \in 1..call.since : events[call.job][n].kind # "closed"

\* "The node reports that close": once anybody has closed the job, Run returns
\* and a waiting delegation is answered, with no bound to help them.
CloseEndsTheWait ==
    /\ (node.pc # "start" /\ node.job \in Jobs /\ jobs[node.job].st = "closed")
          ~> (node.pc = "done")
    /\ (call.pc = "wait" /\ jobs[call.job].st = "closed") ~> (call.pc = "done")

-----------------------------------------------------------------------------
(* The inductive invariant.                                                *)

\* Where the node is: on a job of its own from its first call on, with a cursor
\* inside the log that has not passed the close, no outcome before it returns,
\* and at "read" only because it saw the closing event.
NodeInv ==
    /\ node \in Node
    /\ node.pc = "start" => node.since = 0
    /\ node.pc # "start" => node.job \in Jobs
    /\ node.pc # "done" => node.outcome = "running"
    /\ node.pc \in {"wait", "judge", "close", "send", "abandon"} =>
          /\ node.since <= Len(events[node.job])
          /\ \A n \in 1..node.since : events[node.job][n].kind # "closed"
    /\ node.pc = "read" => jobs[node.job].st = "closed"
    /\ node.pc = "close" => node.verdict # NoVerdict
    /\ node.pc = "send" => node.pass < MaxPasses
    /\ OutcomeIsTheClose

\* Where a delegation is.  It may send with a cursor past the close: then the
\* job refuses the turn.
CallInv ==
    /\ call \in Call
    /\ call.pc = "start" => call.since = 0
    /\ call.pc \in {"send", "wait"} => call.job \in Jobs /\ call.since <= Len(events[call.job])
    /\ call.pc = "wait" => \A n \in 1..call.since : events[call.job][n].kind # "closed"

DriversInv == StoreInv /\ NodeInv /\ CallInv
=============================================================================
