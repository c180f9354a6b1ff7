-------------------------- MODULE JobDriversProofs --------------------------
(***************************************************************************)
(* Theorems about JobDrivers, for every number of passes, every size of a  *)
(* read of the log and every bound: what the job node and a delegation do  *)
(* is what the store allows, and neither misses nor misreports the close   *)
(* of its job.                                                             *)
(***************************************************************************)
EXTENDS JobDrivers, JobStoreProofs

\* Most leaves are first-order; the others, arithmetic and records, name SMT.
USE Zenon

\* A bounded set of numbers with since has a last element, and Last is it.
LEMMA LastIsTheLast ==
    ASSUME NEW S \in SUBSET Nat, NEW b \in Nat, NEW since \in Nat,
           since <= b, \A n \in S : n <= b
    PROVE  /\ Last(S, since) \in S \cup {since}
           /\ \A k \in S \cup {since} : k <= Last(S, since)
  <1> DEFINE T == S \cup {since}
             D == {b - n : n \in T}
             R == OpToRel(<, Nat)
  <1>1. D \subseteq Nat /\ D # {}
    BY SMT
  <1>2. IsWellFoundedOn(R, Nat)
    BY NatLessThanWellFounded, Zenon
  <1> HIDE DEF R
  <1>3. PICK x \in D : \A y \in D : ~ (<<y, x>> \in R)
    BY <1>1, <1>2, WFMin, Zenon
  <1>4. ASSUME NEW y \in D
        PROVE  x <= y
    <2>1. x \in Nat /\ y \in Nat /\ <<y, x>> \in Nat \X Nat
      BY <1>1
    <2>2. y < x => <<y, x>> \in R
      BY <2>1 DEF R, OpToRel
    <2> QED
      BY <1>3, <2>1, <2>2, SMT
  <1>5. PICK n \in T : x = b - n
    OBVIOUS
  <1>6. \A k \in T : k <= n
    <2> SUFFICES ASSUME NEW k \in T PROVE k <= n
      OBVIOUS
    <2>1. b - k \in D
      OBVIOUS
    <2>2. b - n <= b - k
      BY <1>4, <1>5, <2>1
    <2>3. n \in Nat /\ k \in Nat /\ b \in Nat
      OBVIOUS
    <2> HIDE DEF D
    <2> QED
      BY <2>2, <2>3, SMT
  <1> QED
    BY <1>6 DEF Last

\* What one read of the log does to the cursor: it stays inside the log, and no
\* event it moves over, short of the last one, ends the turn.
LEMMA CursorFacts ==
    ASSUME NEW j \in Jobs, NEW since \in Nat, Len(events[j]) \in Nat,
           since <= Len(events[j])
    PROVE  /\ Cursor(j, since) \in Nat
           /\ since <= Cursor(j, since) /\ Cursor(j, since) <= Len(events[j])
           /\ \A k \in since+1..Cursor(j, since)-1 : ~EndsTurn(events[j][k])
           /\ ~TurnEnded(j, since) =>
                 \A k \in since+1..Cursor(j, since) : ~EndsTurn(events[j][k])
           /\ TurnEnded(j, since) => since < Cursor(j, since)
  <1> DEFINE W == Walked(j, since)
             c == Cursor(j, since)
             b == Len(events[j])
  <1>1. /\ W \in SUBSET Nat
        /\ \A n \in W : /\ n \in 1..b /\ since < n
                        /\ \A k \in since+1..n-1 : ~EndsTurn(events[j][k])
    BY SMT DEF Walked, Window
  <1>2. c = Last(W, since)
    BY DEF Cursor
  <1> HIDE DEF W, c
  <1>3. c \in W \cup {since} /\ \A k \in W \cup {since} : k <= c
    <2>1. b \in Nat /\ since <= b /\ \A n \in W : n <= b
      BY <1>1, SMT
    <2> HIDE DEF b
    <2> QED
      BY <1>1, <1>2, <2>1, LastIsTheLast, Zenon
  <1>4. c \in Nat /\ since <= c /\ c <= b
    BY <1>1, <1>3, SMT
  <1>5. \A k \in since+1..c-1 : ~EndsTurn(events[j][k])
    BY <1>1, <1>3, SMT
  <1>6. TurnEnded(j, since) <=> c \in W /\ EndsTurn(events[j][c])
    BY DEF TurnEnded, W, c
  <1>7. ~TurnEnded(j, since) => \A k \in since+1..c : ~EndsTurn(events[j][k])
    <2> SUFFICES ASSUME ~TurnEnded(j, since), NEW k \in since+1..c
                 PROVE  ~EndsTurn(events[j][k])
      OBVIOUS
    <2>1. CASE k = c
      BY <1>3, <1>4, <1>6, <2>1, SMT
    <2>2. CASE k # c
      BY <1>4, <1>5, <2>2, SMT
    <2> QED
      BY <2>1, <2>2
  <1>8. TurnEnded(j, since) => since < c
    BY <1>1, <1>6
  <1> QED
    BY <1>4, <1>5, <1>7, <1>8 DEF c

-----------------------------------------------------------------------------
(* The drivers use the store through its operations only.                  *)

\* Every step of a driver, of the member or of a client is a step of the store
\* or leaves it alone.
LEMMA StepOfTheStore ==
    ASSUME NodeInv, CallInv, [DriversNext]_driverVars
    PROVE  [StoreNext]_storeVars
  <1>1. ASSUME NEW j \in Jobs, Open(j, NoMember)
        PROVE  StoreNext
    BY <1>1 DEF StoreNext
  <1>2. ASSUME NEW j \in Jobs, Send(j, "turn")
        PROVE  StoreNext
    BY <1>2 DEF StoreNext, ClientKinds
  <1>3. ASSUME NEW j \in Jobs, NEW v \in Verdicts, Close(j, v)
        PROVE  StoreNext
    BY <1>3 DEF StoreNext
  <1>4. ASSUME NodeStep
        PROVE  [StoreNext]_storeVars
    <2>1. CASE NodeWait \/ NodeElsewhere \/ NodeJudge
      BY <2>1 DEF NodeWait, NodeElsewhere, NodeJudge
    <2>2. CASE NodeClose
      <3>1. node.job \in Jobs /\ node.verdict \in Verdicts
        BY <2>2 DEF NodeClose, NodeAt, NodeInv, Node
      <3> QED
        BY <1>3, <2>2, <3>1 DEF NodeClose
    <2>3. CASE NodeSend
      <3>1. node.job \in Jobs
        BY <2>3 DEF NodeSend, NodeAt, NodeInv
      <3> QED
        BY <1>2, <2>3, <3>1 DEF NodeSend
    <2>4. CASE NodeAbandon
      <3>1. node.job \in Jobs /\ "abandoned" \in Verdicts
        BY <2>4 DEF NodeAbandon, NodeAt, NodeInv, Verdicts
      <3> QED
        BY <1>3, <2>4, <3>1 DEF NodeAbandon
    <2> QED
      BY <1>4, <2>1, <2>2, <2>3, <2>4 DEF NodeStep
  <1>5. ASSUME DelegateStep
        PROVE  [StoreNext]_storeVars
    <2>1. CASE DelegateSend
      <3>1. call.job \in Jobs
        BY <2>1 DEF DelegateSend, CallAt, CallInv
      <3> QED
        BY <1>2, <2>1, <3>1 DEF DelegateSend
    <2>2. CASE DelegateWait
      BY <2>2 DEF DelegateWait
    <2> QED
      BY <1>5, <2>1, <2>2 DEF DelegateStep
  <1>6. ASSUME OtherStep
        PROVE  StoreNext
    <2>1. PICK j \in Jobs :
            \/ \E s \in MemberReports : SetState(j, s)
            \/ AddDeliverable(j)
            \/ Send(j, "turn")
            \/ \E v \in Verdicts : Close(j, v)
      BY <1>6 DEF OtherStep
    <2>2. CASE (\E s \in MemberReports : SetState(j, s)) \/ AddDeliverable(j)
      BY <2>2 DEF StoreNext
    <2> QED
      BY <1>2, <1>3, <2>1, <2>2
  <1>7. ASSUME NEW j \in Jobs, NodeOpen(j) \/ DelegateToBank(j) \/ DelegateToJob(j)
        PROVE  [StoreNext]_storeVars
    BY <1>1, <1>7 DEF NodeOpen, DelegateToBank, DelegateToJob
  <1> QED
    BY <1>4, <1>5, <1>6, <1>7
    DEF DriversNext, NodeGivesUp, DelegateGivesUp, driverVars, storeVars

\* A store step adds to the log of a job at its end.
LEMMA LogGrows ==
    ASSUME TypeOK, [StoreNext]_storeVars, NEW j \in Jobs
    PROVE  /\ Len(events[j]) \in Nat /\ Len(events'[j]) \in Nat
           /\ Len(events[j]) <= Len(events'[j])
           /\ \A n \in 1..Len(events[j]) : events'[j][n] = events[j][n]
  <1>0. events[j] \in Seq(Event) /\ Len(events[j]) \in Nat
    BY LenProperties DEF TypeOK
  <1>1. ASSUME NEW k \in Jobs, NEW s \in Seq(Event), AppendEvents(k, s)
        PROVE  /\ Len(events'[j]) \in Nat
               /\ Len(events[j]) <= Len(events'[j])
               /\ \A n \in 1..Len(events[j]) : events'[j][n] = events[j][n]
    <2>1. Len(s) \in Nat
      BY LenProperties
    <2>2. CASE k = j
      BY <1>0, <1>1, <2>1, <2>2, EventsStep, SMT
    <2>3. CASE k # j
      <3>1. events'[j] = events[j]
        BY <1>1, <2>3, EventsStep
      <3> QED
        BY <1>0, <3>1, SMT
    <2> QED
      BY <2>2, <2>3
  <1>2. \/ UNCHANGED events
        \/ \E k \in Jobs, s \in Seq(Event) : AppendEvents(k, s)
    <2>1. ASSUME NEW k \in Jobs, NEW m, Open(k, m)
          PROVE  \E s \in Seq(Event) : AppendEvents(k, s)
      BY <2>1, EventLists DEF Open, JobState
    <2>2. ASSUME NEW k \in Jobs, NEW i, Send(k, i)
          PROVE  \E s \in Seq(Event) : AppendEvents(k, s)
      BY <2>2, EventLists DEF Send, JobState
    <2>3. ASSUME NEW k \in Jobs, NEW v, Close(k, v)
          PROVE  \E s \in Seq(Event) : AppendEvents(k, s)
      BY <2>3, EventLists DEF Close, JobState
    <2>4. ASSUME NEW k \in Jobs, NEW s \in MemberReports, SetState(k, s)
          PROVE  \E l \in Seq(Event) : AppendEvents(k, l)
      BY <2>4, EventLists DEF SetState, JobState, MemberReports
    <2>5. ASSUME NEW k \in Jobs, AddDeliverable(k)
          PROVE  \E s \in Seq(Event) : AppendEvents(k, s)
      BY <2>5, EventLists DEF AddDeliverable
    <2> QED
      BY <2>1, <2>2, <2>3, <2>4, <2>5
      DEF StoreNext, Claim, Acknowledge, ReleaseMember, InputAges, BankStep, storeVars
  <1> QED
    BY <1>0, <1>1, <1>2, SMT

-----------------------------------------------------------------------------
(* The inductive invariant.                                                *)

\* A step that is not the node's leaves it where it is: the log it has read
\* stays, and a closed job stays closed with its verdict.
LEMMA NodeKept ==
    ASSUME StoreInv, [StoreNext]_storeVars, NodeInv, node' = node
    PROVE  NodeInv'
  <1>1. TypeOK
    BY DEF StoreInv
  <1>2. CASE node.pc = "start"
    BY <1>2 DEF NodeInv, OutcomeIsTheClose
  <1>3. CASE node.pc # "start"
    <2>1. node.job \in Jobs /\ node.since \in Nat
      BY <1>3 DEF NodeInv, Node
    <2>2. /\ Len(events[node.job]) \in Nat /\ Len(events'[node.job]) \in Nat
          /\ Len(events[node.job]) <= Len(events'[node.job])
          /\ \A n \in 1..Len(events[node.job]) : events'[node.job][n] = events[node.job][n]
      BY <1>1, <2>1, LogGrows
    <2>3. jobs[node.job].st = "closed" =>
            jobs'[node.job].st = "closed" /\ jobs'[node.job].verdict = jobs[node.job].verdict
      BY <1>1, <2>1, ClosedRowStays
    <2>4. OutcomeIsTheClose'
      BY <2>3 DEF NodeInv, OutcomeIsTheClose
    <2>5. node.pc \in {"wait", "judge", "close", "send", "abandon"} =>
            /\ node.since <= Len(events'[node.job])
            /\ \A n \in 1..node.since : events'[node.job][n].kind # "closed"
      BY <2>1, <2>2, SMTT(30) DEF NodeInv
    <2> QED
      BY <2>1, <2>3, <2>4, <2>5 DEF NodeInv
  <1> QED
    BY <1>2, <1>3

\* The same for a delegation.
LEMMA CallKept ==
    ASSUME StoreInv, [StoreNext]_storeVars, CallInv, call' = call
    PROVE  CallInv'
  <1>1. TypeOK
    BY DEF StoreInv
  <1>2. CASE call.pc \in {"send", "wait"}
    <2>1. call.job \in Jobs /\ call.since \in Nat
      BY <1>2 DEF CallInv, Call
    <2>2. /\ Len(events[call.job]) \in Nat /\ Len(events'[call.job]) \in Nat
          /\ Len(events[call.job]) <= Len(events'[call.job])
          /\ \A n \in 1..Len(events[call.job]) : events'[call.job][n] = events[call.job][n]
      BY <1>1, <2>1, LogGrows
    <2>3. /\ call.since <= Len(events'[call.job])
          /\ call.pc = "wait" => \A n \in 1..call.since : events'[call.job][n].kind # "closed"
      BY <1>2, <2>1, <2>2, SMTT(30) DEF CallInv
    <2> QED
      BY <1>2, <2>1, <2>3 DEF CallInv
  <1>3. CASE call.pc \notin {"send", "wait"}
    BY <1>3 DEF CallInv
  <1> QED
    BY <1>2, <1>3

\* A job whose log has a closing event is closed.
LEMMA ClosedInTheLog ==
    ASSUME StoreInv, NEW j \in Jobs, NEW n \in 1..Len(events[j]),
           events[j][n].kind = "closed"
    PROVE  jobs[j].st = "closed"
  BY DEF StoreInv, ClosingEventEndsTheStory

\* WaitForTurn of the node: the cursor comes to the close only with the read
\* that ends the wait.
LEMMA NodeWaitKeeps ==
    ASSUME StoreInv, NodeInv, NodeWait
    PROVE  NodeInv'
  <1> DEFINE j == node.job
             c == Cursor(node.job, node.since)
             ended == TurnEnded(node.job, node.since)
             closed == events[j][c].kind = "closed"
  <1>1. /\ node \in Node /\ node.pc = "wait" /\ j \in Jobs /\ node.since \in Nat
        /\ node.since <= Len(events[j]) /\ node.outcome = "running"
        /\ \A n \in 1..node.since : events[j][n].kind # "closed"
    BY DEF NodeInv, NodeWait, NodeAt, Node
  <1>2. Len(events[j]) \in Nat
    BY <1>1, LenProperties DEF StoreInv, TypeOK
  <1>3. /\ c \in Nat /\ node.since <= c /\ c <= Len(events[j])
        /\ \A k \in node.since+1..c-1 : ~EndsTurn(events[j][k])
        /\ ~ended => \A k \in node.since+1..c : ~EndsTurn(events[j][k])
        /\ ended => node.since < c
    BY <1>1, <1>2, CursorFacts
  <1>4. /\ events' = events /\ jobs' = jobs
        /\ node' = [node EXCEPT !.since = c,
                      !.pc = IF ~ended THEN "wait" ELSE IF closed THEN "read" ELSE "judge"]
    BY DEF NodeWait, storeVars
  <1> HIDE DEF c, ended
  <1>5. /\ node' \in Node /\ node'.job = j /\ node'.since = c /\ node'.outcome = "running"
        /\ node'.pc = IF ~ended THEN "wait" ELSE IF closed THEN "read" ELSE "judge"
    BY <1>1, <1>3, <1>4 DEF Node
  <1>6. \A k \in 1..c-1 : events[j][k].kind # "closed"
    BY <1>1, <1>3, SMT DEF EndsTurn
  <1>7. ~ended => \A k \in 1..c : events[j][k].kind # "closed"
    BY <1>1, <1>3, SMT DEF EndsTurn
  <1>8. ended /\ closed => jobs[j].st = "closed"
    BY <1>1, <1>2, <1>3, ClosedInTheLog, SMT
  <1>9. ended /\ ~closed => \A k \in 1..c : events[j][k].kind # "closed"
    BY <1>3, <1>6, SMT
  <1> HIDE DEF closed, j
  <1>10. CASE ended /\ closed
    BY <1>1, <1>4, <1>5, <1>8, <1>10, SMT DEF NodeInv, OutcomeIsTheClose
  <1>11. CASE ~(ended /\ closed)
    <2>1. node'.pc \in {"wait", "judge"}
      BY <1>5, <1>11
    <2>2. \A k \in 1..c : events[j][k].kind # "closed"
      BY <1>7, <1>9, <1>11
    <2> QED
      BY <1>1, <1>3, <1>4, <1>5, <2>1, <2>2 DEF NodeInv, OutcomeIsTheClose
  <1> QED
    BY <1>10, <1>11

\* Every other step of the node.
LEMMA NodeStepKeeps ==
    ASSUME StoreInv, NodeInv, [StoreNext]_storeVars,
           NodeElsewhere \/ NodeJudge \/ NodeClose \/ NodeSend \/ NodeAbandon \/ NodeGivesUp
    PROVE  NodeInv'
  <1> DEFINE j == node.job
  <1>1. TypeOK /\ jobs \in [Jobs -> JobRow]
    BY DEF StoreInv, TypeOK
  <1>2. node \in Node /\ node.pc \notin {"start", "done"} /\ j \in Jobs /\ node.outcome = "running"
    BY DEF NodeInv, NodeElsewhere, NodeJudge, NodeClose, NodeSend, NodeAbandon, NodeGivesUp, NodeAt
  <1>3. /\ Len(events[j]) \in Nat /\ Len(events'[j]) \in Nat
        /\ Len(events[j]) <= Len(events'[j])
        /\ \A n \in 1..Len(events[j]) : events'[j][n] = events[j][n]
    BY <1>1, <1>2, LogGrows
  <1>4. node.pc # "read" =>
          /\ node.since \in Nat /\ node.since <= Len(events'[j])
          /\ \A n \in 1..node.since : events'[j][n].kind # "closed"
    BY <1>2, <1>3, SMT DEF NodeInv, Node
  <1>5. ASSUME NEW o \in Outcomes, NEW v \in Verdicts \cup {NoVerdict}, NodeReturns(o, v),
               o \in {"scored", "elsewhere", "abandoned"} =>
                  jobs'[j].st = "closed" /\ jobs'[j].verdict = v
        PROVE  NodeInv'
    <2>1. /\ node' \in Node /\ node'.pc = "done" /\ node'.job = j
          /\ node'.outcome = o /\ node'.verdict = v
      BY <1>2, <1>5 DEF NodeReturns, Node
    <2> QED
      BY <1>2, <1>5, <2>1 DEF NodeInv, OutcomeIsTheClose
  <1>6. ASSUME NEW p \in {"close", "send", "abandon"},
               NEW v \in Verdicts \cup {NoVerdict}, p = "close" => v # NoVerdict,
               p = "send" => node.pass < MaxPasses,
               node.pc # "read",
               node' = [node EXCEPT !.pc = p, !.verdict = v]
        PROVE  NodeInv'
    <2>1. /\ node' \in Node /\ node'.pc = p /\ node'.job = j /\ node'.since = node.since
          /\ node'.outcome = "running" /\ node'.verdict = v /\ node'.pass = node.pass
      BY <1>2, <1>6 DEF Node
    <2> QED
      BY <1>2, <1>4, <1>6, <2>1 DEF NodeInv, OutcomeIsTheClose
  <1>7. ASSUME NEW v \in Verdicts, Close(j, v)
        PROVE  jobs'[j].st = "closed" /\ jobs'[j].verdict = v
    BY <1>1, <1>2, <1>7, SMT DEF Close
  <1>8. /\ \A o \in Outcomes : o \in Outcomes
        /\ {"scored", "elsewhere", "abandoned", "unabandoned", "error"} \subseteq Outcomes
        /\ {"accomplished", "failed", "abandoned"} = Verdicts
        /\ NoVerdict \notin Verdicts
    BY DEF Outcomes, Verdicts, NoVerdict
  <1>9. CASE NodeElsewhere
    <2>1. node.pc = "read" /\ jobs' = jobs /\ jobs[j].st = "closed"
      BY <1>9 DEF NodeElsewhere, NodeAt, NodeInv, storeVars
    <2>2. jobs[j].verdict \in Verdicts \cup {NoVerdict}
      BY <1>1, <1>2 DEF JobRow
    <2> QED
      BY <1>5, <1>8, <1>9, <2>1, <2>2 DEF NodeElsewhere
  <1>10. CASE NodeJudge
    <2>1. node.pc = "judge" /\ node.verdict \in Verdicts \cup {NoVerdict} /\ node.pass \in 1..MaxPasses
      BY <1>2, <1>10 DEF NodeJudge, NodeAt, Node
    <2>2. /\ [node EXCEPT !.pc = "send"] = [node EXCEPT !.pc = "send", !.verdict = node.verdict]
          /\ [node EXCEPT !.pc = "abandon"] = [node EXCEPT !.pc = "abandon", !.verdict = node.verdict]
      BY <1>2 DEF Node
    <2> QED
      BY <1>6, <1>8, <1>10, <2>1, <2>2 DEF NodeJudge
  <1>11. CASE NodeClose
    <2>1. node.pc = "close" /\ node.verdict \in Verdicts
      BY <1>2, <1>11 DEF NodeClose, NodeAt, NodeInv, Node
    <2> QED
      BY <1>5, <1>7, <1>8, <1>11, <2>1 DEF NodeClose
  <1>12. CASE NodeAbandon
    BY <1>5, <1>7, <1>8, <1>12 DEF NodeAbandon
  <1>13. CASE NodeGivesUp
    <2>1. node.pc = "wait" /\ node.verdict \in Verdicts \cup {NoVerdict}
      BY <1>2, <1>13 DEF NodeGivesUp, NodeAt, Node
    <2>2. node' = [node EXCEPT !.pc = "abandon", !.verdict = node.verdict]
      BY <1>2, <1>13 DEF NodeGivesUp, Node
    <2> QED
      BY <1>6, <2>1, <2>2
  <1>14. CASE NodeSend
    <2>1. /\ node.pc = "send" /\ node.verdict \in Verdicts \cup {NoVerdict}
          /\ node.pass \in 1..MaxPasses /\ node.pass < MaxPasses
      BY <1>2, <1>14 DEF NodeSend, NodeAt, Node, NodeInv
    <2>2. CASE node' = [node EXCEPT !.pc = "wait", !.pass = node.pass + 1]
      <3>1. /\ node' \in Node /\ node'.pc = "wait" /\ node'.job = j
            /\ node'.since = node.since /\ node'.outcome = "running"
        <4>1. node.pass + 1 \in 1..MaxPasses
          BY <2>1, DriversAssumption, SMT
        <4> QED
          BY <1>2, <2>2, <4>1 DEF Node
      <3> QED
        BY <1>2, <1>4, <2>1, <3>1, SMT DEF NodeInv, OutcomeIsTheClose
    <2>3. CASE node' = [node EXCEPT !.pc = "abandon"]
      <3>1. node' = [node EXCEPT !.pc = "abandon", !.verdict = node.verdict]
        BY <1>2, <2>3 DEF Node
      <3> QED
        BY <1>6, <2>1, <3>1
    <2> QED
      BY <1>14, <2>2, <2>3 DEF NodeSend
  <1> QED
    BY <1>9, <1>10, <1>11, <1>12, <1>13, <1>14

\* The node opens its job with the cursor before the first event.
LEMMA NodeOpenKeeps ==
    ASSUME StoreInv, NodeInv, [StoreNext]_storeVars, NEW j \in Jobs, NodeOpen(j)
    PROVE  NodeInv'
  <1>1. /\ node \in Node /\ node.since = 0 /\ node.outcome = "running"
        /\ node' = [node EXCEPT !.pc = "wait", !.job = j]
    BY DEF NodeInv, NodeOpen, NodeAt
  <1>2. /\ node' \in Node /\ node'.pc = "wait" /\ node'.job = j /\ node'.since = 0
        /\ node'.outcome = "running"
    BY <1>1 DEF Node
  <1>3. Len(events'[j]) \in Nat
    BY LogGrows DEF StoreInv
  <1> QED
    BY <1>2, <1>3, SMT DEF NodeInv, OutcomeIsTheClose

\* Every step of a delegation.  A turn that the job accepts was sent to an open
\* job, whose log has no closing event.
LEMMA CallStepKeeps ==
    ASSUME StoreInv, CallInv, [StoreNext]_storeVars,
           \/ \E j \in Jobs : DelegateToBank(j) \/ DelegateToJob(j)
           \/ DelegateSend \/ DelegateWait \/ DelegateGivesUp
    PROVE  CallInv'
  <1>1. TypeOK /\ call \in Call
    BY DEF StoreInv, CallInv
  <1>2. \A j \in Jobs :
          /\ Len(events[j]) \in Nat /\ Len(events'[j]) \in Nat
          /\ Len(events[j]) <= Len(events'[j])
          /\ \A n \in 1..Len(events[j]) : events'[j][n] = events[j][n]
    BY <1>1, LogGrows
  <1>3. ASSUME NEW j \in Jobs, DelegateToBank(j)
        PROVE  CallInv'
    <2>1. call.since = 0 /\ call' = [call EXCEPT !.pc = "wait", !.job = j]
      BY <1>3 DEF DelegateToBank, CallAt, CallInv
    <2>2. call' \in Call /\ call'.pc = "wait" /\ call'.job = j /\ call'.since = 0
      BY <1>1, <2>1 DEF Call
    <2> QED
      BY <1>2, <2>2, SMT DEF CallInv
  <1>4. ASSUME NEW j \in Jobs, DelegateToJob(j)
        PROVE  CallInv'
    <2> DEFINE l == Last(Window(j, 0), 0)
    <2>1. /\ Window(j, 0) \in SUBSET Nat
          /\ \A n \in Window(j, 0) : n <= Len(events[j])
      BY <1>2, SMT DEF Window
    <2>2. l \in Window(j, 0) \cup {0}
      <3>1. 0 \in Nat /\ Len(events[j]) \in Nat /\ 0 <= Len(events[j])
        BY <1>2, SMT
      <3> QED
        BY <2>1, <3>1, LastIsTheLast, Zenon
    <2>3. l \in Nat /\ l <= Len(events[j])
      BY <1>2, <2>1, <2>2, SMT
    <2>4. call' = [call EXCEPT !.pc = "send", !.job = j, !.since = l] /\ events' = events
      BY <1>4 DEF DelegateToJob, storeVars
    <2> HIDE DEF l
    <2>5. call' \in Call /\ call'.pc = "send" /\ call'.job = j /\ call'.since = l
      BY <1>1, <2>3, <2>4 DEF Call
    <2> QED
      BY <2>3, <2>4, <2>5 DEF CallInv
  <1>5. CASE DelegateSend
    <2>1. call.pc = "send" /\ call.job \in Jobs /\ call.since <= Len(events[call.job])
      BY <1>5 DEF DelegateSend, CallAt, CallInv
    <2>2. CASE Send(call.job, "turn") /\ call' = [call EXCEPT !.pc = "wait"]
      <3>1. /\ call' \in Call /\ call'.pc = "wait" /\ call'.job = call.job
            /\ call'.since = call.since /\ call.since \in Nat
        BY <1>1, <2>2 DEF Call
      <3>2. jobs[call.job].st # "closed"
        BY <2>2 DEF Send
      <3>3. \A n \in 1..Len(events[call.job]) : events[call.job][n].kind # "closed"
        BY <2>1, <3>2, ClosedInTheLog
      <3> QED
        BY <1>2, <2>1, <3>1, <3>3, SMTT(30) DEF CallInv
    <2>3. CASE call' = [call EXCEPT !.pc = "done"]
      <3>1. call' \in Call /\ call'.pc = "done"
        BY <1>1, <2>3 DEF Call
      <3> QED
        BY <3>1 DEF CallInv
    <2> QED
      BY <1>5, <2>2, <2>3 DEF DelegateSend
  <1>6. CASE DelegateWait
    <2> DEFINE j == call.job
               c == Cursor(call.job, call.since)
               ended == TurnEnded(call.job, call.since)
    <2>1. /\ call.pc = "wait" /\ j \in Jobs /\ call.since \in Nat
          /\ call.since <= Len(events[j])
          /\ \A n \in 1..call.since : events[j][n].kind # "closed"
      BY <1>1, <1>6 DEF DelegateWait, CallAt, CallInv, Call
    <2>2. /\ c \in Nat /\ call.since <= c /\ c <= Len(events[j])
          /\ ~ended => \A k \in call.since+1..c : ~EndsTurn(events[j][k])
      BY <1>2, <2>1, CursorFacts
    <2>3. /\ events' = events
          /\ call' = IF ended THEN [call EXCEPT !.since = c, !.pc = "done"]
                              ELSE [call EXCEPT !.since = c]
      BY <1>6 DEF DelegateWait, storeVars
    <2> HIDE DEF c, ended
    <2>4. CASE ended
      <3>1. call' \in Call /\ call'.pc = "done"
        BY <1>1, <2>2, <2>3, <2>4 DEF Call
      <3> QED
        BY <3>1 DEF CallInv
    <2>5. CASE ~ended
      <3>1. call' \in Call /\ call'.pc = "wait" /\ call'.job = j /\ call'.since = c
        BY <1>1, <2>1, <2>2, <2>3, <2>5 DEF Call
      <3>2. \A n \in 1..c : events[j][n].kind # "closed"
        BY <2>1, <2>2, <2>5, SMT DEF EndsTurn
      <3> QED
        BY <2>1, <2>2, <2>3, <3>1, <3>2 DEF CallInv
    <2> QED
      BY <2>4, <2>5
  <1>7. CASE DelegateGivesUp
    <2>1. call' \in Call /\ call'.pc = "done"
      BY <1>1, <1>7 DEF DelegateGivesUp, Call
    <2> QED
      BY <2>1 DEF CallInv
  <1> QED
    BY <1>3, <1>4, <1>5, <1>6, <1>7

LEMMA InitDriversInv == DriversInit => DriversInv
  <1> SUFFICES ASSUME DriversInit PROVE NodeInv /\ CallInv
    BY InitStoreInv DEF DriversInit, DriversInv
  <1>1. node \in Node /\ call \in Call
    BY DriversAssumption, SMT DEF DriversInit, Node, Call, Outcomes
  <1> QED
    BY <1>1 DEF DriversInit, NodeInv, CallInv, OutcomeIsTheClose

LEMMA NextDriversInv == DriversInv /\ [DriversNext]_driverVars => DriversInv'
  <1> SUFFICES ASSUME DriversInv, [DriversNext]_driverVars PROVE DriversInv'
    OBVIOUS
  <1>1. StoreInv /\ NodeInv /\ CallInv
    BY DEF DriversInv
  <1>2. [StoreNext]_storeVars
    BY <1>1, StepOfTheStore
  <1>3. StoreInv'
    BY <1>1, <1>2, NextStoreInv
  <1>4. NodeInv'
    <2>1. CASE node' = node
      BY <1>1, <1>2, <2>1, NodeKept
    <2>2. CASE NodeWait
      BY <1>1, <2>2, NodeWaitKeeps
    <2>3. CASE NodeElsewhere \/ NodeJudge \/ NodeClose \/ NodeSend \/ NodeAbandon \/ NodeGivesUp
      BY <1>1, <1>2, <2>3, NodeStepKeeps
    <2>4. CASE \E j \in Jobs : NodeOpen(j)
      BY <1>1, <1>2, <2>4, NodeOpenKeeps
    <2> QED
      BY <2>1, <2>2, <2>3, <2>4, ZenonT(60)
      DEF DriversNext, NodeStep, DelegateStep, DelegateToBank, DelegateToJob, DelegateSend,
          DelegateWait, DelegateGivesUp, OtherStep, driverVars
  <1>5. CallInv'
    <2>1. CASE call' = call
      BY <1>1, <1>2, <2>1, CallKept, SMT
    <2>2. CASE \/ \E j \in Jobs : DelegateToBank(j) \/ DelegateToJob(j)
               \/ DelegateSend \/ DelegateWait \/ DelegateGivesUp
      BY <1>1, <1>2, <2>2, CallStepKeeps
    <2> QED
      BY <2>1, <2>2
      DEF DriversNext, NodeStep, DelegateStep, NodeOpen, NodeWait, NodeElsewhere, NodeJudge,
          NodeClose, NodeSend, NodeGivesUp, NodeAbandon, OtherStep, driverVars
  <1> QED
    BY <1>3, <1>4, <1>5 DEF DriversInv

-----------------------------------------------------------------------------
(* The theorems.                                                           *)

\* DriversInv holds in every reachable state of the store and its drivers.
THEOREM DriversCorrect == DriversSpec => []DriversInv
  BY InitDriversInv, NextDriversInv, PTL DEF DriversSpec

\* The job node and the delegations keep to the operations of the store: every
\* behaviour of theirs is one of JobStore, so what is proved of the store (its
\* invariants, the finality of a close, JobLifecycle) holds under them.
THEOREM DriversUseTheStore == DriversSpec => StoreSpec
  <1>1. DriversInit => StoreInit
    BY DEF DriversInit
  <1>2. DriversInv /\ [DriversNext]_driverVars => [StoreNext]_storeVars
    BY StepOfTheStore DEF DriversInv
  <1> QED
    BY <1>1, <1>2, DriversCorrect, PTL DEF DriversSpec, StoreSpec

\* The locals of Run and of delegateToTarget have their types.
THEOREM DriversTypeCorrect == DriversSpec => []DriversTypeOK
  <1>1. DriversInv => DriversTypeOK
    BY DEF DriversInv, NodeInv, CallInv, StoreInv, DriversTypeOK
  <1> QED
    BY <1>1, DriversCorrect, PTL

\* Whoever closes the job and whatever races with the judging, the verdict that
\* Run returns is the verdict of the job (jobnode.Run, closeWith, abandon).
THEOREM OutcomeIsReported == DriversSpec => []OutcomeIsTheClose
  <1>1. DriversInv => OutcomeIsTheClose
    BY DEF DriversInv, NodeInv
  <1> QED
    BY <1>1, DriversCorrect, PTL

\* WaitForTurn never moves its cursor over the closing event and waits on,
\* whatever the size of a read.
THEOREM CloseIsNotMissed == DriversSpec => []CursorKeepsTheClose
  <1>1. DriversInv => CursorKeepsTheClose
    BY DEF DriversInv, NodeInv, CallInv, CursorKeepsTheClose
  <1> QED
    BY <1>1, DriversCorrect, PTL
=============================================================================
