--------------------------- MODULE JobStoreProofs ---------------------------
(***************************************************************************)
(* Theorems about JobStore, for every set of members, every finite set of  *)
(* jobs, every cap and every bound.                                        *)
(***************************************************************************)
EXTENDS JobStore, TLAPS, SequenceTheorems, FiniteSetTheorems

\* Most leaves are first-order; the others, arithmetic and records, name SMT.
USE Zenon

\* What appending events to the log of one job leaves: a longer log that agrees
\* with the old one where that reached, and the untouched logs of the others.
LEMMA EventsStep ==
    ASSUME TypeOK, NEW j \in Jobs, NEW s \in Seq(Event), AppendEvents(j, s)
    PROVE  /\ events' \in [Jobs -> Seq(Event)]
           /\ \A k \in Jobs : k # j => events'[k] = events[k]
           /\ Len(events'[j]) = Len(events[j]) + Len(s)
           /\ \A n \in 1..Len(events[j]) : events'[j][n] = events[j][n]
           /\ \A n \in 1..Len(s) : events'[j][Len(events[j]) + n] = s[n]
  <1>1. events[j] \in Seq(Event)
    BY DEF TypeOK
  <1>2. /\ events[j] \o s \in Seq(Event)
        /\ Len(events[j] \o s) = Len(events[j]) + Len(s)
        /\ \A i \in 1 .. Len(events[j]) + Len(s) : (events[j] \o s)[i] =
               IF i <= Len(events[j]) THEN events[j][i] ELSE s[i - Len(events[j])]
    BY <1>1, ConcatProperties
  <1>3. events' = [events EXCEPT ![j] = events[j] \o s]
    BY DEF AppendEvents
  <1>4. events'[j] = events[j] \o s
    BY <1>3 DEF TypeOK
  <1>5. events' \in [Jobs -> Seq(Event)] /\ \A k \in Jobs : k # j => events'[k] = events[k]
    BY <1>2, <1>3 DEF TypeOK
  <1>6. Len(events[j]) \in Nat /\ Len(s) \in Nat
    BY <1>1, LenProperties
  <1> QED
    BY <1>2, <1>4, <1>5, <1>6, SMT

\* What sending an input leaves: the inputs so far, and the new one last.
LEMMA InputsStep ==
    ASSUME TypeOK, NEW j \in Jobs, NEW k \in InputKinds, AppendInput(j, k)
    PROVE  /\ inputs' \in Seq(Input)
           /\ Len(inputs) \in Nat
           /\ Len(inputs') = Len(inputs) + 1
           /\ \A i \in 1..Len(inputs) : inputs'[i] = inputs[i]
           /\ inputs'[Len(inputs) + 1] = [job |-> j, kind |-> k, acked |-> FALSE]
  <1> DEFINE in == [job |-> j, kind |-> k, acked |-> FALSE]
  <1>1. in \in Input
    BY DEF Input
  <1>2. inputs \in Seq(Input)
    BY DEF TypeOK
  <1>3. inputs' = Append(inputs, in)
    BY DEF AppendInput
  <1> QED
    BY <1>1, <1>2, <1>3, AppendProperties, LenProperties, SMT

\* The event lists the operations append are lists of events.
LEMMA EventLists ==
    /\ \A s \in JobState : /\ <<ev("state", s)>> \in Seq(Event)
                           /\ <<ev("opened", s)>> \in Seq(Event)
                           /\ <<ev("input", NoState), ev("state", s)>> \in Seq(Event)
                           /\ <<ev("input", NoState), ev("closed", s)>> \in Seq(Event)
    /\ <<ev("deliverable", NoState)>> \in Seq(Event)
    /\ <<ev("input", NoState)>> \in Seq(Event)
  BY SMT DEF ev, Event, EventKinds, JobState, NoState
-----------------------------------------------------------------------------
(* Type correctness.                                                       *)

LEMMA OpenedType ==
    ASSUME NEW T \in SUBSET Jobs
    PROVE  1 + Cardinality(T) \in Nat
  BY JobsAssumption, FS_Subset, FS_CardinalityType, SMT

LEMMA InitTypeOK == StoreInit => TypeOK
  <1> SUFFICES ASSUME StoreInit PROVE TypeOK
    OBVIOUS
  <1>1. BankStoreTypeOK
    BY DEF StoreInit, BankStoreInit, BankStoreTypeOK, NewRow, MemberRow, Absent
  <1>2. jobs \in [Jobs -> JobRow]
    BY DEF StoreInit, NoJob, JobRow
  <1>3. inputs \in Seq(Input) /\ events \in [Jobs -> Seq(Event)]
    BY SMT DEF StoreInit
  <1> QED
    BY <1>1, <1>2, <1>3 DEF TypeOK

\* The operations of the bank store keep its table well typed.
LEMMA BankStepTypeOK == TypeOK /\ BankStep => TypeOK'
  <1> SUFFICES ASSUME TypeOK, BankStep PROVE BankStoreTypeOK'
    BY DEF TypeOK, BankStep
  <1>1. members \in [Members -> MemberRow]
    BY DEF TypeOK, BankStoreTypeOK
  <1>2. PICK m \in Members :
          \/ AddMember(m, "launching")
          \/ \E n \in 0..Cardinality(Assigned(m)) :
                UpdateMemberStatus(m, IF n < JobCap THEN "idle" ELSE "busy", n)
          \/ RemoveMember(m)
    BY DEF BankStep
  <1>3. CASE AddMember(m, "launching")
    BY <1>1, <1>3 DEF AddMember, NewRow, MemberRow, MemberState, BankStoreTypeOK
  <1>4. ASSUME NEW n \in 0..Cardinality(Assigned(m)),
               UpdateMemberStatus(m, IF n < JobCap THEN "idle" ELSE "busy", n)
        PROVE  BankStoreTypeOK'
    <2> DEFINE s == IF n < JobCap THEN "idle" ELSE "busy"
    <2>1. n \in Nat /\ s \in MemberState /\ "draining" \in MemberState
      BY SMT DEF MemberState
    <2>2. Reported(members[m], s, n) \in MemberRow
      BY <1>1, <2>1, Zenon DEF Reported, MemberRow
    <2>3. members' = [members EXCEPT ![m] = Reported(members[m], s, n)]
      BY <1>4 DEF UpdateMemberStatus
    <2> QED
      BY <1>1, <2>2, <2>3 DEF BankStoreTypeOK
  <1>5. CASE RemoveMember(m)
    BY <1>1, <1>5 DEF RemoveMember, NewRow, MemberRow, Absent, BankStoreTypeOK
  <1> QED
    BY <1>2, <1>3, <1>4, <1>5
LEMMA NextTypeOK == TypeOK /\ [StoreNext]_storeVars => TypeOK'
  <1> SUFFICES ASSUME TypeOK, [StoreNext]_storeVars PROVE TypeOK'
    OBVIOUS
  <1> USE DEF NoVerdict
  <1>0. jobs \in [Jobs -> JobRow]
    BY DEF TypeOK
  <1>1. ASSUME NEW j \in Jobs, NEW m \in Members \cup {NoMember}, Open(j, m)
        PROVE  TypeOK'
    <2>1. events' \in [Jobs -> Seq(Event)]
      BY <1>1, EventsStep, EventLists, Zenon DEF Open, JobState
    <2>2. 1 + Cardinality({k \in Jobs : Exists(k)}) \in Nat
      BY OpenedType
    <2>3. jobs' \in [Jobs -> JobRow]
      BY <1>0, <1>1, <2>2, Zenon DEF Open, JobRow, JobState
    <2> QED
      BY <1>1, <2>1, <2>3, Zenon DEF TypeOK, Open, BankStoreTypeOK
  <1>2. ASSUME NEW j \in Jobs, NEW k \in ClientKinds, Send(j, k)
        PROVE  TypeOK'
    <2>1. inputs' \in Seq(Input)
      BY <1>2, InputsStep, Zenon DEF Send, ClientKinds, InputKinds
    <2>2. events' \in [Jobs -> Seq(Event)]
      BY <1>2, EventsStep, EventLists, Zenon DEF Send, JobState
    <2>3. jobs' \in [Jobs -> JobRow]
      <3>1. CASE jobs[j].st = "closed"
        <4> DEFINE row == [jobs[j] EXCEPT !.stale = FALSE]
        <4>1. jobs' = [jobs EXCEPT ![j] = row]
          BY <1>0, <1>2, <3>1, Zenon DEF Send
        <4>2. row \in JobRow
          BY <1>0, Zenon DEF JobRow
        <4> QED
          BY <1>0, <4>1, <4>2
      <3>2. CASE jobs[j].st # "closed"
        <4> DEFINE row == [jobs[j] EXCEPT !.st = "working", !.stale = FALSE]
        <4>1. jobs' = [jobs EXCEPT ![j] = row]
          BY <1>0, <1>2, <3>2, Zenon DEF Send
        <4>2. row \in JobRow
          BY <1>0, Zenon DEF JobRow, JobState
        <4> QED
          BY <1>0, <4>1, <4>2
      <3> QED
        BY <3>1, <3>2
    <2> QED
      BY <1>2, <2>1, <2>2, <2>3 DEF TypeOK, Send, BankStoreTypeOK
  <1>3. ASSUME NEW j \in Jobs, NEW v \in Verdicts, Close(j, v)
        PROVE  TypeOK'
    <2>1. inputs' \in Seq(Input)
      BY <1>3, InputsStep, Zenon DEF Close, InputKinds
    <2>2. events' \in [Jobs -> Seq(Event)]
      BY <1>3, EventsStep, EventLists, Zenon DEF Close, JobState
    <2>3. jobs' \in [Jobs -> JobRow]
      <3> DEFINE row == [jobs[j] EXCEPT !.st = "closed", !.verdict = v]
      <3>1. jobs' = [jobs EXCEPT ![j] = row]
        BY <1>0, <1>3, Zenon DEF Close
      <3>2. row \in JobRow
        BY <1>0, Zenon DEF JobRow, JobState
      <3> QED
        BY <1>0, <3>1, <3>2
    <2> QED
      BY <1>3, <2>1, <2>2, <2>3 DEF TypeOK, Close, BankStoreTypeOK
  <1>4. ASSUME NEW m \in Members, NEW locked \in SUBSET Queue, Claim(m, locked)
        PROVE  TypeOK'
    <2>1. jobs' \in [Jobs -> JobRow]
      BY <1>0, <1>4, ZenonT(60) DEF Claim, JobRow
    <2> QED
      BY <1>4, <2>1 DEF TypeOK, Claim, BankStoreTypeOK
  <1>5. ASSUME NEW i \in 1..Len(inputs), Acknowledge(i)
        PROVE  TypeOK'
    <2>1. inputs' \in Seq(Input)
      <3> DEFINE in == [inputs[i] EXCEPT !.acked = TRUE]
      <3>1. inputs \in Seq(Input) /\ inputs[i] \in Input
        BY ElementOfSeq DEF TypeOK
      <3>2. in \in Input
        BY <3>1, Zenon DEF Input
      <3>3. inputs' = [inputs EXCEPT ![i] = in]
        BY <1>5 DEF Acknowledge
      <3> QED
        BY <3>1, <3>2, <3>3, ExceptSeq
    <2> QED
      BY <1>5, <2>1 DEF TypeOK, Acknowledge, BankStoreTypeOK
  <1>6. ASSUME NEW j \in Jobs, NEW s \in MemberReports, SetState(j, s)
        PROVE  TypeOK'
    <2>1. s \in JobState
      BY DEF MemberReports, JobState
    <2>2. events' \in [Jobs -> Seq(Event)]
      BY <1>6, <2>1, EventsStep, EventLists, Zenon DEF SetState
    <2>3. jobs' \in [Jobs -> JobRow]
      BY <1>0, <1>6, <2>1, Zenon DEF SetState, JobRow
    <2> QED
      BY <1>6, <2>2, <2>3 DEF TypeOK, SetState, BankStoreTypeOK
  <1>7. ASSUME NEW j \in Jobs, AddDeliverable(j)
        PROVE  TypeOK'
    <2>1. events' \in [Jobs -> Seq(Event)]
      BY <1>7, EventsStep, EventLists, Zenon DEF AddDeliverable
    <2> QED
      BY <1>7, <2>1 DEF TypeOK, AddDeliverable, BankStoreTypeOK
  <1>8. ASSUME NEW m \in Members, ReleaseMember(m)
        PROVE  TypeOK'
    <2>1. jobs' \in [Jobs -> JobRow]
      BY <1>0, <1>8, Zenon DEF ReleaseMember, JobRow
    <2> QED
      BY <1>8, <2>1 DEF TypeOK, ReleaseMember, BankStoreTypeOK
  <1>9. ASSUME NEW j \in Jobs, InputAges(j)
        PROVE  TypeOK'
    <2>1. jobs' \in [Jobs -> JobRow]
      BY <1>0, <1>9, Zenon DEF InputAges, JobRow
    <2> QED
      BY <1>9, <2>1 DEF TypeOK, InputAges, BankStoreTypeOK
  <1>10. CASE BankStep
    BY <1>10, BankStepTypeOK
  <1>11. CASE UNCHANGED storeVars
    BY <1>11 DEF TypeOK, storeVars, BankStoreTypeOK
  <1> QED
    BY <1>1, <1>2, <1>3, <1>4, <1>5, <1>6, <1>7, <1>8, <1>9, <1>10, <1>11
       DEF StoreNext

\* The four tables keep their types under any calls: TypeOK of JobStore.
THEOREM TypeCorrect == StoreSpec => []TypeOK
  BY InitTypeOK, NextTypeOK, PTL DEF StoreSpec
-----------------------------------------------------------------------------
(* The inductive invariant StoreInv.                                       *)

\* A step that appends no event, moves no state and no verdict and adds no input
\* keeps all three invariants.
LEMMA QuietStep ==
    ASSUME StoreInv,
           events' = events,
           Len(inputs') = Len(inputs),
           \A i \in 1..Len(inputs) : /\ inputs'[i].job = inputs[i].job
                                     /\ inputs'[i].kind = inputs[i].kind,
           \A k \in Jobs : /\ jobs'[k].st = jobs[k].st
                           /\ jobs'[k].verdict = jobs[k].verdict
    PROVE  (ClosedWithOneWrapUp /\ LogAgrees /\ ClosingEventEndsTheStory)'
  <1>1. \A k \in Jobs : WrapUps(k)' = WrapUps(k)
    BY DEF WrapUps
  <1>2. ClosedWithOneWrapUp'
    BY <1>1, SMT DEF StoreInv, ClosedWithOneWrapUp
  <1>3. LogAgrees'
    BY DEF StoreInv, LogAgrees, Exists
  <1>4. ClosingEventEndsTheStory'
    BY SMT DEF StoreInv, ClosingEventEndsTheStory
  <1> QED
    BY <1>2, <1>3, <1>4

\* A step that moves the state of a job that was not closed, and says so in the
\* last event it appends, keeps the log in agreement with the row.
LEMMA LoudStep ==
    ASSUME StoreInv, TypeOK', NEW j \in Jobs, NEW s \in Seq(Event),
           AppendEvents(j, s), Len(s) > 0,
           jobs[j].st # "closed",
           s[Len(s)].state = jobs'[j].st,
           s[Len(s)].kind = "closed" => jobs'[j].st = "closed",
           \A n \in 1..(Len(s) - 1) : s[n].kind # "closed",
           \A k \in Jobs : k # j => jobs'[k].st = jobs[k].st
    PROVE  (LogAgrees /\ ClosingEventEndsTheStory)'
  <1> DEFINE l == Len(events[j])
  <1>1. /\ \A k \in Jobs : k # j => events'[k] = events[k]
        /\ Len(events'[j]) = l + Len(s)
        /\ \A n \in 1..l : events'[j][n] = events[j][n]
        /\ \A n \in 1..Len(s) : events'[j][l + n] = s[n]
    BY EventsStep DEF StoreInv
  <1>2. l \in Nat /\ Len(s) \in Nat /\ \A k \in Jobs : Len(events[k]) \in Nat
    BY LenProperties DEF StoreInv, TypeOK
  <1>3. LogAgrees'
    <2> SUFFICES ASSUME NEW k \in Jobs, Exists(k)'
                 PROVE  \E n \in 1..Len(events'[k]) :
                            /\ events'[k][n].state = jobs'[k].st
                            /\ \A i \in (n+1)..Len(events'[k]) : events'[k][i].state = NoState
      BY DEF LogAgrees
    <2>1. CASE k # j
      <3>1. events'[k] = events[k] /\ jobs'[k].st = jobs[k].st /\ Exists(k)
        BY <1>1, <2>1 DEF Exists
      <3>2. \E n \in 1..Len(events[k]) :
               /\ events[k][n].state = jobs[k].st
               /\ \A i \in (n+1)..Len(events[k]) : events[k][i].state = NoState
        BY <3>1 DEF StoreInv, LogAgrees
      <3> QED
        BY <3>1, <3>2
    <2>2. CASE k = j
      <3>1. events'[j][l + Len(s)].state = jobs'[j].st
        BY <1>1, <1>2, SMT
      <3>2. l + Len(s) \in 1..Len(events'[k])
        BY <1>1, <1>2, <2>2, SMT
      <3>3. \A i \in (l + Len(s) + 1)..Len(events'[k]) : events'[k][i].state = NoState
        BY <1>1, <1>2, <2>2, SMT
      <3> QED
        BY <2>2, <3>1, <3>2, <3>3
    <2> QED
      BY <2>1, <2>2
  <1>4. ClosingEventEndsTheStory'
    <2> SUFFICES ASSUME NEW k \in Jobs, NEW n \in 1..Len(events'[k]),
                        events'[k][n].kind = "closed"
                 PROVE  /\ jobs'[k].st = "closed"
                        /\ \A i \in (n+1)..Len(events'[k]) : events'[k][i].kind = "deliverable"
      BY DEF ClosingEventEndsTheStory
    <2>1. CASE k # j
      <3>1. events'[k] = events[k] /\ jobs'[k].st = jobs[k].st
        BY <1>1, <2>1
      <3> QED
        BY <3>1, SMT DEF StoreInv, ClosingEventEndsTheStory
    <2>2. CASE k = j
      <3>1. ~ (n \in 1..l)
        BY <1>1, <2>2 DEF StoreInv, ClosingEventEndsTheStory
      <3>2. PICK i \in 1..Len(s) : n = l + i
        <4>1. n - l \in 1..Len(s) /\ n = l + (n - l)
          BY <1>1, <1>2, <2>2, <3>1, SMT
        <4> QED
          BY <4>1, Zenon
      <3>3. i = Len(s)
        BY <1>1, <1>2, <2>2, <3>2, SMT
      <3> QED
        BY <1>1, <1>2, <2>2, <3>2, <3>3, SMT
    <2> QED
      BY <2>1, <2>2
  <1> QED
    BY <1>3, <1>4

\* A deliverable may be recorded at any time, also on a closed job.
LEMMA DeliverableStep ==
    ASSUME StoreInv, NEW j \in Jobs, AddDeliverable(j)
    PROVE  (ClosedWithOneWrapUp /\ LogAgrees /\ ClosingEventEndsTheStory)'
  <1> DEFINE d == <<ev("deliverable", NoState)>>
             l == Len(events[j])
  <1>1. d \in Seq(Event) /\ Len(d) = 1 /\ d[1].kind = "deliverable" /\ d[1].state = NoState
    BY EventLists DEF ev
  <1>2. AppendEvents(j, d) /\ jobs' = jobs /\ inputs' = inputs
    BY DEF AddDeliverable
  <1> HIDE DEF d
  <1>3. /\ \A k \in Jobs : k # j => events'[k] = events[k]
        /\ Len(events'[j]) = l + 1
        /\ \A n \in 1..l : events'[j][n] = events[j][n]
        /\ events'[j][l + 1] = d[1]
    <2>1. TypeOK /\ 1 \in 1..Len(d) /\ Len(d) = 1
      BY <1>1, SMT DEF StoreInv
    <2>2. /\ \A k \in Jobs : k # j => events'[k] = events[k]
          /\ Len(events'[j]) = l + Len(d)
          /\ \A n \in 1..l : events'[j][n] = events[j][n]
          /\ \A n \in 1..Len(d) : events'[j][l + n] = d[n]
      BY <1>1, <1>2, <2>1, EventsStep, Zenon
    <2> QED
      BY <2>1, <2>2
  <1>4. l \in Nat /\ \A k \in Jobs : Len(events[k]) \in Nat
    BY LenProperties DEF StoreInv, TypeOK
  <1>5. ClosedWithOneWrapUp'
    BY <1>2, SMT DEF StoreInv, ClosedWithOneWrapUp, WrapUps
  <1>6. LogAgrees'
    <2> SUFFICES ASSUME NEW k \in Jobs, Exists(k)
                 PROVE  \E n \in 1..Len(events'[k]) :
                            /\ events'[k][n].state = jobs[k].st
                            /\ \A i \in (n+1)..Len(events'[k]) : events'[k][i].state = NoState
      BY <1>2 DEF LogAgrees, Exists
    <2>1. PICK n \in 1..Len(events[k]) :
               /\ events[k][n].state = jobs[k].st
               /\ \A i \in (n+1)..Len(events[k]) : events[k][i].state = NoState
      BY DEF StoreInv, LogAgrees
    <2>2. CASE k # j
      <3>1. events'[k] = events[k]
        BY <1>3, <2>2
      <3> QED
        BY <2>1, <3>1
    <2>3. CASE k = j
      <3>1. n \in 1..Len(events'[k]) /\ events'[k][n].state = jobs[k].st
        BY <1>3, <1>4, <2>1, <2>3, SMT
      <3>2. ASSUME NEW i \in (n+1)..Len(events'[k])
            PROVE  events'[k][i].state = NoState
        <4>1. CASE i = l + 1
          BY <1>1, <1>3, <2>3, <4>1
        <4>2. CASE i # l + 1
          <5>1. i \in (n+1)..Len(events[k]) /\ i \in 1..l
            BY <1>3, <1>4, <2>3, <4>2, SMT
          <5> QED
            BY <1>3, <2>1, <2>3, <5>1
        <4> QED
          BY <4>1, <4>2
      <3> QED
        BY <3>1, <3>2
    <2> QED
      BY <2>2, <2>3
  <1>7. ClosingEventEndsTheStory'
    <2> SUFFICES ASSUME NEW k \in Jobs, NEW n \in 1..Len(events'[k]),
                        events'[k][n].kind = "closed"
                 PROVE  /\ jobs[k].st = "closed"
                        /\ \A i \in (n+1)..Len(events'[k]) : events'[k][i].kind = "deliverable"
      BY <1>2 DEF ClosingEventEndsTheStory
    <2>1. CASE k # j
      BY <1>3, <2>1, SMT DEF StoreInv, ClosingEventEndsTheStory
    <2>2. CASE k = j
      <3>1. n \in 1..l
        BY <1>1, <1>3, <1>4, <2>2, SMT
      <3>2. /\ jobs[j].st = "closed"
            /\ \A i \in (n+1)..l : events[j][i].kind = "deliverable"
        BY <1>3, <2>2, <3>1, SMTT(30) DEF StoreInv, ClosingEventEndsTheStory
      <3>3. ASSUME NEW i \in (n+1)..Len(events'[k])
            PROVE  events'[k][i].kind = "deliverable"
        <4>1. CASE i = l + 1
          BY <1>1, <1>3, <2>2, <4>1
        <4>2. CASE i # l + 1
          <5>1. i \in (n+1)..l /\ i \in 1..l
            BY <1>3, <1>4, <2>2, <3>1, <4>2, SMT
          <5> QED
            BY <1>3, <2>2, <3>2, <5>1
        <4> QED
          BY <4>1, <4>2
      <3> QED
        BY <2>2, <3>2, <3>3
    <2> QED
      BY <2>1, <2>2
  <1> QED
    BY <1>5, <1>6, <1>7

\* An input that is not a wrap-up leaves the wrap-ups of every job as they were;
\* a wrap-up is added to those of its own job only.
LEMMA WrapUpsStep ==
    ASSUME TypeOK, NEW j \in Jobs, NEW k \in InputKinds, AppendInput(j, k)
    PROVE  /\ \A o \in Jobs : o # j \/ k # "wrap_up" => WrapUps(o)' = WrapUps(o)
           /\ k = "wrap_up" => WrapUps(j)' = WrapUps(j) \cup {Len(inputs) + 1}
           /\ Len(inputs) + 1 \notin WrapUps(j)
  <1>1. /\ Len(inputs) \in Nat
        /\ Len(inputs') = Len(inputs) + 1
        /\ \A i \in 1..Len(inputs) : inputs'[i] = inputs[i]
        /\ inputs'[Len(inputs) + 1] = [job |-> j, kind |-> k, acked |-> FALSE]
    BY InputsStep
  <1>2. 1..Len(inputs') = 1..Len(inputs) \cup {Len(inputs) + 1}
    BY <1>1, SMT
  <1> QED
    BY <1>1, <1>2, SMT DEF WrapUps

\* Each operation keeps the four invariants.
LEMMA NextStoreInv == StoreInv /\ [StoreNext]_storeVars => StoreInv'
  <1> SUFFICES ASSUME StoreInv, [StoreNext]_storeVars
               PROVE  (ClosedWithOneWrapUp /\ LogAgrees /\ ClosingEventEndsTheStory)'
    BY NextTypeOK DEF StoreInv
  <1>1. TypeOK /\ TypeOK' /\ jobs \in [Jobs -> JobRow] /\ inputs \in Seq(Input)
    BY NextTypeOK DEF StoreInv, TypeOK
  <1>2. ASSUME NEW j \in Jobs, NEW m \in Members \cup {NoMember}, Open(j, m)
        PROVE  (ClosedWithOneWrapUp /\ LogAgrees /\ ClosingEventEndsTheStory)'
    <2> DEFINE s == <<ev("opened", "open")>>
    <2>1. /\ s \in Seq(Event) /\ Len(s) = 1
          /\ s[1].state = "open" /\ s[1].kind = "opened"
      BY EventLists DEF ev, JobState
    <2>2. /\ AppendEvents(j, s) /\ inputs' = inputs
          /\ jobs[j].st = "none" /\ jobs'[j].st = "open" /\ jobs'[j].verdict = NoVerdict
          /\ \A k \in Jobs : k # j => jobs'[k] = jobs[k]
      BY <1>1, <1>2 DEF Open, Exists
    <2> HIDE DEF s
    <2>3. (LogAgrees /\ ClosingEventEndsTheStory)'
      <3>1. /\ Len(s) > 0
            /\ s[Len(s)].state = jobs'[j].st
            /\ s[Len(s)].kind = "closed" => jobs'[j].st = "closed"
            /\ \A n \in 1..(Len(s) - 1) : s[n].kind # "closed"
            /\ \A o \in Jobs : o # j => jobs'[o].st = jobs[o].st
            /\ jobs[j].st # "closed"
        BY <2>1, <2>2, SMT
      <3> QED
        BY <1>1, <3>1, <2>1, <2>2, LoudStep, Zenon
    <2>4. \A k \in Jobs : WrapUps(k)' = WrapUps(k)
      BY <2>2 DEF WrapUps
    <2>5. jobs[j].verdict = NoVerdict /\ WrapUps(j) = {}
      BY <2>2 DEF StoreInv, ClosedWithOneWrapUp
    <2>6. ClosedWithOneWrapUp'
      BY <2>2, <2>4, <2>5, SMT DEF StoreInv, ClosedWithOneWrapUp
    <2> QED
      BY <2>3, <2>6
  <1>3. ASSUME NEW j \in Jobs, NEW k \in ClientKinds, Send(j, k)
        PROVE  (ClosedWithOneWrapUp /\ LogAgrees /\ ClosingEventEndsTheStory)'
    <2> DEFINE s == <<ev("input", NoState), ev("state", "working")>>
    <2>1. /\ s \in Seq(Event) /\ Len(s) = 2 /\ s[1].kind = "input"
          /\ s[2].state = "working" /\ s[2].kind = "state"
      BY EventLists DEF ev, JobState
    <2>2. k \in InputKinds /\ k # "wrap_up"
      BY DEF ClientKinds, InputKinds
    <2>3. /\ jobs[j].st # "closed" /\ AppendInput(j, k) /\ AppendEvents(j, s)
          /\ jobs'[j].st = "working" /\ jobs'[j].verdict = jobs[j].verdict
          /\ \A o \in Jobs : o # j => jobs'[o] = jobs[o]
      BY <1>1, <1>3, <2>2, SMT DEF Send, JobRow
    <2> HIDE DEF s
    <2>4. (LogAgrees /\ ClosingEventEndsTheStory)'
      <3>1. /\ Len(s) > 0
            /\ s[Len(s)].state = jobs'[j].st
            /\ s[Len(s)].kind = "closed" => jobs'[j].st = "closed"
            /\ \A n \in 1..(Len(s) - 1) : s[n].kind # "closed"
            /\ \A o \in Jobs : o # j => jobs'[o].st = jobs[o].st
            /\ jobs[j].st # "closed"
        BY <2>1, <2>3, SMT
      <3> QED
        BY <1>1, <3>1, <2>1, <2>3, LoudStep, Zenon
    <2>5. \A o \in Jobs : WrapUps(o)' = WrapUps(o)
      BY <1>1, <2>2, <2>3, WrapUpsStep
    <2>6. ClosedWithOneWrapUp'
      BY <2>3, <2>5, SMT DEF StoreInv, ClosedWithOneWrapUp
    <2> QED
      BY <2>4, <2>6
  <1>4. ASSUME NEW j \in Jobs, NEW v \in Verdicts, Close(j, v)
        PROVE  (ClosedWithOneWrapUp /\ LogAgrees /\ ClosingEventEndsTheStory)'
    <2> DEFINE s == <<ev("input", NoState), ev("closed", "closed")>>
               i == Len(inputs) + 1
    <2>1. /\ s \in Seq(Event) /\ Len(s) = 2 /\ s[1].kind = "input"
          /\ s[2].state = "closed" /\ s[2].kind = "closed"
      BY EventLists DEF ev, JobState
    <2>2. /\ jobs[j].st # "closed" /\ AppendInput(j, "wrap_up") /\ AppendEvents(j, s)
          /\ jobs'[j].st = "closed" /\ jobs'[j].verdict = v
          /\ \A o \in Jobs : o # j => jobs'[o] = jobs[o]
      BY <1>1, <1>4 DEF Close, IsOpen, JobRow
    <2> HIDE DEF s
    <2>3. (LogAgrees /\ ClosingEventEndsTheStory)'
      <3>1. /\ Len(s) > 0
            /\ s[Len(s)].state = jobs'[j].st
            /\ s[Len(s)].kind = "closed" => jobs'[j].st = "closed"
            /\ \A n \in 1..(Len(s) - 1) : s[n].kind # "closed"
            /\ \A o \in Jobs : o # j => jobs'[o].st = jobs[o].st
            /\ jobs[j].st # "closed"
        BY <2>1, <2>2, SMT
      <3> QED
        BY <1>1, <3>1, <2>1, <2>2, LoudStep, Zenon
    <2>4. /\ WrapUps(j)' = WrapUps(j) \cup {i}
          /\ \A o \in Jobs : o # j => WrapUps(o)' = WrapUps(o)
      BY <1>1, <2>2, WrapUpsStep DEF InputKinds
    <2>5. WrapUps(j) = {} /\ v # NoVerdict
      BY <2>2, Zenon DEF StoreInv, ClosedWithOneWrapUp, Verdicts, NoVerdict
    <2> HIDE DEF i
    <2>6. ClosedWithOneWrapUp'
      BY <2>2, <2>4, <2>5, SMT DEF StoreInv, ClosedWithOneWrapUp
    <2> QED
      BY <2>3, <2>6
  <1>5. ASSUME NEW m \in Members, NEW locked \in SUBSET Queue, Claim(m, locked)
        PROVE  (ClosedWithOneWrapUp /\ LogAgrees /\ ClosingEventEndsTheStory)'
    <2>1. \A k \in Jobs : jobs'[k].st = jobs[k].st /\ jobs'[k].verdict = jobs[k].verdict
      BY <1>1, <1>5 DEF Claim, JobRow
    <2> QED
      BY <1>5, <2>1, QuietStep DEF Claim
  <1>6. ASSUME NEW i \in 1..Len(inputs), Acknowledge(i)
        PROVE  (ClosedWithOneWrapUp /\ LogAgrees /\ ClosingEventEndsTheStory)'
    <2>1. /\ Len(inputs') = Len(inputs)
          /\ \A n \in 1..Len(inputs) : /\ inputs'[n].job = inputs[n].job
                                       /\ inputs'[n].kind = inputs[n].kind
      <3>1. inputs' = [inputs EXCEPT ![i] = [inputs[i] EXCEPT !.acked = TRUE]]
        BY <1>6 DEF Acknowledge
      <3>2. inputs[i] \in Input
        BY <1>1, ElementOfSeq
      <3>3. [inputs[i] EXCEPT !.acked = TRUE] \in Input
        BY <3>2, Zenon DEF Input
      <3>4. /\ Len(inputs') = Len(inputs)
            /\ \A n \in 1..Len(inputs) : inputs'[n] =
                  IF n = i THEN [inputs[i] EXCEPT !.acked = TRUE] ELSE inputs[n]
        BY <1>1, <3>1, <3>3, ExceptSeq, SMT
      <3> QED
        BY <3>4, <3>2 DEF Input
    <2> QED
      BY <1>6, <2>1, QuietStep DEF Acknowledge
  <1>7. ASSUME NEW j \in Jobs, NEW t \in MemberReports, SetState(j, t)
        PROVE  (ClosedWithOneWrapUp /\ LogAgrees /\ ClosingEventEndsTheStory)'
    <2> DEFINE s == <<ev("state", t)>>
    <2>1. /\ s \in Seq(Event) /\ Len(s) = 1 /\ s[1].state = t /\ s[1].kind = "state"
      BY EventLists DEF ev, JobState, MemberReports
    <2>2. /\ jobs[j].st # "closed" /\ t # "closed" /\ AppendEvents(j, s)
          /\ jobs'[j].st = t /\ jobs'[j].verdict = jobs[j].verdict
          /\ \A o \in Jobs : o # j => jobs'[o] = jobs[o]
          /\ inputs' = inputs
      BY <1>1, <1>7 DEF SetState, IsOpen, JobRow
    <2> HIDE DEF s
    <2>3. (LogAgrees /\ ClosingEventEndsTheStory)'
      <3>1. /\ Len(s) > 0
            /\ s[Len(s)].state = jobs'[j].st
            /\ s[Len(s)].kind = "closed" => jobs'[j].st = "closed"
            /\ \A n \in 1..(Len(s) - 1) : s[n].kind # "closed"
            /\ \A o \in Jobs : o # j => jobs'[o].st = jobs[o].st
            /\ jobs[j].st # "closed"
        BY <2>1, <2>2, SMT
      <3> QED
        BY <1>1, <3>1, <2>1, <2>2, LoudStep, Zenon
    <2>4. \A o \in Jobs : WrapUps(o)' = WrapUps(o)
      BY <2>2 DEF WrapUps
    <2>5. ClosedWithOneWrapUp'
      BY <2>2, <2>4, SMT DEF StoreInv, ClosedWithOneWrapUp
    <2> QED
      BY <2>3, <2>5
  <1>8. ASSUME NEW j \in Jobs, AddDeliverable(j)
        PROVE  (ClosedWithOneWrapUp /\ LogAgrees /\ ClosingEventEndsTheStory)'
    BY <1>8, DeliverableStep
  <1>9. ASSUME NEW m \in Members, ReleaseMember(m)
        PROVE  (ClosedWithOneWrapUp /\ LogAgrees /\ ClosingEventEndsTheStory)'
    <2>1. \A k \in Jobs : jobs'[k].st = jobs[k].st /\ jobs'[k].verdict = jobs[k].verdict
      BY <1>1, <1>9 DEF ReleaseMember, JobRow
    <2> QED
      BY <1>9, <2>1, QuietStep DEF ReleaseMember
  <1>10. ASSUME NEW j \in Jobs, InputAges(j)
         PROVE  (ClosedWithOneWrapUp /\ LogAgrees /\ ClosingEventEndsTheStory)'
    <2>1. \A k \in Jobs : jobs'[k].st = jobs[k].st /\ jobs'[k].verdict = jobs[k].verdict
      BY <1>1, <1>10 DEF InputAges, JobRow
    <2> QED
      BY <1>10, <2>1, QuietStep DEF InputAges
  <1>11. CASE BankStep
    BY <1>11, QuietStep DEF BankStep
  <1>12. CASE UNCHANGED storeVars
    BY <1>12, QuietStep DEF storeVars
  <1> QED
    BY <1>2, <1>3, <1>4, <1>5, <1>6, <1>7, <1>8, <1>9, <1>10, <1>11, <1>12 DEF StoreNext

LEMMA InitStoreInv == StoreInit => StoreInv
  <1> SUFFICES ASSUME StoreInit PROVE StoreInv
    OBVIOUS
  <1>1. TypeOK
    BY InitTypeOK
  <1>2. \A j \in Jobs : /\ jobs[j].st = "none" /\ jobs[j].verdict = NoVerdict
                        /\ WrapUps(j) = {} /\ Len(events[j]) = 0
    BY SMT DEF StoreInit, NoJob, WrapUps
  <1> QED
    BY <1>1, <1>2, SMT DEF StoreInv, ClosedWithOneWrapUp, LogAgrees, ClosingEventEndsTheStory,
                      Exists

\* Whatever the callers do and in whatever order, every reachable state of the
\* tables satisfies the inductive invariant.
THEOREM StoreCorrect == StoreSpec => []StoreInv
  BY InitStoreInv, NextStoreInv, PTL DEF StoreSpec

\* A closed job has its verdict and one wrap-up input, an open one has neither.
THEOREM CloseIsComplete == StoreSpec => []ClosedWithOneWrapUp
  <1>1. StoreInv => ClosedWithOneWrapUp
    BY DEF StoreInv
  <1> QED
    BY <1>1, StoreCorrect, PTL

\* The event log and the job row tell the same state.
THEOREM LogIsFaithful == StoreSpec => []LogAgrees
  <1>1. StoreInv => LogAgrees
    BY DEF StoreInv
  <1> QED
    BY <1>1, StoreCorrect, PTL

\* A follower that stops at the closing event misses deliverables only.
THEOREM StreamMayEnd == StoreSpec => []ClosingEventEndsTheStory
  <1>1. StoreInv => ClosingEventEndsTheStory
    BY DEF StoreInv
  <1> QED
    BY <1>1, StoreCorrect, PTL
-----------------------------------------------------------------------------
(* What no step may do.                                                    *)

\* Claim takes a member of the set it chooses from: opened_at orders the queue.
LEMMA OldestIsOne ==
    ASSUME TypeOK, NEW S \in SUBSET Jobs, S # {}
    PROVE  Oldest(S) \in S
  <1> DEFINE T == {jobs[j].opened : j \in S}
             R == OpToRel(<, Nat)
  <1>1. \A j \in Jobs : jobs[j].opened \in Nat
    BY DEF TypeOK, JobRow
  <1>2. T \subseteq Nat /\ T # {}
    BY <1>1
  <1>3. IsWellFoundedOn(R, Nat)
    BY NatLessThanWellFounded, Zenon
  <1> HIDE DEF R
  <1>4. PICK x \in T : \A y \in T : ~ (<<y, x>> \in R)
    BY <1>2, <1>3, WFMin, Zenon
  <1>5. ASSUME NEW y \in T
        PROVE  x <= y
    <2>1. x \in Nat /\ y \in Nat /\ <<y, x>> \in Nat \X Nat
      BY <1>2
    <2>2. y < x => <<y, x>> \in R
      BY <2>1 DEF R, OpToRel
    <2>3. ~ (y < x)
      BY <1>4, <2>2
    <2> QED
      BY <2>1, <2>3, SMT
  <1>6. PICK j \in S : jobs[j].opened = x
    OBVIOUS
  <1>7. \A k \in S : jobs[j].opened <= jobs[k].opened
    BY <1>5, <1>6
  <1> QED
    BY <1>7 DEF Oldest

\* No operation touches the state, the verdict or the member of a closed job.
LEMMA ClosedRowStays ==
    ASSUME TypeOK, [StoreNext]_storeVars, NEW j \in Jobs, jobs[j].st = "closed"
    PROVE  /\ jobs'[j].st = "closed"
           /\ jobs'[j].verdict = jobs[j].verdict
           /\ jobs'[j].member = jobs[j].member
  <1>1. jobs \in [Jobs -> JobRow]
    BY DEF TypeOK
  <1>2. ASSUME NEW k \in Jobs, NEW m \in Members \cup {NoMember}, Open(k, m)
        PROVE  jobs'[j] = jobs[j]
    BY <1>1, <1>2 DEF Open, Exists
  <1>3. ASSUME NEW k \in Jobs, NEW i \in ClientKinds, Send(k, i)
        PROVE  jobs'[j] = jobs[j]
    BY <1>1, <1>3 DEF Send, ClientKinds
  <1>4. ASSUME NEW k \in Jobs, NEW v \in Verdicts, Close(k, v)
        PROVE  jobs'[j] = jobs[j]
    BY <1>1, <1>4 DEF Close, IsOpen
  <1>5. ASSUME NEW m \in Members, NEW locked \in SUBSET Queue, Claim(m, locked)
        PROVE  jobs'[j] = jobs[j]
    <2>1. Oldest(Queue \ locked) \in Queue
      <3>1. Queue \ locked \in SUBSET Jobs /\ Queue \ locked # {}
        BY <1>5 DEF Claim, Queue
      <3>2. Oldest(Queue \ locked) \in Queue \ locked
        BY <3>1, OldestIsOne
      <3> QED
        BY <3>2
    <2>2. Oldest(Queue \ locked) # j
      BY <2>1 DEF Queue, IsOpen
    <2> QED
      BY <1>1, <1>5, <2>2 DEF Claim
  <1>6. ASSUME NEW k \in Jobs, NEW s \in MemberReports, SetState(k, s)
        PROVE  jobs'[j] = jobs[j]
    BY <1>1, <1>6 DEF SetState, IsOpen
  <1>7. ASSUME NEW m \in Members, ReleaseMember(m)
        PROVE  jobs'[j] = jobs[j]
    BY <1>1, <1>7 DEF ReleaseMember, Held, IsOpen
  <1>8. ASSUME NEW k \in Jobs, InputAges(k)
        PROVE  jobs'[j] = jobs[j]
    BY <1>1, <1>8 DEF InputAges, IsOpen
  <1> QED
    BY <1>2, <1>3, <1>4, <1>5, <1>6, <1>7, <1>8
    DEF StoreNext, Acknowledge, AddDeliverable, BankStep, storeVars

\* Once Close committed, the state, the verdict and the member of a job stay.
THEOREM CloseIsFinal == StoreSpec => ClosedIsFinal
  <1>1. TypeOK /\ [StoreNext]_storeVars =>
          [\A j \in Jobs : jobs[j].st = "closed" =>
              /\ jobs'[j].st = "closed"
              /\ jobs'[j].verdict = jobs[j].verdict
              /\ jobs'[j].member = jobs[j].member]_storeVars
    BY ClosedRowStays
  <1> QED
    BY <1>1, TypeCorrect, PTL DEF StoreSpec, ClosedIsFinal

\* No operation takes an input away, moves it, or makes it pending again.
THEOREM AcknowledgeIsFinal == StoreSpec => AcknowledgedForGood
  <1> DEFINE Kept == /\ Len(inputs) <= Len(inputs')
                     /\ \A i \in 1..Len(inputs) :
                           /\ inputs'[i].job = inputs[i].job
                           /\ inputs[i].acked => inputs'[i].acked
  <1>1. ASSUME TypeOK, [StoreNext]_storeVars
        PROVE  Kept
    <2>1. inputs \in Seq(Input) /\ Len(inputs) \in Nat
      BY <1>1, LenProperties DEF TypeOK
    <2>2. ASSUME NEW j \in Jobs, NEW k \in InputKinds, AppendInput(j, k)
          PROVE  Kept
      <3>1. /\ Len(inputs') = Len(inputs) + 1
            /\ \A i \in 1..Len(inputs) : inputs'[i] = inputs[i]
        BY <1>1, <2>2, InputsStep, Zenon
      <3> QED
        BY <2>1, <3>1, SMT
    <2>3. ASSUME NEW i \in 1..Len(inputs), Acknowledge(i)
          PROVE  Kept
      <3>1. inputs' = [inputs EXCEPT ![i] = [inputs[i] EXCEPT !.acked = TRUE]]
        BY <2>3 DEF Acknowledge
      <3>2. inputs[i] \in Input
        BY <2>1, ElementOfSeq
      <3>3. [inputs[i] EXCEPT !.acked = TRUE] \in Input
        BY <3>2, Zenon DEF Input
      <3>4. /\ Len(inputs') = Len(inputs)
            /\ \A n \in 1..Len(inputs) : inputs'[n] =
                  IF n = i THEN [inputs[i] EXCEPT !.acked = TRUE] ELSE inputs[n]
        BY <2>1, <3>1, <3>3, ExceptSeq, SMT
      <3>5. [inputs[i] EXCEPT !.acked = TRUE].job = inputs[i].job
        BY <3>2 DEF Input
      <3>6. [inputs[i] EXCEPT !.acked = TRUE].acked
        BY <3>2 DEF Input
      <3>7. ASSUME NEW n \in 1..Len(inputs)
            PROVE  inputs'[n].job = inputs[n].job /\ (inputs[n].acked => inputs'[n].acked)
        <4>1. CASE n = i
          <5>1. inputs'[n] = [inputs[i] EXCEPT !.acked = TRUE]
            BY <3>4, <4>1, Zenon
          <5> QED
            BY <3>5, <3>6, <4>1, <5>1, Zenon
        <4>2. CASE n # i
          <5>1. inputs'[n] = inputs[n]
            BY <3>4, <4>2
          <5> QED
            BY <5>1, Zenon
        <4> QED
          BY <4>1, <4>2
      <3> QED
        BY <2>1, <3>4, <3>7, SMT
    <2>4. inputs' = inputs => Kept
      BY <2>1, SMT
    <2>5. ASSUME NEW j \in Jobs, NEW k \in ClientKinds, Send(j, k)
          PROVE  Kept
      BY <2>2, <2>5 DEF Send, ClientKinds, InputKinds
    <2>6. ASSUME NEW j \in Jobs, NEW v \in Verdicts, Close(j, v)
          PROVE  Kept
      BY <2>2, <2>6 DEF Close, InputKinds
    <2> HIDE DEF Kept
    <2> QED
      BY <1>1, <2>3, <2>4, <2>5, <2>6, Zenon
      DEF StoreNext, Open, Claim, SetState, AddDeliverable, ReleaseMember, InputAges,
          BankStep, storeVars
  <1>2. TypeOK /\ [StoreNext]_storeVars => [Kept]_storeVars
    BY <1>1
  <1> QED
    BY <1>2, TypeCorrect, PTL DEF StoreSpec, AcknowledgedForGood
-----------------------------------------------------------------------------
(* The tables implement JobLifecycle.                                      *)

\* Steps that leave the mapped fields of every job are stutters of the lifecycle.
LEMMA SameLifecycle ==
    ASSUME \A k \in Jobs : /\ phaseMap'[k] = phaseMap[k]
                           /\ jobs'[k].member = jobs[k].member
                           /\ jobs'[k].verdict = jobs[k].verdict
    PROVE  UNCHANGED Lifecycle!lifeVars
  <1>1. phaseMap' = phaseMap
    BY DEF phaseMap
  <1>2. holderMap' = holderMap
    BY DEF holderMap
  <1>3. verdictMap' = verdictMap
    BY DEF verdictMap
  <1> QED
    BY <1>1, <1>2, <1>3 DEF Lifecycle!lifeVars

\* Every operation is one step of the lifecycle, or invisible to it.
LEMMA StepImplements ==
    ASSUME StoreInv, [StoreNext]_storeVars
    PROVE  [Lifecycle!Next]_(Lifecycle!lifeVars)
  <1>1. TypeOK /\ TypeOK' /\ jobs \in [Jobs -> JobRow] /\ jobs' \in [Jobs -> JobRow]
    BY NextTypeOK DEF StoreInv, TypeOK
  <1>2. ASSUME NEW j \in Jobs, NEW m \in Members \cup {NoMember}, Open(j, m)
        PROVE  Lifecycle!Begin(j, m)
    <2>1. /\ jobs[j].st = "none" /\ jobs[j].verdict = NoVerdict
          /\ jobs'[j].st = "open" /\ jobs'[j].member = m /\ jobs'[j].verdict = NoVerdict
          /\ \A k \in Jobs : k # j => jobs'[k] = jobs[k]
      BY <1>1, <1>2 DEF Open, Exists, StoreInv, ClosedWithOneWrapUp
    <2>2. phaseMap[j] = "unopened" /\ phaseMap' = [phaseMap EXCEPT ![j] = "live"]
      BY <2>1, Zenon DEF phaseMap
    <2>3. holderMap' = [holderMap EXCEPT ![j] = m]
      BY <2>1, Zenon DEF holderMap
    <2>4. verdictMap' = verdictMap
      BY <2>1 DEF verdictMap
    <2> QED
      BY <2>2, <2>3, <2>4 DEF Lifecycle!Begin
  <1>3. ASSUME NEW j \in Jobs, NEW v \in Verdicts, Close(j, v)
        PROVE  Lifecycle!Settle(j, v)
    <2>1. /\ jobs[j].st \notin {"none", "closed"}
          /\ jobs'[j].st = "closed" /\ jobs'[j].verdict = v
          /\ jobs'[j].member = jobs[j].member
          /\ \A k \in Jobs : k # j => jobs'[k] = jobs[k]
      BY <1>1, <1>3 DEF Close, IsOpen, JobRow, JobState
    <2>2. phaseMap[j] = "live" /\ phaseMap' = [phaseMap EXCEPT ![j] = "settled"]
      BY <2>1, Zenon DEF phaseMap
    <2>3. holderMap' = holderMap
      BY <2>1 DEF holderMap
    <2>4. verdictMap' = [verdictMap EXCEPT ![j] = v]
      BY <2>1, Zenon DEF verdictMap
    <2> QED
      BY <2>2, <2>3, <2>4 DEF Lifecycle!Settle
  <1>4. ASSUME NEW m \in Members, NEW locked \in SUBSET Queue, Claim(m, locked)
        PROVE  \E j \in Jobs : Lifecycle!Take(j, m)
    <2> DEFINE j == Oldest(Queue \ locked)
    <2>1. j \in Queue
      <3>1. Queue \ locked \in SUBSET Jobs /\ Queue \ locked # {}
        BY <1>4 DEF Claim, Queue
      <3>2. j \in Queue \ locked
        BY <1>1, <3>1, OldestIsOne
      <3> QED
        BY <3>2
    <2>2. jobs' = [jobs EXCEPT ![j].member = m]
      BY <1>4 DEF Claim
    <2> HIDE DEF j
    <2>3. /\ j \in Jobs /\ jobs[j].st \notin {"none", "closed"} /\ jobs[j].member = NoMember
          /\ jobs'[j].st = jobs[j].st /\ jobs'[j].verdict = jobs[j].verdict
          /\ jobs'[j].member = m
          /\ \A k \in Jobs : k # j => jobs'[k] = jobs[k]
      BY <1>1, <2>1, <2>2 DEF Queue, IsOpen, JobRow, JobState
    <2>4. phaseMap[j] = "live" /\ phaseMap' = phaseMap
      BY <2>3 DEF phaseMap
    <2>5. holderMap[j] = NoMember /\ holderMap' = [holderMap EXCEPT ![j] = m]
      BY <2>3, Zenon DEF holderMap
    <2>6. verdictMap' = verdictMap
      BY <2>3 DEF verdictMap
    <2>7. Lifecycle!Take(j, m)
      BY <2>4, <2>5, <2>6 DEF Lifecycle!Take
    <2> QED
      BY <2>3, <2>7
  <1>5. ASSUME NEW m \in Members, ReleaseMember(m)
        PROVE  Lifecycle!GiveBack(m)
    <2>1. \A k \in Jobs : /\ jobs'[k].st = jobs[k].st /\ jobs'[k].verdict = jobs[k].verdict
                          /\ jobs'[k].member = IF k \in Held(m) THEN NoMember
                                               ELSE jobs[k].member
      BY <1>1, <1>5 DEF ReleaseMember, JobRow
    <2>2. phaseMap' = phaseMap
      BY <2>1 DEF phaseMap
    <2>3. verdictMap' = verdictMap
      BY <2>1 DEF verdictMap
    <2>4. \A k \in Jobs : k \in Held(m) <=> phaseMap[k] = "live" /\ holderMap[k] = m
      BY <1>1 DEF Held, IsOpen, phaseMap, holderMap, JobRow, JobState
    <2>5. holderMap' = [k \in Jobs |-> IF phaseMap[k] = "live" /\ holderMap[k] = m
                                       THEN NoMember ELSE holderMap[k]]
      BY <2>1, <2>4 DEF holderMap
    <2> QED
      BY <2>2, <2>3, <2>5 DEF Lifecycle!GiveBack
  <1>6. ASSUME NEW j \in Jobs, NEW k \in ClientKinds, Send(j, k)
        PROVE  UNCHANGED Lifecycle!lifeVars
    <2>1. /\ jobs[j].st \notin {"none", "closed"} /\ jobs'[j].st = "working"
          /\ \A o \in Jobs : jobs'[o].member = jobs[o].member
          /\ \A o \in Jobs : jobs'[o].verdict = jobs[o].verdict
          /\ \A o \in Jobs : o # j => jobs'[o] = jobs[o]
      BY <1>1, <1>6, SMT DEF Send, Exists, ClientKinds, JobRow
    <2> QED
      BY <2>1, SameLifecycle DEF phaseMap
  <1>7. ASSUME NEW j \in Jobs, NEW s \in MemberReports, SetState(j, s)
        PROVE  UNCHANGED Lifecycle!lifeVars
    <2>1. /\ jobs[j].st \notin {"none", "closed"} /\ jobs'[j].st \notin {"none", "closed"}
          /\ \A o \in Jobs : jobs'[o].member = jobs[o].member
          /\ \A o \in Jobs : jobs'[o].verdict = jobs[o].verdict
          /\ \A o \in Jobs : o # j => jobs'[o] = jobs[o]
      BY <1>1, <1>7, SMT DEF SetState, IsOpen, MemberReports, JobRow, JobState
    <2> QED
      BY <2>1, SameLifecycle DEF phaseMap
  <1>8. ASSUME NEW j \in Jobs, InputAges(j)
        PROVE  UNCHANGED Lifecycle!lifeVars
    <2>1. \A o \in Jobs : /\ jobs'[o].st = jobs[o].st
                          /\ jobs'[o].member = jobs[o].member
                          /\ jobs'[o].verdict = jobs[o].verdict
      BY <1>1, <1>8, SMT DEF InputAges, JobRow
    <2> QED
      BY <2>1, SameLifecycle DEF phaseMap
  <1>9. jobs' = jobs => UNCHANGED Lifecycle!lifeVars
    BY SameLifecycle DEF phaseMap
  <1> QED
    BY <1>2, <1>3, <1>4, <1>5, <1>6, <1>7, <1>8, <1>9
    DEF StoreNext, Acknowledge, AddDeliverable, BankStep, storeVars, Lifecycle!Next

\* For every set of members and jobs, the tables move only as JobLifecycle lets
\* a job move: opened once, one holder at a time, settled once and for good.
THEOREM StoreImplementsLifecycle == StoreSpec => ImplementsLifecycle
  <1>1. StoreInit => Lifecycle!Init
    BY SMT DEF StoreInit, NoJob, Lifecycle!Init, phaseMap, holderMap, verdictMap
  <1>2. StoreInv /\ [StoreNext]_storeVars => [Lifecycle!Next]_(Lifecycle!lifeVars)
    BY StepImplements
  <1> QED
    BY <1>1, <1>2, StoreCorrect, PTL DEF StoreSpec, ImplementsLifecycle, Lifecycle!Spec
=============================================================================
