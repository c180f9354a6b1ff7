-------------------------- MODULE MemberInboxProofs --------------------------
(***************************************************************************)
(* Theorems about MemberInbox, for every set of members and jobs, every    *)
(* size of a batch and every bound: on one connection the inputs of a job  *)
(* arrive in order and once.                                               *)
(***************************************************************************)
EXTENDS MemberInbox, TLAPS, SequenceTheorems, FiniteSetTheorems, WellFoundedInduction

\* Most leaves are first-order; the others, arithmetic and records, name SMT.
USE Zenon

\* A set of numbers that is not empty has a least element, and Min is it.
LEMMA MinIsTheLeast ==
    ASSUME NEW S \in SUBSET Nat, S # {}
    PROVE  Min(S) \in S /\ \A k \in S : Min(S) <= k
  <1> DEFINE R == OpToRel(<, Nat)
  <1>1. IsWellFoundedOn(R, Nat)
    BY NatLessThanWellFounded, Zenon
  <1> HIDE DEF R
  <1>2. PICK x \in S : \A y \in S : ~ (<<y, x>> \in R)
    BY <1>1, WFMin, Zenon
  <1>3. \A y \in S : x <= y
    <2> SUFFICES ASSUME NEW y \in S PROVE x <= y
      OBVIOUS
    <2>1. x \in Nat /\ y \in Nat /\ <<y, x>> \in Nat \X Nat
      OBVIOUS
    <2>2. y < x => <<y, x>> \in R
      BY <2>1 DEF R, OpToRel
    <2> QED
      BY <1>2, <2>1, <2>2, SMT
  <1> QED
    BY <1>3 DEF Min

\* The inbox read takes the inputs of a job from the front: with an input it
\* takes every earlier one of the same job that is not acknowledged.
LEMMA ReadFromTheFront ==
    ASSUME NEW m \in Members, Len(inputs) \in Nat, InboxBatch \in Nat,
           NEW i \in PendingInputs(m), NEW k \in 1..i-1,
           SameJob(k, i), ~inputs[k].acked
    PROVE  k \in PendingInputs(m)
  <1> DEFINE Below(n) == {x \in Pending(m) : x < n}
  <1>1. i \in Pending(m) /\ i \in 1..Len(inputs) /\ Cardinality(Below(i)) < InboxBatch
    BY DEF PendingInputs, Pending
  <1>2. k \in Pending(m)
    BY <1>1, SMT DEF Pending, SameJob
  <1>3. IsFiniteSet(Below(i))
    <2>1. Below(i) \in SUBSET (1..Len(inputs)) /\ IsFiniteSet(1..Len(inputs))
      BY FS_Interval, SMT DEF Pending
    <2> QED
      BY <2>1, FS_Subset
  <1>4. Below(k) \in SUBSET Below(i)
    BY <1>1, SMT DEF Pending
  <1>5. /\ Cardinality(Below(k)) <= Cardinality(Below(i))
        /\ Cardinality(Below(k)) \in Nat /\ Cardinality(Below(i)) \in Nat
    BY <1>3, <1>4, FS_Subset, FS_CardinalityType
  <1> QED
    BY <1>1, <1>2, <1>5, SMT DEF PendingInputs

LEMMA PendingExist ==
    ASSUME NEW m \in Members
    PROVE  PendingInputs(m) \subseteq 1..Len(inputs)
  BY DEF PendingInputs, Pending

-----------------------------------------------------------------------------
(* One stream, while the others and the store move on.                     *)

\* What any step does to the rows: none goes, none changes its job, and an
\* acknowledgement is never taken back.
RowsKept ==
    /\ inputs' \in Seq(Input) /\ Len(inputs) <= Len(inputs')
    /\ \A i \in 1..Len(inputs) :
          /\ inputs'[i].job = inputs[i].job
          /\ inputs[i].acked => inputs'[i].acked

\* A stream that does not move stays in order whatever happens to the rows.
LEMMA StillStream ==
    ASSUME InboxTypeOK, NEW m \in Members, LineInv(m), RowsKept,
           stream'[m] = stream[m]
    PROVE  LineInv(m)'
  <1> DEFINE s == stream[m]
  <1>1. s \in Stream
    BY DEF InboxTypeOK
  <1>2. Sent(m)' = Sent(m)
    BY Zenon DEF Sent
  <1>3. Len(inputs) \in Nat /\ Len(inputs') \in Nat
    BY SMT DEF InboxTypeOK, RowsKept
  <1>4. s.line \in Seq(Ids) /\ Len(s.line) \in Nat
    BY <1>1, SMT DEF Stream
  <1>5. \A a \in 1..Len(s.line) : s.line[a] \in Sent(m)
    BY <1>4, SMT DEF Sent, Range
  <1>6. \A i \in s.todo : i \in Sent(m)
    BY DEF Sent
  <1>7. Sent(m) \subseteq 1..Len(inputs)
    BY DEF LineInv
  <1>8. \A i, k \in 1..Len(inputs) : SameJob(i, k)' <=> SameJob(i, k)
    BY DEF SameJob, RowsKept
  <1>9. Sent(m)' \subseteq 1..Len(inputs')
    BY <1>2, <1>3, <1>7, SMT DEF RowsKept
  <1>10. \A a, b \in 1..Len(s.line) :
            (a < b /\ SameJob(s.line[a], s.line[b])') => s.line[a] < s.line[b]
    BY <1>5, <1>7, <1>8 DEF LineInv
  <1>11. \A a \in 1..Len(s.line), i \in s.todo :
            SameJob(s.line[a], i)' => s.line[a] < i
    BY <1>5, <1>6, <1>7, <1>8 DEF LineInv
  <1>12. \A i \in Sent(m) : \A k \in 1..i-1 :
            SameJob(k, i)' => k \in Sent(m) \/ inputs'[k].acked
    <2> SUFFICES ASSUME NEW i \in Sent(m), NEW k \in 1..i-1, SameJob(k, i)'
                 PROVE  k \in Sent(m) \/ inputs'[k].acked
      OBVIOUS
    <2>1. i \in 1..Len(inputs) /\ k \in 1..Len(inputs)
      BY <1>3, <1>7, SMT
    <2>2. k \in Sent(m) \/ inputs[k].acked
      BY <1>8, <2>1 DEF LineInv
    <2> QED
      BY <2>1, <2>2 DEF RowsKept
  <1> QED
    BY <1>2, <1>9, <1>10, <1>11, <1>12 DEF LineInv

\* The acknowledgements of a report that does not move still exist.
LEMMA StillReport ==
    ASSUME InboxTypeOK, NEW m \in Members, AcksInv(m), RowsKept,
           report'[m] = report[m]
    PROVE  AcksInv(m)'
  <1>1. Len(inputs) \in Nat /\ Len(inputs') \in Nat
    BY SMT DEF InboxTypeOK, RowsKept
  <1> QED
    BY <1>1, SMT DEF AcksInv, RowsKept

\* Rows that are left alone are kept.
LEMMA SameRows ==
    ASSUME InboxTypeOK, UNCHANGED inputs
    PROVE  RowsKept
  BY SMT DEF InboxTypeOK, RowsKept

-----------------------------------------------------------------------------
(* The steps of a stream.                                                  *)

\* One stream moves to s, the rest stays.
StreamMoves(m, s) ==
    /\ s \in Stream /\ s.n <= Len(s.line) /\ (~s.on => s = Offline)
    /\ stream' = [stream EXCEPT ![m] = s]
    /\ UNCHANGED <<lifecycle, inputs, report>>
    /\ breaks' \in 0..MaxBreaks

LEMMA StreamMovesKeeps ==
    ASSUME InboxInv, NEW m \in Members, NEW s, StreamMoves(m, s), LineInv(m)'
    PROVE  InboxInv'
  <1>1. /\ stream' \in [Members -> Stream] /\ stream'[m] = s
        /\ \A x \in Members \ {m} : stream'[x] = stream[x]
    BY DEF StreamMoves, InboxInv, InboxTypeOK
  <1>2. RowsKept
    BY SameRows DEF StreamMoves, InboxInv
  <1>3. \A x \in Members : /\ stream'[x].n <= Len(stream'[x].line)
                           /\ ~stream'[x].on => stream'[x] = Offline
    BY <1>1 DEF StreamMoves, InboxInv, InboxTypeOK
  <1>4. InboxTypeOK'
    <2>1. UNCHANGED <<phase, holder, verdict, inputs, report>>
      BY DEF StreamMoves, lifecycle
    <2> QED
      BY <1>1, <1>3, <2>1 DEF StreamMoves, InboxInv, InboxTypeOK
  <1>5. \A x \in Members \ {m} : LineInv(x)'
    BY <1>1, <1>2, StillStream DEF InboxInv
  <1>6. \A x \in Members : AcksInv(x)'
    BY <1>2, StillReport DEF InboxInv, StreamMoves
  <1> QED
    BY <1>4, <1>5, <1>6 DEF InboxInv

\* A stream that has nothing sent and nothing to send is in order.
LEMMA FreshStream ==
    ASSUME NEW m, stream[m].line = <<>>, stream[m].todo = {}
    PROVE  LineInv(m)
  <1>1. Sent(m) = {}
    BY SMT DEF Sent, Range
  <1> QED
    BY <1>1, SMT DEF LineInv

LEMMA OfflineIsAStream == Offline \in Stream
  BY SMT DEF Offline, Stream

LEMMA SubscribeKeeps ==
    ASSUME InboxInv, NEW m \in Members, Subscribe(m)
    PROVE  InboxInv'
  <1> DEFINE s == [Offline EXCEPT !.on = TRUE]
  <1>1. s.on /\ s.todo = {} /\ s.line = <<>> /\ s.n = 0
    BY DEF Offline
  <1>2. s \in Stream /\ s.n <= Len(s.line)
    <2>1. s \in Stream
      BY OfflineIsAStream DEF Stream
    <2> QED
      BY <1>1, <2>1, SMT
  <1>3. StreamMoves(m, s)
    BY <1>1, <1>2 DEF Subscribe, StreamMoves, InboxInv, InboxTypeOK
  <1>4. stream'[m] = s
    BY <1>3 DEF StreamMoves, InboxInv, InboxTypeOK
  <1>5. LineInv(m)'
    BY <1>1, <1>4, SMT DEF LineInv, Sent, Range
  <1> QED
    BY <1>3, <1>5, StreamMovesKeeps

LEMMA BreakKeeps ==
    ASSUME InboxInv, NEW m \in Members, Break(m)
    PROVE  InboxInv'
  <1>1. breaks' \in 0..MaxBreaks
    BY InboxAssumption, SMT DEF Break, InboxInv, InboxTypeOK
  <1>2. StreamMoves(m, Offline)
    BY <1>1, OfflineIsAStream, SMT DEF Break, StreamMoves, Offline
  <1>4. stream'[m] = Offline
    BY <1>2 DEF StreamMoves, InboxInv, InboxTypeOK
  <1>5. LineInv(m)'
    BY <1>4, SMT DEF LineInv, Sent, Range, Offline
  <1> QED
    BY <1>2, <1>5, StreamMovesKeeps

\* A poll adds the read behind the line: had a later input of the same job
\* gone out before, this one would be acknowledged.
LEMMA PollKeeps ==
    ASSUME InboxInv, NEW m \in Members, Poll(m)
    PROVE  InboxInv'
  <1> DEFINE o == stream[m]
             new == PendingInputs(m) \ Range(o.line)
             s == [o EXCEPT !.todo = new]
  <1>1. o \in Stream /\ o.on /\ o.todo = {} /\ o.n <= Len(o.line)
    BY DEF Poll, InboxInv, InboxTypeOK
  <1>2. Len(inputs) \in Nat /\ Len(inputs) <= MaxInputs
    BY SMT DEF InboxInv, InboxTypeOK
  <1>3. new \subseteq 1..Len(inputs) /\ 1..Len(inputs) \subseteq Ids
    BY <1>2, PendingExist, InboxAssumption, SMT DEF Ids
  <1>4. s \in Stream
    BY <1>1, <1>3 DEF Stream
  <1>5. s.on /\ s.todo = new /\ s.line = o.line /\ s.n = o.n
    BY <1>1 DEF Stream
  <1>6. stream' = [stream EXCEPT ![m] = s]
    BY DEF Poll
  <1>7. StreamMoves(m, s)
    BY <1>1, <1>4, <1>5, <1>6 DEF Poll, StreamMoves, InboxInv, InboxTypeOK
  <1>8. stream'[m] = s /\ UNCHANGED inputs
    BY <1>6 DEF Poll, InboxInv, InboxTypeOK
  <1>9. Sent(m) = Range(o.line) /\ Sent(m)' = Range(o.line) \cup new
    BY <1>1, <1>5, <1>8 DEF Sent
  <1>10. Sent(m) \subseteq 1..Len(inputs)
    BY DEF InboxInv, LineInv
  <1>11. \A a \in 1..Len(o.line) : o.line[a] \in Sent(m)
    BY <1>1, <1>9, SMT DEF Stream, Range
  <1>12. \A i \in new : ~inputs[i].acked /\ i \notin Sent(m)
    BY <1>9 DEF PendingInputs, Pending
  <1>13. \A i \in Sent(m) : \A k \in 1..i-1 :
            SameJob(k, i) => k \in Sent(m) \/ inputs[k].acked
    BY DEF InboxInv, LineInv
  <1>14. \A a \in 1..Len(o.line), i \in new :
            SameJob(o.line[a], i) => o.line[a] < i
    <2> SUFFICES ASSUME NEW a \in 1..Len(o.line), NEW i \in new,
                        SameJob(o.line[a], i), ~(o.line[a] < i)
                 PROVE  FALSE
      OBVIOUS
    <2>1. o.line[a] \in Sent(m) /\ o.line[a] \in 1..Len(inputs) /\ i \in 1..Len(inputs)
      BY <1>3, <1>10, <1>11
    <2>2. o.line[a] # i
      BY <1>12, <2>1
    <2>3. i \in 1..(o.line[a] - 1) /\ SameJob(i, o.line[a])
      BY <1>2, <2>1, <2>2, SMT DEF SameJob
    <2> QED
      BY <1>12, <1>13, <2>1, <2>3
  <1>15. \A i \in new : \A k \in 1..i-1 :
            SameJob(k, i) => k \in Range(o.line) \cup new \/ inputs[k].acked
    <2> SUFFICES ASSUME NEW i \in new, NEW k \in 1..i-1, SameJob(k, i), ~inputs[k].acked
                 PROVE  k \in Range(o.line) \cup new
      OBVIOUS
    <2>1. k \in PendingInputs(m)
      BY <1>2, ReadFromTheFront, InboxAssumption
    <2> QED
      BY <2>1
  <1>16. \A a, b \in 1..Len(o.line) :
            (a < b /\ SameJob(o.line[a], o.line[b])) => o.line[a] < o.line[b]
    BY DEF InboxInv, LineInv
  <1>17. \A i, k : SameJob(i, k)' <=> SameJob(i, k)
    BY <1>8 DEF SameJob
  <1> HIDE DEF new
  <1>18. LineInv(m)'
    <2>1. Sent(m)' \subseteq 1..Len(inputs')
      BY <1>3, <1>8, <1>9, <1>10
    <2>2. \A i \in Sent(m)' : \A k \in 1..i-1 :
             SameJob(k, i)' => k \in Sent(m)' \/ inputs'[k].acked
      BY <1>8, <1>9, <1>13, <1>15, <1>17
    <2> QED
      BY <1>5, <1>8, <1>14, <1>16, <1>17, <2>1, <2>2 DEF LineInv
  <1> QED
    BY <1>7, <1>18, StreamMovesKeeps

\* A send moves the least of the batch to the end of the line.
LEMMA DeliverKeeps ==
    ASSUME InboxInv, NEW m \in Members, Deliver(m)
    PROVE  InboxInv'
  <1> DEFINE o == stream[m]
             i == Min(o.todo)
             line == Append(o.line, i)
             s == [o EXCEPT !.todo = o.todo \ {i}, !.line = line]
  <1>1. o \in Stream /\ o.n <= Len(o.line) /\ o.todo # {} /\ o.on
    BY SMT DEF Deliver, InboxInv, InboxTypeOK, Offline
  <1>2. o.todo \in SUBSET Ids /\ o.line \in Seq(Ids) /\ Ids \subseteq Nat /\ o.n \in Nat
    BY <1>1, SMT DEF Stream, Ids
  <1>3. i \in o.todo /\ \A k \in o.todo : i <= k
    BY <1>1, <1>2, MinIsTheLeast
  <1>4. i \in Ids /\ i \in Nat
    BY <1>2, <1>3
  <1> HIDE DEF i
  <1>5. /\ line \in Seq(Ids) /\ Len(line) = Len(o.line) + 1
        /\ \A a \in 1..Len(o.line) : line[a] = o.line[a]
        /\ line[Len(o.line) + 1] = i
    BY <1>2, <1>4, SMT
  <1>6. Range(line) = Range(o.line) \cup {i}
    <2>1. Len(o.line) \in Nat /\ DOMAIN o.line = 1..Len(o.line) /\ DOMAIN line = 1..Len(line)
      BY <1>2, <1>5, SMT
    <2> HIDE DEF line
    <2>2. Range(line) \subseteq Range(o.line) \cup {i}
      BY <1>5, <2>1, SMT DEF Range
    <2>3. Range(o.line) \cup {i} \subseteq Range(line)
      BY <1>5, <2>1, SMTT(30) DEF Range
    <2> QED
      BY <2>2, <2>3
  <1>14. Len(o.line) \in Nat
    BY <1>2, SMT
  <1> HIDE DEF line
  <1>7. s.on /\ s.todo = o.todo \ {i} /\ s.line = line /\ s.n = o.n
    BY <1>1 DEF Stream
  <1>8. stream' = [stream EXCEPT ![m] = s]
    <2>1. stream' = [stream EXCEPT ![m].todo = @ \ {i}, ![m].line = Append(@, i)]
      BY DEF Deliver, i
    <2>2. stream \in [Members -> Stream]
      BY DEF InboxInv, InboxTypeOK
    <2> QED
      BY <1>1, <2>1, <2>2 DEF line, Stream
  <1>9. s \in Stream /\ s.n <= Len(s.line)
    <2>1. s \in Stream
      BY <1>1, <1>2, <1>5 DEF Stream
    <2>2. o.n <= Len(line)
      BY <1>1, <1>2, <1>5, <1>14, SMT
    <2> QED
      BY <1>7, <2>1, <2>2
  <1>10. StreamMoves(m, s)
    BY <1>7, <1>8, <1>9 DEF Deliver, StreamMoves, InboxInv, InboxTypeOK
  <1>11. stream'[m] = s /\ UNCHANGED inputs
    BY <1>8 DEF Deliver, InboxInv, InboxTypeOK
  <1>12. Sent(m)' = Sent(m)
    BY <1>3, <1>6, <1>7, <1>11, SMT DEF Sent
  <1>13. \A x, y : SameJob(x, y)' <=> SameJob(x, y)
    BY <1>11 DEF SameJob
  <1>15. \A a, b \in 1..Len(line) :
            (a < b /\ SameJob(line[a], line[b])) => line[a] < line[b]
    <2> SUFFICES ASSUME NEW a \in 1..Len(line), NEW b \in 1..Len(line),
                        a < b, SameJob(line[a], line[b])
                 PROVE  line[a] < line[b]
      OBVIOUS
    <2>1. a \in 1..Len(o.line) /\ line[a] = o.line[a]
      BY <1>5, <1>14, SMT
    <2>2. CASE b \in 1..Len(o.line)
      BY <1>5, <2>1, <2>2 DEF InboxInv, LineInv
    <2>3. CASE b = Len(o.line) + 1
      BY <1>3, <1>5, <2>1, <2>3 DEF InboxInv, LineInv
    <2> QED
      BY <1>5, <1>14, <2>2, <2>3, SMT
  <1>16. \A a \in 1..Len(line), k \in o.todo \ {i} :
            SameJob(line[a], k) => line[a] < k
    <2> SUFFICES ASSUME NEW a \in 1..Len(line), NEW k \in o.todo \ {i},
                        SameJob(line[a], k)
                 PROVE  line[a] < k
      OBVIOUS
    <2>1. CASE a \in 1..Len(o.line)
      BY <1>5, <2>1 DEF InboxInv, LineInv
    <2>2. CASE a = Len(o.line) + 1
      <3>1. k \in Nat /\ i <= k /\ i # k
        BY <1>2, <1>3
      <3> QED
        BY <1>4, <1>5, <2>2, <3>1, SMT
    <2> QED
      BY <1>5, <1>14, <2>1, <2>2, SMT
  <1>17. /\ Sent(m) \subseteq 1..Len(inputs)
         /\ \A x \in Sent(m) : \A k \in 1..x-1 :
              SameJob(k, x) => k \in Sent(m) \/ inputs[k].acked
    BY DEF InboxInv, LineInv
  <1>18. LineInv(m)'
    BY <1>7, <1>11, <1>12, <1>13, <1>15, <1>16, <1>17 DEF LineInv
  <1> QED
    BY <1>10, <1>18, StreamMovesKeeps

LEMMA ReceiveKeeps ==
    ASSUME InboxInv, NEW m \in Members, Receive(m)
    PROVE  InboxInv'
  <1> DEFINE o == stream[m]
             s == [on |-> o.on, todo |-> o.todo, line |-> o.line, n |-> o.n + 1]
  <1>1. o \in Stream /\ o.n < Len(o.line)
    BY DEF Receive, InboxInv, InboxTypeOK
  <1>2. o.on
    BY <1>1, SMT DEF Receive, InboxInv, InboxTypeOK, Offline
  <1>3. stream' = [stream EXCEPT ![m] = s]
    <2>1. s = [o EXCEPT !.n = o.n + 1]
      BY <1>1, SMT DEF Stream
    <2> QED
      BY <2>1 DEF Receive
  <1>4. s \in Stream /\ s.n <= Len(s.line)
    BY <1>1, SMT DEF Stream
  <1>5. StreamMoves(m, s)
    BY <1>2, <1>3, <1>4 DEF Receive, StreamMoves, InboxInv, InboxTypeOK
  <1>6. stream'[m] = s /\ UNCHANGED inputs
    BY <1>3 DEF Receive, InboxInv, InboxTypeOK
  <1>7. s.line = o.line /\ s.todo = o.todo
    OBVIOUS
  <1>8. Sent(m)' = Sent(m)
    BY <1>6, <1>7 DEF Sent
  <1>9. \A x, y : SameJob(x, y)' <=> SameJob(x, y)
    BY <1>6 DEF SameJob
  <1>10. LineInv(m)'
    BY <1>6, <1>7, <1>8, <1>9 DEF LineInv, InboxInv
  <1> QED
    BY <1>5, <1>10, StreamMovesKeeps

-----------------------------------------------------------------------------
(* The steps of a report.                                                  *)

\* One report moves to r, the streams stay.
ReportMoves(m, r) ==
    /\ r \in Report
    /\ r.at = "ack" => r.acks # {} /\ r.acks \subseteq 1..Len(inputs)
    /\ report' = [report EXCEPT ![m] = r]
    /\ UNCHANGED <<lifecycle, stream>>
    /\ breaks' \in 0..MaxBreaks

LEMMA ReportMovesKeeps ==
    ASSUME InboxInv, NEW m \in Members, NEW r, ReportMoves(m, r),
           RowsKept, Len(inputs') <= MaxInputs
    PROVE  InboxInv'
  <1>1. /\ report' \in [Members -> Report] /\ report'[m] = r
        /\ \A x \in Members \ {m} : report'[x] = report[x]
    BY DEF ReportMoves, InboxInv, InboxTypeOK
  <1>2. InboxTypeOK'
    <2>1. UNCHANGED <<phase, holder, verdict, stream>>
      BY DEF ReportMoves, lifecycle
    <2>2. inputs' \in Seq(Input)
      BY DEF RowsKept
    <2> QED
      BY <1>1, <2>1, <2>2 DEF ReportMoves, InboxInv, InboxTypeOK
  <1>3. \A x \in Members : LineInv(x)'
    BY StillStream DEF InboxInv, ReportMoves
  <1>4. \A x \in Members \ {m} : AcksInv(x)'
    BY <1>1, StillReport DEF InboxInv
  <1>5. AcksInv(m)'
    <2>1. Len(inputs) \in Nat /\ Len(inputs') \in Nat /\ Len(inputs) <= Len(inputs')
      BY SMT DEF InboxInv, InboxTypeOK, RowsKept
    <2> QED
      BY <1>1, <2>1, SMT DEF ReportMoves, AcksInv
  <1> QED
    BY <1>2, <1>3, <1>4, <1>5 DEF InboxInv

\* A report that acknowledges nothing leaves the rows alone.
LEMMA ReportMovesOnly ==
    ASSUME InboxInv, NEW m \in Members, NEW r, ReportMoves(m, r), UNCHANGED inputs
    PROVE  InboxInv'
  BY SameRows, ReportMovesKeeps DEF InboxInv, InboxTypeOK

LEMMA ReportKinds ==
    ASSUME InboxTypeOK, NEW m \in Members
    PROVE  /\ NoReport \in Report /\ NoReport.at # "ack"
           /\ \A j \in Jobs, at \in {"set", "read"} : [at |-> at, job |-> j] \in Report
           /\ \A j \in Jobs, a \in SUBSET Ids :
                 [at |-> "ack", job |-> j, acks |-> a] \in Report
           /\ report[m].at \in {"set", "read"} =>
                 report[m] \in [at : {"set", "read"}, job : Jobs]
           /\ report[m].at = "ack" =>
                 report[m] \in [at : {"ack"}, job : Jobs, acks : SUBSET Ids]
  <1>1. report[m] \in Report
    BY DEF InboxTypeOK
  <1> QED
    BY <1>1, SMT DEF Report, NoReport

LEMMA ReturnedKeeps ==
    ASSUME InboxInv, NEW m \in Members, Returned(m),
           UNCHANGED <<lifecycle, inputs, stream>>, breaks' \in 0..MaxBreaks
    PROVE  InboxInv'
  <1>1. ReportMoves(m, NoReport)
    BY ReportKinds DEF Returned, ReportMoves, InboxInv
  <1> QED
    BY <1>1, ReportMovesOnly

LEMMA ReportJobStateKeeps ==
    ASSUME InboxInv, NEW m \in Members, NEW j \in Jobs, ReportJobState(m, j)
    PROVE  InboxInv'
  <1>1. ReportMoves(m, [at |-> "set", job |-> j])
    BY ReportKinds DEF ReportJobState, ReportMoves, InboxInv, InboxTypeOK
  <1> QED
    BY <1>1, ReportMovesOnly DEF ReportJobState

LEMMA ReportSetKeeps ==
    ASSUME InboxInv, NEW m \in Members, ReportSet(m)
    PROVE  InboxInv'
  <1>0. breaks' \in 0..MaxBreaks /\ UNCHANGED <<lifecycle, inputs, stream>>
    BY DEF ReportSet, InboxInv, InboxTypeOK
  <1>1. CASE phase[report[m].job] = "settled"
    BY <1>0, <1>1, ReturnedKeeps DEF ReportSet
  <1>2. CASE phase[report[m].job] # "settled"
    <2> DEFINE r == [at |-> "read", job |-> report[m].job]
    <2>1. report[m] \in [at : {"set", "read"}, job : Jobs]
      BY ReportKinds DEF ReportSet, InboxInv
    <2>2. report' = [report EXCEPT ![m].at = "read"]
      BY <1>2 DEF ReportSet
    <2>3. r = [report[m] EXCEPT !.at = "read"]
      BY <2>1, SMT
    <2>4. report' = [report EXCEPT ![m] = r]
      BY <2>2, <2>3
    <2>5. r \in Report
      BY <2>1, ReportKinds DEF InboxInv
    <2>6. ReportMoves(m, r)
      BY <1>0, <2>4, <2>5 DEF ReportMoves
    <2> QED
      BY <1>0, <2>6, ReportMovesOnly
  <1> QED
    BY <1>1, <1>2

LEMMA ReportReadKeeps ==
    ASSUME InboxInv, NEW m \in Members, ReportRead(m)
    PROVE  InboxInv'
  <1> DEFINE acks == {i \in PendingInputs(m) : inputs[i].job = report[m].job}
             r == [at |-> "ack", job |-> report[m].job, acks |-> acks]
  <1>0. breaks' \in 0..MaxBreaks /\ UNCHANGED <<lifecycle, inputs, stream>>
    BY DEF ReportRead, InboxInv, InboxTypeOK
  <1>1. CASE acks = {}
    BY <1>0, <1>1, ReturnedKeeps DEF ReportRead
  <1>2. CASE acks # {}
    <2>1. report[m].job \in Jobs
      BY ReportKinds DEF ReportRead, InboxInv
    <2>2. acks \subseteq 1..Len(inputs)
      BY PendingExist
    <2>3. 1..Len(inputs) \subseteq Ids
      BY InboxAssumption, SMT DEF Ids, InboxInv, InboxTypeOK
    <2>4. report' = [report EXCEPT ![m] = r]
      BY <1>2 DEF ReportRead
    <2> HIDE DEF acks
    <2>5. r \in Report
      BY <2>1, <2>2, <2>3, ReportKinds DEF InboxInv
    <2>6. ReportMoves(m, r)
      BY <1>0, <1>2, <2>2, <2>4, <2>5 DEF ReportMoves
    <2> QED
      BY <1>0, <2>6, ReportMovesOnly
  <1> QED
    BY <1>1, <1>2

\* An acknowledgement sets one row and changes nothing else of it.
LEMMA AckRow ==
    ASSUME InboxTypeOK, NEW i \in 1..Len(inputs),
           inputs' = [inputs EXCEPT ![i].acked = TRUE]
    PROVE  RowsKept /\ Len(inputs') = Len(inputs)
  <1> DEFINE row == [inputs[i] EXCEPT !.acked = TRUE]
  <1>1. inputs \in Seq(Input) /\ inputs[i] \in Input
    BY SMT DEF InboxTypeOK
  <1>2. row \in Input
    BY <1>1 DEF Input
  <1>3. inputs' = [inputs EXCEPT ![i] = row]
    BY <1>2
  <1>4. row.job = inputs[i].job /\ row.acked
    BY <1>1 DEF Input
  <1> HIDE DEF row
  <1>5. /\ inputs' \in Seq(Input) /\ Len(inputs') = Len(inputs)
        /\ \A k \in 1..Len(inputs) : inputs'[k] = IF k = i THEN row ELSE inputs[k]
    <2>1. /\ [inputs EXCEPT ![i] = row] \in Seq(Input)
          /\ Len([inputs EXCEPT ![i] = row]) = Len(inputs)
          /\ \A k \in 1..Len(inputs) :
                [inputs EXCEPT ![i] = row][k] = IF k = i THEN row ELSE inputs[k]
      BY <1>1, <1>2, ExceptSeq, SMT
    <2> QED
      BY <1>3, <2>1, Zenon
  <1>6. ASSUME NEW k \in 1..Len(inputs)
        PROVE  inputs'[k].job = inputs[k].job /\ (inputs[k].acked => inputs'[k].acked)
    <2>1. CASE k = i
      BY <1>4, <1>5, <2>1
    <2>2. CASE k # i
      BY <1>5, <2>2
    <2> QED
      BY <2>1, <2>2
  <1>7. Len(inputs) <= Len(inputs')
    BY <1>1, <1>5, SMT
  <1> QED
    BY <1>5, <1>6, <1>7 DEF RowsKept

LEMMA ReportAckKeeps ==
    ASSUME InboxInv, NEW m \in Members, ReportAck(m)
    PROVE  InboxInv'
  <1> DEFINE acks == report[m].acks
             i == Min(acks)
             r == [at |-> "ack", job |-> report[m].job, acks |-> acks \ {i}]
  <1>0. breaks' \in 0..MaxBreaks /\ UNCHANGED <<lifecycle, stream>>
    BY DEF ReportAck, InboxInv, InboxTypeOK
  <1>1. report[m] \in [at : {"ack"}, job : Jobs, acks : SUBSET Ids]
    BY ReportKinds DEF ReportAck, InboxInv
  <1>2. acks # {} /\ acks \subseteq 1..Len(inputs) /\ acks \in SUBSET Nat
    BY <1>1, SMT DEF ReportAck, InboxInv, AcksInv, Ids
  <1>3. i \in acks
    BY <1>2, MinIsTheLeast
  <1>4. inputs' = [inputs EXCEPT ![i].acked = TRUE]
    BY DEF ReportAck
  <1>5. i \in 1..Len(inputs)
    BY <1>2, <1>3
  <1> HIDE DEF i
  <1>6. RowsKept /\ Len(inputs') = Len(inputs) /\ Len(inputs') <= MaxInputs
    BY <1>4, <1>5, AckRow DEF InboxInv, InboxTypeOK
  <1>7. CASE acks = {i}
    <2>1. ReportMoves(m, NoReport)
      BY <1>0, <1>7, ReportKinds DEF ReportAck, Returned, ReportMoves, InboxInv, i
    <2> QED
      BY <1>6, <2>1, ReportMovesKeeps
  <1>8. CASE acks # {i}
    <2>1. report' = [report EXCEPT ![m].acks = @ \ {i}]
      BY <1>8 DEF ReportAck, i
    <2>2. r = [report[m] EXCEPT !.acks = acks \ {i}]
      BY <1>1, SMT
    <2>3. report' = [report EXCEPT ![m] = r]
      BY <2>1, <2>2
    <2>4. r \in Report
      BY <1>1, ReportKinds DEF InboxInv
    <2>5. acks \ {i} # {} /\ acks \ {i} \subseteq 1..Len(inputs)
      BY <1>2, <1>3, <1>8
    <2>6. ReportMoves(m, r)
      BY <1>0, <2>3, <2>4, <2>5 DEF ReportMoves
    <2> QED
      BY <1>6, <2>6, ReportMovesKeeps
  <1> QED
    BY <1>7, <1>8

LEMMA ReportFailsKeeps ==
    ASSUME InboxInv, NEW m \in Members, ReportFails(m)
    PROVE  InboxInv'
  <1>1. breaks' \in 0..MaxBreaks
    BY InboxAssumption, SMT DEF ReportFails, InboxInv, InboxTypeOK
  <1> QED
    BY <1>1, ReturnedKeeps DEF ReportFails

-----------------------------------------------------------------------------
(* The steps of the store.                                                 *)

\* The jobs stay typed, the rows are kept, the calls do not move.
StoreMoves ==
    /\ phase' \in [Jobs -> {"unopened", "live", "settled"}]
    /\ holder' \in [Jobs -> Members \cup {NoMember}]
    /\ verdict' \in [Jobs -> Verdicts \cup {NoVerdict}]
    /\ RowsKept /\ Len(inputs') <= MaxInputs
    /\ UNCHANGED rest

LEMMA StoreMovesKeeps ==
    ASSUME InboxInv, StoreMoves
    PROVE  InboxInv'
  <1>1. UNCHANGED <<stream, report, breaks>>
    BY DEF StoreMoves, rest
  <1>2. InboxTypeOK'
    BY <1>1 DEF StoreMoves, RowsKept, InboxInv, InboxTypeOK
  <1>3. \A m \in Members : LineInv(m)' /\ AcksInv(m)'
    BY <1>1, StillStream, StillReport DEF StoreMoves, InboxInv
  <1> QED
    BY <1>2, <1>3 DEF InboxInv

LEMMA AppendKeepsRows ==
    ASSUME InboxTypeOK, NEW j \in Jobs, NEW k \in {"turn", "wrap_up"}, AppendInput(j, k)
    PROVE  RowsKept /\ Len(inputs') <= MaxInputs
  <1> DEFINE row == [job |-> j, kind |-> k, acked |-> FALSE]
  <1>1. row \in Input
    BY DEF Input
  <1>2. inputs \in Seq(Input) /\ Len(inputs) < MaxInputs /\ inputs' = Append(inputs, row)
    BY DEF InboxTypeOK, AppendInput
  <1> HIDE DEF row
  <1>3. /\ inputs' \in Seq(Input) /\ Len(inputs') = Len(inputs) + 1
        /\ \A i \in 1..Len(inputs) : inputs'[i] = inputs[i]
    BY <1>1, <1>2, SMT
  <1> QED
    BY <1>2, <1>3, InboxAssumption, SMT DEF RowsKept

LEMMA StoreStepKeeps ==
    ASSUME InboxInv,
           \/ \E m \in Members, j \in Jobs : PullJob(m, j)
           \/ \E m \in Members : ReleaseMember(m)
           \/ \E j \in Jobs, m \in Members \cup {NoMember} : Open(j, m)
           \/ \E j \in Jobs : SendInput(j)
           \/ \E j \in Jobs, v \in Verdicts : CloseJob(j, v)
    PROVE  InboxInv'
  <1> USE DEF InboxInv
  <1>0. UNCHANGED inputs => RowsKept /\ Len(inputs') <= MaxInputs
    BY SameRows DEF InboxTypeOK
  <1>1. CASE \E m \in Members, j \in Jobs : PullJob(m, j)
    <2>1. StoreMoves
      BY <1>0, <1>1 DEF PullJob, Life!Take, StoreMoves, InboxTypeOK
    <2> QED
      BY <2>1, StoreMovesKeeps
  <1>2. CASE \E m \in Members : ReleaseMember(m)
    <2>1. StoreMoves
      BY <1>0, <1>2 DEF ReleaseMember, Life!GiveBack, StoreMoves, InboxTypeOK
    <2> QED
      BY <2>1, StoreMovesKeeps
  <1>3. CASE \E j \in Jobs, m \in Members \cup {NoMember} : Open(j, m)
    <2>1. StoreMoves
      BY <1>0, <1>3, SMT DEF Open, Life!Begin, StoreMoves, InboxTypeOK
    <2> QED
      BY <2>1, StoreMovesKeeps
  <1>4. CASE \E j \in Jobs : SendInput(j)
    <2>1. StoreMoves
      BY <1>4, AppendKeepsRows DEF SendInput, lifecycle, StoreMoves, InboxTypeOK
    <2> QED
      BY <2>1, StoreMovesKeeps
  <1>5. CASE \E j \in Jobs, v \in Verdicts : CloseJob(j, v)
    <2>1. StoreMoves
      BY <1>5, AppendKeepsRows, SMT DEF CloseJob, Life!Settle, StoreMoves, InboxTypeOK
    <2> QED
      BY <2>1, StoreMovesKeeps
  <1> QED
    BY <1>1, <1>2, <1>3, <1>4, <1>5

-----------------------------------------------------------------------------
(* The theorems.                                                           *)

LEMMA InitInboxInv == InboxInit => InboxInv
  <1> SUFFICES ASSUME InboxInit PROVE InboxInv
    OBVIOUS
  <1>1. InboxTypeOK
    BY OfflineIsAStream, InboxAssumption, SMT
       DEF InboxInit, Life!Init, InboxTypeOK, Offline, Report
  <1>2. \A m \in Members : LineInv(m)
    BY FreshStream DEF InboxInit, Offline
  <1>3. \A m \in Members : AcksInv(m)
    BY DEF InboxInit, AcksInv, NoReport
  <1> QED
    BY <1>1, <1>2, <1>3 DEF InboxInv

LEMMA NextInboxInv == InboxInv /\ [InboxNext]_inboxVars => InboxInv'
  <1> SUFFICES ASSUME InboxInv, [InboxNext]_inboxVars PROVE InboxInv'
    OBVIOUS
  <1>1. CASE UNCHANGED inboxVars
    <2>1. StoreMoves
      BY <1>1, SameRows DEF inboxVars, StoreMoves, rest, InboxInv, InboxTypeOK
    <2> QED
      BY <2>1, StoreMovesKeeps
  <1>2. ASSUME NEW m \in Watched, StreamStep(m) \/ Break(m) PROVE InboxInv'
    <2>1. m \in Members
      BY InboxAssumption
    <2> QED
      BY <1>2, <2>1, SubscribeKeeps, PollKeeps, DeliverKeeps, ReceiveKeeps, BreakKeeps
         DEF StreamStep
  <1>3. ASSUME NEW m \in Members, ReportStep(m) \/ ReportFails(m) PROVE InboxInv'
    BY <1>3, ReportSetKeeps, ReportReadKeeps, ReportAckKeeps, ReportFailsKeeps
       DEF ReportStep
  <1>4. ASSUME NEW m \in Members, NEW j \in Jobs, ReportJobState(m, j) PROVE InboxInv'
    BY <1>4, ReportJobStateKeeps
  <1> QED
    BY <1>1, <1>2, <1>3, <1>4, StoreStepKeeps DEF InboxNext

\* InboxInv holds in every reachable state.
THEOREM InboxCorrect == InboxSpec => []InboxInv
  BY InitInboxInv, NextInboxInv, PTL DEF InboxSpec

\* The rows, the streams and the reports keep their shape; a stream that is
\* not connected holds nothing, and no member has received more than was sent.
THEOREM InboxTypeCorrect == InboxSpec => []InboxTypeOK
  <1>1. InboxInv => InboxTypeOK
    BY DEF InboxInv
  <1> QED
    BY InboxCorrect, <1>1, PTL

\* SubscribeInput sends the inputs of a job in the order they were sent to it
\* and none twice on one connection, for every size of the batch.
THEOREM InputsArriveInOrder == InboxSpec => []DeliveredInOrder
  <1>1. InboxInv => DeliveredInOrder
    BY InboxAssumption DEF InboxInv, LineInv, SameJob, DeliveredInOrder
  <1> QED
    BY InboxCorrect, <1>1, PTL
=============================================================================
