-------------------------- MODULE WorkQueueProofs --------------------------
(***************************************************************************)
(* Proofs about WorkQueue, for any number of items, workers and tenants:   *)
(* an item is in one place at most, no wake-up is lost, and a worker is    *)
(* only given up when its instance is out of the registry for good.        *)
(***************************************************************************)
EXTENDS WorkQueue, TLAPS

\* Most leaves are first-order; the others, arithmetic and records, name SMT.
USE Zenon

-----------------------------------------------------------------------------
(* Types.                                                                  *)

\* A worker has an item exactly from the claim to the end of the submission, and
\* a stream while it polls.
HandsOK ==
    \A p \in Workers :
        /\ worker[p].at \in {"claimed", "working", "stored"} => worker[p].w \in Works
        /\ worker[p].at \in {"down", "idle", "polling"} => worker[p].w = None
        /\ worker[p].at = "polling" => worker[p].stream \in Tenants

TypeInv == TypeOK /\ HandsOK

LEMMA SeqStep ==
    ASSUME NEW S, NEW s \in Seq(S), NEW e \in S
    PROVE  /\ Append(s, e) \in Seq(S)
           /\ s # <<>> => Tail(s) \in Seq(S) /\ Head(s) \in S
  BY SMT

\* The end of a dispatch is a wait again.
LEMMA EndWaitType ==
    ASSUME TypeOK, NEW w \in Works,
           NEW why \in {"answered", "timeout", "gone", "unknown", "error"}
    PROVE  EndWait(w, why) \in [Works -> Wait]
  <1> DEFINE row == [NewWait EXCEPT !.at = "over", !.why = why,
                                    !.inst = IF why = "gone" THEN wait[w].inst ELSE None]
  <1>1. wait \in [Works -> Wait] /\ wait[w].inst \in Instances \cup {None}
    BY DEF TypeOK, Wait
  <1>2. 0 \in 0..GraceProbes
    BY WorkAssumption, SMT
  <1>3. row \in Wait
    BY <1>1, <1>2, Zenon DEF NewWait, Wait
  <1>4. EndWait(w, why) = [wait EXCEPT ![w] = row]
    BY DEF EndWait
  <1> QED
    BY <1>1, <1>3, <1>4

LEMMA InitType == Init => TypeInv
  <1> SUFFICES ASSUME Init PROVE TypeInv
    OBVIOUS
  <1>0. 0 \in 0..GraceProbes /\ 0 \in 0..MaxInstance
    BY WorkAssumption, SMT
  <1>1. Down \in Worker /\ NewWait \in Wait
    BY <1>0 DEF Down, Worker, NewWait, Wait
  <1>2. queue \in [Tenants -> Seq(Works)]
    BY SMT DEF Init
  <1> QED
    BY <1>0, <1>1, <1>2 DEF Init, TypeInv, TypeOK, HandsOK, Down

\* Steps that change neither the workers' places nor a wait in a way of their own
\* are typed by this: one worker gets a new row.
LEMMA WorkerRow ==
    ASSUME TypeInv, NEW p \in Workers, NEW row \in Worker,
           worker' = [worker EXCEPT ![p] = row],
           row.at \in {"claimed", "working", "stored"} => row.w \in Works,
           row.at \in {"down", "idle", "polling"} => row.w = None,
           row.at = "polling" => row.stream \in Tenants
    PROVE  worker' \in [Workers -> Worker] /\ HandsOK'
  BY DEF TypeInv, TypeOK, HandsOK

\* A worker with an item goes on with it, or lets it go.
LEMMA HandsStep ==
    ASSUME TypeInv, NEW p \in Workers, worker[p].at \in {"claimed", "working", "stored"},
           \/ worker' = [worker EXCEPT ![p].at = "working"]
           \/ worker' = [worker EXCEPT ![p].at = "stored"]
           \/ worker' = Free(p)
    PROVE  worker' \in [Workers -> Worker] /\ HandsOK'
  <1>1. worker \in [Workers -> Worker] /\ worker[p] \in Worker /\ worker[p].w \in Works
    BY DEF TypeInv, TypeOK, HandsOK
  <1>2. ASSUME NEW at \in {"working", "stored"}, worker' = [worker EXCEPT ![p].at = at]
        PROVE  worker' \in [Workers -> Worker] /\ HandsOK'
    <2> DEFINE row == [worker[p] EXCEPT !.at = at]
    <2>1. worker' = [worker EXCEPT ![p] = row]
      BY <1>1, <1>2, Zenon
    <2>2. row \in Worker /\ row.at = at /\ row.w = worker[p].w
      BY <1>1, Zenon DEF Worker
    <2> QED
      BY <1>1, <2>1, <2>2, WorkerRow, Zenon
  <1>3. CASE worker' = Free(p)
    <2> DEFINE row == [worker[p] EXCEPT !.at = "idle", !.w = None]
    <2>1. worker' = [worker EXCEPT ![p] = row]
      BY <1>1, <1>3, Zenon DEF Free
    <2>2. row \in Worker /\ row.at = "idle" /\ row.w = None
      BY <1>1, Zenon DEF Worker
    <2> QED
      BY <2>1, <2>2, WorkerRow, Zenon
  <1> QED
    BY <1>2, <1>3

\* A step of one wait, by the fields it changes.
LEMMA WaitMoves ==
    ASSUME TypeOK, NEW w \in Works,
           \/ wait' = [wait EXCEPT ![w].at = "add"]
           \/ wait' = [wait EXCEPT ![w].at = "lookup"]
           \/ wait' = [wait EXCEPT ![w].at = "fetch"]
           \/ wait' = [wait EXCEPT ![w].at = "listen"]
           \/ wait' = [wait EXCEPT ![w] = [@ EXCEPT !.at = "fetch", !.note = FALSE]]
           \/ wait' = [wait EXCEPT ![w] = [@ EXCEPT !.at = "probe", !.note = FALSE]]
           \/ \E n \in BOOLEAN : wait' = [wait EXCEPT ![w].note = n]
           \/ \E k \in 0..GraceProbes :
                 wait' = [wait EXCEPT ![w] = [@ EXCEPT !.at = "lookup", !.absent = k]]
           \/ \E why \in {"answered", "timeout", "gone", "unknown", "error"} :
                 wait' = EndWait(w, why)
    PROVE  wait' \in [Works -> Wait]
  <1>1. wait \in [Works -> Wait] /\ wait[w] \in Wait
    BY Zenon DEF TypeOK
  <1>2. \A row \in Wait : [wait EXCEPT ![w] = row] \in [Works -> Wait]
    BY <1>1, Zenon
  <1>3. ASSUME NEW at \in {"add", "lookup", "fetch", "listen"}
        PROVE  [wait EXCEPT ![w].at = at] \in [Works -> Wait]
    <2>1. [wait[w] EXCEPT !.at = at] \in Wait
      BY <1>1, Zenon DEF Wait
    <2> QED
      BY <1>2, <2>1, Zenon
  <1>4. ASSUME NEW at \in {"fetch", "probe"}
        PROVE  [wait EXCEPT ![w] = [@ EXCEPT !.at = at, !.note = FALSE]] \in [Works -> Wait]
    <2>1. [wait[w] EXCEPT !.at = at, !.note = FALSE] \in Wait
      BY <1>1, Zenon DEF Wait
    <2> QED
      BY <1>2, <2>1, Zenon
  <1>5. ASSUME NEW n \in BOOLEAN
        PROVE  [wait EXCEPT ![w].note = n] \in [Works -> Wait]
    <2>1. [wait[w] EXCEPT !.note = n] \in Wait
      BY <1>1, Zenon DEF Wait
    <2> QED
      BY <1>2, <2>1, Zenon
  <1>6. ASSUME NEW k \in 0..GraceProbes
        PROVE  [wait EXCEPT ![w] = [@ EXCEPT !.at = "lookup", !.absent = k]] \in [Works -> Wait]
    <2>1. [wait[w] EXCEPT !.at = "lookup", !.absent = k] \in Wait
      BY <1>1, Zenon DEF Wait
    <2> QED
      BY <1>2, <2>1, Zenon
  <1>7. CASE \E at \in {"add", "lookup", "fetch", "listen"} : wait' = [wait EXCEPT ![w].at = at]
    BY <1>3, <1>7, Zenon
  <1>8. CASE \E at \in {"fetch", "probe"} :
                 wait' = [wait EXCEPT ![w] = [@ EXCEPT !.at = at, !.note = FALSE]]
    BY <1>4, <1>8, Zenon
  <1>9. CASE \E n \in BOOLEAN : wait' = [wait EXCEPT ![w].note = n]
    BY <1>5, <1>9, Zenon
  <1>10. CASE \E k \in 0..GraceProbes :
                  wait' = [wait EXCEPT ![w] = [@ EXCEPT !.at = "lookup", !.absent = k]]
    BY <1>6, <1>10, Zenon
  <1>11. CASE \E why \in {"answered", "timeout", "gone", "unknown", "error"} :
                  wait' = EndWait(w, why)
    BY <1>11, EndWaitType, Zenon
  <1> QED
    BY <1>7, <1>8, <1>9, <1>10, <1>11, Zenon

LEMMA TypeStep == TypeInv /\ [Next]_vars => TypeInv'
  <1> SUFFICES ASSUME TypeInv, [Next]_vars PROVE TypeInv'
    OBVIOUS
  <1> USE DEF TypeInv
  <1>0. /\ worker \in [Workers -> Worker] /\ wait \in [Works -> Wait]
        /\ queue \in [Tenants -> Seq(Works)] /\ claimant \in [Works -> Subjects \cup {None}]
    BY DEF TypeOK
  <1>1. ASSUME NEW p \in Workers, Register(p) PROVE TypeInv'
    <2> DEFINE place == Up(p)
               row == [worker[p] EXCEPT !.inst = issued + 1, !.at = place]
    <2>1. issued + 1 \in 1..MaxInstance
      BY <1>1, WorkAssumption, SMT DEF Register, TypeOK
    <2>2. worker[p] \in Worker /\ issued + 1 \in 0..MaxInstance
      BY <1>0, <2>1, SMT
    <2>3. place \in {"down", "idle", "polling", "claimed", "working", "stored"}
      BY <2>2 DEF Worker, Up
    <2>4. row \in Worker /\ row.at = place /\ row.w = worker[p].w /\ row.stream = worker[p].stream
      BY <2>2, <2>3, Zenon DEF Worker
    <2>5. worker' = [worker EXCEPT ![p] = row]
      <3>1. issued' = issued + 1
        BY <1>1 DEF Register
      <3> QED
        BY <1>1, <3>1, Zenon DEF Register
    <2> HIDE DEF row
    <2>6. /\ place \in {"claimed", "working", "stored"} => worker[p].w \in Works
          /\ place \in {"down", "idle", "polling"} => worker[p].w = None
          /\ place = "polling" => worker[p].stream \in Tenants
      BY DEF HandsOK, Up
    <2>7. worker' \in [Workers -> Worker] /\ HandsOK'
      BY <2>4, <2>5, <2>6, WorkerRow, Zenon
    <2> QED
      BY <1>1, <2>1, <2>2, <2>7, SMT DEF Register, TypeOK, Instances
  <1>2. ASSUME NEW p \in Workers, Stop(p) PROVE TypeInv'
    <2>1. Down \in Worker /\ Down.at = "down" /\ Down.w = None
      BY WorkAssumption, SMT DEF Down, Worker
    <2>2. worker' \in [Workers -> Worker] /\ HandsOK'
      BY <1>2, <2>1, WorkerRow, Zenon DEF Stop
    <2>3. missed' \subseteq Works
      BY <1>2 DEF Stop, TypeOK, HandsOK
    <2> QED
      BY <1>2, <2>2, <2>3 DEF Stop, TypeOK
  <1>3. ASSUME NEW p \in Workers, PollWork(p) \/ PollEnds(p) PROVE TypeInv'
    <2>1. PICK t \in Tenants \cup {None}, at \in {"idle", "polling"} :
              /\ worker' = [worker EXCEPT ![p] = [@ EXCEPT !.at = at, !.stream = t]]
              /\ at = "polling" => t \in Tenants
      BY <1>3, Zenon DEF PollWork, PollEnds
    <2> DEFINE row == [worker[p] EXCEPT !.at = at, !.stream = t]
    <2>2. worker[p].w = None /\ worker[p] \in Worker
      BY <1>0, <1>3, Zenon DEF PollWork, PollEnds, HandsOK
    <2>3. worker' = [worker EXCEPT ![p] = row]
      BY <1>0, <2>1, Zenon
    <2>4. row \in Worker /\ row.at = at /\ row.w = None /\ row.stream = t
      BY <2>2, Zenon DEF Worker
    <2>5. worker' \in [Workers -> Worker] /\ HandsOK'
      BY <2>1, <2>3, <2>4, WorkerRow, Zenon
    <2> QED
      BY <1>3, <2>5, Zenon DEF PollWork, PollEnds, TypeOK
  <1>4. ASSUME NEW p \in Workers, Claim(p) PROVE TypeInv'
    <2> DEFINE t == worker[p].stream
    <2>1. t \in Tenants /\ queue[t] \in Seq(Works) /\ queue[t] # <<>>
      BY <1>0, <1>4 DEF Claim, HandsOK
    <2>2. Head(queue[t]) \in Works /\ Tail(queue[t]) \in Seq(Works)
      BY <2>1, SMT
    <2>3. worker' \in [Workers -> Worker] /\ HandsOK'
      BY <1>0, <1>4, <2>2, ZenonT(60) DEF Claim, Takes, HandsOK, Worker
    <2>4. queue' \in [Tenants -> Seq(Works)]
      BY <1>0, <1>4, <2>1, <2>2 DEF Claim
    <2> QED
      BY <1>4, <2>3, <2>4 DEF Claim, TypeOK
  <1>5. ASSUME NEW p \in Workers, ReturnWork(p) \/ PollLost(p) PROVE TypeInv'
    <2>1. worker' \in [Workers -> Worker] /\ HandsOK'
      BY <1>5, HandsStep DEF ReturnWork, PollLost
    <2>2. Bound(p) \in [Works -> Subjects \cup {None}]
      BY <1>0, Zenon DEF Bound, Subjects
    <2>3. claimant' \in {claimant, Bound(p)}
      BY <1>5 DEF ReturnWork, PollLost
    <2> QED
      BY <1>0, <1>5, <2>1, <2>2, <2>3 DEF ReturnWork, PollLost, TypeOK
  <1>6. ASSUME NEW p \in Workers,
               SubmitResult(p) \/ Publish(p) \/ PublishFails(p) \/ GiveUp(p)
        PROVE  TypeInv'
    <2>1. worker' \in [Workers -> Worker] /\ HandsOK'
      BY <1>6, HandsStep DEF SubmitResult, Publish, PublishFails, GiveUp
    <2>2. worker[p].w \in Works
      BY <1>6 DEF SubmitResult, Publish, PublishFails, GiveUp, HandsOK
    <2>3. wait' \in [Works -> Wait]
      <3>1. CASE Publish(p)
        <4> DEFINE n == wait[worker[p].w].note \/ Subscribed(worker[p].w)
        <4>1. n \in BOOLEAN
          BY Zenon
        <4>2. wait' = [wait EXCEPT ![worker[p].w].note = n]
          BY <3>1, Zenon DEF Publish
        <4> HIDE DEF n
        <4> QED
          BY <2>2, <4>1, <4>2, WaitMoves, Zenon
      <3> QED
        BY <1>0, <1>6, <3>1 DEF SubmitResult, PublishFails, GiveUp
    <2> QED
      BY <1>6, <2>1, <2>2, <2>3 DEF SubmitResult, Publish, PublishFails, GiveUp, TypeOK
  <1>7. ASSUME NEW w \in Works, Dispatch(w) PROVE TypeInv'
    <2> PICK i \in FirstOf(TenantOf[w]), clock \in BOOLEAN :
           wait' = [wait EXCEPT ![w] = [@ EXCEPT !.at = "bind", !.clock = clock,
                                                 !.inst = IF clock THEN None ELSE i]]
      BY <1>7, Zenon DEF Dispatch
    <2>1. i \in Instances
      BY DEF FirstOf, Discover, TypeOK
    <2> DEFINE probed == IF clock THEN None ELSE i
               row == [wait[w] EXCEPT !.at = "bind", !.clock = clock, !.inst = probed]
    <2>2. wait' = [wait EXCEPT ![w] = row] /\ probed \in Instances \cup {None}
      BY <1>0, <2>1, Zenon
    <2>3. row \in Wait
      <3>1. wait[w] \in Wait
        BY <1>0
      <3> HIDE DEF probed
      <3> QED
        BY <2>2, <3>1, Zenon DEF Wait
    <2>4. wait' \in [Works -> Wait]
      BY <1>0, <2>2, <2>3, Zenon
    <2> QED
      BY <1>7, <2>4 DEF Dispatch, TypeOK, HandsOK
  <1>8. ASSUME NEW w \in Works, BindOwner(w) \/ Enqueue(w) PROVE TypeInv'
    <2>1. Appended(w) \in [Tenants -> Seq(Works)]
      BY <1>0, WorkAssumption, SMT DEF Appended
    <2>2. wait' \in [Works -> Wait]
      BY <1>8, WaitMoves, Zenon DEF BindOwner, Enqueue
    <2> QED
      BY <1>8, <2>1, <2>2 DEF BindOwner, Enqueue, TypeOK, HandsOK
  <1>9. ASSUME NEW w \in Works, EnqueueFails(w) PROVE TypeInv'
    <2>1. Appended(w) \in [Tenants -> Seq(Works)]
      BY <1>0, WorkAssumption, SMT DEF Appended
    <2>2. wait' \in [Works -> Wait]
      BY <1>9, EndWaitType DEF EnqueueFails
    <2> QED
      <3>1. queue' \in {queue, Appended(w)} /\ owner' \in {owner, [owner EXCEPT ![w] = "bound"]}
        BY <1>9, Zenon DEF EnqueueFails
      <3>2. UNCHANGED <<claimant, result, live, issued, worker, missed>>
        BY <1>9 DEF EnqueueFails
      <3>3. queue' \in [Tenants -> Seq(Works)]
        BY <1>0, <2>1, <3>1, Zenon
      <3>4. owner \in [Works -> {"none", "bound", "aged"}]
        BY DEF TypeOK
      <3>5. owner' \in [Works -> {"none", "bound", "aged"}]
        BY <3>1, <3>4
      <3> QED
        BY <2>2, <3>2, <3>3, <3>5 DEF TypeOK, HandsOK
  <1>10. ASSUME NEW w \in Works,
                \/ Subscribe(w) \/ FetchResult(w) \/ FetchFails(w) \/ Notified(w)
                \/ Elapses(w) \/ WaitFails(w) \/ ProbeFails(w)
         PROVE  TypeInv'
    <2>2. wait' \in [Works -> Wait]
      BY <1>10, WaitMoves, Zenon
      DEF Subscribe, FetchResult, FetchFails, Notified, Elapses, WaitFails, ProbeFails
    <2> QED
      BY <1>10, <2>2
      DEF Subscribe, FetchResult, FetchFails, Notified, Elapses, WaitFails, ProbeFails,
          TypeOK, HandsOK
  <1>11. ASSUME NEW w \in Works, Probe(w) PROVE TypeInv'
    <2>1. 0 \in 0..GraceProbes
      BY WorkAssumption, SMT
    <2>2. wait[w].absent + 1 < GraceProbes => wait[w].absent + 1 \in 0..GraceProbes
      BY <1>0, WorkAssumption, SMT DEF Wait
    <2>4. wait' \in [Works -> Wait]
      <3> DEFINE k == wait[w].absent + 1
      <3>1. \/ wait' = [wait EXCEPT ![w] = [@ EXCEPT !.at = "lookup", !.absent = 0]]
            \/ /\ k < GraceProbes
               /\ wait' = [wait EXCEPT ![w] = [@ EXCEPT !.at = "lookup", !.absent = k]]
            \/ wait' = EndWait(w, "gone")
        BY <1>11, Zenon DEF Probe
      <3>2. CASE k \in 0..GraceProbes /\
                 wait' = [wait EXCEPT ![w] = [@ EXCEPT !.at = "lookup", !.absent = k]]
        BY <3>2, WaitMoves, Zenon
      <3> QED
        BY <2>1, <2>2, <3>1, <3>2, WaitMoves, Zenon
    <2> QED
      BY <1>11, <2>4 DEF Probe, TypeOK, HandsOK
  <1>12. ASSUME NEW w \in Works, OwnerExpires(w) \/ ResultExpires(w) PROVE TypeInv'
    BY <1>12, Zenon DEF OwnerExpires, ResultExpires, TypeOK, HandsOK
  <1>13. ASSUME NEW i \in Instances, InstanceExpires(i) PROVE TypeInv'
    BY <1>13 DEF InstanceExpires, TypeOK, HandsOK
  <1>14. CASE UNCHANGED vars
    BY <1>14 DEF vars, TypeOK, HandsOK
  <1> QED
    BY <1>1, <1>2, <1>3, <1>4, <1>5, <1>6, <1>7, <1>8, <1>9, <1>10, <1>11, <1>12, <1>13,
       <1>14
    DEF Next, WorkerStep, WaitStep

\* Every reachable state is well typed, and a worker has an item in its hands
\* exactly between its claim and the end of its submission.
THEOREM WorkTypeCorrect == Spec => []TypeOK
  <1>1. Spec => []TypeInv
    BY InitType, TypeStep, PTL DEF Spec
  <1>2. TypeInv => TypeOK
    BY DEF TypeInv
  <1> QED
    BY <1>1, <1>2, PTL

-----------------------------------------------------------------------------
(* Rows.                                                                   *)

\* A dispatch that ends leaves the others alone and keeps its reason only.
LEMMA EndWaitRow ==
    ASSUME TypeOK, NEW w \in Works, NEW why, wait' = EndWait(w, why)
    PROVE  /\ \A v \in Works \ {w} : wait'[v] = wait[v]
           /\ wait'[w].at = "over" /\ wait'[w].why = why /\ wait'[w].absent = 0
           /\ wait'[w].inst = IF why = "gone" THEN wait[w].inst ELSE None
  <1> DEFINE probed == IF why = "gone" THEN wait[w].inst ELSE None
             row == [NewWait EXCEPT !.at = "over", !.why = why, !.inst = probed]
  <1>1. wait \in [Works -> Wait] /\ wait' = [wait EXCEPT ![w] = row]
    BY DEF TypeOK, EndWait
  <1>2. row.at = "over" /\ row.why = why /\ row.absent = 0 /\ row.inst = probed
    BY DEF NewWait
  <1> HIDE DEF row
  <1> QED
    BY <1>1, <1>2

\* What the steps of a worker do to its place and its item.
LEMMA RegisterRow ==
    ASSUME TypeInv, NEW p \in Workers, Register(p)
    PROVE  /\ \A q \in Workers \ {p} : worker'[q] = worker[q]
           /\ worker'[p].at = Up(p) /\ worker'[p].w = worker[p].w
  <1> DEFINE row == [worker[p] EXCEPT !.inst = issued', !.at = Up(p)]
  <1>1. worker \in [Workers -> Worker] /\ worker[p] \in Worker
    BY DEF TypeInv, TypeOK
  <1>2. worker' = [worker EXCEPT ![p] = row]
    BY <1>1, Zenon DEF Register
  <1>3. row.at = Up(p) /\ row.w = worker[p].w
    BY <1>1, Zenon DEF Worker
  <1> HIDE DEF row
  <1> QED
    BY <1>1, <1>2, <1>3

LEMMA PollRow ==
    ASSUME TypeInv, NEW p \in Workers, PollWork(p) \/ PollEnds(p)
    PROVE  /\ \A q \in Workers \ {p} : worker'[q] = worker[q]
           /\ worker[p].at \in {"idle", "polling"}
           /\ worker'[p].at \in {"idle", "polling"} /\ worker'[p].w = worker[p].w
  <1>1. worker \in [Workers -> Worker] /\ worker[p] \in Worker
    BY DEF TypeInv, TypeOK
  <1>2. PICK t \in Tenants \cup {None}, at \in {"idle", "polling"} :
            worker' = [worker EXCEPT ![p] = [@ EXCEPT !.at = at, !.stream = t]]
    BY Zenon DEF PollWork, PollEnds
  <1> DEFINE row == [worker[p] EXCEPT !.at = at, !.stream = t]
  <1>3. worker' = [worker EXCEPT ![p] = row]
    BY <1>1, <1>2, Zenon
  <1>4. row.at = at /\ row.w = worker[p].w
    BY <1>1, Zenon DEF Worker
  <1>5. worker[p].at \in {"idle", "polling"}
    BY Zenon DEF PollWork, PollEnds
  <1> HIDE DEF row
  <1> QED
    BY <1>1, <1>3, <1>4, <1>5

LEMMA ClaimRow ==
    ASSUME TypeInv, NEW p \in Workers, NEW w, worker' = Takes(p, w)
    PROVE  /\ \A q \in Workers \ {p} : worker'[q] = worker[q]
           /\ worker'[p].at = "claimed" /\ worker'[p].w = w
  <1> DEFINE row == [worker[p] EXCEPT !.at = "claimed", !.w = w, !.stream = None]
  <1>1. worker \in [Workers -> Worker] /\ worker[p] \in Worker
    BY DEF TypeInv, TypeOK
  <1>2. worker' = [worker EXCEPT ![p] = row]
    BY <1>1, Zenon DEF Takes
  <1>3. row.at = "claimed" /\ row.w = w
    BY <1>1, Zenon DEF Worker
  <1> HIDE DEF row
  <1> QED
    BY <1>1, <1>2, <1>3

LEMMA HandsRow ==
    ASSUME TypeInv, NEW p \in Workers
    PROVE  /\ \A at : worker' = [worker EXCEPT ![p].at = at] =>
                 /\ \A q \in Workers \ {p} : worker'[q] = worker[q]
                 /\ worker'[p].at = at /\ worker'[p].w = worker[p].w
           /\ worker' = Free(p) =>
                 /\ \A q \in Workers \ {p} : worker'[q] = worker[q]
                 /\ worker'[p].at = "idle" /\ worker'[p].w = None
  <1>1. worker \in [Workers -> Worker] /\ worker[p] \in Worker
    BY DEF TypeInv, TypeOK
  <1>2. ASSUME NEW at, worker' = [worker EXCEPT ![p].at = at]
        PROVE  /\ \A q \in Workers \ {p} : worker'[q] = worker[q]
               /\ worker'[p].at = at /\ worker'[p].w = worker[p].w
    BY <1>1, <1>2 DEF Worker
  <1>3. ASSUME worker' = Free(p)
        PROVE  /\ \A q \in Workers \ {p} : worker'[q] = worker[q]
               /\ worker'[p].at = "idle" /\ worker'[p].w = None
    <2> DEFINE row == [worker[p] EXCEPT !.at = "idle", !.w = None]
    <2>1. worker' = [worker EXCEPT ![p] = row]
      BY <1>1, <1>3, Zenon DEF Free
    <2>2. row.at = "idle" /\ row.w = None
      BY <1>1, Zenon DEF Worker
    <2> HIDE DEF row
    <2> QED
      BY <1>1, <2>1, <2>2
  <1> QED
    BY <1>2, <1>3, Zenon

\* What the steps of a wait do to its row.
LEMMA DispatchRow ==
    ASSUME TypeInv, NEW w \in Works, Dispatch(w)
    PROVE  /\ \A v \in Works \ {w} : wait'[v] = wait[v]
           /\ wait'[w].at = "bind" /\ wait'[w].absent = wait[w].absent
           /\ wait'[w].why = wait[w].why
           /\ wait'[w].inst \in FirstOf(TenantOf[w]) \cup {None}
  <1>1. wait \in [Works -> Wait] /\ wait[w] \in Wait
    BY DEF TypeInv, TypeOK
  <1> PICK i \in FirstOf(TenantOf[w]), clock \in BOOLEAN :
         wait' = [wait EXCEPT ![w] = [@ EXCEPT !.at = "bind", !.clock = clock,
                                               !.inst = IF clock THEN None ELSE i]]
    BY Zenon DEF Dispatch
  <1> DEFINE probed == IF clock THEN None ELSE i
             row == [wait[w] EXCEPT !.at = "bind", !.clock = clock, !.inst = probed]
  <1>2. wait' = [wait EXCEPT ![w] = row] /\ probed \in FirstOf(TenantOf[w]) \cup {None}
    BY <1>1, Zenon
  <1>3. row.at = "bind" /\ row.inst = probed /\ row.absent = wait[w].absent /\ row.why = wait[w].why
    BY <1>1, Zenon DEF Wait
  <1> HIDE DEF row, probed
  <1> QED
    BY <1>1, <1>2, <1>3

Moved(w, at, n) ==
    /\ \A v \in Works \ {w} : wait'[v] = wait[v]
    /\ wait'[w].at = at /\ wait'[w].absent = n
    /\ wait'[w].inst = wait[w].inst /\ wait'[w].why = wait[w].why

LEMMA MoveRow ==
    ASSUME TypeInv, NEW w \in Works, NEW at, NEW n,
           \/ wait' = [wait EXCEPT ![w].at = at] /\ n = wait[w].absent
           \/ wait' = [wait EXCEPT ![w] = [@ EXCEPT !.at = at, !.note = FALSE]]
              /\ n = wait[w].absent
           \/ wait' = [wait EXCEPT ![w] = [@ EXCEPT !.at = at, !.absent = n]]
    PROVE  Moved(w, at, n)
  <1>1. wait \in [Works -> Wait] /\ wait[w] \in Wait
    BY DEF TypeInv, TypeOK
  <1>2. PICK row : /\ wait' = [wait EXCEPT ![w] = row]
                   /\ \/ row = [wait[w] EXCEPT !.at = at] /\ n = wait[w].absent
                      \/ row = [wait[w] EXCEPT !.at = at, !.note = FALSE]
                         /\ n = wait[w].absent
                      \/ row = [wait[w] EXCEPT !.at = at, !.absent = n]
    BY <1>1, Zenon
  <1>3. /\ row.at = at /\ row.absent = n
        /\ row.inst = wait[w].inst /\ row.why = wait[w].why
    BY <1>1, <1>2, Zenon DEF Wait
  <1> QED
    BY <1>1, <1>2, <1>3 DEF Moved

Ended(w, why) ==
    /\ \A v \in Works \ {w} : wait'[v] = wait[v]
    /\ wait'[w].at = "over" /\ wait'[w].why = why /\ wait'[w].absent = 0
    /\ wait'[w].inst = IF why = "gone" THEN wait[w].inst ELSE None

\* Every step of a wait, by its row.
LEMMA WaitRow ==
    ASSUME TypeInv, NEW w \in Works
    PROVE  /\ BindOwner(w) => Moved(w, "add", wait[w].absent)
           /\ Enqueue(w) => Moved(w, "lookup", wait[w].absent)
           /\ EnqueueFails(w) \/ WaitFails(w) => Ended(w, "error")
           /\ Subscribe(w) => \/ Moved(w, "fetch", wait[w].absent)
                              \/ Ended(w, "unknown")
           /\ FetchResult(w) => \/ Moved(w, "listen", wait[w].absent) /\ w \notin result
                                \/ Ended(w, "answered")
           /\ FetchFails(w) => Moved(w, "listen", wait[w].absent)
           /\ Notified(w) => Moved(w, "fetch", wait[w].absent)
           /\ Elapses(w) => \/ Moved(w, "probe", wait[w].absent)
                            \/ Ended(w, "timeout")
           /\ Probe(w) => \/ Moved(w, "lookup", 0)
                          \/ /\ wait[w].inst \notin Discover(TenantOf[w])
                             /\ \/ Moved(w, "lookup", wait[w].absent + 1)
                                \/ Ended(w, "gone")
           /\ ProbeFails(w) => Moved(w, "lookup", wait[w].absent)
  <1>1. \A why : wait' = EndWait(w, why) => Ended(w, why)
    BY EndWaitRow DEF Ended, TypeInv
  <1>2. \A at : wait' = [wait EXCEPT ![w].at = at] => Moved(w, at, wait[w].absent)
    BY MoveRow, Zenon
  <1>3. \A at : wait' = [wait EXCEPT ![w] = [@ EXCEPT !.at = at, !.note = FALSE]]
                    => Moved(w, at, wait[w].absent)
    BY MoveRow, Zenon
  <1>4. \A n : wait' = [wait EXCEPT ![w] = [@ EXCEPT !.at = "lookup", !.absent = n]]
                   => Moved(w, "lookup", n)
    BY MoveRow, Zenon
  <1>5. BindOwner(w) => Moved(w, "add", wait[w].absent)
    BY <1>2, Zenon DEF BindOwner
  <1>6. Enqueue(w) => Moved(w, "lookup", wait[w].absent)
    BY <1>2, Zenon DEF Enqueue
  <1>7. EnqueueFails(w) \/ WaitFails(w) => Ended(w, "error")
    BY <1>1, Zenon DEF EnqueueFails, WaitFails
  <1>8. Subscribe(w) => Moved(w, "fetch", wait[w].absent) \/ Ended(w, "unknown")
    BY <1>1, <1>2, Zenon DEF Subscribe
  <1>9. FetchResult(w) => \/ Moved(w, "listen", wait[w].absent) /\ w \notin result
                          \/ Ended(w, "answered")
    BY <1>1, <1>2, Zenon DEF FetchResult
  <1>10. FetchFails(w) => Moved(w, "listen", wait[w].absent)
    BY <1>2, Zenon DEF FetchFails
  <1>11. Notified(w) => Moved(w, "fetch", wait[w].absent)
    BY <1>3, Zenon DEF Notified
  <1>12. Elapses(w) => Moved(w, "probe", wait[w].absent) \/ Ended(w, "timeout")
    BY <1>1, <1>3, Zenon DEF Elapses
  <1>13. Probe(w) => \/ Moved(w, "lookup", 0)
                     \/ /\ wait[w].inst \notin Discover(TenantOf[w])
                        /\ \/ Moved(w, "lookup", wait[w].absent + 1)
                           \/ Ended(w, "gone")
    BY <1>1, <1>4, Zenon DEF Probe
  <1>14. ProbeFails(w) => Moved(w, "lookup", wait[w].absent)
    BY <1>2, Zenon DEF ProbeFails
  <1> QED
    BY <1>5, <1>6, <1>7, <1>8, <1>9, <1>10, <1>11, <1>12, <1>13, <1>14

-----------------------------------------------------------------------------
(* No lost wake-up.                                                        *)

LEMMA NotifyStep ==
    TypeInv /\ ListenerIsNotified /\ [Next]_vars => ListenerIsNotified'
  <1> SUFFICES ASSUME TypeInv, ListenerIsNotified, [Next]_vars PROVE ListenerIsNotified'
    OBVIOUS
  <1> USE DEF TypeInv, ListenerIsNotified, Holds
  <1>0. worker \in [Workers -> Worker] /\ wait \in [Works -> Wait]
    BY DEF TypeOK
  <1>1. ASSUME NEW p \in Workers, Register(p) \/ PollWork(p) \/ PollEnds(p) \/ Claim(p)
        PROVE  ListenerIsNotified'
    <2>1. \A q \in Workers :
              worker[q].at = "stored" => worker'[q].at = "stored" /\ worker'[q].w = worker[q].w
      <3>1. CASE Register(p)
        BY <3>1, RegisterRow DEF Up
      <3>2. CASE PollWork(p) \/ PollEnds(p)
        BY <3>2, PollRow
      <3>3. CASE Claim(p)
        <4>1. worker[p].at # "stored" /\ \E h : worker' = Takes(p, h)
          BY <3>3 DEF Claim
        <4>2. \A q \in Workers \ {p} : worker'[q] = worker[q]
          BY <4>1, ClaimRow
        <4> QED
          BY <4>1, <4>2
      <3> QED
        BY <1>1, <3>1, <3>2, <3>3
    <2>2. UNCHANGED <<wait, result, missed>>
      BY <1>1, Zenon DEF Register, PollWork, PollEnds, Claim
    <2> QED
      BY <2>1, <2>2, SMT
  <1>2. ASSUME NEW p \in Workers, Stop(p) PROVE ListenerIsNotified'
    BY <1>0, <1>2, SMT DEF Stop
  <1>3. ASSUME NEW p \in Workers, ReturnWork(p) \/ PollLost(p) \/ GiveUp(p)
        PROVE  ListenerIsNotified'
    BY <1>0, <1>3, SMT DEF ReturnWork, PollLost, GiveUp, Free
  <1>4. ASSUME NEW p \in Workers, SubmitResult(p) PROVE ListenerIsNotified'
    <2>1. /\ worker'[p].at = "stored" /\ worker'[p].w = worker[p].w
          /\ \A q \in Workers \ {p} : worker'[q] = worker[q]
      BY <1>0, <1>4, SMT DEF SubmitResult, Worker
    <2> QED
      BY <1>4, <2>1, SMT DEF SubmitResult
  <1>5. ASSUME NEW p \in Workers, Publish(p) PROVE ListenerIsNotified'
    <2> DEFINE v == worker[p].w
               n == wait[v].note \/ Subscribed(v)
    <2>1. v \in Works /\ \A q \in Workers \ {p} : worker'[q] = worker[q]
      BY <1>0, <1>5 DEF Publish, HandsOK, Free
    <2>2. wait' = [wait EXCEPT ![v].note = n]
      BY <1>5, Zenon DEF Publish
    <2>3. /\ \A w \in Works \ {v} : wait'[w] = wait[w]
          /\ wait'[v].at = wait[v].at /\ wait'[v].note = n
      <3> HIDE DEF n, v
      <3> QED
        BY <1>0, <2>1, <2>2, SMT DEF Wait
    <2>4. wait'[v].at = "listen" => wait'[v].note
      BY <2>3, Zenon DEF Subscribed
    <2> QED
      BY <1>5, <2>1, <2>3, <2>4, SMT DEF Publish
  <1>6. ASSUME NEW p \in Workers, PublishFails(p) PROVE ListenerIsNotified'
    BY <1>0, <1>6 DEF PublishFails
  <1>7. ASSUME NEW w \in Works, wait'[w].at # "listen" \/ w \notin result,
               \A v \in Works \ {w} : wait'[v] = wait[v],
               UNCHANGED <<result, worker, missed>>
        PROVE  ListenerIsNotified'
    BY <1>7, SMT
  <1>8. ASSUME NEW w \in Works, Dispatch(w) PROVE ListenerIsNotified'
    BY <1>7, <1>8, DispatchRow, Zenon DEF Dispatch
  <1>9. ASSUME NEW w \in Works,
               \/ BindOwner(w) \/ Enqueue(w) \/ EnqueueFails(w) \/ WaitFails(w)
               \/ Subscribe(w) \/ FetchResult(w) \/ Notified(w) \/ Elapses(w)
               \/ Probe(w) \/ ProbeFails(w)
        PROVE  ListenerIsNotified'
    <2>1. /\ wait'[w].at # "listen" \/ w \notin result
          /\ \A v \in Works \ {w} : wait'[v] = wait[v]
      BY <1>9, WaitRow DEF Moved, Ended
    <2>2. UNCHANGED <<result, worker, missed>>
      BY <1>9
      DEF BindOwner, Enqueue, EnqueueFails, WaitFails, Subscribe, FetchResult, Notified,
          Elapses, Probe, ProbeFails
    <2> QED
      BY <1>7, <2>1, <2>2
  <1>10. ASSUME NEW w \in Works, FetchFails(w) PROVE ListenerIsNotified'
    <2>1. \A v \in Works \ {w} : wait'[v] = wait[v]
      BY <1>10, WaitRow DEF Moved
    <2> QED
      BY <1>10, <2>1 DEF FetchFails
  <1>11. ASSUME NEW w \in Works, OwnerExpires(w) \/ ResultExpires(w) PROVE ListenerIsNotified'
    BY <1>11, SMT DEF OwnerExpires, ResultExpires
  <1>12. ASSUME NEW i \in Instances, InstanceExpires(i) PROVE ListenerIsNotified'
    BY <1>12 DEF InstanceExpires
  <1>13. CASE UNCHANGED vars
    BY <1>13 DEF vars
  <1> QED
    BY <1>1, <1>2, <1>3, <1>4, <1>5, <1>6, <1>8, <1>9, <1>10, <1>11, <1>12, <1>13
    DEF Next, WorkerStep, WaitStep

\* WaitForResult loses no wake-up: whenever it listens and the result is stored, a
\* message is in its subscription or the PUBLISH is to come, whatever the workers,
\* the expiries and the other dispatches do in between.
THEOREM NoLostWakeUp == Spec => []ListenerIsNotified
  <1>1. Init => ListenerIsNotified
    BY DEF Init, ListenerIsNotified
  <1> QED
    BY <1>1, InitType, TypeStep, NotifyStep, PTL DEF Spec

-----------------------------------------------------------------------------
(* One place for an item.                                                  *)

\* Strengthening of TakenOnce and QueuedIsBound: a stream has only the items of
\* its tenant, and an item whose dispatch has not reached the XADD is nowhere yet,
\* has no claim and no answer, and has its binding when the XADD comes.
PlaceInv ==
    /\ \A t \in Tenants : \A i \in DOMAIN queue[t] : TenantOf[queue[t][i]] = t
    /\ \A w \in Works :
           wait[w].at \in {"new", "bind", "add"} =>
               /\ ~Queued(w) /\ \A p \in Workers : ~Holds(p, w)
               /\ claimant[w] = None /\ w \notin result
    /\ \A w \in Works : wait[w].at = "add" => owner[w] # "none"
    /\ TakenOnce
    /\ QueuedIsBound

Fresh(w) == wait[w].at \in {"new", "bind", "add"}

\* Steps that put no item on a stream or in new hands.  A claim is bound and a
\* result stored only for an item in hand.
LEMMA PlaceQuiet ==
    ASSUME TypeInv, PlaceInv, queue' = queue,
           \A p \in Workers : worker'[p].w \in {worker[p].w, None},
           \A w \in Works : owner[w] # "none" => owner'[w] # "none",
           \A w \in Works : claimant'[w] = claimant[w] \/ \E p \in Workers : Holds(p, w),
           \A w \in Works : w \in result' => w \in result \/ \E p \in Workers : Holds(p, w),
           \A w \in Works : Fresh(w)' => Fresh(w),
           \A w \in Works : wait'[w].at = "add" => wait[w].at = "add" \/ owner'[w] # "none"
    PROVE  PlaceInv'
  <1>1. \A w \in Works : Queued(w)' <=> Queued(w)
    BY DEF Queued
  <1>2. \A w \in Works : \A p \in Workers : Holds(p, w)' => Holds(p, w)
    BY WorkAssumption DEF Holds
  <1>3. TakenOnce'
    BY <1>1, <1>2 DEF PlaceInv, TakenOnce
  <1>4. QueuedIsBound'
    BY <1>1, <1>2 DEF PlaceInv, QueuedIsBound
  <1>5. \A w \in Works :
            wait'[w].at \in {"new", "bind", "add"} =>
                /\ ~Queued(w)' /\ \A p \in Workers : ~Holds(p, w)'
                /\ claimant'[w] = None /\ w \notin result'
    BY <1>1, <1>2 DEF PlaceInv, Fresh
  <1>6. \A w \in Works : wait'[w].at = "add" => owner'[w] # "none"
    BY DEF PlaceInv
  <1> QED
    BY <1>3, <1>4, <1>5, <1>6 DEF PlaceInv

\* The XADD of an item whose dispatch is there.
LEMMA PlaceAppend ==
    ASSUME TypeInv, PlaceInv, NEW w \in Works, wait[w].at = "add", queue' = Appended(w),
           UNCHANGED <<owner, claimant, result, worker>>,
           ~Fresh(w)', \A v \in Works \ {w} : wait'[v] = wait[v]
    PROVE  PlaceInv'
  <1>0. PICK t : t = TenantOf[w]
    OBVIOUS
  <1>1. t \in Tenants /\ queue \in [Tenants -> Seq(Works)] /\ queue[t] \in Seq(Works)
    BY <1>0, WorkAssumption DEF TypeInv, TypeOK
  <1>2. queue'[t] = Append(queue[t], w) /\ \A u \in Tenants \ {t} : queue'[u] = queue[u]
    BY <1>0, <1>1 DEF Appended
  <1>3. /\ DOMAIN queue[t] = 1..Len(queue[t]) /\ Len(queue[t]) \in Nat
        /\ DOMAIN queue'[t] = 1..(Len(queue[t]) + 1)
        /\ queue'[t][Len(queue[t]) + 1] = w
        /\ \A i \in DOMAIN queue[t] : queue'[t][i] = queue[t][i]
    BY <1>1, <1>2, SMT
  <1>3b. \A k \in DOMAIN queue'[t] : k \in DOMAIN queue[t] \/ k = Len(queue[t]) + 1
    BY <1>3, SMT
  <1>4. ~Queued(w) /\ \A p \in Workers : ~Holds(p, w)
    BY DEF PlaceInv
  <1>5. claimant[w] = None /\ w \notin result /\ owner[w] # "none"
    BY DEF PlaceInv
  <1>6. \A i \in DOMAIN queue[t] : queue[t][i] # w
    BY <1>0, <1>4 DEF Queued
  <1>7. \A v \in Works \ {w} : TenantOf[v] \in Tenants /\ (Queued(v)' <=> Queued(v))
    <2> SUFFICES ASSUME NEW v \in Works \ {w} PROVE Queued(v)' <=> Queued(v)
      BY WorkAssumption
    <2>1. CASE TenantOf[v] = t
      <3>1. \A i \in DOMAIN queue[t] : i \in DOMAIN queue'[t]
        BY <1>3, SMT
      <3> QED
        BY <1>3, <1>3b, <2>1, <3>1 DEF Queued
    <2>2. CASE TenantOf[v] # t
      BY <1>2, <2>2, WorkAssumption DEF Queued
    <2> QED
      BY <2>1, <2>2
  <1>8. \A u \in Tenants : \A i \in DOMAIN queue'[u] : TenantOf[queue'[u][i]] = u
    <2>1. \A i \in DOMAIN queue'[t] : TenantOf[queue'[t][i]] = t
      <3>1. \A i \in DOMAIN queue[t] : TenantOf[queue[t][i]] = t
        BY <1>1 DEF PlaceInv
      <3>2. \A i \in DOMAIN queue[t] : TenantOf[queue'[t][i]] = t
        BY <1>3, <3>1
      <3>3. TenantOf[queue'[t][Len(queue[t]) + 1]] = t
        BY <1>0, <1>3
      <3> QED
        BY <1>3b, <3>2, <3>3
    <2> QED
      BY <1>2, <2>1 DEF PlaceInv
  <1>9. \A v \in Works :
            /\ \A p, q \in Workers : Holds(p, v)' /\ Holds(q, v)' => p = q
            /\ Queued(v)' => /\ \A p \in Workers : ~Holds(p, v)'
                             /\ claimant'[v] = None /\ v \notin result'
    BY <1>4, <1>5, <1>7 DEF PlaceInv, TakenOnce, Holds
  <1>10. \A v \in Works : \A i, j \in DOMAIN queue'[TenantOf[v]] :
             queue'[TenantOf[v]][i] = v /\ queue'[TenantOf[v]][j] = v => i = j
    <2> SUFFICES ASSUME NEW v \in Works, NEW i \in DOMAIN queue'[TenantOf[v]],
                        NEW j \in DOMAIN queue'[TenantOf[v]],
                        queue'[TenantOf[v]][i] = v, queue'[TenantOf[v]][j] = v
                 PROVE  i = j
      OBVIOUS
    <2>1. \A k, l \in DOMAIN queue[TenantOf[v]] :
              queue[TenantOf[v]][k] = v /\ queue[TenantOf[v]][l] = v => k = l
      BY DEF PlaceInv, TakenOnce
    <2>2. CASE TenantOf[v] # t
      BY <1>2, <2>1, <2>2, WorkAssumption, SMT
    <2>3. ASSUME TenantOf[v] = t
          PROVE  /\ i \in DOMAIN queue'[t] /\ j \in DOMAIN queue'[t]
                 /\ queue'[t][i] = v /\ queue'[t][j] = v
                 /\ i \in DOMAIN queue[t] \/ i = Len(queue[t]) + 1
                 /\ j \in DOMAIN queue[t] \/ j = Len(queue[t]) + 1
      <3>1. /\ i \in DOMAIN queue'[t] /\ j \in DOMAIN queue'[t]
            /\ queue'[t][i] = v /\ queue'[t][j] = v
        BY <2>3
      <3> QED
        BY <1>3b, <3>1
    <2>4. CASE TenantOf[v] = t /\ v # w
      BY <1>3, <2>1, <2>3, <2>4
    <2>5. CASE v = w
      BY <1>0, <1>3, <1>6, <2>3, <2>5
    <2> QED
      BY <2>2, <2>4, <2>5
  <1>11. QueuedIsBound'
    BY <1>4, <1>5, <1>7 DEF PlaceInv, QueuedIsBound, Holds
  <1>12. \A v \in Works :
             /\ Fresh(v)' => /\ ~Queued(v)' /\ \A p \in Workers : ~Holds(p, v)'
                             /\ claimant'[v] = None /\ v \notin result'
             /\ wait'[v].at = "add" => owner'[v] # "none"
    BY <1>7 DEF PlaceInv, Fresh, Holds
  <1> QED
    <2>1. TakenOnce'
      BY <1>9, <1>10 DEF TakenOnce
    <2> QED
      BY <1>8, <1>11, <1>12, <2>1 DEF PlaceInv, Fresh

\* The claim takes the head of a stream, which nobody has.
LEMMA PlaceClaim ==
    ASSUME TypeInv, PlaceInv, NEW p \in Workers, Claim(p)
    PROVE  PlaceInv'
  <1>0. PICK t, h : t = worker[p].stream /\ h = Head(queue[t])
    OBVIOUS
  <1>1. /\ t \in Tenants /\ queue \in [Tenants -> Seq(Works)]
        /\ queue[t] \in Seq(Works) /\ queue[t] # <<>>
    BY <1>0 DEF Claim, TypeInv, TypeOK, HandsOK
  <1>2. queue'[t] = Tail(queue[t]) /\ \A u \in Tenants \ {t} : queue'[u] = queue[u]
    BY <1>0, <1>1 DEF Claim
  <1>3. /\ DOMAIN queue[t] = 1..Len(queue[t]) /\ Len(queue[t]) \in Nat \ {0}
        /\ DOMAIN queue'[t] = 1..(Len(queue[t]) - 1)
        /\ \A i \in DOMAIN queue'[t] : queue'[t][i] = queue[t][i + 1]
        /\ h = queue[t][1] /\ h \in Works
    BY <1>0, <1>1, <1>2, SMT
  <1>4. worker'[p].w = h /\ \A q \in Workers \ {p} : worker'[q] = worker[q]
    BY <1>0, ClaimRow DEF Claim
  <1>5. UNCHANGED <<owner, claimant, result, wait>>
    BY DEF Claim
  <1>6. TenantOf[h] = t /\ Queued(h)
    BY <1>1, <1>3, SMT DEF PlaceInv, Queued
  <1>7. \A v \in Works : Queued(v)' => Queued(v) /\ v # h
    <2> SUFFICES ASSUME NEW v \in Works, Queued(v)' PROVE Queued(v) /\ v # h
      OBVIOUS
    <2>1. PICK i \in DOMAIN queue'[TenantOf[v]] : queue'[TenantOf[v]][i] = v
      BY WorkAssumption DEF Queued
    <2>2. CASE TenantOf[v] # t
      BY <1>2, <1>6, <2>1, <2>2, WorkAssumption DEF Queued
    <2>3. CASE TenantOf[v] = t
      <3>1. i \in 1..(Len(queue[t]) - 1) /\ queue[t][i + 1] = v
        BY <1>3, <2>1, <2>3
      <3>2. i + 1 \in DOMAIN queue[t] /\ 1 \in DOMAIN queue[t] /\ i + 1 # 1
        BY <1>3, <3>1, SMT
      <3>3. v # h
        BY <1>3, <2>3, <3>1, <3>2, Zenon DEF PlaceInv, TakenOnce
      <3> QED
        BY <2>3, <3>1, <3>2, <3>3 DEF Queued
    <2> QED
      BY <2>2, <2>3
  <1>8. /\ owner[h] # "none" /\ ~Fresh(h)
        /\ \A q \in Workers : ~Holds(q, h)
    BY <1>3, <1>6 DEF PlaceInv, TakenOnce, QueuedIsBound, Fresh
  <1>9. \A v \in Works \ {h} : \A q \in Workers : Holds(q, v)' => Holds(q, v)
    BY <1>4 DEF Holds
  <1>10. \A q \in Workers : Holds(q, h)' => q = p
    BY <1>4, <1>8 DEF Holds
  <1>11. \A u \in Tenants : \A i \in DOMAIN queue'[u] : TenantOf[queue'[u][i]] = u
    <2>1. \A i \in DOMAIN queue'[t] : TenantOf[queue'[t][i]] = t
      BY <1>1, <1>3, SMT DEF PlaceInv
    <2> QED
      BY <1>2, <2>1, Zenon DEF PlaceInv
  <1>12. \A v \in Works :
            /\ \A q, r \in Workers : Holds(q, v)' /\ Holds(r, v)' => q = r
            /\ Queued(v)' => /\ \A q \in Workers : ~Holds(q, v)'
                             /\ claimant'[v] = None /\ v \notin result'
    BY <1>5, <1>7, <1>9, <1>10, SMT DEF PlaceInv, TakenOnce
  <1>13. \A v \in Works : \A i, j \in DOMAIN queue'[TenantOf[v]] :
             queue'[TenantOf[v]][i] = v /\ queue'[TenantOf[v]][j] = v => i = j
    <2> SUFFICES ASSUME NEW v \in Works, NEW i \in DOMAIN queue'[TenantOf[v]],
                        NEW j \in DOMAIN queue'[TenantOf[v]],
                        queue'[TenantOf[v]][i] = v, queue'[TenantOf[v]][j] = v
                 PROVE  i = j
      OBVIOUS
    <2>1. \A k, l \in DOMAIN queue[TenantOf[v]] :
              queue[TenantOf[v]][k] = v /\ queue[TenantOf[v]][l] = v => k = l
      BY DEF PlaceInv, TakenOnce
    <2>2. CASE TenantOf[v] # t
      BY <1>2, <2>1, <2>2, WorkAssumption
    <2>3. CASE TenantOf[v] = t
      <3>1. /\ i \in 1..(Len(queue[t]) - 1) /\ queue[t][i + 1] = v
            /\ j \in 1..(Len(queue[t]) - 1) /\ queue[t][j + 1] = v
        BY <1>3, <2>3
      <3>2. i + 1 \in DOMAIN queue[t] /\ j + 1 \in DOMAIN queue[t]
        BY <1>3, <3>1, SMT
      <3>3. i + 1 = j + 1
        BY <2>1, <2>3, <3>1, <3>2
      <3> QED
        BY <3>1, <3>3, SMT
    <2> QED
      BY <2>2, <2>3
  <1>14. QueuedIsBound'
    BY <1>5, <1>7, <1>8, <1>9 DEF PlaceInv, QueuedIsBound
  <1>15. \A v \in Works :
             /\ Fresh(v)' => /\ ~Queued(v)' /\ \A q \in Workers : ~Holds(q, v)'
                             /\ claimant'[v] = None /\ v \notin result'
             /\ wait'[v].at = "add" => owner'[v] # "none"
    BY <1>5, <1>7, <1>8, <1>9 DEF PlaceInv, Fresh
  <1> QED
    <2>1. TakenOnce'
      BY <1>12, <1>13 DEF TakenOnce
    <2> QED
      BY <1>11, <1>14, <1>15, <2>1 DEF PlaceInv, Fresh

LEMMA PlaceStep == TypeInv /\ PlaceInv /\ [Next]_vars => PlaceInv'
  <1> SUFFICES ASSUME TypeInv, PlaceInv, [Next]_vars PROVE PlaceInv'
    OBVIOUS
  <1>0. /\ worker \in [Workers -> Worker] /\ wait \in [Works -> Wait]
        /\ claimant \in [Works -> Subjects \cup {None}] /\ owner \in [Works -> {"none", "bound", "aged"}]
    BY DEF TypeInv, TypeOK
  \* Steps of a worker other than the claim.
  <1>1. ASSUME UNCHANGED <<queue, owner>>,
               \A p \in Workers : worker'[p].w \in {worker[p].w, None},
               \A w \in Works : wait'[w].at = wait[w].at,
               \A w \in Works : claimant'[w] = claimant[w] \/ \E p \in Workers : Holds(p, w),
               \A w \in Works : w \in result' => w \in result \/ \E p \in Workers : Holds(p, w)
        PROVE  PlaceInv'
    BY <1>1, PlaceQuiet DEF Fresh
  <1>2. ASSUME NEW p \in Workers, Register(p) \/ PollWork(p) \/ PollEnds(p) PROVE PlaceInv'
    <2>1. \A q \in Workers : worker'[q].w \in {worker[q].w, None}
      BY <1>2, RegisterRow, PollRow
    <2> QED
      BY <1>1, <1>2, <2>1, Zenon DEF Register, PollWork, PollEnds
  <1>3. ASSUME NEW p \in Workers, Stop(p) PROVE PlaceInv'
    <2>1. \A q \in Workers : worker'[q].w \in {worker[q].w, None}
      BY <1>0, <1>3 DEF Stop, Down
    <2> QED
      BY <1>1, <1>3, <2>1 DEF Stop
  <1>4. ASSUME NEW p \in Workers,
               \/ ReturnWork(p) \/ PollLost(p) \/ SubmitResult(p) \/ PublishFails(p) \/ GiveUp(p)
        PROVE  PlaceInv'
    <2>1. \A q \in Workers : worker'[q].w \in {worker[q].w, None}
      BY <1>4, HandsRow DEF ReturnWork, PollLost, SubmitResult, PublishFails, GiveUp
    <2>2. \A w \in Works : Bound(p)[w] = claimant[w] \/ Holds(p, w)
      BY <1>0 DEF Bound, Holds
    <2>3. claimant' \in {claimant, Bound(p)} /\ result' \subseteq result \cup {worker[p].w}
      BY <1>4 DEF ReturnWork, PollLost, SubmitResult, PublishFails, GiveUp
    <2>4. UNCHANGED <<queue, owner, wait>>
      BY <1>4 DEF ReturnWork, PollLost, SubmitResult, PublishFails, GiveUp
    <2> QED
      BY <1>1, <2>1, <2>2, <2>3, <2>4 DEF Holds
  <1>5. ASSUME NEW p \in Workers, Publish(p) PROVE PlaceInv'
    <2> DEFINE v == worker[p].w
               n == wait[v].note \/ Subscribed(v)
    <2>1. wait' = [wait EXCEPT ![v].note = n]
      BY <1>5, Zenon DEF Publish
    <2>2. \A w \in Works : wait'[w].at = wait[w].at
      <3> HIDE DEF n, v
      <3> QED
        BY <1>0, <2>1, SMT DEF Wait
    <2>3. \A q \in Workers : worker'[q].w \in {worker[q].w, None}
      BY <1>5, HandsRow DEF Publish
    <2> QED
      BY <1>1, <1>5, <2>2, <2>3 DEF Publish
  \* Steps of a dispatch other than the XADD.
  <1>6. ASSUME NEW w \in Works, UNCHANGED <<queue, claimant, result, worker>>,
               \A v \in Works : owner[v] # "none" => owner'[v] # "none",
               \A v \in Works \ {w} : wait'[v] = wait[v],
               Fresh(w)' => Fresh(w), wait'[w].at = "add" => owner'[w] # "none"
        PROVE  PlaceInv'
    BY <1>6, PlaceQuiet DEF Fresh
  <1>7. ASSUME NEW w \in Works, Dispatch(w) PROVE PlaceInv'
    BY <1>6, <1>7, DispatchRow, Zenon DEF Dispatch, Fresh
  <1>8. ASSUME NEW w \in Works, BindOwner(w) PROVE PlaceInv'
    <2>1. Moved(w, "add", wait[w].absent)
      BY <1>8, WaitRow
    <2>2. owner'[w] = "bound" /\ \A v \in Works : owner[v] # "none" => owner'[v] # "none"
      BY <1>0, <1>8 DEF BindOwner
    <2> QED
      BY <1>6, <1>8, <2>1, <2>2 DEF BindOwner, Moved, Fresh
  <1>9. ASSUME NEW w \in Works, Enqueue(w) PROVE PlaceInv'
    BY <1>9, WaitRow, PlaceAppend, Zenon DEF Enqueue, Moved, Fresh
  <1>10. ASSUME NEW w \in Works, EnqueueFails(w) PROVE PlaceInv'
    <2>1. Ended(w, "error")
      BY <1>10, WaitRow
    <2>2. ~Fresh(w)' /\ \A v \in Works \ {w} : wait'[v] = wait[v]
      BY <2>1 DEF Ended, Fresh
    <2>3. UNCHANGED <<claimant, result, worker>>
      BY <1>10 DEF EnqueueFails
    <2>4. CASE wait[w].at = "add" /\ queue' = Appended(w) /\ UNCHANGED owner
      BY <2>2, <2>3, <2>4, PlaceAppend
    <2>5. CASE queue' = queue /\ owner' \in {owner, [owner EXCEPT ![w] = "bound"]}
      <3>1. \A v \in Works : owner[v] # "none" => owner'[v] # "none"
        BY <1>0, <2>5
      <3> QED
        BY <1>6, <2>2, <2>3, <2>5, <3>1 DEF Fresh
    <2> QED
      BY <1>10, <2>4, <2>5 DEF EnqueueFails
  <1>11. ASSUME NEW w \in Works,
                \/ Subscribe(w) \/ FetchResult(w) \/ FetchFails(w) \/ Notified(w)
                \/ Elapses(w) \/ Probe(w) \/ ProbeFails(w) \/ WaitFails(w)
         PROVE  PlaceInv'
    <2>1. ~Fresh(w)' /\ wait'[w].at # "add" /\ \A v \in Works \ {w} : wait'[v] = wait[v]
      BY <1>11, WaitRow DEF Moved, Ended, Fresh
    <2>2. UNCHANGED <<queue, claimant, result, worker, owner>>
      BY <1>11
      DEF Subscribe, FetchResult, FetchFails, Notified, Elapses, Probe, ProbeFails, WaitFails
    <2> QED
      BY <1>6, <2>1, <2>2
  <1>12. ASSUME NEW w \in Works, OwnerExpires(w) PROVE PlaceInv'
    BY <1>0, <1>12, PlaceQuiet DEF OwnerExpires, Fresh
  <1>13. ASSUME NEW w \in Works, ResultExpires(w) PROVE PlaceInv'
    BY <1>1, <1>13 DEF ResultExpires
  <1>14. ASSUME NEW i \in Instances, InstanceExpires(i) PROVE PlaceInv'
    BY <1>1, <1>14 DEF InstanceExpires
  <1>15. CASE UNCHANGED vars
    BY <1>1, <1>15 DEF vars
  <1> QED
    BY <1>2, <1>3, <1>4, <1>5, <1>7, <1>8, <1>9, <1>10, <1>11, <1>12, <1>13, <1>14, <1>15,
       PlaceClaim
    DEF Next, WorkerStep, WaitStep

LEMMA PlaceInit == Init => PlaceInv
  BY WorkAssumption, SMT
  DEF Init, PlaceInv, TakenOnce, QueuedIsBound, Queued, Holds, Down, NewWait

\* An item is in one place at most, for any number of workers, items and tenants:
\* claims of two workers, lost polls, crashes and repeated submissions never lead to
\* a second execution of it.
THEOREM OneExecution == Spec => []TakenOnce
  <1>1. PlaceInv => TakenOnce
    BY DEF PlaceInv
  <1> QED
    BY <1>1, PlaceInit, InitType, TypeStep, PlaceStep, PTL DEF Spec

\* Whatever can be taken or is in work has its owner binding: Enqueue binds before
\* the XADD, also when either of the two writes fails.
THEOREM BoundBeforeTaken == Spec => []QueuedIsBound
  <1>1. PlaceInv => QueuedIsBound
    BY DEF PlaceInv
  <1> QED
    BY <1>1, PlaceInit, InitType, TypeStep, PlaceStep, PTL DEF Spec

-----------------------------------------------------------------------------
(* The registry and the probes.                                            *)

\* Strengthening of AbsentMeansGone: ids are issued in order and never again, a
\* recorded instance is one that Discover would list for the item, and no count
\* starts before the dispatch has recorded one.
ProbeInv ==
    /\ \A i \in live : i[2] <= issued
    /\ \A w \in Works :
           wait[w].inst # None => /\ wait[w].inst[2] <= issued
                                  /\ HomeOf[wait[w].inst[1]] \in {TenantOf[w], System}
    /\ \A w \in Works : wait[w].at = "new" => wait[w].absent = 0 /\ wait[w].why = "waiting"
    /\ AbsentMeansGone

\* Steps that leave the waits and the ids alone.
LEMMA ProbeQuiet ==
    ASSUME ProbeInv, live' \subseteq live, issued' = issued,
           \A w \in Works : /\ wait'[w].inst = wait[w].inst /\ wait'[w].at = wait[w].at
                            /\ wait'[w].absent = wait[w].absent /\ wait'[w].why = wait[w].why
    PROVE  ProbeInv'
  BY SMT DEF ProbeInv, AbsentMeansGone

LEMMA ProbeStep == TypeInv /\ ProbeInv /\ [Next]_vars => ProbeInv'
  <1> SUFFICES ASSUME TypeInv, ProbeInv, [Next]_vars PROVE ProbeInv'
    OBVIOUS
  <1>0. /\ live \subseteq Instances /\ issued \in Nat /\ None \notin live
        /\ wait \in [Works -> Wait] /\ \A w \in Works : wait[w].absent \in Nat
        /\ \A i \in Instances : i # None /\ i[2] \in Nat
    BY WorkAssumption, SMT DEF TypeInv, TypeOK, Wait, Instances
  <1>1. ASSUME NEW p \in Workers, Register(p) PROVE ProbeInv'
    <2> DEFINE new == <<p, issued + 1>>
    <2>1. /\ issued' = issued + 1 /\ live' = live \cup {new} /\ UNCHANGED wait
          /\ new \in Instances /\ new[2] = issued + 1
      BY <1>0, <1>1, WorkAssumption, SMT DEF Register, Instances
    <2>2. \A w \in Works : wait[w].inst # new
      BY <1>0, <2>1, SMT DEF ProbeInv
    <2> HIDE DEF new
    <2>3. (\A i \in live : i[2] <= issued)' /\ AbsentMeansGone'
      BY <1>0, <2>1, <2>2, SMT DEF ProbeInv, AbsentMeansGone
    <2>4. \A w \in Works : wait[w].inst # None => wait[w].inst \in Instances
      BY DEF TypeInv, TypeOK, Wait
    <2> QED
      BY <1>0, <2>1, <2>3, <2>4, SMT DEF ProbeInv
  <1>2. ASSUME NEW p \in Workers, Publish(p) PROVE ProbeInv'
    <2> DEFINE v == worker[p].w
               n == wait[v].note \/ Subscribed(v)
    <2>1. wait' = [wait EXCEPT ![v].note = n]
      BY <1>2, Zenon DEF Publish
    <2>2. \A w \in Works : /\ wait'[w].inst = wait[w].inst /\ wait'[w].at = wait[w].at
                           /\ wait'[w].absent = wait[w].absent /\ wait'[w].why = wait[w].why
      <3> HIDE DEF n, v
      <3> QED
        BY <1>0, <2>1, SMT DEF Wait
    <2> QED
      BY <1>2, <2>2, ProbeQuiet DEF Publish
  <1>3. ASSUME NEW p \in Workers,
               \/ Stop(p) \/ PollWork(p) \/ PollEnds(p) \/ Claim(p) \/ ReturnWork(p)
               \/ PollLost(p) \/ SubmitResult(p) \/ PublishFails(p) \/ GiveUp(p)
        PROVE  ProbeInv'
    <2>1. live' \subseteq live /\ issued' = issued /\ wait' = wait
      BY <1>3, Zenon
      DEF Stop, PollWork, PollEnds, Claim, ReturnWork, PollLost, SubmitResult, PublishFails, GiveUp
    <2> QED
      BY <2>1, ProbeQuiet
  <1>4. ASSUME NEW w \in Works, live' = live, issued' = issued,
               \A v \in Works \ {w} : wait'[v] = wait[v],
               wait'[w].inst # None => /\ wait'[w].inst[2] <= issued
                                       /\ HomeOf[wait'[w].inst[1]] \in {TenantOf[w], System},
               wait'[w].at # "new",
               wait'[w].absent > 0 \/ wait'[w].why = "gone" => wait'[w].inst \notin live
        PROVE  ProbeInv'
    BY <1>4 DEF ProbeInv, AbsentMeansGone
  <1>5. ASSUME NEW w \in Works, Dispatch(w) PROVE ProbeInv'
    <2>1. \A i \in FirstOf(TenantOf[w]) :
              i[2] <= issued /\ HomeOf[i[1]] \in {TenantOf[w], System}
      BY DEF FirstOf, Discover, ProbeInv
    <2>2. wait[w].absent = 0 /\ wait[w].why = "waiting"
      BY <1>5 DEF Dispatch, ProbeInv
    <2>3. /\ live' = live /\ issued' = issued
      BY <1>5 DEF Dispatch
    <2>4. /\ \A v \in Works \ {w} : wait'[v] = wait[v]
          /\ wait'[w].at = "bind" /\ wait'[w].absent = 0 /\ wait'[w].why = "waiting"
          /\ wait'[w].inst \in FirstOf(TenantOf[w]) \cup {None}
      BY <1>5, <2>2, DispatchRow
    <2> QED
      BY <1>4, <2>1, <2>3, <2>4, SMT
  <1>6. ASSUME NEW w \in Works, NEW at, NEW n \in Nat, Moved(w, at, n), at # "new",
               live' = live, issued' = issued,
               n > 0 => wait[w].absent > 0 \/ wait[w].inst \notin live
        PROVE  ProbeInv'
    <2>1. /\ wait[w].inst # None => /\ wait[w].inst[2] <= issued
                                    /\ HomeOf[wait[w].inst[1]] \in {TenantOf[w], System}
          /\ wait[w].absent > 0 \/ wait[w].why = "gone" => wait[w].inst \notin live
      BY DEF ProbeInv, AbsentMeansGone
    <2>2. /\ \A v \in Works \ {w} : wait'[v] = wait[v]
          /\ wait'[w].at = at /\ wait'[w].absent = n
          /\ wait'[w].inst = wait[w].inst /\ wait'[w].why = wait[w].why
      BY <1>6 DEF Moved
    <2> QED
      BY <1>4, <1>6, <2>1, <2>2
  <1>7. ASSUME NEW w \in Works, NEW why, Ended(w, why), live' = live, issued' = issued,
               why = "gone" => wait[w].inst \notin live
        PROVE  ProbeInv'
    <2>1. wait[w].inst # None => /\ wait[w].inst[2] <= issued
                                 /\ HomeOf[wait[w].inst[1]] \in {TenantOf[w], System}
      BY DEF ProbeInv
    <2>2. /\ \A v \in Works \ {w} : wait'[v] = wait[v]
          /\ wait'[w].at = "over" /\ wait'[w].why = why /\ wait'[w].absent = 0
          /\ wait'[w].inst = IF why = "gone" THEN wait[w].inst ELSE None
      BY <1>7 DEF Ended
    <2> QED
      BY <1>4, <1>7, <2>1, <2>2, SMT
  <1>8. ASSUME NEW w \in Works, Probe(w) PROVE ProbeInv'
    <2>1. wait[w].inst \notin Discover(TenantOf[w]) => wait[w].inst \notin live
      BY <1>0 DEF Discover, ProbeInv
    <2>2. live' = live /\ issued' = issued
      BY <1>8 DEF Probe
    <2>3. CASE Moved(w, "lookup", 0)
      BY <1>6, <2>2, <2>3, SMT
    <2>4. CASE wait[w].inst \notin live /\ Moved(w, "lookup", wait[w].absent + 1)
      BY <1>0, <1>6, <2>2, <2>4, SMT
    <2>5. CASE wait[w].inst \notin live /\ Ended(w, "gone")
      BY <1>7, <2>2, <2>5
    <2> QED
      BY <1>8, <2>1, <2>3, <2>4, <2>5, WaitRow
  <1>9. ASSUME NEW w \in Works,
               \/ BindOwner(w) \/ Enqueue(w) \/ EnqueueFails(w) \/ WaitFails(w)
               \/ Subscribe(w) \/ FetchResult(w) \/ FetchFails(w) \/ Notified(w)
               \/ Elapses(w) \/ ProbeFails(w)
        PROVE  ProbeInv'
    <2>1. live' = live /\ issued' = issued
      BY <1>9
      DEF BindOwner, Enqueue, EnqueueFails, WaitFails, Subscribe, FetchResult, FetchFails,
          Notified, Elapses, ProbeFails
    <2>2. ASSUME NEW at \in {"add", "lookup", "fetch", "listen", "probe"},
                 Moved(w, at, wait[w].absent)
          PROVE  ProbeInv'
      BY <1>0, <1>6, <2>1, <2>2
    <2>3. ASSUME NEW why \in {"error", "unknown", "answered", "timeout"}, Ended(w, why)
          PROVE  ProbeInv'
      BY <1>7, <2>1, <2>3
    <2> QED
      BY <1>9, <2>2, <2>3, WaitRow
  <1>10. ASSUME NEW w \in Works, OwnerExpires(w) \/ ResultExpires(w) PROVE ProbeInv'
    BY <1>10, ProbeQuiet DEF OwnerExpires, ResultExpires
  <1>11. ASSUME NEW i \in Instances, InstanceExpires(i) PROVE ProbeInv'
    BY <1>11, ProbeQuiet DEF InstanceExpires
  <1>12. CASE UNCHANGED vars
    BY <1>12, ProbeQuiet DEF vars
  <1> QED
    BY <1>1, <1>2, <1>3, <1>5, <1>8, <1>9, <1>10, <1>11, <1>12
    DEF Next, WorkerStep, WaitStep

\* A probe counts against a worker, and a wait fails with errWorkerGone, only when
\* the recorded instance is out of the registry: registrations get new ids, so it
\* does not come back.
THEOREM GoneIsGone == Spec => []AbsentMeansGone
  <1>1. Init => ProbeInv
    BY SMT DEF Init, ProbeInv, AbsentMeansGone, NewWait
  <1>2. ProbeInv => AbsentMeansGone
    BY DEF ProbeInv
  <1> QED
    BY <1>1, <1>2, InitType, TypeStep, ProbeStep, PTL DEF Spec

=============================================================================
