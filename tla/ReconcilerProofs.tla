-------------------------- MODULE ReconcilerProofs --------------------------
(***************************************************************************)
(* Theorems about the bank reconciler, for every set of members and jobs,  *)
(* every size, with and without the spill policy.  With any number of      *)
(* failures of any kind, no pass takes the row of a sandbox that runs.     *)
(* With any number of failures outside Disturbing, a bank keeps within its *)
(* size and the spill on top of it.                                        *)
(***************************************************************************)
EXTENDS Reconciler, TLAPS, FiniteSetTheorems

\* Most leaves are first-order; the others, arithmetic and records, name SMT.
USE Zenon

-----------------------------------------------------------------------------
(* The table.                                                              *)

LEMMA NewRowIsARow ==
    ASSUME NEW s \in MemberState \cup Absent
    PROVE  NewRow(s) \in MemberRow
  BY DEF NewRow, MemberRow

LEMMA AddMemberTyped ==
    ASSUME BankStoreTypeOK, NEW m \in Members, NEW s \in MemberState, AddMember(m, s)
    PROVE  BankStoreTypeOK' /\ HasRow(m)' /\ \A x \in Members \ {m} : HasRow(x)' <=> HasRow(x)
  <1>1. NewRow(s) \in MemberRow /\ NewRow(s).st = s
    BY NewRowIsARow DEF NewRow
  <1>2. members' = [members EXCEPT ![m] = NewRow(s)]
    BY DEF AddMember
  <1> QED
    BY <1>1, <1>2 DEF BankStoreTypeOK, HasRow, MemberState, Absent

\* The report of a member changes its row and takes none away.
LEMMA UpdateTyped ==
    ASSUME BankStoreTypeOK, NEW m \in Members, NEW s, NEW n \in Nat,
           UpdateMemberStatus(m, s, n)
    PROVE  BankStoreTypeOK' /\ \A x \in Members : HasRow(x)' <=> HasRow(x)
  <1> DEFINE row == Reported(members[m], s, n)
  <1>1. members[m] \in MemberRow /\ s \in Reportable /\ HasRow(m)
    BY DEF BankStoreTypeOK, UpdateMemberStatus
  <1>2. row \in MemberRow /\ row.st \notin Absent
    <2> DEFINE st == IF members[m].st = "draining" THEN "draining" ELSE s
               idle == IF n > 0 THEN "null"
                       ELSE IF members[m].idle = "null" THEN "recent" ELSE members[m].idle
    <2>1. st \in MemberState /\ st \notin Absent
      BY <1>1, SMT DEF MemberState, Reportable, Absent
    <2>2. idle \in {"null", "recent", "long"}
      BY <1>1, SMT DEF MemberRow
    <2>3. row = [members[m] EXCEPT !.st = st, !.inFlight = n, !.hb = "fresh", !.idle = idle,
                                   !.upd = "recent"]
      BY DEF Reported
    <2> HIDE DEF st, idle, row
    <2>4. row.st = st
      BY <1>1, <2>3 DEF MemberRow
    <2>5. row \in MemberRow
      BY <1>1, <2>1, <2>2, <2>3, ZenonT(60) DEF MemberRow
    <2> QED
      BY <2>1, <2>4, <2>5
  <1>3. members' = [members EXCEPT ![m] = row]
    BY DEF UpdateMemberStatus
  <1> HIDE DEF row
  <1> QED
    BY <1>1, <1>2, <1>3 DEF BankStoreTypeOK, HasRow

\* One row changes its state or a time, and stays.
LEMMA RowTyped ==
    ASSUME BankStoreTypeOK, NEW m \in Members, HasRow(m), NEW row \in MemberRow,
           row.st \notin Absent, members' = [members EXCEPT ![m] = row]
    PROVE  BankStoreTypeOK' /\ \A x \in Members : HasRow(x)' <=> HasRow(x)
  BY DEF BankStoreTypeOK, HasRow

LEMMA SetStateTyped ==
    ASSUME BankStoreTypeOK, NEW m \in Members, NEW s \in MemberState, SetMemberState(m, s)
    PROVE  BankStoreTypeOK' /\ \A x \in Members : HasRow(x)' <=> HasRow(x)
  <1> DEFINE row == [members[m] EXCEPT !.st = s, !.upd = "recent"]
  <1>1. members[m] \in MemberRow
    BY DEF BankStoreTypeOK
  <1>2. row \in MemberRow /\ row.st \notin Absent
    BY <1>1 DEF MemberRow, MemberState, Absent
  <1>3. members' = [members EXCEPT ![m] = row]
    <2>0. members \in [Members -> MemberRow]
      BY DEF BankStoreTypeOK
    <2>1. members' = [members EXCEPT ![m].st = s, ![m].upd = "recent"]
      BY DEF SetMemberState
    <2>2. [members EXCEPT ![m].st = s, ![m].upd = "recent"] = [members EXCEPT ![m] = row]
      BY <1>1, <2>0 DEF MemberRow
    <2> QED
      BY <2>1, <2>2
  <1> QED
    BY <1>2, <1>3, RowTyped DEF SetMemberState

LEMMA RemoveTyped ==
    ASSUME BankStoreTypeOK, NEW m \in Members, RemoveMember(m)
    PROVE  BankStoreTypeOK' /\ \A x \in Members \ {m} : HasRow(x)' <=> HasRow(x)
  <1>1. NewRow("gone") \in MemberRow
    BY NewRowIsARow DEF Absent
  <1>2. members' = [members EXCEPT ![m] = NewRow("gone")]
    BY DEF RemoveMember
  <1> QED
    BY <1>1, <1>2 DEF BankStoreTypeOK, HasRow

LEMMA AgesTyped ==
    ASSUME BankStoreTypeOK, NEW m \in Members,
           HeartbeatAges(m) \/ IdleAges(m) \/ RowAges(m)
    PROVE  BankStoreTypeOK' /\ \A x \in Members : HasRow(x)' <=> HasRow(x)
  <1> DEFINE o == members[m]
  <1>1. o \in MemberRow /\ HasRow(m)
    BY DEF BankStoreTypeOK, HeartbeatAges, IdleAges, RowAges
  <1>2. PICK row \in MemberRow : row.st = o.st /\ members' = [members EXCEPT ![m] = row]
    <2>1. CASE HeartbeatAges(m)
      <3>1. PICK h \in {"overdue", "late"} : members' = [members EXCEPT ![m].hb = h]
        BY <2>1 DEF HeartbeatAges
      <3> DEFINE row == [o EXCEPT !.hb = h]
      <3>2. row \in MemberRow /\ row.st = o.st
        BY <1>1 DEF MemberRow
      <3> QED
        BY <3>1, <3>2
    <2>2. CASE IdleAges(m)
      <3> DEFINE row == [o EXCEPT !.idle = "long"]
      <3>1. row \in MemberRow /\ row.st = o.st
        BY <1>1 DEF MemberRow
      <3> QED
        BY <2>2, <3>1 DEF IdleAges
    <2>3. CASE RowAges(m)
      <3> DEFINE row == [o EXCEPT !.upd = "old"]
      <3>1. row \in MemberRow /\ row.st = o.st
        BY <1>1 DEF MemberRow
      <3> QED
        BY <2>3, <3>1 DEF RowAges
    <2> QED
      BY <2>1, <2>2, <2>3
  <1> QED
    BY <1>1, <1>2, RowTyped DEF HasRow

-----------------------------------------------------------------------------
(* The jobs.                                                               *)

JobsTyped ==
    /\ phase \in [Jobs -> {"unopened", "live", "settled", "deleted"}]
    /\ holder \in [Jobs -> Members \cup {NoMember}]
    /\ verdict \in [Jobs -> Verdicts \cup {NoVerdict}]

LEMMA LifeTyped ==
    ASSUME JobsTyped,
           \/ \E j \in Jobs, m \in Members \cup {NoMember} : Life!Begin(j, m)
           \/ \E j \in Jobs, m \in Members : Life!Take(j, m)
           \/ \E m \in Members : Life!GiveBack(m)
           \/ \E j \in Jobs, v \in Verdicts : Life!Settle(j, v)
           \/ UNCHANGED jobVars
    PROVE  JobsTyped'
  <1>1. CASE \E j \in Jobs, m \in Members \cup {NoMember} : Life!Begin(j, m)
    BY <1>1, SMT DEF JobsTyped, Life!Begin
  <1>2. CASE \E j \in Jobs, m \in Members : Life!Take(j, m)
    BY <1>2 DEF JobsTyped, Life!Take
  <1>3. CASE \E m \in Members : Life!GiveBack(m)
    BY <1>3 DEF JobsTyped, Life!GiveBack
  <1>4. CASE \E j \in Jobs, v \in Verdicts : Life!Settle(j, v)
    BY <1>4, SMT DEF JobsTyped, Life!Settle
  <1>5. CASE UNCHANGED jobVars
    BY <1>5 DEF JobsTyped, jobVars
  <1> QED
    BY <1>1, <1>2, <1>3, <1>4, <1>5

-----------------------------------------------------------------------------
(* The pass.                                                               *)

Passes == [pc : PassSteps, ret : {"judge", "shed"}, desired : Nat, n : Nat,
           cur : Members \cup {NoMember}, snap : [Members -> MemberRow],
           todo : SUBSET Members, live : SUBSET Members, susp : SUBSET Members,
           stale : SUBSET Jobs]

LEMMA NoPassTyped == NoPass \in Passes
  <1>1. NewRow("unused") \in MemberRow
    BY NewRowIsARow DEF Absent
  <1> QED
    BY <1>1 DEF NoPass, Passes, PassSteps

\* A count of waiting jobs becomes a count of members.
LEMMA SpillTyped ==
    ASSUME NEW w \in Nat, NEW cap \in Nat, NEW limit \in Nat
    PROVE  resumeCount(w, cap) \in Nat /\ spillMembers(w, cap, limit) \in Nat
  <1> DEFINE c == AtLeast(cap, 1)
  <1>1. c \in Nat /\ c >= 1
    BY SMT DEF AtLeast
  <1>2. w + c - 1 \in Nat
    BY <1>1, SMT
  <1>3. \A a \in Nat, b \in Nat : b >= 1 => a \div b \in Nat
    BY SMT
  <1>4. resumeCount(w, cap) \in Nat
    BY <1>1, <1>2, <1>3 DEF resumeCount
  <1>5. AtMost(resumeCount(w, cap), AtLeast(limit, 1)) \in Nat
    BY <1>4 DEF AtMost, AtLeast
  <1> QED
    BY <1>4, <1>5 DEF spillMembers

LEMMA CountsTyped ==
    ASSUME pass \in Passes
    PROVE  /\ Unassigned \in Nat /\ targetCount \in Nat
           /\ Cardinality(pass.live) \in Nat /\ Cardinality(pass.susp) \in Nat
  <1>1. IsFiniteSet(Held(NoMember))
    <2>1. Held(NoMember) \in SUBSET Jobs /\ IsFiniteSet(Jobs)
      BY ReconcilerAssumption DEF Held
    <2> QED
      BY <2>1, FS_Subset
  <1>2. IsFiniteSet(pass.live) /\ IsFiniteSet(pass.susp)
    <2>1. pass.live \in SUBSET Members /\ pass.susp \in SUBSET Members
      BY DEF Passes
    <2> QED
      BY <2>1, FS_Subset, ReconcilerAssumption
  <1>3. Unassigned \in Nat
    BY <1>1, FS_CardinalityType DEF Unassigned
  <1>4. Cardinality(pass.live) \in Nat /\ Cardinality(pass.susp) \in Nat
    BY <1>2, FS_CardinalityType
  <1>5. pass.desired \in Nat
    BY DEF Passes
  <1>6. spillMembers(Unassigned, JobCap, pass.desired) \in Nat
    BY <1>3, <1>5, SpillTyped, JobCapAssumption
  <1> QED
    BY <1>3, <1>4, <1>5, <1>6, SMT DEF targetCount

LEMMA GoTyped ==
    ASSUME pass \in Passes, NEW pc \in PassSteps, Go(pc)
    PROVE  pass' \in Passes /\ pass'.pc = pc /\ pass'.cur = pass.cur
  BY DEF Passes, Go

LEMMA ContinueTyped ==
    ASSUME pass \in Passes, Continue
    PROVE  pass' \in Passes /\ pass'.pc \in {"judge", "shed"}
  BY DEF Passes, Continue, PassSteps

LEMMA FaultsTyped ==
    ASSUME faults \in 0..MaxFaults
    PROVE  /\ NoFault => faults' \in 0..MaxFaults /\ faults' = faults
           /\ \A kind : Fail(kind) => faults' \in 0..MaxFaults /\ faults' > faults /\ faults' > 0
  BY ReconcilerAssumption, SMT DEF NoFault, Fail

\* Does setec run, or keep, the sandbox of a member?
Lives(m) == sandbox[m] \in {"up", "hung", "suspended"}

\* RecInv in the parts the steps below deal with.
LEMMA RecInvParts ==
    RecInv <=> /\ BankStoreTypeOK /\ JobsTyped /\ pass \in Passes
               /\ sandbox \in [Members -> {"none", "up", "hung", "suspended", "stopped"}]
               /\ wire \subseteq Members /\ leaked \subseteq Members
               /\ bank \in [desired : DesiredCounts, deleted : BOOLEAN,
                            resizes : 0..MaxResizes]
               /\ faults \in 0..MaxFaults
               /\ LeakInv
  BY DEF RecInv, RecTypeOK, JobsTyped, Passes

\* A step of the pass that leaves the sandboxes alone and takes no row away,
\* and that is neither about to record nor to remove a member.
LEMMA QuietKeeps ==
    ASSUME RecInv, UNCHANGED <<sandbox, wire, bank, leaked>>,
           BankStoreTypeOK', JobsTyped', pass' \in Passes, faults' \in 0..MaxFaults,
           faults' >= faults,
           \A x \in Members : HasRow(x)' <=> HasRow(x),
           pass.pc # "record", pass'.pc \notin {"record", "release", "remove"},
           pass'.pc \in OnMember => pass'.cur \in Members
    PROVE  RecInv'
  <1>1. LeakInv'
    <2>1. leaked # {} => faults' > 0
      BY RecInvParts, SMT DEF LeakInv
    <2>2. \A x \in Members : Lives(x) /\ ~HasRow(x) => x \in leaked
      BY RecInvParts DEF LeakInv, NoLeakedSandbox, Lives
    <2>3. \A x \in Members : Lives(x)' /\ ~HasRow(x)' => x \in leaked'
      BY <2>2 DEF Lives
    <2> QED
      BY <2>1, <2>3 DEF LeakInv, NoLeakedSandbox, Lives
  <1>2. RecInv
    OBVIOUS
  <1> QED
    BY <1>1, <1>2, RecInvParts DEF RecInv, RecTypeOK, JobsTyped, Passes

\* A step outside the pass: no sandbox comes to life, none that was stopped is
\* forgotten while the pass is on it, and rows only change.
LEMMA OutsideKeeps ==
    ASSUME RecInv, UNCHANGED <<pass, leaked>>,
           BankStoreTypeOK', JobsTyped', faults' \in 0..MaxFaults, faults' >= faults,
           sandbox' \in [Members -> {"none", "up", "hung", "suspended", "stopped"}],
           wire' \subseteq Members,
           bank' \in [desired : DesiredCounts, deleted : BOOLEAN, resizes : 0..MaxResizes],
           \A x \in Members : HasRow(x)' <=> HasRow(x),
           \A x \in Members : Lives(x)' => Lives(x),
           \A x \in Members : sandbox[x] = "stopped" => sandbox'[x] = "stopped"
    PROVE  RecInv'
  <1>0. LeakInv /\ pass \in Passes /\ faults \in 0..MaxFaults /\ leaked \subseteq Members
    BY RecInvParts
  <1>1. LeakInv'
    <2>1. \A x \in Members : Lives(x)' /\ ~HasRow(x)' =>
             x \in leaked \/ (pass.pc = "record" /\ pass.cur = x)
      BY <1>0 DEF LeakInv, NoLeakedSandbox, Lives
    <2>2. NoLeakedSandbox'
      BY <2>1 DEF NoLeakedSandbox, Lives
    <2>3. (leaked # {} => faults > 0)'
      BY <1>0, SMT DEF LeakInv
    <2>4. (pass.pc \in OnMember => pass.cur \in Members)'
      BY <1>0 DEF LeakInv
    <2>5. (pass.pc \in {"release", "remove"} =>
              sandbox[pass.cur] = "stopped" \/ pass.cur \in leaked)'
      BY <1>0 DEF LeakInv, OnMember
    <2> QED
      BY <2>2, <2>3, <2>4, <2>5 DEF LeakInv
  <1> QED
    BY <1>0, <1>1 DEF RecInv, RecTypeOK, JobsTyped, Passes

-----------------------------------------------------------------------------
(* The steps of the pass that only move it.                                *)

LEMMA StartPassKeeps == RecInv /\ StartPass => RecInv'
  <1> SUFFICES ASSUME RecInv, StartPass PROVE RecInv'
    OBVIOUS
  <1> DEFINE snap == [m \in Members |-> IF HasRow(m) THEN members[m] ELSE NewRow("unused")]
  <1>0. /\ BankStoreTypeOK /\ JobsTyped /\ pass \in Passes /\ faults \in 0..MaxFaults
        /\ bank.desired \in Nat
    BY RecInvParts, ReconcilerAssumption
  <1>1. snap \in [Members -> MemberRow]
    BY <1>0, NewRowIsARow DEF BankStoreTypeOK, Absent
  <1>2. pass' = [NoPass EXCEPT !.pc = "judge", !.desired = bank.desired, !.todo = Rows,
                               !.snap = snap]
    BY DEF StartPass
  <1> HIDE DEF snap
  <1>3. Rows \subseteq Members
    BY DEF Rows
  <1>4. pass' \in Passes /\ pass'.pc = "judge"
    BY <1>0, <1>1, <1>2, <1>3, NoPassTyped DEF Passes, PassSteps
  <1>5. UNCHANGED <<members, phase, holder, verdict, sandbox, wire, bank, faults, leaked>>
    BY DEF StartPass, jobVars
  <1>6. BankStoreTypeOK' /\ JobsTyped' /\ \A x \in Members : HasRow(x)' <=> HasRow(x)
    BY <1>0, <1>5 DEF BankStoreTypeOK, JobsTyped, HasRow
  <1>7. pass.pc = "rest"
    BY DEF StartPass, At
  <1> QED
    BY <1>0, <1>4, <1>5, <1>6, <1>7, QuietKeeps, SMT DEF OnMember

LEMMA JudgeKeeps ==
    ASSUME RecInv, NEW m \in Members, Judge(m)
    PROVE  RecInv'
  <1>0. /\ BankStoreTypeOK /\ JobsTyped /\ pass \in Passes /\ faults \in 0..MaxFaults
        /\ pass.pc = "judge"
    BY RecInvParts DEF Judge, At
  <1>1. UNCHANGED <<members, phase, holder, verdict, sandbox, wire, bank, leaked>>
    BY DEF Judge, jobVars
  <1>2. BankStoreTypeOK' /\ JobsTyped' /\ \A x \in Members : HasRow(x)' <=> HasRow(x)
    BY <1>0, <1>1 DEF BankStoreTypeOK, JobsTyped, HasRow
  <1>3. faults' \in 0..MaxFaults /\ faults' >= faults
    BY <1>0, FaultsTyped, SMT DEF Judge
  <1> DEFINE row == [pass.snap[m] EXCEPT !.hb = "booting", !.upd = "recent"]
             next == [pass EXCEPT !.todo = @ \ {m}, !.snap[m].hb = "booting",
                                  !.snap[m].upd = "recent"]
             for(pc) == [next EXCEPT !.cur = m, !.pc = pc]
  <1>4. next \in Passes /\ next.pc = "judge"
    <2>1. pass.snap \in [Members -> MemberRow] /\ pass.snap[m] \in MemberRow
      BY <1>0 DEF Passes
    <2>2. row \in MemberRow
      BY <2>1 DEF MemberRow
    <2> DEFINE snap == [pass.snap EXCEPT ![m] = row]
    <2>3. snap \in [Members -> MemberRow]
      BY <2>1, <2>2
    <2>4. snap = [pass.snap EXCEPT ![m].hb = "booting", ![m].upd = "recent"]
      BY <2>1 DEF MemberRow
    <2>5. next = [pass EXCEPT !.todo = pass.todo \ {m}, !.snap = snap]
      BY <1>0, <2>1, <2>4 DEF Passes, MemberRow
    <2> HIDE DEF snap, next, row
    <2> QED
      BY <1>0, <2>3, <2>5 DEF Passes
  <1>5. \/ \E pc \in {"stop", "kill", "bury"} : pass' = for(pc)
        \/ pass' = next
        \/ pass' = [next EXCEPT !.susp = @ \cup {m}]
        \/ pass' = [next EXCEPT !.live = @ \cup {m}]
    BY Zenon DEF Judge
  <1> HIDE DEF next
  <1>6. /\ pass' \in Passes
        /\ pass'.pc \in {"judge", "stop", "kill", "bury"}
        /\ pass'.pc # "judge" => pass'.cur = m
    <2>1. ASSUME NEW pc \in {"stop", "kill", "bury"}, pass' = for(pc)
          PROVE  pass' \in Passes /\ pass'.pc = pc /\ pass'.cur = m
      BY <1>4, <2>1 DEF Passes, PassSteps
    <2>2. CASE pass' = next
      BY <1>4, <2>2
    <2>3. CASE pass' = [next EXCEPT !.susp = @ \cup {m}]
      BY <1>4, <2>3 DEF Passes
    <2>4. CASE pass' = [next EXCEPT !.live = @ \cup {m}]
      BY <1>4, <2>4 DEF Passes
    <2> HIDE DEF for
    <2> QED
      BY <1>5, <2>1, <2>2, <2>3, <2>4
  <1> QED
    BY <1>0, <1>1, <1>2, <1>3, <1>6, QuietKeeps DEF OnMember

LEMMA SizeKeeps == RecInv /\ Size => RecInv'
  <1> SUFFICES ASSUME RecInv, Size PROVE RecInv'
    OBVIOUS
  <1>0. /\ BankStoreTypeOK /\ JobsTyped /\ pass \in Passes /\ faults \in 0..MaxFaults
        /\ pass.pc = "judge"
    BY RecInvParts DEF Size, At
  <1>1. UNCHANGED <<members, phase, holder, verdict, sandbox, wire, bank, leaked>>
    BY DEF Size, jobVars
  <1>2. BankStoreTypeOK' /\ JobsTyped' /\ \A x \in Members : HasRow(x)' <=> HasRow(x)
    BY <1>0, <1>1 DEF BankStoreTypeOK, JobsTyped, HasRow
  <1>3. faults' \in 0..MaxFaults /\ faults' >= faults
    BY <1>0, FaultsTyped, SMT DEF Size
  <1> DEFINE running == Cardinality(pass.live) + Cardinality(pass.susp)
             n(target) == IF running > target THEN running - target ELSE target - running
             pc(target) == CASE running > target -> "shed"
                             [] running < target -> "launch"
                             [] running = target -> "nap"
             sized(target) == [pass EXCEPT !.ret = "shed", !.todo = pass.live,
                                           !.n = n(target), !.pc = pc(target)]
  <1>4. running \in Nat /\ targetCount \in Nat /\ AtLeast(running, pass.desired) \in Nat
    BY <1>0, CountsTyped, SMT DEF AtLeast, Passes
  <1>5. PICK t \in Nat : pass' = sized(t)
    BY <1>4 DEF Size
  <1> HIDE DEF running
  <1>6. n(t) \in Nat /\ pc(t) \in {"shed", "launch", "nap"}
    BY <1>4, <1>5, SMT
  <1> HIDE DEF n, pc
  <1>7. pass' \in Passes /\ pass'.pc \in {"shed", "launch", "nap"}
    BY <1>0, <1>5, <1>6 DEF Passes, PassSteps
  <1> QED
    BY <1>0, <1>1, <1>2, <1>3, <1>7, QuietKeeps DEF OnMember

LEMMA ShedKeeps == RecInv /\ Shed => RecInv'
  <1> SUFFICES ASSUME RecInv, Shed PROVE RecInv'
    OBVIOUS
  <1>0. /\ BankStoreTypeOK /\ JobsTyped /\ pass \in Passes /\ faults \in 0..MaxFaults
        /\ pass.pc = "shed" /\ pass.n \in Nat
        /\ pass.susp \subseteq Members /\ pass.todo \subseteq Members
    BY RecInvParts DEF Shed, At, Passes
  <1>1. UNCHANGED <<members, phase, holder, verdict, sandbox, wire, bank, faults, leaked>>
    BY DEF Shed, jobVars
  <1>2. BankStoreTypeOK' /\ JobsTyped' /\ \A x \in Members : HasRow(x)' <=> HasRow(x)
    BY <1>0, <1>1 DEF BankStoreTypeOK, JobsTyped, HasRow
  <1>3. /\ pass' \in Passes /\ pass'.pc \in {"nap", "stop", "drain"}
        /\ pass'.pc # "nap" => pass'.cur \in Members
    <2>1. CASE Go("nap")
      BY <1>0, <2>1, GoTyped DEF PassSteps
    <2>2. CASE pass.n # 0 /\ \E m \in pass.susp :
               pass' = [pass EXCEPT !.susp = @ \ {m}, !.n = @ - 1, !.cur = m, !.pc = "stop"]
      <3>1. PICK m \in pass.susp :
               pass' = [pass EXCEPT !.susp = @ \ {m}, !.n = @ - 1, !.cur = m, !.pc = "stop"]
        BY <2>2
      <3>2. pass.n - 1 \in Nat /\ m \in Members
        BY <1>0, <2>2, SMT DEF Passes
      <3>3. pass' = [pass EXCEPT !.susp = pass.susp \ {m}, !.n = pass.n - 1, !.cur = m, !.pc = "stop"]
        BY <1>0, <3>1 DEF Passes
      <3> QED
        BY <1>0, <3>2, <3>3 DEF Passes, PassSteps
    <2>3. CASE pass.n # 0 /\ \E m \in pass.todo :
               pass' = [pass EXCEPT !.todo = @ \ {m}, !.n = @ - 1, !.cur = m, !.pc = "drain"]
      <3>1. PICK m \in pass.todo :
               pass' = [pass EXCEPT !.todo = @ \ {m}, !.n = @ - 1, !.cur = m, !.pc = "drain"]
        BY <2>3
      <3>2. pass.n - 1 \in Nat /\ m \in Members
        BY <1>0, <2>3, SMT DEF Passes
      <3>3. pass' = [pass EXCEPT !.todo = pass.todo \ {m}, !.n = pass.n - 1, !.cur = m, !.pc = "drain"]
        BY <1>0, <3>1 DEF Passes
      <3> QED
        BY <1>0, <3>2, <3>3 DEF Passes, PassSteps
    <2> QED
      BY <2>1, <2>2, <2>3 DEF Shed
  <1> QED
    BY <1>0, <1>1, <1>2, <1>3, QuietKeeps, SMT DEF OnMember

LEMMA NapKeeps == RecInv /\ Nap => RecInv'
  <1> SUFFICES ASSUME RecInv, Nap PROVE RecInv'
    OBVIOUS
  <1>0. /\ BankStoreTypeOK /\ JobsTyped /\ pass \in Passes /\ faults \in 0..MaxFaults
        /\ pass.pc = "nap" /\ pass.susp \subseteq Members /\ pass.live \subseteq Members
    BY RecInvParts DEF Nap, At, Passes
  <1>1. UNCHANGED <<members, phase, holder, verdict, sandbox, wire, bank, leaked>>
    BY DEF Nap, jobVars
  <1>2. BankStoreTypeOK' /\ JobsTyped' /\ \A x \in Members : HasRow(x)' <=> HasRow(x)
    BY <1>0, <1>1 DEF BankStoreTypeOK, JobsTyped, HasRow
  <1>3. faults' \in 0..MaxFaults /\ faults' >= faults
    <2>1. NoFault \/ Fail("queue")
      BY Zenon DEF Nap
    <2> QED
      BY <1>0, <2>1, FaultsTyped, SMT
  <1>4. PICK S \in SUBSET Members, pc \in {"resume", "suspend"} :
            pass' = [pass EXCEPT !.todo = S, !.pc = pc]
    <2>1. ASSUME NEW S \in SUBSET pass.susp, pass' = [pass EXCEPT !.todo = S, !.pc = "resume"]
          PROVE  S \in SUBSET Members
      BY <1>0
    <2>2. {m \in pass.live : IdleLongEnough(pass.snap[m])} \in SUBSET Members
      BY <1>0
    <2>3. ASSUME NEW S, pass' = [pass EXCEPT !.pc = "suspend", !.todo = S]
          PROVE  pass' = [pass EXCEPT !.todo = S, !.pc = "suspend"]
      BY <1>0, <2>3 DEF Passes
    <2>4. CASE \E S \in SUBSET pass.susp : pass' = [pass EXCEPT !.todo = S, !.pc = "resume"]
      BY <2>1, <2>4, Zenon
    <2>5. CASE pass' = [pass EXCEPT !.pc = "suspend",
                           !.todo = {m \in pass.live : IdleLongEnough(pass.snap[m])}]
      BY <2>2, <2>3, <2>5, Zenon
    <2>6. CASE pass' = [pass EXCEPT !.pc = "suspend", !.todo = {}]
      BY <2>3, <2>6, Zenon
    <2> QED
      BY <2>4, <2>5, <2>6 DEF Nap
  <1>5. pass' \in Passes /\ pass'.pc = pc
    BY <1>0, <1>4 DEF Passes, PassSteps
  <1> QED
    BY <1>0, <1>1, <1>2, <1>3, <1>5, QuietKeeps DEF OnMember

LEMMA ListStaleKeeps == RecInv /\ ListStale => RecInv'
  <1> SUFFICES ASSUME RecInv, ListStale PROVE RecInv'
    OBVIOUS
  <1>0. /\ BankStoreTypeOK /\ JobsTyped /\ pass \in Passes /\ faults \in 0..MaxFaults
        /\ pass.pc \in {"resume", "suspend"}
    BY RecInvParts DEF ListStale
  <1>1. UNCHANGED <<members, phase, holder, verdict, sandbox, wire, bank, faults, leaked>>
    BY DEF ListStale, jobVars
  <1>2. BankStoreTypeOK' /\ JobsTyped' /\ \A x \in Members : HasRow(x)' <=> HasRow(x)
    BY <1>0, <1>1 DEF BankStoreTypeOK, JobsTyped, HasRow
  <1>3. PICK S \in SUBSET Jobs : pass' = [NoPass EXCEPT !.pc = "sweep", !.stale = S]
    BY DEF ListStale
  <1>4. pass' \in Passes /\ pass'.pc = "sweep"
    BY <1>3, NoPassTyped DEF Passes, PassSteps
  <1> QED
    BY <1>0, <1>1, <1>2, <1>4, QuietKeeps, SMT DEF OnMember

LEMMA SweepKeeps == RecInv /\ Sweep => RecInv'
  <1> SUFFICES ASSUME RecInv, Sweep PROVE RecInv'
    OBVIOUS
  <1>0. /\ BankStoreTypeOK /\ JobsTyped /\ pass \in Passes /\ faults \in 0..MaxFaults
        /\ pass.pc = "sweep" /\ pass.stale \subseteq Jobs
    BY RecInvParts DEF Sweep, At, Passes
  <1>1. UNCHANGED <<members, sandbox, wire, bank, faults, leaked>>
    BY DEF Sweep
  <1>2. BankStoreTypeOK' /\ \A x \in Members : HasRow(x)' <=> HasRow(x)
    BY <1>0, <1>1 DEF BankStoreTypeOK, HasRow
  <1>3. JobsTyped'
    <2>1. UNCHANGED jobVars \/ \E j \in Jobs, v \in Verdicts : Life!Settle(j, v)
      BY <1>0, ReconcilerAssumption DEF Sweep
    <2> QED
      BY <1>0, <2>1, LifeTyped
  <1>4. pass' \in Passes /\ pass'.pc \in {"sweep", "rest"}
    <2>1. CASE pass' = NoPass
      BY <2>1, NoPassTyped DEF NoPass
    <2>2. CASE \E j \in pass.stale : pass' = [pass EXCEPT !.stale = @ \ {j}]
      BY <1>0, <2>2 DEF Passes
    <2> QED
      BY <2>1, <2>2 DEF Sweep
  <1> QED
    BY <1>0, <1>1, <1>2, <1>3, <1>4, QuietKeeps, SMT DEF OnMember

\* SetMemberState to dead, draining or suspended; the row may be gone.
LEMMA MarkingKeeps ==
    ASSUME RecInv, Bury \/ Drain \/ MarkSuspended
    PROVE  RecInv'
  <1>0. /\ BankStoreTypeOK /\ JobsTyped /\ pass \in Passes /\ faults \in 0..MaxFaults
        /\ pass.pc \in {"bury", "drain", "mark"} /\ pass.cur \in Members
    BY RecInvParts DEF Bury, Drain, MarkSuspended, At, LeakInv, OnMember
  <1>1. UNCHANGED <<phase, holder, verdict, sandbox, wire, bank, leaked>>
    BY DEF Bury, Drain, MarkSuspended, jobVars
  <1>2. JobsTyped'
    BY <1>0, <1>1 DEF JobsTyped
  <1>3. BankStoreTypeOK' /\ \A x \in Members : HasRow(x)' <=> HasRow(x)
    <2>1. \/ UNCHANGED members
          \/ \E s \in MemberState : SetMemberState(pass.cur, s)
      BY DEF Bury, Drain, MarkSuspended, MemberState
    <2>2. CASE UNCHANGED members
      BY <1>0, <2>2 DEF BankStoreTypeOK, HasRow
    <2> QED
      BY <1>0, <2>1, <2>2, SetStateTyped
  <1>4. faults' \in 0..MaxFaults /\ faults' >= faults
    BY <1>0, FaultsTyped, SMT DEF Bury, Drain, MarkSuspended
  <1>5. /\ pass' \in Passes /\ pass'.pc \in {"kill", "stop", "judge", "shed", "suspend"}
        /\ pass'.pc \in {"kill", "stop"} => pass'.cur = pass.cur
    <2>1. CASE Go("kill") \/ Go("stop")
      BY <1>0, <2>1, GoTyped DEF PassSteps
    <2>2. CASE Continue
      BY <1>0, <2>2, ContinueTyped
    <2>3. CASE pass' = [pass EXCEPT !.pc = "suspend", !.cur = NoMember]
      BY <1>0, <2>3 DEF Passes, PassSteps
    <2> QED
      BY <2>1, <2>2, <2>3 DEF Bury, Drain, MarkSuspended
  <1> QED
    BY <1>0, <1>1, <1>2, <1>3, <1>4, <1>5, QuietKeeps DEF OnMember

-----------------------------------------------------------------------------
(* The steps of the pass on a sandbox or a row.                            *)

\* The parts of RecInv that no step below is at risk to break.
Typed == /\ BankStoreTypeOK /\ JobsTyped /\ pass \in Passes
         /\ sandbox \in [Members -> {"none", "up", "hung", "suspended", "stopped"}]
         /\ wire \subseteq Members /\ leaked \subseteq Members
         /\ bank \in [desired : DesiredCounts, deleted : BOOLEAN, resizes : 0..MaxResizes]
         /\ faults \in 0..MaxFaults

LEMMA TypedParts == RecInv <=> Typed /\ LeakInv
  BY RecInvParts DEF Typed

LEMMA TypedPartsNext == RecInv' <=> Typed' /\ LeakInv'
  BY DEF RecInv, RecTypeOK, Typed, JobsTyped, Passes

LEMMA SameTable ==
    ASSUME BankStoreTypeOK, UNCHANGED members
    PROVE  BankStoreTypeOK' /\ \A x \in Members : HasRow(x)' <=> HasRow(x)
  BY DEF BankStoreTypeOK, HasRow

LEMMA SameJobs ==
    ASSUME JobsTyped, UNCHANGED jobVars
    PROVE  JobsTyped'
  BY DEF JobsTyped, jobVars

\* The best-effort stop of a dead member is either done or on record as failed.
LEMMA KillKeeps == RecInv /\ Kill => RecInv'
  <1> SUFFICES ASSUME RecInv, Kill PROVE RecInv'
    OBVIOUS
  <1>0. Typed /\ LeakInv /\ pass.pc = "kill" /\ pass.cur \in Members
    BY TypedParts DEF Kill, At, LeakInv, OnMember
  <1>1. pass' \in Passes /\ pass'.pc = "release" /\ pass'.cur = pass.cur
    BY <1>0, GoTyped DEF Kill, Typed, PassSteps
  <1>2. BankStoreTypeOK' /\ JobsTyped' /\ \A x \in Members : HasRow(x)' <=> HasRow(x)
    BY <1>0, SameTable, SameJobs DEF Kill, Typed
  <1>3. CASE StopMember(pass.cur) /\ NoFault /\ UNCHANGED leaked
    <2>1. /\ sandbox' \in [Members -> {"none", "up", "hung", "suspended", "stopped"}]
          /\ sandbox'[pass.cur] = "stopped"
          /\ \A x \in Members \ {pass.cur} : sandbox'[x] = sandbox[x]
      BY <1>0, <1>3 DEF StopMember, Typed
    <2>2. Typed'
      BY <1>0, <1>1, <1>2, <1>3, <2>1 DEF Typed, Kill, NoFault
    <2>3. LeakInv'
      BY <1>0, <1>1, <1>2, <1>3, <2>1 DEF LeakInv, NoLeakedSandbox, NoFault, OnMember
    <2> QED
      BY <2>2, <2>3, TypedPartsNext
  <1>4. CASE Fail("stop") /\ leaked' = leaked \cup {pass.cur} /\ UNCHANGED sandbox
    <2>1. faults' \in 0..MaxFaults /\ faults' > 0
      BY <1>0, <1>4, FaultsTyped DEF Typed
    <2>2. Typed'
      BY <1>0, <1>1, <1>2, <1>4, <2>1 DEF Typed, Kill
    <2>3. LeakInv'
      BY <1>0, <1>1, <1>2, <1>4, <2>1 DEF LeakInv, NoLeakedSandbox, OnMember
    <2> QED
      BY <2>2, <2>3, TypedPartsNext
  <1> QED
    BY <1>3, <1>4 DEF Kill

LEMMA ReleaseKeeps == RecInv /\ Release => RecInv'
  <1> SUFFICES ASSUME RecInv, Release PROVE RecInv'
    OBVIOUS
  <1>0. Typed /\ LeakInv /\ pass.pc = "release" /\ pass.cur \in Members
    BY TypedParts DEF Release, At, LeakInv, OnMember
  <1>1. /\ pass' \in Passes /\ pass'.pc \in {"stop", "remove", "judge", "shed"}
        /\ pass'.pc \in {"stop", "remove"} => pass'.cur = pass.cur
    <2>1. CASE Go("stop") \/ Go("remove")
      BY <1>0, <2>1, GoTyped DEF Typed, PassSteps
    <2>2. CASE Continue
      BY <1>0, <2>2, ContinueTyped DEF Typed
    <2> QED
      BY <2>1, <2>2 DEF Release
  <1>2. BankStoreTypeOK' /\ \A x \in Members : HasRow(x)' <=> HasRow(x)
    BY <1>0, SameTable DEF Release, Typed
  <1>3. JobsTyped'
    <2>1. UNCHANGED jobVars \/ \E m \in Members : Life!GiveBack(m)
      BY <1>0 DEF Release
    <2> QED
      BY <1>0, <2>1, LifeTyped DEF Typed
  <1>4. faults' \in 0..MaxFaults /\ (leaked # {} => faults' > 0)
    BY <1>0, FaultsTyped DEF Release, Typed, LeakInv
  <1>5. Typed'
    BY <1>0, <1>1, <1>2, <1>3, <1>4 DEF Typed, Release
  <1>6. LeakInv'
    BY <1>0, <1>1, <1>2, <1>4 DEF LeakInv, NoLeakedSandbox, OnMember, Release
  <1> QED
    BY <1>5, <1>6, TypedPartsNext

LEMMA StopKeeps == RecInv /\ Stop => RecInv'
  <1> SUFFICES ASSUME RecInv, Stop PROVE RecInv'
    OBVIOUS
  <1>0. Typed /\ LeakInv /\ pass.pc = "stop" /\ pass.cur \in Members
    BY TypedParts DEF Stop, At, LeakInv, OnMember
  <1>2. BankStoreTypeOK' /\ JobsTyped' /\ \A x \in Members : HasRow(x)' <=> HasRow(x)
    BY <1>0, SameTable, SameJobs DEF Stop, Typed
  <1>3. CASE StopMember(pass.cur) /\ Go("remove") /\ NoFault
    <2>0. pass' \in Passes /\ pass'.pc = "remove" /\ pass'.cur = pass.cur
      BY <1>0, <1>3, GoTyped DEF Typed, PassSteps
    <2>1. /\ sandbox' \in [Members -> {"none", "up", "hung", "suspended", "stopped"}]
          /\ sandbox'[pass.cur] = "stopped"
          /\ \A x \in Members \ {pass.cur} : sandbox'[x] = sandbox[x]
      BY <1>0, <1>3 DEF StopMember, Typed
    <2>2. Typed'
      BY <1>0, <1>2, <1>3, <2>0, <2>1 DEF Typed, Stop, NoFault
    <2>3. LeakInv'
      BY <1>0, <1>2, <1>3, <2>0, <2>1 DEF LeakInv, NoLeakedSandbox, NoFault, OnMember, Stop
    <2> QED
      BY <2>2, <2>3, TypedPartsNext
  <1>4. CASE Fail("stop") /\ Continue /\ UNCHANGED sandbox
    <2>0. pass' \in Passes /\ pass'.pc \in {"judge", "shed"}
      BY <1>0, <1>4, ContinueTyped DEF Typed
    <2>1. faults' \in 0..MaxFaults /\ faults' >= faults
      BY <1>0, <1>4, FaultsTyped, SMT DEF Typed
    <2> QED
      BY <1>0, <1>2, <1>4, <2>0, <2>1, QuietKeeps DEF Stop, OnMember
  <1> QED
    BY <1>3, <1>4 DEF Stop

\* The row that goes names a sandbox that was stopped, or whose stop failed.
LEMMA RemoveKeeps == RecInv /\ Remove => RecInv'
  <1> SUFFICES ASSUME RecInv, Remove PROVE RecInv'
    OBVIOUS
  <1>0. /\ Typed /\ LeakInv /\ pass.pc = "remove" /\ pass.cur \in Members
        /\ sandbox[pass.cur] = "stopped" \/ pass.cur \in leaked
    BY TypedParts DEF Remove, At, LeakInv, OnMember
  <1>1. pass' \in Passes /\ pass'.pc \in {"judge", "shed"}
    BY <1>0, ContinueTyped DEF Remove, Typed
  <1>2. BankStoreTypeOK' /\ \A x \in Members \ {pass.cur} : HasRow(x)' <=> HasRow(x)
    <2>1. CASE RemoveMember(pass.cur)
      BY <1>0, <2>1, RemoveTyped DEF Typed
    <2>2. CASE UNCHANGED members
      BY <1>0, <2>2, SameTable DEF Typed
    <2> QED
      BY <2>1, <2>2 DEF Remove
  <1>3. JobsTyped'
    BY <1>0, SameJobs DEF Remove, Typed
  <1>4. faults' \in 0..MaxFaults /\ (leaked # {} => faults' > 0)
    BY <1>0, FaultsTyped DEF Remove, Typed, LeakInv
  <1>5. Typed'
    BY <1>0, <1>1, <1>2, <1>3, <1>4 DEF Typed, Remove
  <1>6. LeakInv'
    BY <1>0, <1>1, <1>2, <1>4 DEF LeakInv, NoLeakedSandbox, OnMember, Remove
  <1> QED
    BY <1>5, <1>6, TypedPartsNext

LEMMA LaunchKeeps == RecInv /\ Launch => RecInv'
  <1> SUFFICES ASSUME RecInv, Launch PROVE RecInv'
    OBVIOUS
  <1>0. Typed /\ LeakInv /\ pass.pc = "launch" /\ pass \in Passes /\ pass.n \in Nat
    BY TypedParts DEF Launch, At, Typed, Passes
  <1>2. BankStoreTypeOK' /\ JobsTyped' /\ \A x \in Members : HasRow(x)' <=> HasRow(x)
    BY <1>0, SameTable, SameJobs DEF Launch, Typed
  <1>3. ASSUME NEW m \in Members, sandbox[m] = "none", NoFault,
               sandbox' = [sandbox EXCEPT ![m] = "up"], pass.n # 0,
               pass' = [pass EXCEPT !.n = @ - 1, !.cur = m, !.pc = "record"]
        PROVE  RecInv'
    <2>1. pass' \in Passes /\ pass'.pc = "record" /\ pass'.cur = m
      <3>1. pass.n - 1 \in Nat
        BY <1>0, <1>3, SMT
      <3>2. pass' = [pass EXCEPT !.n = pass.n - 1, !.cur = m, !.pc = "record"]
        BY <1>0, <1>3 DEF Passes
      <3> QED
        BY <1>0, <3>1, <3>2 DEF Passes, PassSteps
    <2>2. /\ sandbox' \in [Members -> {"none", "up", "hung", "suspended", "stopped"}]
          /\ \A x \in Members \ {m} : sandbox'[x] = sandbox[x]
      BY <1>0, <1>3 DEF Typed
    <2>3. Typed'
      BY <1>0, <1>2, <1>3, <2>1, <2>2 DEF Typed, Launch, NoFault
    <2>4. LeakInv'
      BY <1>0, <1>2, <1>3, <2>1, <2>2 DEF LeakInv, NoLeakedSandbox, OnMember, Launch, NoFault
    <2> QED
      BY <2>3, <2>4, TypedPartsNext
  <1>4. CASE UNCHANGED sandbox /\ NoFault /\ Go("nap")
    <2>1. pass' \in Passes /\ pass'.pc = "nap"
      BY <1>0, <1>4, GoTyped DEF PassSteps
    <2>2. faults' \in 0..MaxFaults /\ faults' >= faults
      BY <1>0, <1>4, FaultsTyped, SMT DEF Typed
    <2> QED
      BY <1>0, <1>2, <1>4, <2>1, <2>2, QuietKeeps DEF Launch, OnMember
  <1>5. CASE UNCHANGED sandbox /\ Fail("launch") /\ pass.n # 0
             /\ pass' = [pass EXCEPT !.n = @ - 1]
    <2>1. pass' \in Passes /\ pass'.pc = "launch"
      BY <1>0, <1>5, SMT DEF Passes
    <2>2. faults' \in 0..MaxFaults /\ faults' >= faults
      BY <1>0, <1>5, FaultsTyped, SMT DEF Typed
    <2> QED
      BY <1>0, <1>2, <1>5, <2>1, <2>2, QuietKeeps DEF Launch, OnMember
  <1> QED
    BY <1>3, <1>4, <1>5 DEF Launch

\* A launched member gets a row, is stopped again, or is on record as left behind.
LEMMA RecordKeeps == RecInv /\ Record => RecInv'
  <1> SUFFICES ASSUME RecInv, Record PROVE RecInv'
    OBVIOUS
  <1>0. Typed /\ LeakInv /\ pass.pc = "record" /\ pass.cur \in Members /\ pass \in Passes
    BY TypedParts DEF Record, At, LeakInv, OnMember, Typed
  <1>1. pass' \in Passes /\ pass'.pc = "launch"
    BY <1>0 DEF Record, Passes, PassSteps
  <1>2. JobsTyped' /\ UNCHANGED <<wire, bank>>
    BY <1>0, SameJobs DEF Record, Typed
  <1>3. CASE /\ AddMember(pass.cur, FirstState)
             /\ NoFault /\ UNCHANGED <<sandbox, leaked>>
    <2>0. PICK m \in Members : m = pass.cur
      BY <1>0
    <2>1. BankStoreTypeOK' /\ HasRow(m)' /\ \A x \in Members \ {m} : HasRow(x)' <=> HasRow(x)
      <3>1. FirstState \in MemberState
        BY ReconcilerAssumption DEF MemberState
      <3> QED
        BY <1>0, <1>3, <2>0, <3>1, AddMemberTyped DEF Typed
    <2>2. Typed'
      BY <1>0, <1>1, <1>2, <1>3, <2>1 DEF Typed, NoFault
    <2>3. LeakInv'
      BY <1>0, <1>1, <1>3, <2>0, <2>1 DEF LeakInv, NoLeakedSandbox, OnMember, NoFault
    <2> QED
      BY <2>2, <2>3, TypedPartsNext
  <1>4. CASE /\ NoFault \/ Fail("record")
             /\ StopMember(pass.cur) /\ UNCHANGED <<members, leaked>>
    <2>1. BankStoreTypeOK' /\ \A x \in Members : HasRow(x)' <=> HasRow(x)
      BY <1>0, <1>4, SameTable DEF Typed
    <2>2. /\ sandbox' \in [Members -> {"none", "up", "hung", "suspended", "stopped"}]
          /\ sandbox'[pass.cur] = "stopped"
          /\ \A x \in Members \ {pass.cur} : sandbox'[x] = sandbox[x]
      BY <1>0, <1>4 DEF StopMember, Typed
    <2>3. faults' \in 0..MaxFaults /\ (leaked # {} => faults' > 0)
      BY <1>0, <1>4, FaultsTyped DEF Typed, LeakInv
    <2>4. Typed'
      BY <1>0, <1>1, <1>2, <1>4, <2>1, <2>2, <2>3 DEF Typed
    <2>5. LeakInv'
      BY <1>0, <1>1, <1>4, <2>1, <2>2, <2>3 DEF LeakInv, NoLeakedSandbox, OnMember
    <2> QED
      BY <2>4, <2>5, TypedPartsNext
  <1>5. CASE /\ Fail("stop") \/ Fail("outage")
             /\ leaked' = leaked \cup {pass.cur} /\ UNCHANGED <<members, sandbox>>
    <2>1. BankStoreTypeOK' /\ \A x \in Members : HasRow(x)' <=> HasRow(x)
      BY <1>0, <1>5, SameTable DEF Typed
    <2>2. faults' \in 0..MaxFaults /\ faults' > 0
      BY <1>0, <1>5, FaultsTyped DEF Typed
    <2>3. Typed'
      BY <1>0, <1>1, <1>2, <1>5, <2>1, <2>2 DEF Typed
    <2>4. LeakInv'
      BY <1>0, <1>1, <1>5, <2>1, <2>2 DEF LeakInv, NoLeakedSandbox, OnMember
    <2> QED
      BY <2>3, <2>4, TypedPartsNext
  <1> QED
    BY <1>3, <1>4, <1>5 DEF Record

\* Resume and Suspend: a sandbox changes between up and suspended only.
LEMMA SleepKeeps ==
    ASSUME RecInv, NEW m \in Members, Resume(m) \/ Suspend(m)
    PROVE  RecInv'
  <1>0. Typed /\ LeakInv /\ pass.pc \in {"resume", "suspend"} /\ pass \in Passes
    BY TypedParts DEF Resume, Suspend, At, Typed
  <1>1. /\ pass' \in Passes /\ pass'.pc \in {"resume", "suspend", "mark"}
        /\ pass'.pc = "mark" => pass'.cur = m
    <2>1. CASE pass' = [pass EXCEPT !.todo = @ \ {m}]
      BY <1>0, <2>1 DEF Passes
    <2>2. CASE pass' = [pass EXCEPT !.todo = @ \ {m}, !.cur = m, !.pc = "mark"]
      BY <1>0, <2>2 DEF Passes, PassSteps
    <2> QED
      BY <2>1, <2>2 DEF Resume, Suspend
  <1>2. BankStoreTypeOK' /\ JobsTyped' /\ \A x \in Members : HasRow(x)' <=> HasRow(x)
    BY <1>0, SameTable, SameJobs DEF Resume, Suspend, Typed
  <1>3. /\ sandbox' \in [Members -> {"none", "up", "hung", "suspended", "stopped"}]
        /\ \A x \in Members : Lives(x)' => Lives(x)
    <2>1. \/ UNCHANGED sandbox
          \/ sandbox' = [sandbox EXCEPT ![m] = IF @ = "suspended" THEN "up" ELSE @]
          \/ sandbox' = [sandbox EXCEPT ![m] = IF @ = "up" THEN "suspended" ELSE @]
      BY DEF Resume, Suspend
    <2> QED
      BY <1>0, <2>1 DEF Typed, Lives
  <1>4. faults' \in 0..MaxFaults /\ (leaked # {} => faults' > 0)
    BY <1>0, FaultsTyped DEF Resume, Suspend, Typed, LeakInv
  <1>5. UNCHANGED <<wire, bank, leaked>>
    BY DEF Resume, Suspend
  <1>6. Typed'
    BY <1>0, <1>1, <1>2, <1>3, <1>4, <1>5 DEF Typed
  <1>7. LeakInv'
    BY <1>0, <1>1, <1>2, <1>3, <1>4, <1>5 DEF LeakInv, NoLeakedSandbox, Lives, OnMember
  <1> QED
    BY <1>6, <1>7, TypedPartsNext

LEMMA CrashKeeps == RecInv /\ Crash => RecInv'
  <1> SUFFICES ASSUME RecInv, Crash PROVE RecInv'
    OBVIOUS
  <1>0. Typed /\ LeakInv
    BY TypedParts
  <1>1. pass' \in Passes /\ pass'.pc = "rest"
    BY NoPassTyped DEF Crash, NoPass
  <1>2. BankStoreTypeOK' /\ JobsTyped' /\ \A x \in Members : HasRow(x)' <=> HasRow(x)
    BY <1>0, SameTable, SameJobs DEF Crash, Typed
  <1>3. faults' \in 0..MaxFaults /\ faults' > 0
    BY <1>0, FaultsTyped DEF Crash, Typed
  <1>4. /\ leaked' \subseteq Members /\ leaked \subseteq leaked'
        /\ pass.pc = "record" => pass.cur \in leaked'
    BY <1>0 DEF Crash, At, Typed, LeakInv, OnMember
  <1>5. UNCHANGED <<sandbox, wire, bank>>
    BY DEF Crash
  <1>6. Typed'
    BY <1>0, <1>1, <1>2, <1>3, <1>4, <1>5 DEF Typed
  <1>7. LeakInv'
    BY <1>0, <1>1, <1>2, <1>3, <1>4, <1>5 DEF LeakInv, NoLeakedSandbox, OnMember
  <1> QED
    BY <1>6, <1>7, TypedPartsNext

-----------------------------------------------------------------------------
(* The others.                                                             *)

LEMMA ReportKeeps ==
    ASSUME RecInv, NEW m \in Members, SendReport(m) \/ ReportMemberStatus(m)
    PROVE  RecInv'
  <1>0. Typed
    BY TypedParts
  <1>1. BankStoreTypeOK' /\ \A x \in Members : HasRow(x)' <=> HasRow(x)
    <2>1. CASE UNCHANGED members
      BY <1>0, <2>1, SameTable DEF Typed
    <2>2. CASE \E n \in Nat : \E s : UpdateMemberStatus(m, s, n)
      BY <1>0, <2>2, UpdateTyped DEF Typed
    <2>3. Cardinality(Held(m)) \in Nat
      <3>1. Held(m) \in SUBSET Jobs /\ IsFiniteSet(Jobs)
        BY ReconcilerAssumption DEF Held
      <3> QED
        BY <3>1, FS_Subset, FS_CardinalityType
    <2> QED
      BY <2>1, <2>2, <2>3, SMT DEF SendReport, ReportMemberStatus
  <1>2. JobsTyped' /\ UNCHANGED <<sandbox, bank, pass, faults, leaked>>
    BY <1>0, SameJobs DEF SendReport, ReportMemberStatus, Typed
  <1>3. wire' \subseteq Members
    BY <1>0 DEF SendReport, ReportMemberStatus, Typed
  <1> QED
    BY <1>0, <1>1, <1>2, <1>3, OutsideKeeps, SMT DEF Typed, Lives

LEMMA JobStepKeeps ==
    ASSUME RecInv,
           \/ \E m \in Members : PullJob(m)
           \/ \E j \in Jobs : CloseJob(j) \/ \E m \in Members \cup {NoMember} : OpenJob(j, m)
    PROVE  RecInv'
  <1>0. Typed
    BY TypedParts
  <1>1. UNCHANGED <<members, sandbox, wire, bank, pass, faults, leaked>>
    BY DEF PullJob, CloseJob, OpenJob
  <1>2. JobsTyped'
    <2>1. \/ \E j \in Jobs, m \in Members \cup {NoMember} : Life!Begin(j, m)
          \/ \E j \in Jobs, m \in Members : Life!Take(j, m)
          \/ \E j \in Jobs, v \in Verdicts : Life!Settle(j, v)
      BY DEF PullJob, CloseJob, OpenJob
    <2> QED
      BY <1>0, <2>1, LifeTyped DEF Typed
  <1>3. BankStoreTypeOK' /\ \A x \in Members : HasRow(x)' <=> HasRow(x)
    BY <1>0, <1>1, SameTable DEF Typed
  <1> QED
    BY <1>0, <1>1, <1>2, <1>3, OutsideKeeps, SMT DEF Typed, Lives

LEMMA TimeKeeps ==
    ASSUME RecInv, NEW m \in Members, TimePasses(m) \/ Hang(m)
    PROVE  RecInv'
  <1>0. Typed
    BY TypedParts
  <1>1. BankStoreTypeOK' /\ \A x \in Members : HasRow(x)' <=> HasRow(x)
    <2>1. CASE TimePasses(m)
      BY <1>0, <2>1, AgesTyped DEF TimePasses, Typed
    <2>2. CASE Hang(m)
      BY <1>0, <2>2, SameTable DEF Hang, Typed
    <2> QED
      BY <2>1, <2>2
  <1>2. /\ sandbox' \in [Members -> {"none", "up", "hung", "suspended", "stopped"}]
        /\ \A x \in Members : Lives(x)' => Lives(x)
        /\ \A x \in Members : sandbox[x] = "stopped" => sandbox'[x] = "stopped"
    BY <1>0 DEF TimePasses, Hang, Typed, Lives
  <1>3. faults' \in 0..MaxFaults /\ faults' >= faults
    BY <1>0, FaultsTyped, SMT DEF TimePasses, Hang, Typed
  <1>4. JobsTyped' /\ UNCHANGED <<wire, bank, pass, leaked>>
    BY <1>0, SameJobs DEF TimePasses, Hang, Typed
  <1> QED
    BY <1>0, <1>1, <1>2, <1>3, <1>4, OutsideKeeps DEF Typed

LEMMA UpdateBankKeeps ==
    ASSUME RecInv, NEW d \in DesiredCounts, UpdateBank(d)
    PROVE  RecInv'
  <1>0. Typed
    BY TypedParts
  <1>1. UNCHANGED <<members, phase, holder, verdict, sandbox, wire, pass, faults, leaked>>
    BY DEF UpdateBank, jobVars
  <1>2. bank' \in [desired : DesiredCounts, deleted : BOOLEAN, resizes : 0..MaxResizes]
    <2>1. /\ bank \in [desired : DesiredCounts, deleted : BOOLEAN, resizes : 0..MaxResizes]
          /\ bank.resizes < MaxResizes /\ bank.resizes \in 0..MaxResizes
          /\ bank' = [bank EXCEPT !.desired = d, !.resizes = @ + 1]
      BY <1>0 DEF UpdateBank, Typed
    <2>2. bank.resizes + 1 \in 0..MaxResizes
      BY <2>1, ReconcilerAssumption, SMT
    <2>3. bank' = [bank EXCEPT !.desired = d, !.resizes = bank.resizes + 1]
      BY <2>1
    <2> QED
      BY <2>1, <2>2, <2>3
  <1>3. BankStoreTypeOK' /\ JobsTyped' /\ \A x \in Members : HasRow(x)' <=> HasRow(x)
    BY <1>0, <1>1, SameTable DEF Typed, JobsTyped
  <1> QED
    BY <1>0, <1>1, <1>2, <1>3, OutsideKeeps, SMT DEF Typed, Lives

LEMMA DeleteBankKeeps == RecInv /\ DeleteBank => RecInv'
  <1> SUFFICES ASSUME RecInv, DeleteBank PROVE RecInv'
    OBVIOUS
  <1>0. Typed /\ LeakInv
    BY TypedParts
  <1>1. UNCHANGED <<holder, verdict, sandbox, wire, pass>>
    BY DEF DeleteBank
  <1>2. BankStoreTypeOK'
    BY <1>0, NewRowIsARow DEF DeleteBank, Typed, BankStoreTypeOK, Absent
  <1>3. JobsTyped'
    BY <1>0, <1>1 DEF DeleteBank, Typed, JobsTyped
  <1>4. bank' \in [desired : DesiredCounts, deleted : BOOLEAN, resizes : 0..MaxResizes]
    BY <1>0 DEF DeleteBank, Typed
  <1>5. faults' \in 0..MaxFaults /\ faults' > 0
    BY <1>0, FaultsTyped DEF DeleteBank, Typed
  <1>6. /\ leaked' \subseteq Members /\ leaked \subseteq leaked'
        /\ \A x \in Members : HasRow(x) => x \in leaked'
    BY <1>0 DEF DeleteBank, Rows, Typed
  <1>7. Typed'
    BY <1>0, <1>1, <1>2, <1>3, <1>4, <1>5, <1>6 DEF Typed
  <1>8. LeakInv'
    BY <1>0, <1>1, <1>5, <1>6 DEF LeakInv, NoLeakedSandbox, OnMember
  <1> QED
    BY <1>7, <1>8, TypedPartsNext

LEMMA ForgetKeeps ==
    ASSUME RecInv, NEW m \in Members, ForgetMember(m)
    PROVE  RecInv'
  <1>0. Typed /\ LeakInv
    BY TypedParts
  <1>1. UNCHANGED <<phase, holder, verdict, wire, bank, pass, faults>> /\ m # pass.cur
    BY DEF ForgetMember, jobVars
  <1>2. BankStoreTypeOK' /\ \A x \in Members \ {m} : HasRow(x)' <=> HasRow(x)
    BY <1>0, NewRowIsARow DEF ForgetMember, Typed, BankStoreTypeOK, HasRow, Absent
  <1>3. /\ sandbox' \in [Members -> {"none", "up", "hung", "suspended", "stopped"}]
        /\ sandbox'[m] = "none"
        /\ \A x \in Members \ {m} : sandbox'[x] = sandbox[x]
    BY <1>0 DEF ForgetMember, Typed
  <1>4. leaked' = leaked \ {m}
    BY DEF ForgetMember
  <1>5. Typed'
    BY <1>0, <1>1, <1>2, <1>3, <1>4 DEF Typed, JobsTyped
  <1>6. LeakInv'
    BY <1>0, <1>1, <1>2, <1>3, <1>4 DEF LeakInv, NoLeakedSandbox, OnMember
  <1> QED
    BY <1>5, <1>6, TypedPartsNext

-----------------------------------------------------------------------------
(* The theorems.                                                           *)

LEMMA InitRecInv == RecInit => RecInv
  <1> SUFFICES ASSUME RecInit PROVE RecInv
    OBVIOUS
  <1>1. BankStoreTypeOK
    BY NewRowIsARow DEF RecInit, BankStoreInit, BankStoreTypeOK, Absent
  <1>2. JobsTyped
    BY DEF RecInit, Life!Init, JobsTyped
  <1>3. pass \in Passes /\ pass.pc = "rest"
    BY NoPassTyped DEF RecInit, NoPass
  <1>4. Typed
    BY <1>1, <1>2, <1>3, ReconcilerAssumption, SMT DEF RecInit, Typed
  <1>5. LeakInv
    BY <1>3 DEF RecInit, LeakInv, NoLeakedSandbox, OnMember
  <1> QED
    BY <1>4, <1>5, TypedParts

LEMMA NextRecInv == RecInv /\ [RecNext]_recVars => RecInv'
  <1> SUFFICES ASSUME RecInv, [RecNext]_recVars PROVE RecInv'
    OBVIOUS
  <1>1. CASE UNCHANGED recVars
    <2>1. Typed
      BY TypedParts
    <2>2. BankStoreTypeOK' /\ JobsTyped' /\ \A x \in Members : HasRow(x)' <=> HasRow(x)
      BY <1>1, <2>1, SameTable DEF recVars, Typed, JobsTyped
    <2> QED
      BY <1>1, <2>1, <2>2, OutsideKeeps, SMT DEF recVars, Typed, Lives
  <1>2. CASE PassStep
    BY <1>2, StartPassKeeps, MarkingKeeps, KillKeeps, ReleaseKeeps, StopKeeps, RemoveKeeps,
       SizeKeeps, ShedKeeps, LaunchKeeps, RecordKeeps, NapKeeps, ListStaleKeeps,
       SweepKeeps, JudgeKeeps, SleepKeeps DEF PassStep
  <1>3. ASSUME NEW m \in Members,
               SendReport(m) \/ ReportMemberStatus(m) \/ PullJob(m)
                  \/ TimePasses(m) \/ Hang(m) \/ ForgetMember(m)
        PROVE  RecInv'
    BY <1>3, ReportKeeps, JobStepKeeps, TimeKeeps, ForgetKeeps
  <1> QED
    BY <1>1, <1>2, <1>3, CrashKeeps, JobStepKeeps, UpdateBankKeeps, DeleteBankKeeps
       DEF RecNext

\* RecInv holds in every reachable state.
THEOREM ReconcilerCorrect == RecSpec => []RecInv
  BY InitRecInv, NextRecInv, PTL DEF RecSpec

\* The tables, the sandboxes and the locals of a pass keep their shape: no
\* count of members to launch or to shed goes below zero.
THEOREM ReconcilerTypeCorrect == RecSpec => []RecTypeOK
  <1>1. RecInv => RecTypeOK
    BY DEF RecInv
  <1> QED
    BY ReconcilerCorrect, <1>1, PTL

\* No pass removes the row of a sandbox it has not stopped: a sandbox without a
\* row is about to be recorded, or was left by a failed stop, a crash between a
\* launch and its record, or a deleted bank.
THEOREM SandboxesAreNamed == RecSpec => []NoLeakedSandbox
  <1>1. RecInv => NoLeakedSandbox
    BY DEF RecInv, LeakInv
  <1> QED
    BY ReconcilerCorrect, <1>1, PTL

\* As long as no call has failed, the daemon has not crashed and the bank was
\* not deleted, every sandbox that lives has a row or is about to get one.
THEOREM NoFailureNoLeak ==
    RecSpec => [](faults = 0 =>
        \A m \in Members : Lives(m) /\ ~HasRow(m) => pass.pc = "record" /\ pass.cur = m)
  <1>1. RecInv => (faults = 0 =>
           \A m \in Members : Lives(m) /\ ~HasRow(m) => pass.pc = "record" /\ pass.cur = m)
    BY SMT DEF RecInv, LeakInv, NoLeakedSandbox, Lives
  <1> QED
    BY ReconcilerCorrect, <1>1, PTL

-----------------------------------------------------------------------------
(* The size of a bank: the shape of the rows, the sandboxes and the pass.  *)

LEMMA OnlyCalm ==
    ASSUME Faults \cap Disturbing = {}, NEW kind \in Disturbing
    PROVE  ~Fail(kind)
  BY DEF Fail

\* What counts is one of finitely many members.
LEMMA RevivableFinite ==
    /\ Revivable \in SUBSET Members /\ IsFiniteSet(Revivable)
    /\ Cardinality(Revivable) \in Nat
  <1>1. Revivable \in SUBSET Members /\ IsFiniteSet(Members)
    BY ReconcilerAssumption DEF Revivable, Rows
  <1> QED
    BY <1>1, FS_Subset, FS_CardinalityType

\* A step outside the pass: rows go, age, or take up a report that is on its way;
\* a sandbox that runs may send one, and only one that does not run grows silent.
Drifts(x) ==
    /\ HasRow(x)' => HasRow(x)
    /\ HasRow(x)' => \/ members'[x].st = members[x].st
                     \/ x \in wire /\ x \notin wire' /\ members[x].st # "draining"
                        /\ members'[x].st \in Reportable
    /\ HasRow(x)' /\ Expired(members'[x]) => Expired(members[x]) \/ sandbox[x] # "up"
    /\ HasRow(x)' \/ x = pass.cur => sandbox'[x] = sandbox[x]
    /\ x \in wire' => x \in wire \/ sandbox[x] = "up"

LEMMA DriftKeeps ==
    ASSUME MembersInv, RecInv, UNCHANGED pass, \A x \in Members : Drifts(x)
    PROVE  MembersInv' /\ Revivable' \subseteq Revivable
  <1> USE DEF Drifts
  <1>0. /\ Typed /\ pass \in Passes
        /\ pass.pc \in OnMember => pass.cur \in Members
    BY TypedParts DEF LeakInv, Typed
  <1>1. Revivable' \subseteq Revivable
    <2> SUFFICES ASSUME NEW x \in Members, HasRow(x)', members'[x].st # "draining",
                        ~(members'[x].st = "dead" /\ pass.snap[x].st = "draining")
                 PROVE  x \in Revivable
      BY DEF Revivable, Rows
    <2>1. CASE members'[x].st = members[x].st
      BY <2>1 DEF Revivable, Rows
    <2>2. CASE x \in wire /\ members[x].st # "draining"
      <3>1. ASSUME members[x].st = "dead", pass.snap[x].st = "draining"
            PROVE  FALSE
        <4>1. HasRow(x) /\ x \in Rows
          BY DEF Rows
        <4>2. x = pass.cur /\ Judging /\ pass.pc # "judge"
          BY <3>1, <4>1 DEF MembersInv, DeadInv, Judging
        <4>3. x \notin wire
          BY <3>1, <4>1, <4>2 DEF MembersInv, BuriedInv
        <4> QED
          BY <2>2, <4>3
      <3> QED
        BY <2>2, <3>1 DEF Revivable, Rows
    <2> QED
      BY <2>1, <2>2
  <1>2. SandboxInv'
    BY <1>0 DEF MembersInv, SandboxInv, Rows, OnMember
  <1>3. WireInv'
    <2> SUFFICES ASSUME NEW x \in Members, HasRow(x)', x \in wire',
                        members'[x].st # "suspended", sandbox'[x] # "up"
                 PROVE  /\ x = pass.cur
                        /\ pass.pc \in {"mark", "kill", "release", "stop", "remove"}
      BY DEF WireInv, Rows
    <2>1. HasRow(x) /\ sandbox[x] # "up" /\ x \in wire /\ members[x].st # "suspended"
      OBVIOUS
    <2> QED
      BY <2>1 DEF MembersInv, WireInv, Rows
  <1>4. SortInv'
    BY <1>1 DEF MembersInv, SortInv, Judging
  <1>5. TodoInv'
    BY DEF MembersInv, TodoInv
  <1>6. DrainInv'
    <2> SUFFICES ASSUME NEW x \in Members, HasRow(x)', members'[x].st = "draining"
                 PROVE  /\ Expired(members'[x]) => sandbox'[x] # "up"
                        /\ pass.pc \notin {"rest", "sweep"} =>
                              \/ pass.snap[x].st = "draining"
                              \/ x \in pass.live /\ pass.snap[x].inFlight # 0
                              \/ x = pass.cur /\ pass.pc \in {"stop", "remove"}
      BY DEF DrainInv, Rows, Expired
    <2>1. HasRow(x) /\ members[x].st = "draining" /\ sandbox'[x] = sandbox[x]
      BY DEF Reportable
    <2> QED
      BY <2>1 DEF MembersInv, DrainInv, Rows
  <1>7. DeadInv'
    <2> SUFFICES ASSUME NEW x \in Members, HasRow(x)', members'[x].st = "dead"
                 PROVE  /\ x = pass.cur /\ pass.ret = "judge"
                        /\ pass.pc \in {"kill", "release", "stop", "remove"}
      BY DEF DeadInv, Rows
    <2>1. HasRow(x) /\ members[x].st = "dead"
      BY DEF Reportable
    <2> QED
      BY <2>1 DEF MembersInv, DeadInv, Rows
  <1>8. LiveInv' /\ ListInv' /\ BuriedInv'
    <2>1. \A x \in Members : HasRow(x)' /\ Expired(members'[x]) /\ sandbox'[x] = "up"
                             => HasRow(x) /\ Expired(members[x]) /\ sandbox[x] = "up"
      OBVIOUS
    <2>2. pass.live \subseteq Members /\ pass.todo \subseteq Members
      BY <1>0 DEF Passes
    <2>3. \A x \in pass.live : HasRow(x)' =>
             /\ Expired(members'[x]) => sandbox'[x] # "up"
             /\ members'[x].st = "suspended" => pass.pc \in {"suspend", "mark"}
      <3>1. \A x \in pass.live : HasRow(x) =>
               /\ Expired(members[x]) => sandbox[x] # "up"
               /\ members[x].st = "suspended" => pass.pc \in {"suspend", "mark"}
        BY DEF MembersInv, LiveInv
      <3>2. \A x \in Members : HasRow(x)' /\ members'[x].st = "suspended" =>
               HasRow(x) /\ members[x].st = "suspended"
        BY DEF Reportable
      <3> QED
        BY <2>1, <2>2, <3>1, <3>2
    <2>4. ASSUME Judging, NEW x \in pass.todo
          PROVE  /\ pass.snap[x].st \notin Absent \cup {"dead"}
                 /\ HasRow(x)' /\ members'[x].st = "suspended" => pass.snap[x].st = "suspended"
                 /\ HasRow(x)' /\ Expired(members'[x]) =>
                       \/ sandbox'[x] # "up" \/ Expired(pass.snap[x])
                       \/ pass.snap[x].st \in {"suspended", "draining"}
                 /\ pass.snap[x].st = "draining" /\ HasRow(x)' =>
                       /\ members'[x].st = "draining"
                       /\ Expired(pass.snap[x]) => sandbox'[x] # "up" /\ x \notin wire'
      BY <2>1, <2>2, <2>4 DEF MembersInv, ListInv, Reportable
    <2>5. ASSUME Judging, pass.pc # "judge", pass.snap[pass.cur].st = "draining",
                 HasRow(pass.cur)'
          PROVE  /\ members'[pass.cur].st \in {"draining", "dead"}
                 /\ pass.pc = "bury" \/ members'[pass.cur].st = "dead" =>
                       sandbox'[pass.cur] # "up" /\ pass.cur \notin wire'
      <3>1. pass.cur \in Members /\ HasRow(pass.cur)
        BY <1>0, <2>5 DEF Judging, OnMember
      <3>2. /\ members[pass.cur].st \in {"draining", "dead"}
            /\ pass.pc = "bury" \/ members[pass.cur].st = "dead" =>
                  sandbox[pass.cur] # "up" /\ pass.cur \notin wire
        BY <2>5, <3>1 DEF MembersInv, BuriedInv
      <3>3. members'[pass.cur].st = members[pass.cur].st
        BY <2>5, <3>1, <3>2
      <3> QED
        BY <2>5, <3>1, <3>2, <3>3
    <2> QED
      <3>1. LiveInv'
        BY <2>3 DEF LiveInv
      <3>2. ListInv'
        BY <2>4 DEF ListInv, Judging
      <3>3. BuriedInv'
        BY <2>5 DEF BuriedInv, Judging
      <3> QED
        BY <3>1, <3>2, <3>3
  <1> QED
    BY <1>1, <1>2, <1>3, <1>4, <1>5, <1>6, <1>7, <1>8 DEF MembersInv

\* What the members, the clients, the owner and the clock do is such a step.
LEMMA ReportDrifts ==
    ASSUME RecInv, NEW m \in Members, SendReport(m) \/ ReportMemberStatus(m)
    PROVE  UNCHANGED pass /\ \A x \in Members : Drifts(x)
  <1>0. BankStoreTypeOK /\ members[m] \in MemberRow
    BY TypedParts DEF Typed, BankStoreTypeOK
  <1>1. UNCHANGED <<pass, sandbox>>
    BY DEF SendReport, ReportMemberStatus
  <1>2. CASE SendReport(m)
    BY <1>1, <1>2 DEF SendReport, Drifts, HasRow
  <1>3. CASE ReportMemberStatus(m) /\ UNCHANGED members
    BY <1>1, <1>3 DEF ReportMemberStatus, Drifts, HasRow
  <1>4. ASSUME NEW n, NEW s, UpdateMemberStatus(m, s, n), m \in wire, wire' = wire \ {m}
        PROVE  \A x \in Members : Drifts(x)
    <2> DEFINE row == Reported(members[m], s, n)
    <2>1. /\ HasRow(m) /\ s \in Reportable
          /\ members' = [members EXCEPT ![m] = row]
      BY <1>4 DEF UpdateMemberStatus
    <2>2. /\ row.hb = "fresh"
          /\ row.st = IF members[m].st = "draining" THEN "draining" ELSE s
      BY <1>0, SMT DEF Reported, MemberRow
    <2> HIDE DEF row
    <2>3. members'[m] = row /\ \A x \in Members \ {m} : members'[x] = members[x]
      BY <1>0, <2>1 DEF BankStoreTypeOK
    <2>4. Drifts(m)
      BY <1>1, <1>4, <2>1, <2>2, <2>3 DEF Drifts, Expired, HasRow
    <2>5. ASSUME NEW x \in Members \ {m} PROVE Drifts(x)
      BY <1>1, <1>4, <2>3 DEF Drifts, HasRow
    <2> QED
      BY <2>4, <2>5
  <1> QED
    BY <1>1, <1>2, <1>3, <1>4 DEF ReportMemberStatus

LEMMA TimeDrifts ==
    ASSUME RecInv, Faults \cap Disturbing = {}, NEW m \in Members, TimePasses(m)
    PROVE  UNCHANGED pass /\ \A x \in Members : Drifts(x)
  <1>0. BankStoreTypeOK /\ members[m] \in MemberRow
    BY TypedParts DEF Typed, BankStoreTypeOK
  <1>1. UNCHANGED <<pass, sandbox, wire>>
    BY DEF TimePasses
  <1>2. /\ \A x \in Members \ {m} : members'[x] = members[x]
        /\ members'[m].st = members[m].st
        /\ members'[m].hb = members[m].hb \/ sandbox[m] # "up"
    <2>1. CASE HeartbeatAges(m) /\ sandbox[m] # "up"
      BY <1>0, <2>1 DEF HeartbeatAges, BankStoreTypeOK, MemberRow
    <2>2. CASE IdleAges(m)
      BY <1>0, <2>2 DEF IdleAges, BankStoreTypeOK, MemberRow
    <2>3. CASE RowAges(m)
      BY <1>0, <2>3 DEF RowAges, BankStoreTypeOK, MemberRow
    <2>4. ~Fail("slow")
      BY OnlyCalm DEF Disturbing
    <2> QED
      BY <2>1, <2>2, <2>3, <2>4 DEF TimePasses
  <1> QED
    BY <1>1, <1>2 DEF Drifts, Expired, HasRow

LEMMA NoRow == NewRow("gone").st \in Absent /\ NewRow("unused").st \in Absent
  BY DEF NewRow, Absent

LEMMA DeleteDrifts ==
    ASSUME RecInv, DeleteBank
    PROVE  UNCHANGED pass /\ \A x \in Members : Drifts(x)
  <1>1. UNCHANGED <<pass, sandbox, wire>>
    BY DEF DeleteBank
  <1>2. ASSUME NEW x \in Members PROVE ~HasRow(x)'
    <2>1. members'[x] = IF HasRow(x) THEN NewRow("gone") ELSE members[x]
      BY DEF DeleteBank
    <2> QED
      BY <2>1, NoRow DEF HasRow
  <1> QED
    BY <1>1, <1>2 DEF Drifts

LEMMA ForgetDrifts ==
    ASSUME RecInv, NEW m \in Members, ForgetMember(m)
    PROVE  UNCHANGED pass /\ \A x \in Members : Drifts(x)
  <1>0. Typed
    BY TypedParts
  <1>1. /\ UNCHANGED <<pass, wire>> /\ m # pass.cur /\ ~HasRow(m)
        /\ members'[m] = NewRow("unused")
        /\ \A x \in Members \ {m} : members'[x] = members[x] /\ sandbox'[x] = sandbox[x]
    BY <1>0 DEF ForgetMember, Typed, BankStoreTypeOK
  <1>2. ~HasRow(m)'
    BY <1>1, NoRow DEF HasRow
  <1>3. Drifts(m)
    BY <1>1, <1>2 DEF Drifts
  <1>4. ASSUME NEW x \in Members \ {m} PROVE Drifts(x)
    BY <1>1 DEF Drifts, HasRow
  <1> QED
    BY <1>1, <1>3, <1>4

LEMMA StillDrifts ==
    ASSUME UNCHANGED <<members, sandbox, wire, pass>>
    PROVE  UNCHANGED pass /\ \A x \in Members : Drifts(x)
  BY DEF Drifts, HasRow

\* Fewer rows and no more launches to come than before.
LEMMA FewerKeep ==
    ASSUME NEW d \in Nat, SpillInv(d), MembersInv', Revivable' \subseteq Revivable,
           Coming \in Nat, Coming' \in Nat, Coming' <= Coming,
           bank'.desired <= d, pass'.desired <= d
    PROVE  SpillInv(d)'
  <1>1. /\ Cardinality(Revivable) \in Nat /\ Cardinality(Revivable') \in Nat
        /\ Cardinality(Revivable') <= Cardinality(Revivable)
    <2>1. IsFiniteSet(Revivable)
      BY RevivableFinite
    <2> QED
      BY <2>1, FS_Subset, FS_CardinalityType
  <1>2. SpillLimit(d) \in Nat /\ Cardinality(Revivable) + Coming <= SpillLimit(d)
    BY SMT DEF SpillInv, SpillLimit, AtLeast
  <1>3. Cardinality(Revivable') + Coming' <= SpillLimit(d)
    BY <1>1, <1>2, SMT
  <1> QED
    BY <1>3 DEF SpillInv


-----------------------------------------------------------------------------
(* The size of a bank: the steps of the pass.                              *)

\* The pass goes on with the members it has sorted so far.
SameSorting ==
    /\ pass'.snap = pass.snap /\ pass'.todo = pass.todo
    /\ pass'.live = pass.live /\ pass'.susp = pass.susp
    /\ pass'.desired = pass.desired

LEMMA GoFields ==
    ASSUME pass \in Passes, NEW pc, Go(pc)
    PROVE  SameSorting /\ pass'.pc = pc /\ pass'.ret = pass.ret /\ pass'.cur = pass.cur
           /\ pass'.n = pass.n
  BY DEF Passes, Go, SameSorting

LEMMA ContinueFields ==
    ASSUME pass \in Passes, Continue
    PROVE  SameSorting /\ pass'.pc = pass.ret /\ pass'.ret = pass.ret /\ pass'.cur = NoMember
  BY DEF Passes, Continue, SameSorting

\* What the steps below use of the types.
LEMMA PassFacts ==
    ASSUME RecInv
    PROVE  /\ pass \in Passes /\ BankStoreTypeOK
           /\ members \in [Members -> MemberRow]
           /\ sandbox \in [Members -> {"none", "up", "hung", "suspended", "stopped"}]
           /\ pass.snap \in [Members -> MemberRow]
           /\ pass.todo \subseteq Members /\ pass.live \subseteq Members
           /\ pass.susp \subseteq Members /\ pass.n \in Nat /\ pass.desired \in Nat
           /\ pass.pc \in OnMember => pass.cur \in Members
           /\ NoMember \notin Members
  BY TypedParts, ReconcilerAssumption DEF Typed, BankStoreTypeOK, Passes, LeakInv

\* A pass that ends, or has not begun, keeps nothing of what it read.
LEMMA EndKeeps ==
    ASSUME RecInv, MembersInv, UNCHANGED <<members, sandbox, wire>>,
           pass.pc \in {"resume", "suspend", "sweep"}, pass'.pc \in {"rest", "sweep"},
           pass'.ret = "judge", pass'.cur = NoMember,
           pass'.live = {}, pass'.susp = {}
    PROVE  MembersInv' /\ Revivable' \subseteq Revivable
  <1>1. \A x \in Rows : members[x].st # "dead"
    BY DEF MembersInv, DeadInv
  <1>2. Rows' = Rows /\ \A x : HasRow(x)' <=> HasRow(x)
    BY DEF Rows, HasRow
  <1>3. Revivable' \subseteq Revivable
    BY <1>1, <1>2 DEF Revivable
  <1>4. SandboxInv' /\ WireInv'
    BY <1>2 DEF MembersInv, SandboxInv, WireInv
  <1>5. SortInv' /\ TodoInv' /\ DeadInv'
    BY <1>1, <1>2 DEF SortInv, TodoInv, DeadInv, Judging
  <1>6. DrainInv'
    BY <1>2 DEF MembersInv, DrainInv, Expired
  <1>7. LiveInv' /\ ListInv' /\ BuriedInv'
    BY DEF LiveInv, ListInv, BuriedInv, Judging
  <1> QED
    BY <1>3, <1>4, <1>5, <1>6, <1>7 DEF MembersInv

LEMMA ListStaleShape ==
    ASSUME RecInv, MembersInv, ListStale
    PROVE  MembersInv' /\ Revivable' \subseteq Revivable
  <1>1. PICK S : pass' = [NoPass EXCEPT !.pc = "sweep", !.stale = S]
    BY DEF ListStale
  <1>2. /\ pass'.pc = "sweep" /\ pass'.ret = "judge" /\ pass'.cur = NoMember
        /\ pass'.live = {} /\ pass'.susp = {}
    BY <1>1 DEF NoPass
  <1> QED
    BY <1>2, EndKeeps DEF ListStale

LEMMA SweepShape ==
    ASSUME RecInv, MembersInv, Sweep
    PROVE  MembersInv' /\ Revivable' \subseteq Revivable
  <1>1. CASE pass' = NoPass
    <2>1. /\ pass'.pc = "rest" /\ pass'.ret = "judge" /\ pass'.cur = NoMember
          /\ pass'.live = {} /\ pass'.susp = {}
      BY <1>1 DEF NoPass
    <2> QED
      BY <2>1, EndKeeps DEF Sweep, At
  <1>2. CASE \E j \in pass.stale : pass' = [pass EXCEPT !.stale = @ \ {j}]
    <2>1. /\ SameSorting /\ pass'.pc = pass.pc /\ pass'.ret = pass.ret /\ pass'.cur = pass.cur
      BY <1>2, PassFacts DEF Passes, SameSorting
    <2>2. pass.pc = "sweep" /\ UNCHANGED <<members, sandbox, wire>>
      BY DEF Sweep, At
    <2>3. Rows' = Rows /\ \A x : HasRow(x)' <=> HasRow(x)
      BY <2>2 DEF Rows, HasRow
    <2>4. Revivable' = Revivable
      BY <2>1, <2>2, <2>3 DEF Revivable, SameSorting
    <2>5. SandboxInv' /\ WireInv' /\ DeadInv' /\ DrainInv'
      BY <2>1, <2>2, <2>3 DEF MembersInv, SandboxInv, WireInv, DeadInv, DrainInv, Expired,
         SameSorting
    <2>6. SortInv' /\ TodoInv'
      BY <2>1, <2>2, <2>4 DEF MembersInv, SortInv, TodoInv, Judging, SameSorting
    <2>7. LiveInv' /\ ListInv' /\ BuriedInv'
      BY <2>1, <2>2, <2>3 DEF MembersInv, LiveInv, ListInv, BuriedInv, Judging, Expired, SameSorting
    <2> QED
      BY <2>4, <2>5, <2>6, <2>7 DEF MembersInv
  <1> QED
    BY <1>1, <1>2 DEF Sweep

\* At the start of a pass no row is dead, and a draining member whose heartbeat has
\* expired does not run and has no report on its way.
LEMMA StartPassShape ==
    ASSUME RecInv, MembersInv, StartPass
    PROVE  MembersInv' /\ Revivable' \subseteq Revivable
  <1> DEFINE snap == [m \in Members |-> IF HasRow(m) THEN members[m] ELSE NewRow("unused")]
  <1>1. /\ pass.pc = "rest" /\ UNCHANGED <<members, sandbox, wire>>
        /\ pass' = [NoPass EXCEPT !.pc = "judge", !.desired = bank.desired, !.todo = Rows,
                                  !.snap = snap]
    BY DEF StartPass, At
  <1>2. /\ pass'.pc = "judge" /\ pass'.ret = "judge" /\ pass'.cur = NoMember
        /\ pass'.todo = Rows /\ pass'.snap = snap /\ pass'.live = {} /\ pass'.susp = {}
    <2> HIDE DEF snap
    <2> QED
      BY <1>1 DEF NoPass
  <1>3. \A x \in Rows : pass'.snap[x] = members[x]
    BY <1>2 DEF Rows
  <1> HIDE DEF snap
  <1>4. Rows' = Rows /\ \A x : HasRow(x)' <=> HasRow(x)
    BY <1>1 DEF Rows, HasRow
  <1>5. \A x \in Rows : members[x].st # "dead"
    BY <1>1 DEF MembersInv, DeadInv
  <1>6. Revivable' \subseteq Revivable /\ Revivable' \subseteq Rows
    BY <1>1, <1>4, <1>5 DEF Revivable
  <1>7. SandboxInv' /\ WireInv' /\ DeadInv'
    BY <1>1, <1>2, <1>4, <1>5 DEF MembersInv, SandboxInv, WireInv, DeadInv
  <1>8. SortInv' /\ TodoInv'
    BY <1>2, <1>6, PassFacts DEF SortInv, TodoInv, Judging, Rows
  <1>9. DrainInv'
    BY <1>1, <1>3, <1>4 DEF MembersInv, DrainInv, Expired
  <1>10. LiveInv' /\ ListInv' /\ BuriedInv'
    <2>1. ASSUME NEW x \in Rows
          PROVE  /\ members[x].st \notin Absent \cup {"dead"}
                 /\ members[x].st = "draining" /\ Expired(members[x]) =>
                       sandbox[x] # "up" /\ x \notin wire
      BY <1>1, <1>5 DEF MembersInv, DrainInv, WireInv, Rows, HasRow
    <2>2. LiveInv' /\ BuriedInv'
      BY <1>2 DEF LiveInv, BuriedInv
    <2>3. ListInv'
      BY <1>1, <1>2, <1>3, <1>4, <2>1 DEF ListInv, Judging
    <2> QED
      BY <2>2, <2>3
  <1> QED
    BY <1>6, <1>7, <1>8, <1>9, <1>10 DEF MembersInv


\* What Judge decides, with a pass that is never slow: it reads the row as it is.
LEMMA JudgeDecides ==
    ASSUME RecInv, MembersInv, Faults \cap Disturbing = {}, NEW m \in Members, Judge(m)
    PROVE  LET r == pass.snap[m] IN
           /\ pass.pc = "judge" /\ m \in pass.todo /\ UNCHANGED <<members, sandbox, wire, bank>>
           /\ pass'.todo = pass.todo \ {m} /\ pass'.ret = pass.ret
           /\ pass'.desired = pass.desired
           /\ \A x \in Members : /\ pass'.snap[x].st = pass.snap[x].st
                                 /\ pass'.snap[x].inFlight = pass.snap[x].inFlight
                                 /\ x # m => pass'.snap[x] = pass.snap[x]
           /\ \/ /\ pass'.pc = "stop" /\ pass'.cur = m
                 /\ pass'.live = pass.live /\ pass'.susp = pass.susp
                 /\ r.st \in {"suspended", "draining"}
              \/ /\ pass'.pc = "bury" /\ pass'.cur = m
                 /\ pass'.live = pass.live /\ pass'.susp = pass.susp
                 /\ r.st \notin {"suspended", "dead"} /\ Expired(r)
              \/ /\ pass'.pc = "judge" /\ pass'.cur = pass.cur
                 /\ pass'.live = pass.live /\ pass'.susp = pass.susp /\ r.st = "draining"
              \/ /\ pass'.pc = "judge" /\ pass'.cur = pass.cur
                 /\ pass'.live = pass.live /\ pass'.susp = pass.susp \cup {m}
                 /\ r.st = "suspended"
              \/ /\ pass'.pc = "judge" /\ pass'.cur = pass.cur
                 /\ pass'.live = pass.live \cup {m} /\ pass'.susp = pass.susp
                 /\ r.st \notin {"suspended", "draining", "dead"} /\ ~Expired(r)
  <1> DEFINE r == pass.snap[m]
             next == [pass EXCEPT !.todo = @ \ {m}, !.snap[m].hb = "booting",
                                  !.snap[m].upd = "recent"]
             for(pc) == [next EXCEPT !.cur = m, !.pc = pc]
             decided(row) ==
                 CASE row.st = "suspended" /\ row.upd = "old" -> for("stop")
                   [] row.st = "suspended" /\ row.upd # "old" ->
                          [next EXCEPT !.susp = @ \cup {m}]
                   [] row.st = "dead" -> for("kill")
                   [] row.st \notin {"suspended", "dead"} /\ IsDead(row) -> for("bury")
                   [] row.st = "draining" /\ ~IsDead(row) ->
                          IF row.inFlight = 0 THEN for("stop") ELSE next
                   [] OTHER -> [next EXCEPT !.live = @ \cup {m}]
  <1>1. /\ pass \in Passes /\ pass.snap \in [Members -> MemberRow] /\ r \in MemberRow
        /\ pass.pc = "judge" /\ m \in pass.todo
        /\ UNCHANGED <<members, sandbox, wire, bank>>
    BY PassFacts DEF Judge, At
  <1>2. r.st # "dead"
    BY <1>1 DEF MembersInv, ListInv, Judging
  <1>3. pass' = decided(r)
    <2>1. ~Fail("slow")
      BY OnlyCalm DEF Disturbing
    <2>2. [r EXCEPT !.hb = r.hb] = r
      BY <1>1 DEF MemberRow
    <2>3. \E slow : (slow = r.hb \/ Fail("slow")) /\ pass' = decided([r EXCEPT !.hb = slow])
      BY DEF Judge
    <2> HIDE DEF decided
    <2> QED
      BY <2>1, <2>2, <2>3
  <1>4. /\ next \in Passes /\ next.todo = pass.todo \ {m}
        /\ next.pc = "judge" /\ next.cur = pass.cur /\ next.ret = pass.ret
        /\ next.live = pass.live /\ next.susp = pass.susp /\ next.desired = pass.desired
        /\ \A x \in Members : /\ next.snap[x].st = pass.snap[x].st
                              /\ next.snap[x].inFlight = pass.snap[x].inFlight
                              /\ x # m => next.snap[x] = pass.snap[x]
    <2> DEFINE row == [r EXCEPT !.hb = "booting", !.upd = "recent"]
               snap == [pass.snap EXCEPT ![m] = row]
    <2>1. row \in MemberRow /\ row.st = r.st /\ row.inFlight = r.inFlight
      BY <1>1 DEF MemberRow
    <2>2. snap = [pass.snap EXCEPT ![m].hb = "booting", ![m].upd = "recent"]
      BY <1>1 DEF MemberRow
    <2>3. next = [pass EXCEPT !.todo = pass.todo \ {m}, !.snap = snap]
      BY <1>1, <2>2 DEF Passes, MemberRow
    <2> HIDE DEF row
    <2>4. /\ snap \in [Members -> MemberRow]
          /\ \A x \in Members : /\ snap[x].st = pass.snap[x].st
                                /\ snap[x].inFlight = pass.snap[x].inFlight
                                /\ x # m => snap[x] = pass.snap[x]
      BY <1>1, <2>1
    <2> HIDE DEF snap, next, r
    <2> QED
      BY <1>1, <2>3, <2>4 DEF Passes
  <1> HIDE DEF next, r
  <1>5. ASSUME NEW pc
        PROVE  /\ for(pc).pc = pc /\ for(pc).cur = m /\ for(pc).todo = next.todo
               /\ for(pc).ret = next.ret /\ for(pc).desired = next.desired
               /\ for(pc).snap = next.snap /\ for(pc).live = next.live /\ for(pc).susp = next.susp
    BY <1>4 DEF Passes
  <1> HIDE DEF for
  <1> DEFINE frame == /\ pass'.todo = next.todo /\ pass'.ret = next.ret
                      /\ pass'.desired = next.desired /\ pass'.snap = next.snap
             moved(pc, cur, live, susp) == /\ pass'.pc = pc /\ pass'.cur = cur
                                           /\ pass'.live = live /\ pass'.susp = susp
             outcome ==
                 \/ moved("stop", m, pass.live, pass.susp) /\ r.st \in {"suspended", "draining"}
                 \/ /\ moved("bury", m, pass.live, pass.susp)
                    /\ r.st \notin {"suspended", "dead"} /\ Expired(r)
                 \/ moved("judge", pass.cur, pass.live, pass.susp) /\ r.st = "draining"
                 \/ /\ moved("judge", pass.cur, pass.live, pass.susp \cup {m})
                    /\ r.st = "suspended"
                 \/ /\ moved("judge", pass.cur, pass.live \cup {m}, pass.susp)
                    /\ r.st \notin {"suspended", "draining", "dead"} /\ ~Expired(r)
  <1>6. frame /\ outcome
    <2>1. CASE pass' = for("stop") /\ r.st \in {"suspended", "draining"}
      BY <1>4, <1>5, <2>1
    <2>2. CASE pass' = for("bury") /\ r.st \notin {"suspended", "dead"} /\ IsDead(r)
      BY <1>4, <1>5, <2>2 DEF IsDead, Expired
    <2>3. CASE pass' = next /\ r.st = "draining"
      BY <1>4, <2>3
    <2>4. CASE pass' = [next EXCEPT !.susp = @ \cup {m}] /\ r.st = "suspended"
      BY <1>4, <2>4 DEF Passes
    <2>5. CASE pass' = [next EXCEPT !.live = @ \cup {m}] /\ ~IsDead(r)
               /\ r.st \notin {"suspended", "draining", "dead"}
      <3>1. frame /\ moved("judge", pass.cur, pass.live \cup {m}, pass.susp)
        BY <1>4, <2>5 DEF Passes
      <3> QED
        BY <2>5, <3>1 DEF IsDead, Expired
    <2> QED
      BY <1>2, <1>3, <2>1, <2>2, <2>3, <2>4, <2>5
  <1>7. frame
    BY <1>6
  <1>8. outcome
    BY <1>6
  <1> HIDE DEF outcome
  <1>9. /\ pass'.todo = pass.todo \ {m} /\ pass'.ret = pass.ret
        /\ pass'.desired = pass.desired
        /\ \A x \in Members : /\ pass'.snap[x].st = pass.snap[x].st
                              /\ pass'.snap[x].inFlight = pass.snap[x].inFlight
                              /\ x # m => pass'.snap[x] = pass.snap[x]
    BY <1>4, <1>7
  <1> QED
    BY <1>1, <1>8, <1>9 DEF r, outcome

\* A member goes from the list to be judged to one of the others, and only one that
\* is draining, or is about to be removed, goes to none.
LEMMA JudgeShape ==
    ASSUME RecInv, MembersInv, Faults \cap Disturbing = {}, NEW m \in Members, Judge(m)
    PROVE  MembersInv' /\ Revivable' \subseteq Revivable
  <1> DEFINE r == pass.snap[m]
  <1>1. /\ pass.pc = "judge" /\ m \in pass.todo /\ UNCHANGED <<members, sandbox, wire>>
        /\ pass'.todo = pass.todo \ {m} /\ pass'.ret = pass.ret
        /\ \A x \in Members : /\ pass'.snap[x].st = pass.snap[x].st
                              /\ pass'.snap[x].inFlight = pass.snap[x].inFlight
                              /\ x # m => pass'.snap[x] = pass.snap[x]
    BY JudgeDecides
  <1>2. /\ pass'.pc \in {"judge", "stop", "bury"}
        /\ pass'.pc # "judge" => /\ pass'.cur = m
                                 /\ pass'.live = pass.live /\ pass'.susp = pass.susp
        /\ pass'.pc = "bury" => Expired(r)
        /\ pass'.pc = "judge" =>
              /\ pass'.cur = pass.cur
              /\ \/ r.st = "draining" /\ pass'.live = pass.live /\ pass'.susp = pass.susp
                 \/ r.st = "suspended" /\ pass'.live = pass.live
                    /\ pass'.susp = pass.susp \cup {m}
                 \/ /\ r.st \notin {"suspended", "draining", "dead"} /\ ~Expired(r)
                    /\ pass'.live = pass.live \cup {m} /\ pass'.susp = pass.susp
    BY JudgeDecides
  <1>3. /\ Judging /\ Judging' /\ pass.ret = "judge" /\ pass.cur = NoMember
        /\ pass.todo \cap (pass.live \cup pass.susp) = {}
        /\ Revivable \subseteq pass.todo \cup pass.live \cup pass.susp
    <2>1. Judging /\ pass.ret = "judge" /\ pass.cur = NoMember
      BY <1>1 DEF MembersInv, SortInv, Judging
    <2>2. Judging'
      BY <1>1, <1>2, <2>1 DEF Judging
    <2>3. NoMember \notin Revivable
      BY PassFacts DEF Revivable, Rows
    <2> QED
      BY <2>1, <2>2, <2>3 DEF MembersInv, SortInv
  <1>4. Rows' = Rows /\ (\A x : HasRow(x)' <=> HasRow(x)) /\ Rows \subseteq Members
    BY <1>1 DEF Rows, HasRow
  <1>5. Revivable' = Revivable
    BY <1>1, <1>4 DEF Revivable
  <1>6. /\ r.st = "draining" /\ HasRow(m) => members[m].st = "draining"
        /\ HasRow(m) /\ members[m].st = "suspended" => r.st = "suspended"
        /\ HasRow(m) /\ Expired(members[m]) =>
              sandbox[m] # "up" \/ Expired(r) \/ r.st \in {"suspended", "draining"}
        /\ r.st = "draining" /\ HasRow(m) /\ Expired(r) => sandbox[m] # "up" /\ m \notin wire
    BY <1>1, <1>3 DEF MembersInv, ListInv
  <1> HIDE DEF r
  <1>7. SandboxInv' /\ WireInv'
    BY <1>1, <1>2, <1>3, <1>4 DEF MembersInv, SandboxInv, WireInv
  <1>8. SortInv'
    <2>1. /\ pass'.live \cap pass'.susp = {}
          /\ \A x \in pass'.susp : pass'.snap[x].st = "suspended"
          /\ \A x \in pass'.live : pass'.snap[x].st \notin {"suspended", "draining", "dead"}
      <3>1. /\ pass.live \cap pass.susp = {} /\ m \notin pass.live /\ m \notin pass.susp
            /\ \A x \in pass.susp : pass.snap[x].st = "suspended"
            /\ \A x \in pass.live : pass.snap[x].st \notin {"suspended", "draining", "dead"}
        BY <1>1, <1>3 DEF MembersInv, SortInv
      <3>2. \A x \in pass.live \cup pass.susp \cup {m} : pass'.snap[x].st = pass.snap[x].st
        BY <1>1, PassFacts
      <3>3. CASE pass'.live = pass.live /\ pass'.susp = pass.susp
        BY <3>1, <3>2, <3>3
      <3>4. CASE pass'.live = pass.live /\ pass'.susp = pass.susp \cup {m} /\ r.st = "suspended"
        BY <3>1, <3>2, <3>4 DEF r
      <3>5. CASE /\ pass'.live = pass.live \cup {m} /\ pass'.susp = pass.susp
                 /\ r.st \notin {"suspended", "draining", "dead"}
        BY <3>1, <3>2, <3>5 DEF r
      <3> QED
        BY <1>2, <3>3, <3>4, <3>5
    <2>2. /\ pass'.todo \cap (pass'.live \cup pass'.susp) = {}
          /\ pass'.cur \notin pass'.todo \cup pass'.live \cup pass'.susp
      <3>1. pass'.live \cup pass'.susp \subseteq pass.live \cup pass.susp \cup {m}
        BY <1>2
      <3>2. \/ pass'.cur = NoMember
            \/ pass'.cur = m /\ pass'.live = pass.live /\ pass'.susp = pass.susp
        BY <1>2, <1>3
      <3>3. NoMember \notin pass.todo \cup pass.live \cup pass.susp \cup {m}
        BY PassFacts
      <3> QED
        BY <1>1, <1>3, <3>1, <3>2, <3>3
    <2>3. Revivable' \subseteq pass'.todo \cup pass'.live \cup pass'.susp \cup {pass'.cur}
      <3>1. r.st = "draining" => m \notin Revivable
        BY <1>6 DEF Revivable, Rows
      <3> QED
        BY <1>1, <1>2, <1>3, <1>5, <3>1
    <2>4. /\ pass'.pc \notin {"shed", "drain"} /\ pass'.ret = "judge"
          /\ pass'.pc = "judge" => pass'.cur = NoMember
      BY <1>1, <1>2, <1>3
    <2> QED
      BY <2>1, <2>2, <2>3, <2>4 DEF SortInv
  <1>9. TodoInv'
    BY <1>1, <1>2, <1>3 DEF TodoInv
  <1>10. DrainInv'
    <2> SUFFICES ASSUME NEW x \in Rows, members[x].st = "draining"
                 PROVE  /\ Expired(members[x]) => sandbox[x] # "up"
                        /\ \/ pass'.snap[x].st = "draining"
                           \/ x \in pass'.live /\ pass'.snap[x].inFlight # 0
      BY <1>1, <1>4 DEF DrainInv, Expired
    <2>1. /\ Expired(members[x]) => sandbox[x] # "up"
          /\ pass.snap[x].st = "draining" \/ (x \in pass.live /\ pass.snap[x].inFlight # 0)
      BY <1>1 DEF MembersInv, DrainInv
    <2>2. pass.live \subseteq pass'.live /\ x \in Members
      BY <1>2, <1>4
    <2> QED
      BY <1>1, <2>1, <2>2
  <1>11. DeadInv'
    BY <1>1, <1>4 DEF MembersInv, DeadInv
  <1>12. LiveInv' /\ ListInv' /\ BuriedInv'
    <2>1. ASSUME NEW x \in pass'.live, HasRow(x)
          PROVE  /\ Expired(members[x]) => sandbox[x] # "up"
                 /\ members[x].st # "suspended"
      <3>1. CASE x \in pass.live
        BY <1>1, <2>1, <3>1 DEF MembersInv, LiveInv
      <3>2. CASE x \notin pass.live
        <4>1. x = m /\ r.st \notin {"suspended", "draining", "dead"} /\ ~Expired(r)
          BY <1>2, <3>2
        <4> QED
          BY <1>6, <2>1, <4>1
      <3> QED
        BY <3>1, <3>2
    <2>2. ASSUME NEW x \in pass'.todo
          PROVE  /\ pass.snap[x].st \notin Absent \cup {"dead"}
                 /\ HasRow(x) /\ members[x].st = "suspended" => pass.snap[x].st = "suspended"
                 /\ HasRow(x) /\ Expired(members[x]) =>
                       \/ sandbox[x] # "up" \/ Expired(pass.snap[x])
                       \/ pass.snap[x].st \in {"suspended", "draining"}
                 /\ pass.snap[x].st = "draining" /\ HasRow(x) =>
                       /\ members[x].st = "draining"
                       /\ Expired(pass.snap[x]) => sandbox[x] # "up" /\ x \notin wire
                 /\ pass'.snap[x] = pass.snap[x]
      BY <1>1, <1>3, <2>2, PassFacts DEF MembersInv, ListInv
    <2>3. ASSUME pass'.pc # "judge", pass'.snap[pass'.cur].st = "draining", HasRow(pass'.cur)
          PROVE  /\ members[pass'.cur].st = "draining"
                 /\ pass'.pc = "bury" => sandbox[pass'.cur] # "up" /\ pass'.cur \notin wire
      <3>1. pass'.cur = m /\ r.st = "draining"
        BY <1>1, <1>2, <2>3 DEF r
      <3> QED
        BY <1>2, <1>6, <2>3, <3>1
    <2>4. \A x \in Members : Expired(members[x])' <=> Expired(members[x])
      BY <1>1 DEF Expired
    <2>5. \A x \in pass'.todo : Expired(pass.snap[x])' <=> Expired(pass.snap[x])
      BY <2>2 DEF Expired
    <2>6. pass'.live \subseteq Members /\ pass'.todo \subseteq Members
      BY <1>1, <1>2, PassFacts
    <2> QED
      <3>1. LiveInv'
        BY <1>1, <1>4, <2>1, <2>4, <2>6 DEF LiveInv
      <3>2. ListInv'
        BY <1>1, <1>4, <2>2, <2>4, <2>5, <2>6 DEF ListInv
      <3>3. BuriedInv'
        BY <1>1, <1>4, <2>3 DEF BuriedInv
      <3> QED
        BY <3>1, <3>2, <3>3
  <1> QED
    BY <1>5, <1>7, <1>8, <1>9, <1>10, <1>11, <1>12 DEF MembersInv


\* The pass works on one member: it stops the sandbox, or goes on with the others
\* once the row is gone.
WorksOnCur ==
    /\ pass'.ret = pass.ret /\ UNCHANGED wire
    /\ \A x \in Members \ {pass.cur} : members'[x] = members[x] /\ sandbox'[x] = sandbox[x]
    /\ members'[pass.cur].st \notin Absent =>
          /\ members'[pass.cur] = members[pass.cur]
          /\ sandbox'[pass.cur] \in {sandbox[pass.cur], "stopped"}

StaysOnCur ==
    /\ pass'.cur = pass.cur
    /\ \/ pass.pc = "kill" /\ pass'.pc = "release"
       \/ pass.pc = "release" /\ pass'.pc \in {"stop", "remove"}
       \/ pass.pc = "stop" /\ pass'.pc = "remove"

LeavesCur ==
    /\ pass.pc \in {"bury", "remove", "drain"} /\ pass'.pc = pass.ret
    /\ pass'.cur = NoMember /\ members'[pass.cur].st \in Absent

LEMMA WorkKeeps ==
    ASSUME RecInv, MembersInv, SameSorting, WorksOnCur, StaysOnCur \/ LeavesCur
    PROVE  MembersInv' /\ Revivable' \subseteq Revivable
  <1>0. PICK c \in Members : c = pass.cur
    BY PassFacts DEF OnMember, StaysOnCur, LeavesCur
  <1>1. /\ pass.ret \in {"judge", "shed"} /\ NoMember \notin Members
        /\ pass.live \subseteq Members /\ pass.todo \subseteq Members
    BY PassFacts DEF Passes
  <1>2. \A x \in Members : HasRow(x)' =>
           /\ HasRow(x) /\ members'[x] = members[x]
           /\ sandbox'[x] \in {sandbox[x], "stopped"}
           /\ x # c => sandbox'[x] = sandbox[x]
    BY <1>0 DEF HasRow, WorksOnCur
  <1>3. /\ pass.pc \in {"bury", "kill", "release", "stop", "remove", "drain"}
        /\ pass'.pc \in {"release", "stop", "remove"} \cup {pass.ret}
        /\ pass'.pc = pass.ret => ~HasRow(c)' /\ pass'.cur = NoMember
        /\ pass'.pc # pass.ret => pass'.cur = c /\ pass.pc \in {"kill", "release", "stop"}
        /\ pass.pc = "stop" => pass'.pc = "remove"
        /\ pass'.ret = pass.ret /\ wire' = wire
    BY <1>0, <1>1 DEF StaysOnCur, LeavesCur, WorksOnCur, HasRow
  <1>4. /\ pass'.snap = pass.snap /\ pass'.todo = pass.todo
        /\ pass'.live = pass.live /\ pass'.susp = pass.susp
    BY DEF SameSorting
  <1>5. /\ pass.pc \in {"bury", "kill", "release"} => pass.ret = "judge"
        /\ pass.pc = "drain" => pass.ret = "shed"
    BY DEF MembersInv, SortInv
  <1>6. (Judging <=> pass.ret = "judge") /\ (Judging' <=> pass.ret = "judge")
    BY <1>1, <1>3, <1>5 DEF Judging
  <1>7. Revivable' \subseteq Revivable
    BY <1>2, <1>4 DEF Revivable, Rows
  <1>8. SandboxInv'
    <2>1. pass'.pc # "record"
      BY <1>1, <1>3
    <2>2. \A x \in Rows' : x \in Rows /\ sandbox'[x] \in {sandbox[x], "stopped"}
      BY <1>2 DEF Rows
    <2> QED
      BY <2>1, <2>2 DEF MembersInv, SandboxInv
  <1>9. WireInv'
    <2> SUFFICES ASSUME NEW x \in Members, HasRow(x)', x \in wire,
                        members'[x].st # "suspended", sandbox'[x] # "up"
                 PROVE  /\ x = pass'.cur
                        /\ pass'.pc \in {"mark", "kill", "release", "stop", "remove"}
      BY <1>3 DEF WireInv, Rows
    <2>1. CASE x = c
      BY <1>3, <2>1
    <2>2. CASE x # c
      <3>1. x \in Rows /\ members[x].st # "suspended" /\ sandbox[x] # "up"
        BY <1>2, <2>2 DEF Rows
      <3> QED
        BY <1>0, <2>2, <3>1 DEF MembersInv, WireInv
    <2> QED
      BY <2>1, <2>2
  <1>10. SortInv'
    <2>1. /\ pass'.pc \in {"bury", "kill", "release"} => pass.ret = "judge"
          /\ pass'.pc \in {"shed", "drain"} => pass.ret = "shed"
          /\ pass'.pc = "judge" => pass.ret = "judge" /\ pass'.cur = NoMember
      BY <1>1, <1>3, <1>5
    <2>2. ASSUME pass.ret = "judge"
          PROVE  /\ pass.todo \cap (pass.live \cup pass.susp) = {}
                 /\ pass'.cur \notin pass.todo \cup pass.live \cup pass.susp
                 /\ Revivable' \subseteq pass.todo \cup pass.live \cup pass.susp
                                         \cup {pass'.cur}
      <3>1. /\ pass.todo \cap (pass.live \cup pass.susp) = {}
            /\ c \notin pass.todo \cup pass.live \cup pass.susp
            /\ Revivable \subseteq pass.todo \cup pass.live \cup pass.susp \cup {c}
        BY <1>0, <1>6, <2>2 DEF MembersInv, SortInv
      <3>2. NoMember \notin pass.todo \cup pass.live \cup pass.susp
        BY PassFacts
      <3>3. c \in Revivable' => pass'.cur = c
        BY <1>3 DEF Revivable, Rows
      <3>4. pass'.cur \in {c, NoMember}
        BY <1>3
      <3> QED
        BY <1>7, <3>1, <3>2, <3>3, <3>4
    <2>3. /\ pass.live \cap pass.susp = {}
          /\ \A x \in pass.susp : pass.snap[x].st = "suspended"
          /\ \A x \in pass.live : pass.snap[x].st \notin {"suspended", "draining", "dead"}
      BY DEF MembersInv, SortInv
    <2> QED
      BY <1>3, <1>4, <1>6, <2>1, <2>2, <2>3 DEF SortInv
  <1>11. TodoInv'
    <2>1. pass.ret = "shed" => pass.pc \in {"stop", "remove", "drain"}
      BY <1>3, <1>5
    <2>2. pass.ret = "shed" => pass.todo \subseteq pass.live
      BY <2>1 DEF MembersInv, TodoInv
    <2>3. pass'.pc \notin {"drain", "resume", "suspend", "mark"}
      BY <1>1, <1>3
    <2> QED
      BY <1>3, <1>4, <2>2, <2>3 DEF TodoInv
  <1>12. DrainInv'
    <2> SUFFICES ASSUME NEW x \in Members, HasRow(x)', members'[x].st = "draining"
                 PROVE  /\ Expired(members'[x]) => sandbox'[x] # "up"
                        /\ \/ pass.snap[x].st = "draining"
                           \/ x \in pass.live /\ pass.snap[x].inFlight # 0
                           \/ x = pass'.cur /\ pass'.pc \in {"stop", "remove"}
      BY <1>4 DEF DrainInv, Rows, Expired
    <2>1. x \in Rows /\ members[x].st = "draining" /\ pass.pc \notin {"rest", "sweep"}
      BY <1>2, <1>3 DEF Rows
    <2>2. /\ Expired(members[x]) => sandbox[x] # "up"
          /\ \/ pass.snap[x].st = "draining"
             \/ x \in pass.live /\ pass.snap[x].inFlight # 0
             \/ x = c /\ pass.pc \in {"stop", "remove"}
      BY <1>0, <2>1 DEF MembersInv, DrainInv
    <2>3. x = c /\ pass.pc \in {"stop", "remove"} => x = pass'.cur /\ pass'.pc = "remove"
      BY <1>3
    <2> QED
      BY <1>2, <2>2, <2>3
  <1>13. DeadInv'
    <2> SUFFICES ASSUME NEW x \in Members, HasRow(x)', members'[x].st = "dead"
                 PROVE  /\ x = pass'.cur /\ pass.ret = "judge"
                        /\ pass'.pc \in {"kill", "release", "stop", "remove"}
      BY <1>3 DEF DeadInv, Rows
    <2>1. x = c /\ pass.ret = "judge"
      BY <1>0, <1>2 DEF MembersInv, DeadInv, Rows
    <2> QED
      BY <1>3, <2>1
  <1>14. LiveInv' /\ ListInv' /\ BuriedInv'
    <2>1. \A x \in Members : HasRow(x)' =>
             /\ HasRow(x) /\ members'[x] = members[x]
             /\ sandbox'[x] = "up" => sandbox[x] = "up"
             /\ Expired(members'[x]) <=> Expired(members[x])
      BY <1>2
    <2>2. \A x \in pass.live : HasRow(x)' =>
             /\ Expired(members'[x]) => sandbox'[x] # "up"
             /\ members'[x].st # "suspended"
      <3>1. \A x \in pass.live : HasRow(x) =>
               /\ Expired(members[x]) => sandbox[x] # "up"
               /\ members[x].st # "suspended"
        BY <1>3 DEF MembersInv, LiveInv
      <3> QED
        BY <1>1, <2>1, <3>1
    <2>3. ASSUME pass.ret = "judge", NEW x \in pass.todo
          PROVE  /\ pass.snap[x].st \notin Absent \cup {"dead"}
                 /\ HasRow(x)' /\ members'[x].st = "suspended" => pass.snap[x].st = "suspended"
                 /\ HasRow(x)' /\ Expired(members'[x]) =>
                       \/ sandbox'[x] # "up" \/ Expired(pass.snap[x])
                       \/ pass.snap[x].st \in {"suspended", "draining"}
                 /\ pass.snap[x].st = "draining" /\ HasRow(x)' =>
                       /\ members'[x].st = "draining"
                       /\ Expired(pass.snap[x]) => sandbox'[x] # "up" /\ x \notin wire
      <3>1. Judging /\ x \in Members
        BY <1>1, <1>6, <2>3
      <3> QED
        BY <2>1, <3>1 DEF MembersInv, ListInv
    <2>4. ASSUME pass.ret = "judge", pass'.pc # "judge", pass.snap[pass'.cur].st = "draining",
                 members'[pass'.cur].st \notin Absent
          PROVE  /\ members'[pass'.cur].st \in {"draining", "dead"}
                 /\ pass'.pc = "bury" \/ members'[pass'.cur].st = "dead" =>
                       sandbox'[pass'.cur] # "up" /\ pass'.cur \notin wire
      <3>1. pass'.cur = c /\ pass'.pc # "bury" /\ pass.pc # "judge" /\ Judging
        BY <1>3, <1>6, <2>4
      <3>2. HasRow(c)' /\ HasRow(c)
        BY <1>1, <2>1, <2>4, <3>1 DEF HasRow
      <3>3. /\ members[c].st \in {"draining", "dead"}
            /\ members[c].st = "dead" => sandbox[c] # "up" /\ c \notin wire
        BY <1>0, <2>4, <3>1, <3>2 DEF MembersInv, BuriedInv
      <3> QED
        BY <1>1, <2>1, <3>1, <3>2, <3>3
    <2> QED
      <3>1. LiveInv'
        BY <1>4, <2>2 DEF LiveInv
      <3>2. ListInv'
        BY <1>3, <1>4, <1>6, <2>3 DEF ListInv
      <3>3. BuriedInv'
        BY <1>3, <1>4, <1>6, <2>4 DEF BuriedInv, HasRow
      <3> QED
        BY <3>1, <3>2, <3>3
  <1> QED
    BY <1>7, <1>8, <1>9, <1>10, <1>11, <1>12, <1>13, <1>14 DEF MembersInv

LEMMA KillShape ==
    ASSUME RecInv, MembersInv, Kill, Faults \cap Disturbing = {}
    PROVE  MembersInv' /\ Revivable' \subseteq Revivable
  <1>0. pass.pc = "kill" /\ pass \in Passes /\ pass.cur \in Members
    BY PassFacts DEF Kill, At, OnMember
  <1>1. StopMember(pass.cur) /\ Go("release") /\ UNCHANGED <<members, wire>>
    BY OnlyCalm DEF Kill, Disturbing
  <1>2. SameSorting /\ pass'.pc = "release" /\ pass'.ret = pass.ret /\ pass'.cur = pass.cur
    BY <1>0, <1>1, GoFields
  <1>3. WorksOnCur
    BY <1>0, <1>1, <1>2, PassFacts DEF WorksOnCur, StopMember
  <1> QED
    BY <1>0, <1>2, <1>3, WorkKeeps DEF StaysOnCur

LEMMA ReleaseShape ==
    ASSUME RecInv, MembersInv, Release, Faults \cap Disturbing = {}
    PROVE  MembersInv' /\ Revivable' \subseteq Revivable
  <1>0. pass.pc = "release" /\ pass \in Passes
    BY PassFacts DEF Release, At
  <1>1. (Go("stop") \/ Go("remove")) /\ UNCHANGED <<members, sandbox, wire>>
    BY OnlyCalm DEF Release, Disturbing
  <1>2. /\ SameSorting /\ pass'.pc \in {"stop", "remove"}
        /\ pass'.ret = pass.ret /\ pass'.cur = pass.cur
    BY <1>0, <1>1, GoFields
  <1>3. WorksOnCur
    BY <1>1, <1>2 DEF WorksOnCur
  <1> QED
    BY <1>0, <1>2, <1>3, WorkKeeps DEF StaysOnCur

LEMMA StopShape ==
    ASSUME RecInv, MembersInv, Stop, Faults \cap Disturbing = {}
    PROVE  MembersInv' /\ Revivable' \subseteq Revivable
  <1>0. pass.pc = "stop" /\ pass \in Passes /\ pass.cur \in Members
    BY PassFacts DEF Stop, At, OnMember
  <1>1. StopMember(pass.cur) /\ Go("remove") /\ UNCHANGED <<members, wire>>
    BY OnlyCalm DEF Stop, Disturbing
  <1>2. SameSorting /\ pass'.pc = "remove" /\ pass'.ret = pass.ret /\ pass'.cur = pass.cur
    BY <1>0, <1>1, GoFields
  <1>3. WorksOnCur
    BY <1>0, <1>1, <1>2, PassFacts DEF WorksOnCur, StopMember
  <1> QED
    BY <1>0, <1>2, <1>3, WorkKeeps DEF StaysOnCur

\* The row of the current member is gone, or was not there.
LEMMA RemoveShape ==
    ASSUME RecInv, MembersInv, Remove, Faults \cap Disturbing = {}
    PROVE  MembersInv' /\ Revivable' \subseteq Revivable
  <1>0. pass.pc = "remove" /\ pass \in Passes /\ pass.cur \in Members
    BY PassFacts DEF Remove, At, OnMember
  <1>1. Continue /\ UNCHANGED <<sandbox, wire>>
    BY DEF Remove
  <1>2. RemoveMember(pass.cur) \/ (UNCHANGED members /\ ~HasRow(pass.cur))
    BY OnlyCalm DEF Remove, Disturbing
  <1>3. /\ SameSorting /\ pass'.pc = pass.ret
        /\ pass'.ret = pass.ret /\ pass'.cur = NoMember
    BY <1>0, <1>1, ContinueFields
  <1>4. /\ members'[pass.cur].st \in Absent
        /\ \A x \in Members \ {pass.cur} : members'[x] = members[x]
    <2>1. CASE RemoveMember(pass.cur)
      <3>1. members' = [members EXCEPT ![pass.cur] = NewRow("gone")]
        BY <2>1 DEF RemoveMember
      <3> QED
        BY <1>0, <3>1, NoRow, PassFacts
    <2>2. CASE UNCHANGED members /\ ~HasRow(pass.cur)
      BY <2>2 DEF HasRow
    <2> QED
      BY <1>2, <2>1, <2>2
  <1>5. WorksOnCur
    BY <1>1, <1>3, <1>4 DEF WorksOnCur
  <1> QED
    BY <1>0, <1>3, <1>4, <1>5, WorkKeeps DEF LeavesCur

\* SetMemberState changes the state of one row.
LEMMA SetStateRow ==
    ASSUME RecInv, NEW c \in Members, NEW st, SetMemberState(c, st)
    PROVE  /\ members'[c].st = st /\ members'[c].hb = members[c].hb /\ HasRow(c)
           /\ \A x \in Members \ {c} : members'[x] = members[x]
  <1>1. members \in [Members -> MemberRow] /\ members[c] \in MemberRow
    BY PassFacts
  <1> QED
    BY <1>1 DEF SetMemberState, MemberRow

\* A member that is buried was not draining, or does not report any more.
LEMMA BuryShape ==
    ASSUME RecInv, MembersInv, Bury, Faults \cap Disturbing = {}
    PROVE  MembersInv' /\ Revivable' \subseteq Revivable
  <1>0. PICK c \in Members : c = pass.cur
    BY PassFacts DEF Bury, At, OnMember
  <1>1. pass.pc = "bury" /\ pass \in Passes /\ UNCHANGED <<sandbox, wire>>
    BY PassFacts DEF Bury, At
  <1>2. \/ SetMemberState(c, "dead") /\ Go("kill")
        \/ ~HasRow(c) /\ Continue /\ UNCHANGED members
    BY <1>0, OnlyCalm DEF Bury, Disturbing
  <1>3. CASE ~HasRow(c) /\ Continue /\ UNCHANGED members
    <2>1. SameSorting /\ pass'.pc = pass.ret /\ pass'.ret = pass.ret /\ pass'.cur = NoMember
      BY <1>1, <1>3, ContinueFields
    <2>2. WorksOnCur /\ LeavesCur
      BY <1>0, <1>1, <1>3, <2>1 DEF WorksOnCur, LeavesCur, HasRow
    <2> QED
      BY <2>1, <2>2, WorkKeeps
  <1>4. CASE SetMemberState(c, "dead") /\ Go("kill")
    <2>1. /\ pass'.pc = "kill" /\ pass'.ret = pass.ret /\ pass'.cur = c
          /\ pass'.snap = pass.snap /\ pass'.todo = pass.todo
          /\ pass'.live = pass.live /\ pass'.susp = pass.susp
      BY <1>0, <1>1, <1>4, GoFields DEF SameSorting
    <2>2. /\ members'[c].st = "dead" /\ members'[c].hb = members[c].hb /\ HasRow(c)
          /\ \A x \in Members \ {c} : members'[x] = members[x]
      BY <1>4, SetStateRow
    <2>3. /\ pass.ret = "judge" /\ Judging /\ Judging'
          /\ c \notin pass.todo \cup pass.live \cup pass.susp
          /\ pass.todo \cap (pass.live \cup pass.susp) = {}
          /\ Revivable \subseteq pass.todo \cup pass.live \cup pass.susp \cup {c}
      <3>1. pass.ret = "judge"
        BY <1>1 DEF MembersInv, SortInv
      <3>2. Judging /\ Judging'
        BY <1>1, <2>1, <3>1 DEF Judging
      <3> QED
        BY <1>0, <3>1, <3>2 DEF MembersInv, SortInv
    <2>4. pass.snap[c].st # "draining" => members[c].st \notin {"draining", "dead"}
      BY <1>1, <2>2, <2>3 DEF MembersInv, DrainInv, DeadInv, Rows
    <2>5. \A x \in Members : HasRow(x)' <=> HasRow(x)
      BY <2>2 DEF HasRow, Absent
    <2>6. Revivable' \subseteq Revivable
      BY <2>1, <2>2, <2>4, <2>5 DEF Revivable, Rows
    <2>7. SandboxInv'
      BY <1>1, <2>1, <2>5 DEF MembersInv, SandboxInv, Rows
    <2>8. WireInv'
      <3> SUFFICES ASSUME NEW x \in Members, HasRow(x)', x \in wire, x # c
                   PROVE  members[x].st = "suspended" \/ sandbox[x] = "up"
        BY <1>1, <2>1, <2>2 DEF WireInv, Rows
      <3> QED
        BY <1>1, <2>5 DEF MembersInv, WireInv, Rows
    <2>9. SortInv'
      BY <2>1, <2>3, <2>6 DEF MembersInv, SortInv
    <2>10. TodoInv'
      BY <2>1 DEF TodoInv
    <2>11. DrainInv'
      <3> SUFFICES ASSUME NEW x \in Members, HasRow(x), x # c, members[x].st = "draining"
                   PROVE  /\ Expired(members[x]) => sandbox[x] # "up"
                          /\ \/ pass.snap[x].st = "draining"
                             \/ x \in pass.live /\ pass.snap[x].inFlight # 0
        BY <1>1, <2>1, <2>2, <2>5 DEF DrainInv, Rows
      <3> QED
        BY <1>1 DEF MembersInv, DrainInv, Rows
    <2>12. DeadInv'
      <3>1. pass'.ret = "judge"
        BY <2>1, <2>3
      <3>2. \A x \in Members : HasRow(x) => members[x].st # "dead"
        BY <1>1 DEF MembersInv, DeadInv, Rows
      <3>3. ASSUME NEW x \in Members, HasRow(x)', members'[x].st = "dead"
            PROVE  x = c
        BY <2>2, <2>5, <3>2, <3>3
      <3> QED
        BY <2>1, <3>1, <3>3 DEF DeadInv, Rows
    <2>13. LiveInv'
      <3> SUFFICES ASSUME NEW x \in pass.live, HasRow(x)
                   PROVE  /\ Expired(members'[x]) => sandbox[x] # "up"
                          /\ members'[x].st # "suspended"
        BY <1>1, <2>1, <2>5, PassFacts DEF LiveInv
      <3>1. x \in Members \ {c}
        BY <2>3, PassFacts
      <3> QED
        BY <1>1, <2>2, <3>1 DEF MembersInv, LiveInv
    <2>14. ListInv'
      <3>1. \A x \in pass.todo : x \in Members \ {c}
        BY <2>3, PassFacts
      <3>2. \A x \in pass.todo : members'[x] = members[x] /\ (HasRow(x)' <=> HasRow(x))
        BY <2>2, <2>5, <3>1
      <3>3. Judging
        BY <2>3
      <3>4. ASSUME NEW x \in pass.todo
            PROVE  /\ pass.snap[x].st \notin Absent \cup {"dead"}
                   /\ HasRow(x)' /\ members'[x].st = "suspended" =>
                         pass.snap[x].st = "suspended"
                   /\ HasRow(x)' /\ Expired(members'[x]) =>
                         \/ sandbox[x] # "up" \/ Expired(pass.snap[x])
                         \/ pass.snap[x].st \in {"suspended", "draining"}
                   /\ pass.snap[x].st = "draining" /\ HasRow(x)' =>
                         /\ members'[x].st = "draining"
                         /\ Expired(pass.snap[x]) => sandbox[x] # "up" /\ x \notin wire
        BY <3>2, <3>3 DEF MembersInv, ListInv
      <3> QED
        BY <1>1, <2>1, <3>4 DEF ListInv
    <2>15. BuriedInv'
      <3>1. pass.snap[c].st = "draining" => sandbox[c] # "up" /\ c \notin wire
        BY <1>0, <1>1, <2>2, <2>3 DEF MembersInv, BuriedInv
      <3> QED
        BY <1>1, <2>1, <2>2, <3>1 DEF BuriedInv
    <2> QED
      BY <2>6, <2>7, <2>8, <2>9, <2>10, <2>11, <2>12, <2>13, <2>14, <2>15 DEF MembersInv
  <1> QED
    BY <1>2, <1>3, <1>4


\* A member that is drained had jobs in flight when it was read, or goes at once.
LEMMA DrainShape ==
    ASSUME RecInv, MembersInv, Drain, Faults \cap Disturbing = {}
    PROVE  MembersInv' /\ Revivable' \subseteq Revivable
  <1>0. PICK c \in Members : c = pass.cur
    BY PassFacts DEF Drain, At, OnMember
  <1>1. pass.pc = "drain" /\ pass \in Passes /\ UNCHANGED <<sandbox, wire>>
    BY PassFacts DEF Drain, At
  <1>2. \/ /\ SetMemberState(c, "draining")
           /\ IF pass.snap[c].inFlight = 0 THEN Go("stop") ELSE Continue
        \/ ~HasRow(c) /\ Continue /\ UNCHANGED members
    BY <1>0, OnlyCalm DEF Drain, Disturbing
  <1>3. CASE ~HasRow(c) /\ Continue /\ UNCHANGED members
    <2>1. SameSorting /\ pass'.pc = pass.ret /\ pass'.ret = pass.ret /\ pass'.cur = NoMember
      BY <1>1, <1>3, ContinueFields
    <2>2. WorksOnCur /\ LeavesCur
      BY <1>0, <1>1, <1>3, <2>1 DEF WorksOnCur, LeavesCur, HasRow
    <2> QED
      BY <2>1, <2>2, WorkKeeps
  <1>4. CASE /\ SetMemberState(c, "draining")
             /\ IF pass.snap[c].inFlight = 0 THEN Go("stop") ELSE Continue
    <2>1. pass.ret = "shed" /\ c \in pass.live /\ pass.todo \subseteq pass.live
      BY <1>0, <1>1 DEF MembersInv, SortInv, TodoInv
    <2>2. /\ pass'.snap = pass.snap /\ pass'.todo = pass.todo
          /\ pass'.live = pass.live /\ pass'.susp = pass.susp /\ pass'.ret = "shed"
          /\ \/ pass.snap[c].inFlight = 0 /\ pass'.pc = "stop" /\ pass'.cur = c
             \/ pass.snap[c].inFlight # 0 /\ pass'.pc = "shed"
      <3>1. CASE pass.snap[c].inFlight = 0
        BY <1>0, <1>1, <1>4, <2>1, <3>1, GoFields DEF SameSorting
      <3>2. CASE pass.snap[c].inFlight # 0
        BY <1>1, <1>4, <2>1, <3>2, ContinueFields DEF SameSorting
      <3> QED
        BY <3>1, <3>2
    <2>3. /\ members'[c].st = "draining" /\ members'[c].hb = members[c].hb /\ HasRow(c)
          /\ \A x \in Members \ {c} : members'[x] = members[x]
      BY <1>4, SetStateRow
    <2>4. ~Judging'
      BY <2>2 DEF Judging
    <2>5. \A x \in Members : HasRow(x)' <=> HasRow(x)
      BY <2>3 DEF HasRow, Absent
    <2>6. Revivable' \subseteq Revivable
      BY <2>2, <2>3, <2>5 DEF Revivable, Rows
    <2>7. SandboxInv'
      BY <1>1, <2>2, <2>5 DEF MembersInv, SandboxInv, Rows
    <2>8. \A x \in pass.live : HasRow(x) =>
             (Expired(members[x]) => sandbox[x] # "up") /\ members[x].st # "suspended"
      BY <1>1 DEF MembersInv, LiveInv
    <2>9. WireInv'
      <3>1. \A x \in Members : HasRow(x) /\ x \in wire =>
               members[x].st = "suspended" \/ sandbox[x] = "up"
        BY <1>1 DEF MembersInv, WireInv, Rows
      <3> SUFFICES ASSUME NEW x \in Members, HasRow(x), x \in wire
                   PROVE  members'[x].st = "suspended" \/ sandbox[x] = "up"
        BY <1>1, <2>5 DEF WireInv, Rows
      <3> QED
        BY <2>1, <2>3, <2>8, <3>1
    <2>10. SortInv'
      BY <2>2, <2>4 DEF MembersInv, SortInv
    <2>11. TodoInv'
      BY <2>1, <2>2 DEF TodoInv
    <2>12. DrainInv'
      <3> SUFFICES ASSUME NEW x \in Members, HasRow(x), members'[x].st = "draining"
                   PROVE  /\ Expired(members'[x]) => sandbox[x] # "up"
                          /\ \/ pass.snap[x].st = "draining"
                             \/ x \in pass.live /\ pass.snap[x].inFlight # 0
                             \/ x = pass'.cur /\ pass'.pc = "stop"
        BY <1>1, <2>2, <2>5 DEF DrainInv, Rows
      <3>1. CASE x = c
        BY <2>1, <2>2, <2>3, <2>8, <3>1 DEF Expired
      <3>2. CASE x # c
        BY <1>1, <2>3, <3>2 DEF MembersInv, DrainInv, Rows
      <3> QED
        BY <3>1, <3>2
    <2>13. DeadInv'
      <3> SUFFICES ASSUME NEW x \in Members, HasRow(x), x # c, members[x].st = "dead"
                   PROVE  FALSE
        BY <2>3, <2>5 DEF DeadInv, Rows
      <3> QED
        BY <1>1 DEF MembersInv, DeadInv, Rows
    <2>14. LiveInv'
      <3> SUFFICES ASSUME NEW x \in Members, x \in pass.live, HasRow(x)
                   PROVE  /\ Expired(members'[x]) => sandbox[x] # "up"
                          /\ members'[x].st # "suspended"
        BY <1>1, <2>2, <2>5, PassFacts DEF LiveInv
      <3>1. CASE x = c
        BY <2>3, <2>8, <3>1 DEF Expired
      <3>2. CASE x # c
        BY <2>3, <2>8, <3>2
      <3> QED
        BY <3>1, <3>2
    <2>15. ListInv' /\ BuriedInv'
      BY <2>4 DEF ListInv, BuriedInv
    <2> QED
      BY <2>6, <2>7, <2>9, <2>10, <2>11, <2>12, <2>13, <2>14, <2>15 DEF MembersInv
  <1> QED
    BY <1>2, <1>3, <1>4

\* A member that is suspended is not draining.
LEMMA MarkShape ==
    ASSUME RecInv, MembersInv, MarkSuspended, Faults \cap Disturbing = {}
    PROVE  MembersInv' /\ Revivable' \subseteq Revivable
  <1>0. PICK c \in Members : c = pass.cur
    BY PassFacts DEF MarkSuspended, At, OnMember
  <1>1. pass.pc = "mark" /\ pass \in Passes /\ UNCHANGED <<sandbox, wire>>
    BY PassFacts DEF MarkSuspended, At
  <1>2. /\ pass'.pc = "suspend" /\ pass'.cur = NoMember /\ pass'.ret = pass.ret
        /\ pass'.snap = pass.snap /\ pass'.todo = pass.todo
        /\ pass'.live = pass.live /\ pass'.susp = pass.susp
    BY <1>1 DEF MarkSuspended, Passes
  <1>3. SetMemberState(c, "suspended") \/ (UNCHANGED members /\ ~HasRow(c))
    BY <1>0, OnlyCalm DEF MarkSuspended, Disturbing
  <1>4. /\ HasRow(c) => members'[c].st = "suspended" /\ members'[c].hb = members[c].hb
        /\ ~HasRow(c) => members'[c] = members[c]
        /\ \A x \in Members \ {c} : members'[x] = members[x]
    BY <1>3, SetStateRow
  <1>5. \A x \in Members : HasRow(x)' <=> HasRow(x)
    BY <1>4 DEF HasRow, Absent
  <1>6. c \in pass.live /\ pass.snap[c].inFlight = 0 /\ pass.snap[c].st # "draining"
    BY <1>0, <1>1 DEF MembersInv, TodoInv, SortInv
  <1>7. HasRow(c) => members[c].st \notin {"draining", "dead"}
    BY <1>1, <1>6 DEF MembersInv, DrainInv, DeadInv, Rows
  <1>8. Revivable' \subseteq Revivable
    BY <1>2, <1>4, <1>5, <1>7 DEF Revivable, Rows
  <1>9. SandboxInv'
    BY <1>1, <1>2, <1>5 DEF MembersInv, SandboxInv, Rows
  <1>10. WireInv'
    <2> SUFFICES ASSUME NEW x \in Members, HasRow(x), x \in wire, x # c
                 PROVE  members'[x].st = "suspended" \/ sandbox[x] = "up"
      BY <1>1, <1>4, <1>5 DEF WireInv, Rows
    <2> QED
      BY <1>0, <1>1, <1>4 DEF MembersInv, WireInv, Rows
  <1>11. SortInv'
    BY <1>2 DEF MembersInv, SortInv, Judging
  <1>12. TodoInv'
    BY <1>1, <1>2 DEF MembersInv, TodoInv
  <1>13. DrainInv'
    <2> SUFFICES ASSUME NEW x \in Members, HasRow(x), x # c, members[x].st = "draining"
                 PROVE  /\ Expired(members[x]) => sandbox[x] # "up"
                        /\ \/ pass.snap[x].st = "draining"
                           \/ x \in pass.live /\ pass.snap[x].inFlight # 0
      BY <1>1, <1>2, <1>4, <1>5 DEF DrainInv, Rows
    <2> QED
      BY <1>1 DEF MembersInv, DrainInv, Rows
  <1>14. DeadInv'
    <2> SUFFICES ASSUME NEW x \in Members, HasRow(x), x # c, members[x].st = "dead"
                 PROVE  FALSE
      BY <1>4, <1>5 DEF DeadInv, Rows
    <2> QED
      BY <1>1 DEF MembersInv, DeadInv, Rows
  <1>15. LiveInv'
    <2> SUFFICES ASSUME NEW x \in Members, x \in pass.live, HasRow(x), Expired(members'[x])
                 PROVE  sandbox[x] # "up"
      BY <1>1, <1>2, <1>5, PassFacts DEF LiveInv
    <2>1. Expired(members[x])
      BY <1>4 DEF Expired
    <2> QED
      BY <2>1 DEF MembersInv, LiveInv
  <1>16. ListInv' /\ BuriedInv'
    BY <1>2 DEF ListInv, BuriedInv, Judging
  <1> QED
    BY <1>8, <1>9, <1>10, <1>11, <1>12, <1>13, <1>14, <1>15, <1>16 DEF MembersInv


\* A step of the pass after the sorting that leaves the table alone.  A sandbox is
\* started, is suspended, or is resumed, and then it is neither live nor draining.
LaterStep ==
    /\ UNCHANGED <<members, wire>>
    /\ pass.pc \in {"judge", "shed", "launch", "nap", "resume", "suspend"}
    /\ pass'.pc \in {"shed", "stop", "drain", "launch", "record", "nap", "resume",
                     "suspend", "mark"}
    /\ pass'.pc \in {"shed", "stop", "drain"} => pass'.ret = "shed"
    /\ pass.pc = "suspend" => pass'.pc \in {"suspend", "mark"}
    /\ pass'.snap = pass.snap /\ pass'.live = pass.live /\ pass'.susp \subseteq pass.susp

LaterSandbox ==
    /\ \A x \in Rows : \/ sandbox'[x] = sandbox[x]
                       \/ sandbox'[x] = "suspended" /\ x = pass'.cur /\ pass'.pc = "mark"
                       \/ sandbox'[x] = "up" /\ x \notin pass.live
                          /\ members[x].st # "draining"
    /\ pass'.pc = "record" => sandbox'[pass'.cur] = "up" /\ members[pass'.cur].st \in Absent

LEMMA LaterKeeps ==
    ASSUME RecInv, MembersInv, LaterStep, LaterSandbox, TodoInv'
    PROVE  MembersInv' /\ Revivable' \subseteq Revivable
  <1>1. /\ UNCHANGED <<members, wire>>
        /\ pass.pc \in {"judge", "shed", "launch", "nap", "resume", "suspend"}
        /\ pass'.snap = pass.snap /\ pass'.live = pass.live /\ pass'.susp \subseteq pass.susp
    BY DEF LaterStep
  <1>2. Rows' = Rows /\ \A x : HasRow(x)' <=> HasRow(x)
    BY <1>1 DEF Rows, HasRow
  <1>3. ~Judging'
    BY DEF LaterStep, Judging
  <1>4. Revivable' \subseteq Revivable
    BY <1>1, <1>2 DEF Revivable
  <1>5. SandboxInv'
    <2>1. \A x \in Rows : sandbox'[x] # "none"
      BY DEF MembersInv, SandboxInv, LaterSandbox
    <2>2. pass'.pc = "record" =>
             sandbox'[pass'.cur] = "up" /\ members'[pass'.cur].st \in Absent
      BY <1>1 DEF LaterSandbox
    <2> QED
      BY <1>2, <2>1, <2>2 DEF SandboxInv, HasRow
  <1>6. WireInv'
    <2> SUFFICES ASSUME NEW x \in Rows, x \in wire, members[x].st # "suspended",
                        sandbox'[x] # "up"
                 PROVE  x = pass'.cur /\ pass'.pc = "mark"
      BY <1>1, <1>2 DEF WireInv
    <2>1. sandbox[x] = "up"
      BY <1>1 DEF MembersInv, WireInv
    <2> QED
      BY <2>1 DEF LaterSandbox
  <1>7. SortInv'
    <2>1. /\ pass'.pc \notin {"judge", "bury", "kill", "release"}
          /\ pass'.pc \in {"shed", "drain"} => pass'.ret = "shed"
      BY DEF LaterStep
    <2> QED
      BY <1>1, <1>3, <2>1 DEF MembersInv, SortInv
  <1>8. DrainInv'
    <2> SUFFICES ASSUME NEW x \in Rows, members[x].st = "draining"
                 PROVE  /\ Expired(members[x]) => sandbox'[x] # "up"
                        /\ \/ pass.snap[x].st = "draining"
                           \/ x \in pass.live /\ pass.snap[x].inFlight # 0
      BY <1>1, <1>2 DEF DrainInv, Expired
    <2>1. /\ Expired(members[x]) => sandbox[x] # "up"
          /\ \/ pass.snap[x].st = "draining"
             \/ x \in pass.live /\ pass.snap[x].inFlight # 0
      BY <1>1 DEF MembersInv, DrainInv
    <2> QED
      BY <2>1 DEF LaterSandbox
  <1>9. DeadInv'
    <2>1. \A x \in Rows : members[x].st # "dead"
      BY <1>1 DEF MembersInv, DeadInv
    <2> QED
      BY <1>1, <1>2, <2>1 DEF DeadInv
  <1>10. LiveInv'
    <2> SUFFICES ASSUME NEW x \in pass.live, HasRow(x)
                 PROVE  /\ Expired(members[x]) => sandbox'[x] # "up"
                        /\ members[x].st = "suspended" => pass'.pc \in {"suspend", "mark"}
      BY <1>1, <1>2 DEF LiveInv, Expired
    <2>1. x \in Rows
      BY PassFacts DEF Rows
    <2>2. /\ Expired(members[x]) => sandbox[x] # "up"
          /\ members[x].st = "suspended" => pass.pc = "suspend"
      BY <1>1 DEF MembersInv, LiveInv
    <2>3. Expired(members[x]) => sandbox'[x] # "up"
      BY <2>1, <2>2 DEF LaterSandbox
    <2>4. members[x].st = "suspended" => pass'.pc \in {"suspend", "mark"}
      BY <2>2 DEF LaterStep
    <2> QED
      BY <2>3, <2>4
  <1>11. ListInv' /\ BuriedInv'
    BY <1>3 DEF ListInv, BuriedInv
  <1> QED
    BY <1>4, <1>5, <1>6, <1>7, <1>8, <1>9, <1>10, <1>11 DEF MembersInv

\* The sandboxes stay as they are.
LEMMA SameSandbox ==
    ASSUME UNCHANGED sandbox, pass'.pc # "record"
    PROVE  LaterSandbox
  BY DEF LaterSandbox

\* The members that a pass has found to run.
Running == Cardinality(pass.live) + Cardinality(pass.susp)

\* The pass has judged all members: it sheds, launches, or leaves the number as it is.
LEMMA SizeFields ==
    ASSUME pass \in Passes, Size
    PROVE  /\ pass'.pc \in {"shed", "launch", "nap"} /\ pass'.ret = "shed"
           /\ pass'.cur = pass.cur /\ pass'.todo = pass.live /\ pass'.snap = pass.snap
           /\ pass'.live = pass.live /\ pass'.susp = pass.susp
           /\ pass'.desired = pass.desired
           /\ Running \in Nat /\ pass'.n \in Nat
           /\ pass'.pc = "launch" =>
                 \E t \in {targetCount, AtLeast(Running, pass.desired)} :
                    t \in Nat /\ Running + pass'.n = t
  <1> DEFINE n(target) == IF Running > target THEN Running - target ELSE target - Running
             pc(target) == CASE Running > target -> "shed"
                             [] Running < target -> "launch"
                             [] Running = target -> "nap"
             sized(target) == [pass EXCEPT !.ret = "shed", !.todo = pass.live,
                                           !.n = n(target), !.pc = pc(target)]
  <1>1. Running \in Nat /\ targetCount \in Nat /\ AtLeast(Running, pass.desired) \in Nat
    BY CountsTyped, SMT DEF AtLeast, Passes, Running
  <1>2. PICK t \in {targetCount, AtLeast(Running, pass.desired)} : pass' = sized(t)
    BY DEF Size, Running
  <1>3. t \in Nat
    BY <1>1, <1>2
  <1>4. /\ n(t) \in Nat /\ pc(t) \in {"shed", "launch", "nap"}
        /\ pc(t) = "launch" => Running + n(t) = t
    BY <1>1, <1>3, SMT
  <1> HIDE DEF n, pc
  <1>5. /\ pass'.pc = pc(t) /\ pass'.n = n(t) /\ pass'.ret = "shed" /\ pass'.cur = pass.cur
        /\ pass'.todo = pass.live /\ pass'.snap = pass.snap /\ pass'.live = pass.live
        /\ pass'.susp = pass.susp /\ pass'.desired = pass.desired
    BY <1>2 DEF Passes
  <1> QED
    BY <1>1, <1>2, <1>3, <1>4, <1>5

LEMMA SizeShape ==
    ASSUME RecInv, MembersInv, Size
    PROVE  MembersInv' /\ Revivable' \subseteq Revivable
  <1>1. pass.pc = "judge" /\ pass \in Passes /\ UNCHANGED <<members, sandbox, wire>>
    BY PassFacts DEF Size, At
  <1>2. /\ pass'.pc \in {"shed", "launch", "nap"} /\ pass'.ret = "shed"
        /\ pass'.todo = pass.live /\ pass'.snap = pass.snap /\ pass'.live = pass.live
        /\ pass'.susp = pass.susp
    BY <1>1, SizeFields
  <1>3. TodoInv'
    BY <1>2 DEF TodoInv
  <1>4. LaterStep /\ LaterSandbox
    BY <1>1, <1>2, SameSandbox DEF LaterStep
  <1> QED
    BY <1>3, <1>4, LaterKeeps

LEMMA ShedShape ==
    ASSUME RecInv, MembersInv, Shed
    PROVE  MembersInv' /\ Revivable' \subseteq Revivable
  <1>1. /\ pass.pc = "shed" /\ pass \in Passes /\ UNCHANGED <<members, sandbox, wire>>
        /\ pass.ret = "shed" /\ pass.todo \subseteq pass.live
    BY PassFacts DEF Shed, At, MembersInv, SortInv, TodoInv
  <1>2. /\ pass'.snap = pass.snap /\ pass'.live = pass.live /\ pass'.susp \subseteq pass.susp
        /\ pass'.ret = "shed" /\ pass'.todo \subseteq pass.live
        /\ pass'.pc \in {"nap", "stop", "drain"}
        /\ pass'.pc = "drain" => pass'.cur \in pass.live
    <2>1. CASE Go("nap")
      <3>1. SameSorting /\ pass'.pc = "nap" /\ pass'.ret = pass.ret
        BY <1>1, <2>1, GoFields
      <3> QED
        BY <1>1, <3>1 DEF SameSorting
    <2>2. CASE \E m \in pass.susp :
                  pass' = [pass EXCEPT !.susp = @ \ {m}, !.n = @ - 1, !.cur = m, !.pc = "stop"]
      <3>1. PICK m \in pass.susp :
               pass' = [pass EXCEPT !.susp = @ \ {m}, !.n = @ - 1, !.cur = m, !.pc = "stop"]
        BY <2>2
      <3>2. /\ pass'.snap = pass.snap /\ pass'.live = pass.live /\ pass'.susp = pass.susp \ {m}
            /\ pass'.ret = pass.ret /\ pass'.todo = pass.todo /\ pass'.pc = "stop"
        BY <1>1, <3>1 DEF Passes
      <3> QED
        BY <1>1, <3>2
    <2>3. CASE \E m \in pass.todo :
                  pass' = [pass EXCEPT !.todo = @ \ {m}, !.n = @ - 1, !.cur = m, !.pc = "drain"]
      <3>1. PICK m \in pass.todo :
               pass' = [pass EXCEPT !.todo = @ \ {m}, !.n = @ - 1, !.cur = m, !.pc = "drain"]
        BY <2>3
      <3>2. /\ pass'.snap = pass.snap /\ pass'.live = pass.live /\ pass'.susp = pass.susp
            /\ pass'.ret = pass.ret /\ pass'.todo = pass.todo \ {m} /\ pass'.cur = m
            /\ pass'.pc = "drain"
        BY <1>1, <3>1 DEF Passes
      <3> QED
        BY <1>1, <3>1, <3>2
    <2> QED
      BY <2>1, <2>2, <2>3 DEF Shed
  <1>3. TodoInv'
    BY <1>2 DEF TodoInv
  <1>4. LaterStep /\ LaterSandbox
    BY <1>1, <1>2, SameSandbox DEF LaterStep
  <1> QED
    BY <1>3, <1>4, LaterKeeps

\* Only members that were read as idle, with nothing in flight, are suspended.
LEMMA NapShape ==
    ASSUME RecInv, MembersInv, Nap
    PROVE  MembersInv' /\ Revivable' \subseteq Revivable
  <1>1. pass.pc = "nap" /\ pass \in Passes /\ UNCHANGED <<members, sandbox, wire>>
    BY PassFacts DEF Nap, At
  <1> DEFINE idle == {m \in pass.live : IdleLongEnough(pass.snap[m])}
  <1>2. PICK S : \/ S \subseteq pass.susp /\ pass' = [pass EXCEPT !.todo = S, !.pc = "resume"]
                 \/ S \subseteq idle /\ pass' = [pass EXCEPT !.todo = S, !.pc = "suspend"]
    <2>1. CASE \E S \in SUBSET pass.susp : pass' = [pass EXCEPT !.todo = S, !.pc = "resume"]
      BY <2>1
    <2>2. CASE pass' = [pass EXCEPT !.pc = "suspend", !.todo = idle]
      BY <2>2
    <2>3. CASE pass' = [pass EXCEPT !.pc = "suspend", !.todo = {}]
      BY <2>3
    <2> QED
      BY <2>1, <2>2, <2>3 DEF Nap
  <1>3. \A m \in idle : m \in pass.live /\ pass.snap[m].inFlight = 0
    BY DEF IdleLongEnough
  <1> HIDE DEF idle
  <1>4. /\ pass'.snap = pass.snap /\ pass'.live = pass.live /\ pass'.susp = pass.susp
        /\ pass'.todo = S
        /\ \/ S \subseteq pass.susp /\ pass'.pc = "resume"
           \/ S \subseteq idle /\ pass'.pc = "suspend"
    BY <1>1, <1>2 DEF Passes
  <1>5. TodoInv'
    BY <1>3, <1>4 DEF TodoInv
  <1>6. LaterStep /\ LaterSandbox
    BY <1>1, <1>4, SameSandbox DEF LaterStep
  <1> QED
    BY <1>5, <1>6, LaterKeeps

\* A member that is resumed was read as suspended, so it is not draining.
LEMMA ResumeShape ==
    ASSUME RecInv, MembersInv, NEW m \in Members, Resume(m)
    PROVE  MembersInv' /\ Revivable' \subseteq Revivable
  <1>1. /\ pass.pc = "resume" /\ pass \in Passes /\ UNCHANGED <<members, wire>>
        /\ m \in pass.todo /\ pass' = [pass EXCEPT !.todo = @ \ {m}]
    BY PassFacts DEF Resume, At
  <1>2. /\ pass'.snap = pass.snap /\ pass'.live = pass.live /\ pass'.susp = pass.susp
        /\ pass'.pc = "resume" /\ pass'.todo = pass.todo \ {m}
    BY <1>1 DEF Passes
  <1>3. pass.todo \subseteq pass.susp
    BY <1>1 DEF MembersInv, TodoInv
  <1>4. m \notin pass.live /\ pass.snap[m].st = "suspended"
    BY <1>1, <1>3 DEF MembersInv, SortInv
  <1>5. HasRow(m) => members[m].st # "draining"
    BY <1>1, <1>4 DEF MembersInv, DrainInv, Rows
  <1>6. TodoInv'
    BY <1>2, <1>3 DEF TodoInv
  <1>7. \A x \in Members : \/ sandbox'[x] = sandbox[x]
                           \/ x = m /\ sandbox'[x] = "up"
    <2>1. sandbox' = [sandbox EXCEPT ![m] = IF @ = "suspended" THEN "up" ELSE @]
          \/ UNCHANGED sandbox
      BY DEF Resume
    <2> QED
      BY <2>1, PassFacts
  <1>8. LaterSandbox
    BY <1>2, <1>4, <1>5, <1>7 DEF LaterSandbox, Rows
  <1>9. LaterStep
    BY <1>1, <1>2 DEF LaterStep
  <1> QED
    BY <1>6, <1>8, <1>9, LaterKeeps


LEMMA SuspendShape ==
    ASSUME RecInv, MembersInv, NEW m \in Members, Suspend(m)
    PROVE  MembersInv' /\ Revivable' \subseteq Revivable
  <1>1. /\ pass.pc = "suspend" /\ pass \in Passes /\ UNCHANGED <<members, wire>>
        /\ m \in pass.todo
    BY PassFacts DEF Suspend, At
  <1>2. \A x \in pass.todo : x \in pass.live /\ pass.snap[x].inFlight = 0
    BY <1>1 DEF MembersInv, TodoInv
  <1>3. CASE /\ sandbox' = [sandbox EXCEPT ![m] = IF @ = "up" THEN "suspended" ELSE @]
             /\ pass' = [pass EXCEPT !.todo = @ \ {m}, !.cur = m, !.pc = "mark"]
    <2>1. /\ pass'.snap = pass.snap /\ pass'.live = pass.live /\ pass'.susp = pass.susp
          /\ pass'.todo = pass.todo \ {m} /\ pass'.pc = "mark" /\ pass'.cur = m
      BY <1>1, <1>3 DEF Passes
    <2>2. TodoInv'
      BY <1>1, <1>2, <2>1 DEF TodoInv
    <2>3. \A x \in Members : sandbox'[x] = sandbox[x] \/ (x = m /\ sandbox'[x] = "suspended")
      BY <1>3, PassFacts
    <2>4. LaterStep
      BY <1>1, <2>1 DEF LaterStep
    <2>5. LaterSandbox
      BY <2>1, <2>3 DEF LaterSandbox, Rows
    <2> QED
      BY <2>2, <2>4, <2>5, LaterKeeps
  <1>4. CASE pass' = [pass EXCEPT !.todo = @ \ {m}] /\ UNCHANGED sandbox
    <2>1. /\ pass'.snap = pass.snap /\ pass'.live = pass.live /\ pass'.susp = pass.susp
          /\ pass'.todo = pass.todo \ {m} /\ pass'.pc = "suspend"
      BY <1>1, <1>4 DEF Passes
    <2>2. TodoInv'
      BY <1>2, <2>1 DEF TodoInv
    <2>3. LaterStep /\ LaterSandbox
      BY <1>1, <1>4, <2>1, SameSandbox DEF LaterStep
    <2> QED
      BY <2>2, <2>3, LaterKeeps
  <1> QED
    BY <1>3, <1>4 DEF Suspend

\* An id that has no sandbox has no row.
LEMMA LaunchShape ==
    ASSUME RecInv, MembersInv, Launch
    PROVE  /\ MembersInv' /\ Revivable' \subseteq Revivable
           /\ pass'.desired = pass.desired /\ Coming \in Nat /\ Coming' \in Nat
           /\ Coming' <= Coming
  <1>1. /\ pass.pc = "launch" /\ pass \in Passes /\ UNCHANGED <<members, wire>>
        /\ pass.n \in Nat /\ Coming = pass.n
    BY PassFacts DEF Launch, At, Coming
  <1>2. CASE pass.n = 0
    <2>1. Go("nap") /\ UNCHANGED sandbox
      BY <1>2 DEF Launch
    <2>2. SameSorting /\ pass'.pc = "nap"
      BY <1>1, <2>1, GoFields
    <2>3. TodoInv'
      BY <2>2 DEF TodoInv
    <2>4. LaterStep /\ LaterSandbox
      BY <1>1, <2>1, <2>2, SameSandbox DEF LaterStep, SameSorting
    <2>5. Coming = 0 /\ Coming' = 0
      BY <1>1, <1>2, <2>2 DEF Coming
    <2>6. Coming \in Nat /\ Coming' \in Nat /\ Coming' <= Coming
      BY <2>5, SMT
    <2>7. pass'.desired = pass.desired
      BY <2>2 DEF SameSorting
    <2> QED
      BY <2>3, <2>4, <2>6, <2>7, LaterKeeps
  <1>3. CASE pass.n # 0
    <2>1. PICK m : \/ /\ m \in Members /\ sandbox[m] = "none"
                      /\ sandbox' = [sandbox EXCEPT ![m] = "up"]
                      /\ pass' = [pass EXCEPT !.n = @ - 1, !.cur = m, !.pc = "record"]
                   \/ pass' = [pass EXCEPT !.n = @ - 1] /\ UNCHANGED sandbox
      BY <1>3 DEF Launch
    <2>2. /\ pass'.snap = pass.snap /\ pass'.live = pass.live /\ pass'.susp = pass.susp
          /\ pass'.n = pass.n - 1 /\ pass'.desired = pass.desired
          /\ \/ /\ pass'.pc = "record" /\ pass'.cur = m /\ m \in Members
                /\ sandbox[m] = "none" /\ sandbox' = [sandbox EXCEPT ![m] = "up"]
             \/ pass'.pc = "launch" /\ UNCHANGED sandbox
      <3>1. CASE /\ m \in Members /\ sandbox[m] = "none"
                 /\ sandbox' = [sandbox EXCEPT ![m] = "up"]
                 /\ pass' = [pass EXCEPT !.n = @ - 1, !.cur = m, !.pc = "record"]
        BY <1>1, <3>1 DEF Passes
      <3>2. CASE pass' = [pass EXCEPT !.n = @ - 1] /\ UNCHANGED sandbox
        BY <1>1, <3>2 DEF Passes
      <3> QED
        BY <2>1, <3>1, <3>2
    <2>3. pass'.pc \in {"launch", "record"}
      BY <2>2
    <2>4. TodoInv'
      BY <2>2, <2>3 DEF TodoInv
    <2>5. LaterStep
      BY <1>1, <2>2, <2>3 DEF LaterStep
    <2>6. pass'.pc = "record" =>
             members[pass'.cur].st \in Absent /\ sandbox'[pass'.cur] = "up"
      <3> SUFFICES ASSUME pass'.pc = "record"
                   PROVE  members[m].st \in Absent /\ sandbox'[m] = "up"
        BY <2>2
      <3>1. m \in Members /\ sandbox[m] = "none" /\ sandbox' = [sandbox EXCEPT ![m] = "up"]
        BY <2>2
      <3>2. sandbox'[m] = "up"
        BY <3>1, PassFacts
      <3>3. members[m].st \in Absent
        BY <3>1 DEF MembersInv, SandboxInv, Rows, HasRow
      <3> QED
        BY <3>2, <3>3
    <2>7. \A x \in Rows : sandbox'[x] = sandbox[x]
      BY <2>2, PassFacts DEF MembersInv, SandboxInv, Rows
    <2>8. LaterSandbox
      BY <2>6, <2>7 DEF LaterSandbox
    <2>9. Coming' = IF pass'.pc = "launch" THEN pass.n - 1 ELSE pass.n - 1 + 1
      BY <2>2, <2>3 DEF Coming
    <2>10. Coming \in Nat /\ Coming' \in Nat /\ Coming' <= Coming
      BY <1>1, <1>3, <2>9, SMT
    <2> QED
      BY <2>2, <2>4, <2>5, <2>8, <2>10, LaterKeeps
  <1> QED
    BY <1>2, <1>3


\* A recorded launch is one row more, and one launch less to come.
LEMMA RecordShape ==
    ASSUME RecInv, MembersInv, Record
    PROVE  /\ MembersInv' /\ Revivable' \subseteq Revivable \cup {pass.cur}
           /\ pass'.desired = pass.desired /\ Coming' \in Nat /\ Coming = Coming' + 1
  <1>0. PICK c \in Members : c = pass.cur
    BY PassFacts DEF Record, At, OnMember
  <1>1. pass.pc = "record" /\ pass \in Passes /\ pass.n \in Nat /\ UNCHANGED wire
    BY PassFacts DEF Record, At
  <1>2. /\ pass'.pc = "launch" /\ pass'.snap = pass.snap /\ pass'.live = pass.live
        /\ pass'.susp = pass.susp /\ pass'.n = pass.n /\ pass'.desired = pass.desired
    BY <1>1 DEF Record, Passes
  <1>3. sandbox[c] = "up" /\ ~HasRow(c)
    BY <1>0, <1>1 DEF MembersInv, SandboxInv
  <1>4. \/ members' = [members EXCEPT ![c] = NewRow(FirstState)] /\ UNCHANGED sandbox
        \/ UNCHANGED members /\ sandbox' = [sandbox EXCEPT ![c] = "stopped"]
        \/ UNCHANGED <<members, sandbox>>
    BY <1>0 DEF Record, AddMember, StopMember
  <1>5. \A x \in Members : HasRow(x)' =>
           \/ x = c /\ members'[x] = NewRow(FirstState) /\ sandbox'[x] = "up"
           \/ HasRow(x) /\ members'[x] = members[x] /\ sandbox'[x] = sandbox[x]
    <2>1. CASE members' = [members EXCEPT ![c] = NewRow(FirstState)] /\ UNCHANGED sandbox
      BY <1>3, <2>1, PassFacts DEF HasRow
    <2>2. CASE UNCHANGED members /\ sandbox' = [sandbox EXCEPT ![c] = "stopped"]
      BY <1>3, <2>2, PassFacts DEF HasRow
    <2>3. CASE UNCHANGED <<members, sandbox>>
      BY <2>3 DEF HasRow
    <2> QED
      BY <1>4, <2>1, <2>2, <2>3
  <1>6. /\ NewRow(FirstState).st \notin {"suspended", "draining", "dead"}
        /\ ~Expired(NewRow(FirstState))
    BY ReconcilerAssumption DEF NewRow, Expired
  <1>7. ~Judging'
    BY <1>2 DEF Judging
  <1>8. Revivable' \subseteq Revivable \cup {c}
    BY <1>2, <1>5 DEF Revivable, Rows
  <1>9. SandboxInv'
    <2>1. \A x \in Rows' : sandbox'[x] # "none"
      BY <1>5 DEF MembersInv, SandboxInv, Rows
    <2> QED
      BY <1>2, <2>1 DEF SandboxInv
  <1>10. WireInv'
    <2> SUFFICES ASSUME NEW x \in Members, HasRow(x)', x \in wire
                 PROVE  members'[x].st = "suspended" \/ sandbox'[x] = "up"
      BY <1>1 DEF WireInv, Rows
    <2>1. HasRow(x) => members[x].st = "suspended" \/ sandbox[x] = "up"
      BY <1>1 DEF MembersInv, WireInv, Rows
    <2> QED
      BY <1>5, <2>1
  <1>11. SortInv'
    BY <1>2, <1>7 DEF MembersInv, SortInv
  <1>12. TodoInv'
    BY <1>2 DEF TodoInv
  <1>13. DrainInv'
    <2> SUFFICES ASSUME NEW x \in Members, HasRow(x)', members'[x].st = "draining"
                 PROVE  /\ Expired(members'[x]) => sandbox'[x] # "up"
                        /\ \/ pass.snap[x].st = "draining"
                           \/ x \in pass.live /\ pass.snap[x].inFlight # 0
      BY <1>2 DEF DrainInv, Rows
    <2>1. HasRow(x) /\ members'[x] = members[x] /\ sandbox'[x] = sandbox[x]
      BY <1>5, <1>6
    <2> QED
      BY <1>1, <2>1 DEF MembersInv, DrainInv, Rows
  <1>14. DeadInv'
    <2> SUFFICES ASSUME NEW x \in Members, HasRow(x)', members'[x].st = "dead"
                 PROVE  FALSE
      BY DEF DeadInv, Rows
    <2>1. HasRow(x) /\ members[x].st = "dead"
      BY <1>5, <1>6
    <2> QED
      BY <1>1, <2>1 DEF MembersInv, DeadInv, Rows
  <1>15. LiveInv'
    <2> SUFFICES ASSUME NEW x \in Members, x \in pass.live, HasRow(x)'
                 PROVE  /\ Expired(members'[x]) => sandbox'[x] # "up"
                        /\ members'[x].st # "suspended"
      BY <1>2, PassFacts DEF LiveInv
    <2>1. HasRow(x) => /\ Expired(members[x]) => sandbox[x] # "up"
                       /\ members[x].st # "suspended"
      BY <1>1 DEF MembersInv, LiveInv
    <2> QED
      BY <1>5, <1>6, <2>1
  <1>16. ListInv' /\ BuriedInv'
    BY <1>7 DEF ListInv, BuriedInv
  <1>17. MembersInv'
    BY <1>9, <1>10, <1>11, <1>12, <1>13, <1>14, <1>15, <1>16 DEF MembersInv
  <1>18. Coming = pass.n + 1 /\ Coming' = pass.n
    BY <1>1, <1>2 DEF Coming
  <1>19. Coming' \in Nat /\ Coming = Coming' + 1
    BY <1>1, <1>18
  <1> QED
    BY <1>0, <1>2, <1>8, <1>17, <1>19


-----------------------------------------------------------------------------
(* The size of a bank: the count.                                          *)

\* The spill adds as many members as the bank is sized to, and at least one.
LEMMA SpillBound ==
    ASSUME NEW e \in Nat, NEW d \in Nat, e <= d, NEW w \in Nat, NEW cap \in Nat
    PROVE  /\ SpillLimit(d) \in Nat /\ e <= SpillLimit(d)
           /\ e + spillMembers(w, cap, e) <= SpillLimit(d)
  <1>1. resumeCount(w, cap) \in Nat
    BY SpillTyped
  <1>2. SpillLimit(d) \in Nat /\ e + AtLeast(e, 1) <= SpillLimit(d) /\ AtLeast(e, 1) \in Nat
    BY SMT DEF SpillLimit, AtLeast
  <1>3. \A a \in Nat, b \in Nat : AtMost(a, b) \in Nat /\ AtMost(a, b) <= b
    BY SMT DEF AtMost
  <1>4. spillMembers(w, cap, e) \in Nat /\ spillMembers(w, cap, e) <= AtLeast(e, 1)
    <2>1. CASE w <= 0
      BY <1>2, <2>1, SMT DEF spillMembers
    <2>2. CASE ~(w <= 0)
      BY <1>1, <1>2, <1>3, <2>2 DEF spillMembers
    <2> QED
      BY <2>1, <2>2
  <1> QED
    BY <1>2, <1>4, SMT

LEMMA TargetBound ==
    ASSUME NEW d \in Nat, pass \in Passes, pass.desired <= d
    PROVE  /\ SpillLimit(d) \in Nat /\ pass.desired <= SpillLimit(d)
           /\ targetCount <= SpillLimit(d)
  <1>1. pass.desired \in Nat /\ Unassigned \in Nat /\ JobCap \in Nat
    BY CountsTyped, JobCapAssumption DEF Passes
  <1>2. /\ SpillLimit(d) \in Nat /\ pass.desired <= SpillLimit(d)
        /\ pass.desired + spillMembers(Unassigned, JobCap, pass.desired) <= SpillLimit(d)
    BY <1>1, SpillBound
  <1>3. targetCount = pass.desired + spillMembers(Unassigned, JobCap, pass.desired)
        \/ targetCount = pass.desired + 0
    BY DEF targetCount
  <1> QED
    BY <1>1, <1>2, <1>3, SMT

\* Every row that counts, or could count again, was found to run.
LEMMA AllAreSorted ==
    ASSUME RecInv, MembersInv, Size
    PROVE  Cardinality(Revivable) <= Running
  <1>1. pass.pc = "judge" /\ pass.todo = {} /\ Judging
    BY DEF Size, At, Judging
  <1>2. /\ pass.cur = NoMember
        /\ Revivable \subseteq pass.todo \cup pass.live \cup pass.susp \cup {pass.cur}
    BY <1>1 DEF MembersInv, SortInv
  <1>3. Revivable \subseteq pass.live \cup pass.susp
    BY <1>1, <1>2, RevivableFinite, ReconcilerAssumption
  <1>4. IsFiniteSet(pass.live) /\ IsFiniteSet(pass.susp)
    <2>1. pass.live \in SUBSET Members /\ pass.susp \in SUBSET Members
      BY PassFacts
    <2> QED
      BY <2>1, FS_Subset, ReconcilerAssumption
  <1>5. /\ IsFiniteSet(pass.live \cup pass.susp) /\ IsFiniteSet(pass.live \cap pass.susp)
        /\ Cardinality(pass.live \cup pass.susp) =
              Cardinality(pass.live) + Cardinality(pass.susp)
                 - Cardinality(pass.live \cap pass.susp)
    BY <1>4, FS_Union, FS_Intersection
  <1>6. Cardinality(Revivable) <= Cardinality(pass.live \cup pass.susp)
    BY <1>3, <1>5, FS_Subset
  <1>7. /\ Cardinality(pass.live) \in Nat /\ Cardinality(pass.susp) \in Nat
        /\ Cardinality(pass.live \cap pass.susp) \in Nat
        /\ Cardinality(Revivable) \in Nat
    BY <1>4, <1>5, RevivableFinite, FS_CardinalityType
  <1> QED
    BY <1>5, <1>6, <1>7, SMT DEF Running

\* A pass launches up to the target, and a failed read of the queue launches none
\* beyond the size of the bank.
LEMMA SizeCount ==
    ASSUME NEW d \in Nat, RecInv, SpillInv(d), Size
    PROVE  /\ Coming' \in Nat
           /\ Cardinality(Revivable) + Coming' <= SpillLimit(d)
  <1>0. /\ \A a, r, n, t, l \in Nat : a <= r /\ r + n = t /\ t <= l => a + n <= l
        /\ \A r, n \in Nat : r + n = r => n = 0
    BY SMT
  <1>1. /\ pass.pc = "judge" /\ pass \in Passes /\ MembersInv /\ pass.desired <= d
        /\ Cardinality(Revivable) \in Nat
        /\ Cardinality(Revivable) + Coming <= SpillLimit(d)
    BY PassFacts, RevivableFinite DEF Size, At, SpillInv
  <1>2. Coming = 0
    BY <1>1 DEF Coming
  <1>3. /\ Running \in Nat /\ pass'.n \in Nat /\ pass'.pc # "record"
        /\ pass'.pc = "launch" =>
              \E t \in {targetCount, AtLeast(Running, pass.desired)} :
                 t \in Nat /\ Running + pass'.n = t
    BY <1>1, SizeFields
  <1>4. CASE pass'.pc # "launch"
    <2>1. Coming' = 0
      BY <1>3, <1>4 DEF Coming
    <2> QED
      BY <1>1, <1>2, <2>1
  <1>5. CASE pass'.pc = "launch"
    <2>1. Coming' = pass'.n
      BY <1>5 DEF Coming
    <2>2. /\ SpillLimit(d) \in Nat /\ pass.desired \in Nat
          /\ pass.desired <= SpillLimit(d) /\ targetCount <= SpillLimit(d)
          /\ targetCount \in Nat
      BY <1>1, TargetBound, PassFacts, CountsTyped
    <2>3. Cardinality(Revivable) <= Running
      BY <1>1, AllAreSorted
    <2>4. CASE Running + pass'.n = targetCount
      BY <1>0, <1>1, <1>3, <2>1, <2>2, <2>3, <2>4
    <2>5. CASE Running + pass'.n = AtLeast(Running, pass.desired)
      <3>1. Running + pass'.n = pass.desired \/ Running + pass'.n = Running
        BY <2>5 DEF AtLeast
      <3>2. CASE Running + pass'.n = pass.desired
        BY <1>0, <1>1, <1>3, <2>1, <2>2, <2>3, <3>2
      <3>3. CASE Running + pass'.n = Running
        <4>1. pass'.n = 0
          BY <1>0, <1>3, <3>3
        <4> QED
          BY <1>1, <1>2, <1>3, <2>1, <4>1
      <3> QED
        BY <3>1, <3>2, <3>3
    <2> QED
      BY <1>3, <1>5, <2>4, <2>5
  <1> QED
    BY <1>4, <1>5


LEMMA ComingTyped ==
    ASSUME pass \in Passes
    PROVE  Coming \in Nat
  <1>1. pass.n \in Nat
    BY DEF Passes
  <1>2. \A k \in Nat : k + 1 \in Nat
    BY SMT
  <1>3. 0 \in Nat
    BY SMT
  <1>4. Coming \in {pass.n, pass.n + 1, 0}
    BY DEF Coming
  <1> QED
    BY <1>1, <1>2, <1>3, <1>4

\* A step after which the pass has no launch to come.
Launchless ==
    /\ pass'.pc \notin {"launch", "record"}
    /\ pass'.desired \in {pass.desired, bank.desired, 0}

LEMMA LaunchlessSteps ==
    ASSUME RecInv, MembersInv, Faults \cap Disturbing = {}
    PROVE  /\ StartPass \/ ListStale \/ Sweep => Launchless
           /\ Bury \/ Kill \/ Release \/ Stop \/ Remove \/ Drain => Launchless
           /\ Shed \/ Nap \/ MarkSuspended => Launchless
           /\ \A m \in Members : Judge(m) \/ Resume(m) \/ Suspend(m) => Launchless
  <1>0. pass \in Passes /\ pass.ret \in {"judge", "shed"}
    BY PassFacts DEF Passes
  <1>1. ASSUME NEW pc \in {"kill", "release", "stop", "remove", "nap"}, Go(pc)
        PROVE  Launchless
    BY <1>0, <1>1, GoFields DEF Launchless, SameSorting
  <1>2. ASSUME Continue PROVE Launchless
    BY <1>0, <1>2, ContinueFields DEF Launchless, SameSorting
  <1>3. Bury \/ Kill \/ Release \/ Stop \/ Remove \/ Drain => Launchless
    BY <1>1, <1>2 DEF Bury, Kill, Release, Stop, Remove, Drain
  <1>4. StartPass \/ ListStale => Launchless
    <2>1. ASSUME StartPass PROVE Launchless
      BY <2>1 DEF StartPass, NoPass, Launchless
    <2>2. ASSUME ListStale PROVE Launchless
      BY <2>2 DEF ListStale, NoPass, Launchless
    <2> QED
      BY <2>1, <2>2
  <1>5. ASSUME Sweep PROVE Launchless
    <2>1. CASE pass' = NoPass
      BY <2>1 DEF NoPass, Launchless
    <2>2. CASE \E j \in pass.stale : pass' = [pass EXCEPT !.stale = @ \ {j}]
      BY <1>0, <1>5, <2>2 DEF Sweep, At, Passes, Launchless
    <2> QED
      BY <1>5, <2>1, <2>2 DEF Sweep
  <1>6. ASSUME Shed PROVE Launchless
    <2>1. ASSUME NEW m, pass' = [pass EXCEPT !.susp = @ \ {m}, !.n = @ - 1, !.cur = m,
                                             !.pc = "stop"]
          PROVE  Launchless
      BY <1>0, <2>1 DEF Passes, Launchless
    <2>2. ASSUME NEW m, pass' = [pass EXCEPT !.todo = @ \ {m}, !.n = @ - 1, !.cur = m,
                                             !.pc = "drain"]
          PROVE  Launchless
      BY <1>0, <2>2 DEF Passes, Launchless
    <2> QED
      BY <1>1, <1>6, <2>1, <2>2 DEF Shed
  <1>7. ASSUME Nap PROVE Launchless
    <2>1. ASSUME NEW S, pass' = [pass EXCEPT !.todo = S, !.pc = "resume"]
          PROVE  Launchless
      BY <1>0, <2>1 DEF Passes, Launchless
    <2>2. ASSUME NEW S, pass' = [pass EXCEPT !.pc = "suspend", !.todo = S]
          PROVE  Launchless
      BY <1>0, <2>2 DEF Passes, Launchless
    <2> QED
      BY <1>7, <2>1, <2>2 DEF Nap
  <1>8. ASSUME MarkSuspended PROVE Launchless
    BY <1>0, <1>8 DEF MarkSuspended, Passes, Launchless
  <1>9. ASSUME NEW m \in Members, Judge(m) PROVE Launchless
    BY <1>9, JudgeDecides DEF Launchless
  <1>10. ASSUME NEW m \in Members, Resume(m) PROVE Launchless
    BY <1>0, <1>10 DEF Resume, At, Passes, Launchless
  <1>11. ASSUME NEW m \in Members, Suspend(m) PROVE Launchless
    <2>1. CASE pass' = [pass EXCEPT !.todo = @ \ {m}, !.cur = m, !.pc = "mark"]
      BY <1>0, <2>1 DEF Passes, Launchless
    <2>2. CASE pass' = [pass EXCEPT !.todo = @ \ {m}]
      BY <1>0, <1>11, <2>2 DEF Suspend, At, Passes, Launchless
    <2> QED
      BY <1>11, <2>1, <2>2 DEF Suspend
  <1> QED
    BY <1>3, <1>4, <1>5, <1>6, <1>7, <1>8, <1>9, <1>10, <1>11

\* Such a step, and one that leaves the pass alone, keeps the bound.
LEMMA LaunchlessKeeps ==
    ASSUME NEW d \in Nat, RecInv, SpillInv(d), Launchless, UNCHANGED bank,
           MembersInv', Revivable' \subseteq Revivable
    PROVE  SpillInv(d)'
  <1>1. pass \in Passes /\ pass.desired <= d /\ bank.desired <= d /\ 0 <= d
    BY PassFacts, SMT DEF SpillInv
  <1>2. Coming \in Nat
    BY <1>1, ComingTyped
  <1>3. Coming' = 0
    BY DEF Coming, Launchless
  <1>4. Coming' \in Nat /\ Coming' <= Coming
    BY <1>2, <1>3, SMT
  <1>5. bank'.desired <= d /\ pass'.desired <= d
    BY <1>1 DEF Launchless
  <1> QED
    BY <1>2, <1>4, <1>5, FewerKeep

LEMMA DriftCount ==
    ASSUME NEW d \in Nat, RecInv, SpillInv(d), UNCHANGED pass, \A x \in Members : Drifts(x),
           bank'.desired <= d
    PROVE  SpillInv(d)'
  <1>1. MembersInv
    BY DEF SpillInv
  <1>2. MembersInv' /\ Revivable' \subseteq Revivable
    BY <1>1, DriftKeeps
  <1>3. pass \in Passes /\ pass'.desired <= d
    BY PassFacts DEF SpillInv
  <1>4. Coming \in Nat
    BY <1>3, ComingTyped
  <1>5. Coming' = Coming
    BY DEF Coming
  <1>6. Coming' \in Nat /\ Coming' <= Coming
    BY <1>4, <1>5, SMT
  <1> QED
    BY <1>2, <1>3, <1>4, <1>6, FewerKeep


LEMMA PassCount ==
    ASSUME NEW d \in Nat, Faults \cap Disturbing = {}, RecInv, SpillInv(d), PassStep
    PROVE  SpillInv(d)'
  <1>0. MembersInv /\ bank.desired <= d /\ pass.desired <= d /\ UNCHANGED bank
    <2>1. MembersInv /\ bank.desired <= d /\ pass.desired <= d
      BY DEF SpillInv
    <2>2. StartPass \/ Bury \/ Kill \/ Release \/ Stop \/ Remove \/ Size => UNCHANGED bank
      BY DEF StartPass, Bury, Kill, Release, Stop, Remove, Size
    <2>3. Shed \/ Drain \/ Launch \/ Record \/ Nap \/ MarkSuspended => UNCHANGED bank
      BY DEF Shed, Drain, Launch, Record, Nap, MarkSuspended
    <2>4. ListStale \/ Sweep => UNCHANGED bank
      BY DEF ListStale, Sweep
    <2>5. ASSUME NEW m \in Members, Judge(m) \/ Resume(m) \/ Suspend(m)
          PROVE  UNCHANGED bank
      <3>1. Judge(m) => UNCHANGED bank
        BY DEF Judge
      <3>2. Resume(m) => UNCHANGED bank
        BY DEF Resume
      <3>3. Suspend(m) => UNCHANGED bank
        BY DEF Suspend
      <3> QED
        BY <2>5, <3>1, <3>2, <3>3
    <2> QED
      BY <2>1, <2>2, <2>3, <2>4, <2>5 DEF PassStep
  <1>1. CASE StartPass \/ ListStale \/ Sweep
    <2>1. MembersInv' /\ Revivable' \subseteq Revivable
      BY <1>0, <1>1, StartPassShape, ListStaleShape, SweepShape
    <2>2. Launchless
      BY <1>0, <1>1, LaunchlessSteps
    <2> QED
      BY <1>0, <2>1, <2>2, LaunchlessKeeps
  <1>2. CASE Bury \/ Kill \/ Release \/ Stop \/ Remove \/ Drain
    <2>1. MembersInv' /\ Revivable' \subseteq Revivable
      BY <1>0, <1>2, BuryShape, KillShape, ReleaseShape, StopShape, RemoveShape, DrainShape
    <2>2. Launchless
      BY <1>0, <1>2, LaunchlessSteps
    <2> QED
      BY <1>0, <2>1, <2>2, LaunchlessKeeps
  <1>3. CASE Shed \/ Nap \/ MarkSuspended
    <2>1. MembersInv' /\ Revivable' \subseteq Revivable
      BY <1>0, <1>3, ShedShape, NapShape, MarkShape
    <2>2. Launchless
      BY <1>0, <1>3, LaunchlessSteps
    <2> QED
      BY <1>0, <2>1, <2>2, LaunchlessKeeps
  <1>4. ASSUME NEW m \in Members, Judge(m) \/ Resume(m) \/ Suspend(m)
        PROVE  SpillInv(d)'
    <2>1. MembersInv' /\ Revivable' \subseteq Revivable
      BY <1>0, <1>4, JudgeShape, ResumeShape, SuspendShape
    <2>2. Launchless
      BY <1>0, <1>4, LaunchlessSteps
    <2> QED
      BY <1>0, <2>1, <2>2, LaunchlessKeeps
  <1>5. CASE Launch
    BY <1>0, <1>5, LaunchShape, FewerKeep
  <1>6. CASE Size
    <2>1. MembersInv' /\ Revivable' \subseteq Revivable
      BY <1>0, <1>6, SizeShape
    <2>2. pass \in Passes /\ pass'.desired = pass.desired
      BY <1>6, SizeFields, PassFacts
    <2>3. Coming' \in Nat /\ Cardinality(Revivable) + Coming' <= SpillLimit(d)
      BY <1>6, SizeCount
    <2>4. /\ Cardinality(Revivable) \in Nat /\ Cardinality(Revivable') \in Nat
          /\ Cardinality(Revivable') <= Cardinality(Revivable)
      <3>1. IsFiniteSet(Revivable)
        BY RevivableFinite
      <3> QED
        BY <2>1, <3>1, FS_Subset, FS_CardinalityType
    <2>5. SpillLimit(d) \in Nat
      BY SMT DEF SpillLimit, AtLeast
    <2>6. Cardinality(Revivable') + Coming' <= SpillLimit(d)
      BY <2>3, <2>4, <2>5, SMT
    <2> QED
      BY <1>0, <2>1, <2>2, <2>6 DEF SpillInv
  <1>7. CASE Record
    <2>1. /\ MembersInv' /\ Revivable' \subseteq Revivable \cup {pass.cur}
          /\ pass'.desired = pass.desired /\ Coming' \in Nat /\ Coming = Coming' + 1
      BY <1>0, <1>7, RecordShape
    <2>2. /\ Cardinality(Revivable) \in Nat /\ Cardinality(Revivable') \in Nat
          /\ Cardinality(Revivable') <= Cardinality(Revivable) + 1
      <3>1. IsFiniteSet(Revivable) /\ Cardinality(Revivable) \in Nat
        BY RevivableFinite
      <3>2. /\ IsFiniteSet(Revivable \cup {pass.cur})
            /\ Cardinality(Revivable \cup {pass.cur}) \in
                  {Cardinality(Revivable), Cardinality(Revivable) + 1}
        BY <3>1, FS_AddElement
      <3>3. /\ Cardinality(Revivable') <= Cardinality(Revivable \cup {pass.cur})
            /\ Cardinality(Revivable') \in Nat
        BY <2>1, <3>2, FS_Subset, FS_CardinalityType
      <3> QED
        BY <3>1, <3>2, <3>3, SMT
    <2>3. SpillLimit(d) \in Nat /\ Cardinality(Revivable) + Coming <= SpillLimit(d)
      BY SMT DEF SpillLimit, AtLeast, SpillInv
    <2>4. Cardinality(Revivable') + Coming' <= SpillLimit(d)
      BY <2>1, <2>2, <2>3, SMT
    <2> QED
      BY <1>0, <2>1, <2>4 DEF SpillInv
  <1> QED
    BY <1>1, <1>2, <1>3, <1>4, <1>5, <1>6, <1>7 DEF PassStep

\* A bank whose size stays at d or below keeps the bound of size d.
LEMMA NextSpillInv ==
    ASSUME NEW d \in Nat, Faults \cap Disturbing = {}, RecInv, SpillInv(d),
           [RecNext]_recVars, bank'.desired <= d
    PROVE  SpillInv(d)'
  <1>1. CASE PassStep
    BY <1>1, PassCount
  <1>2. CASE Crash
    BY <1>2, OnlyCalm DEF Crash, Disturbing
  <1>3. ASSUME NEW m \in Members, SendReport(m) \/ ReportMemberStatus(m)
        PROVE  SpillInv(d)'
    BY <1>3, ReportDrifts, DriftCount
  <1>4. ASSUME NEW m \in Members, TimePasses(m) \/ ForgetMember(m)
        PROVE  SpillInv(d)'
    BY <1>4, TimeDrifts, ForgetDrifts, DriftCount
  <1>5. ASSUME NEW m \in Members, Hang(m)
        PROVE  SpillInv(d)'
    BY <1>5, OnlyCalm DEF Hang, Disturbing
  <1>6. CASE DeleteBank
    BY <1>6, DeleteDrifts, DriftCount
  <1>7. ASSUME UNCHANGED <<members, sandbox, wire, pass>>
        PROVE  SpillInv(d)'
    BY <1>7, StillDrifts, DriftCount
  <1>8. /\ \A m \in Members : PullJob(m) => UNCHANGED <<members, sandbox, wire, pass>>
        /\ \A j \in Jobs : CloseJob(j) => UNCHANGED <<members, sandbox, wire, pass>>
        /\ \A j \in Jobs, m \in Members \cup {NoMember} :
              OpenJob(j, m) => UNCHANGED <<members, sandbox, wire, pass>>
        /\ \A e \in DesiredCounts : UpdateBank(e) => UNCHANGED <<members, sandbox, wire, pass>>
        /\ UNCHANGED recVars => UNCHANGED <<members, sandbox, wire, pass>>
    BY DEF PullJob, CloseJob, OpenJob, UpdateBank, recVars
  <1> QED
    BY <1>1, <1>2, <1>3, <1>4, <1>5, <1>6, <1>7, <1>8 DEF RecNext


-----------------------------------------------------------------------------
(* The size of a bank: the results.                                        *)

LEMMA CountedBound ==
    ASSUME NEW d \in Nat, RecInv, SpillInv(d)
    PROVE  Cardinality(Counted) <= SpillLimit(d)
  <1>1. Counted \subseteq Revivable
    BY DEF Counted, Revivable
  <1>2. /\ Cardinality(Counted) \in Nat /\ Cardinality(Revivable) \in Nat
        /\ Cardinality(Counted) <= Cardinality(Revivable)
    <2>1. IsFiniteSet(Revivable)
      BY RevivableFinite
    <2> QED
      BY <1>1, <2>1, FS_Subset, FS_CardinalityType
  <1>3. SpillLimit(d) \in Nat /\ Cardinality(Revivable) + Coming <= SpillLimit(d)
    BY SMT DEF SpillLimit, AtLeast, SpillInv
  <1>4. Coming \in Nat
    BY PassFacts, ComingTyped
  <1> QED
    BY <1>2, <1>3, <1>4, SMT

\* A larger size has a larger limit.
LEMMA LimitGrows ==
    ASSUME NEW d \in Nat, NEW e \in Nat, d <= e, SpillInv(d), RecInv
    PROVE  SpillInv(e)
  <1>1. /\ Cardinality(Revivable) \in Nat /\ Coming \in Nat
        /\ pass.desired \in Nat /\ bank.desired \in Nat
    BY RevivableFinite, ComingTyped, PassFacts, TypedParts, ReconcilerAssumption DEF Typed
  <1>2. SpillLimit(d) \in Nat /\ SpillLimit(e) \in Nat /\ SpillLimit(d) <= SpillLimit(e)
    BY SMT DEF SpillLimit, AtLeast
  <1>3. /\ bank.desired <= d /\ pass.desired <= d /\ MembersInv
        /\ Cardinality(Revivable) + Coming <= SpillLimit(d)
    BY DEF SpillInv
  <1>4. /\ bank.desired <= e /\ pass.desired <= e
        /\ Cardinality(Revivable) + Coming <= SpillLimit(e)
    BY <1>1, <1>2, <1>3, SMT
  <1> QED
    BY <1>3, <1>4 DEF SpillInv

LEMMA InitSpillInv ==
    ASSUME RecInit, NEW d \in Nat, bank.desired <= d
    PROVE  SpillInv(d)
  <1>1. /\ pass = NoPass /\ wire = {} /\ \A m \in Members : ~HasRow(m)
    BY DEF RecInit, BankStoreInit, HasRow, NewRow, Absent
  <1>2. /\ pass.pc = "rest" /\ pass.ret = "judge" /\ pass.desired = 0
        /\ pass.todo = {} /\ pass.live = {} /\ pass.susp = {}
    BY <1>1 DEF NoPass
  <1>3. Rows = {} /\ Revivable = {} /\ ~Judging
    BY <1>1, <1>2 DEF Rows, Revivable, Judging
  <1>4. MembersInv
    <2>1. SandboxInv /\ WireInv /\ DrainInv /\ DeadInv
      BY <1>2, <1>3 DEF SandboxInv, WireInv, DrainInv, DeadInv
    <2>2. SortInv /\ TodoInv
      BY <1>2, <1>3 DEF SortInv, TodoInv
    <2>3. LiveInv /\ ListInv /\ BuriedInv
      BY <1>2, <1>3 DEF LiveInv, ListInv, BuriedInv
    <2> QED
      BY <2>1, <2>2, <2>3 DEF MembersInv
  <1>5. Cardinality(Revivable) = 0 /\ Coming = 0
    BY <1>2, <1>3, FS_EmptySet DEF Coming
  <1>6. 0 + 0 <= SpillLimit(d) /\ 0 <= d
    BY SMT DEF SpillLimit, AtLeast
  <1> QED
    BY <1>2, <1>4, <1>5, <1>6 DEF SpillInv

\* The owner leaves the size of the bank as it is, or makes it larger.
NeverSmaller == bank'.desired >= bank.desired

\* A bank that is not made smaller never has more members that count than its size and
\* the spill on top of it, in any number of passes and whatever is waiting, when stops
\* and writes succeed and members that run report in time.
THEOREM SpillStaysBounded ==
    ASSUME Faults \cap Disturbing = {}
    PROVE  RecSpec /\ [][NeverSmaller]_recVars => []SpillIsBounded
  <1> DEFINE Inv == RecInv /\ SpillInv(bank.desired)
  <1>0. RecInv => bank.desired \in Nat
    BY TypedParts, ReconcilerAssumption DEF Typed
  <1>1. RecInit => Inv
    <2> SUFFICES ASSUME RecInit PROVE Inv
      OBVIOUS
    <2>1. RecInv
      BY InitRecInv
    <2>2. bank.desired \in Nat /\ bank.desired <= bank.desired
      BY <1>0, <2>1, SMT
    <2> QED
      BY <2>1, <2>2, InitSpillInv
  <1>2. Inv /\ [RecNext]_recVars /\ [NeverSmaller]_recVars => Inv'
    <2> SUFFICES ASSUME Inv, [RecNext]_recVars, [NeverSmaller]_recVars
                 PROVE  Inv'
      OBVIOUS
    <2>1. RecInv'
      BY NextRecInv
    <2>2. PICK d \in Nat : d = bank.desired
      BY <1>0
    <2>3. PICK e \in Nat : e = bank'.desired
      <3>1. bank'.desired \in Nat
        BY <2>1, TypedPartsNext, ReconcilerAssumption DEF Typed
      <3> QED
        BY <3>1
    <2>4. d <= e /\ e <= e
      BY <2>2, <2>3, SMT DEF NeverSmaller, recVars
    <2>5. SpillInv(e)
      BY <2>2, <2>4, LimitGrows
    <2>6. SpillInv(e)'
      BY <2>3, <2>4, <2>5, NextSpillInv
    <2> QED
      BY <2>1, <2>3, <2>6
  <1>3. Inv => SpillIsBounded
    BY <1>0, CountedBound DEF SpillIsBounded
  <1> QED
    BY <1>1, <1>2, <1>3, PTL DEF RecSpec

\* However often its owner changes the size, a bank stays within the limit of the
\* largest size it was given.
THEOREM SpillStaysWithin ==
    ASSUME NEW D \in Nat, \A d \in DesiredCounts : d <= D, Faults \cap Disturbing = {}
    PROVE  RecSpec => [](Cardinality(Counted) <= SpillLimit(D))
  <1> DEFINE Inv == RecInv /\ SpillInv(D)
  <1>0. RecInv => bank.desired \in DesiredCounts
    BY TypedParts DEF Typed
  <1>1. RecInit => Inv
    BY <1>0, InitRecInv, InitSpillInv
  <1>2. Inv /\ [RecNext]_recVars => Inv'
    <2> SUFFICES ASSUME Inv, [RecNext]_recVars PROVE Inv'
      OBVIOUS
    <2>1. RecInv'
      BY NextRecInv
    <2>2. bank'.desired <= D
      BY <2>1, TypedPartsNext DEF Typed
    <2> QED
      BY <2>1, <2>2, NextSpillInv
  <1>3. Inv => Cardinality(Counted) <= SpillLimit(D)
    BY CountedBound
  <1> QED
    BY <1>1, <1>2, <1>3, PTL DEF RecSpec

=============================================================================
