----------------------------- MODULE Reconciler -----------------------------
(***************************************************************************)
(* The bank reconciler (internal/engine/bank) over the bank_members table  *)
(* of BankStore, the jobs as JobLifecycle promises them, and the sandboxes *)
(* of the members.  A pass of ReconcileBank reads the members once and     *)
(* then acts on what it read, one call at a time; between two calls the    *)
(* members report and pull, clients open and close jobs, the owner resizes *)
(* or deletes the bank, and time passes.  Any call may fail, and the       *)
(* daemon may crash and start over.                                        *)
(*                                                                         *)
(* created_at is left out: where the code takes the oldest of equals, any  *)
(* of them is taken.                                                       *)
(***************************************************************************)
EXTENDS BankStore, FiniteSets

CONSTANTS
    Jobs, NoMember,
    Verdicts,       \* what a scorer may say; no step here depends on it
    DesiredCounts,  \* the sizes the owner may give the bank
    Spill,          \* SpillEphemeral, on a bank that does not sign in on a subscription
    FirstState,     \* initialState: "launching", or "needs_sign_in" on a subscription
    Faults,         \* the kinds of failure that may happen
    MaxFaults,      \* bound: failures in a behaviour
    MaxResizes      \* bound: changes of the desired count

NoVerdict == ""

ASSUME ReconcilerAssumption ==
    /\ NoMember \notin Members
    /\ "abandoned" \in Verdicts /\ NoVerdict \notin Verdicts
    /\ IsFiniteSet(Members) /\ IsFiniteSet(Jobs)
    /\ DesiredCounts \subseteq Nat /\ DesiredCounts # {}
    /\ Spill \in BOOLEAN
    /\ FirstState \in {"launching", "needs_sign_in"}
    /\ MaxFaults \in Nat /\ MaxResizes \in Nat

VARIABLES
    phase, holder, verdict,  \* the jobs, as in JobLifecycle
    sandbox,    \* the sandbox of each member, as setec knows it
    wire,       \* the members with a status report on its way
    bank,       \* the banks row: desired count, and whether it was deleted
    pass,       \* the locals of the running pass
    faults,     \* how many failures happened
    leaked      \* history: sandboxes a failed call, a crash or a delete left behind

jobVars == <<phase, holder, verdict>>
recVars == <<members, phase, holder, verdict, sandbox, wire, bank, pass, faults, leaked>>

Life == INSTANCE JobLifecycle

Held(m) == {j \in Jobs : phase[j] = "live" /\ holder[j] = m}
Unassigned == Cardinality(Held(NoMember))

PassSteps == {"rest", "judge", "bury", "kill", "release", "stop", "remove", "size",
              "shed", "drain", "launch", "record", "nap", "resume", "suspend", "mark",
              "sweep"}

NoPass == [pc |-> "rest", ret |-> "judge", desired |-> 0, n |-> 0, cur |-> NoMember,
           snap |-> [m \in Members |-> NewRow("unused")],
           todo |-> {}, live |-> {}, susp |-> {}, stale |-> {}]

RecTypeOK ==
    /\ BankStoreTypeOK
    /\ phase \in [Jobs -> {"unopened", "live", "settled", "deleted"}]
    /\ holder \in [Jobs -> Members \cup {NoMember}]
    /\ verdict \in [Jobs -> Verdicts \cup {NoVerdict}]
    /\ sandbox \in [Members -> {"none", "up", "hung", "suspended", "stopped"}]
    /\ wire \subseteq Members /\ leaked \subseteq Members
    /\ bank \in [desired : DesiredCounts, deleted : BOOLEAN, resizes : 0..MaxResizes]
    /\ pass \in [pc : PassSteps, ret : {"judge", "shed"}, desired : Nat, n : Nat,
                 cur : Members \cup {NoMember}, snap : [Members -> MemberRow],
                 todo : SUBSET Members, live : SUBSET Members, susp : SUBSET Members,
                 stale : SUBSET Jobs]
    /\ faults \in 0..MaxFaults

RecInit ==
    /\ BankStoreInit /\ Life!Init
    /\ sandbox = [m \in Members |-> "none"]
    /\ wire = {} /\ leaked = {}
    /\ \E d \in DesiredCounts : bank = [desired |-> d, deleted |-> FALSE, resizes |-> 0]
    /\ pass = NoPass
    /\ faults = 0

-----------------------------------------------------------------------------
(* Helpers.                                                                *)

At(pc) == pass.pc = pc
Go(pc) == pass' = [pass EXCEPT !.pc = pc]

\* The loop of the pass goes on with the next member.
Continue == pass' = [pass EXCEPT !.pc = pass.ret, !.cur = NoMember]

NoFault == UNCHANGED faults
Fail(kind) == kind \in Faults /\ faults < MaxFaults /\ faults' = faults + 1

StopMember(m) == sandbox' = [sandbox EXCEPT ![m] = "stopped"]

\* Mutant of IsDead: a launch that never reported is waited on forever.
IsDeadOnceReported(row) == row.st = "dead" \/ row.hb = "late"

IsDead(row) == row.st = "dead" \/ row.hb \in {"overdue", "late"}

IdleLongEnough(row) == row.st = "idle" /\ row.inFlight = 0 /\ row.idle = "long"

AtLeast(a, b) == IF a > b THEN a ELSE b
AtMost(a, b) == IF a < b THEN a ELSE b

\* One member for each job cap of waiting jobs, rounded up.
resumeCount(waiting, cap) == (waiting + AtLeast(cap, 1) - 1) \div AtLeast(cap, 1)

\* Mutant of spillMembers: the limit is not applied.
spillMembersUnbounded(waiting, cap, limit) ==
    IF waiting <= 0 THEN 0 ELSE resumeCount(waiting, cap)

spillMembers(waiting, cap, limit) ==
    IF waiting <= 0 THEN 0 ELSE AtMost(resumeCount(waiting, cap), AtLeast(limit, 1))

targetCount == pass.desired + IF Spill THEN spillMembers(Unassigned, JobCap, pass.desired) ELSE 0
-----------------------------------------------------------------------------
(* One pass of ReconcileBank.                                              *)

\* ListAll and allMembers: the banks row and the members as of now.
StartPass ==
    /\ At("rest") /\ ~bank.deleted
    /\ pass' = [NoPass EXCEPT !.pc = "judge", !.desired = bank.desired, !.todo = Rows,
                   !.snap = [m \in Members |-> IF HasRow(m) THEN members[m]
                                               ELSE NewRow("unused")]]
    /\ UNCHANGED <<members, jobVars, sandbox, wire, bank, faults, leaked>>

\* A suspended member is recycled after the keep time, a dead one is buried, a
\* drained one is removed; the others are sorted into suspended and live.  A
\* pass that was slow on an earlier member finds the heartbeat it read too old.
\* The times judged here are not read again.
Judge(m) ==
    /\ At("judge") /\ m \in pass.todo
    /\ \E slow \in {"late", pass.snap[m].hb} :
          LET row == [pass.snap[m] EXCEPT !.hb = slow]
              next == [pass EXCEPT !.todo = @ \ {m},
                          !.snap[m].hb = "booting", !.snap[m].upd = "recent"]
              for(pc) == [next EXCEPT !.cur = m, !.pc = pc]
          IN  /\ IF slow = pass.snap[m].hb THEN NoFault
                 ELSE pass.snap[m].hb = "fresh" /\ Fail("slow")
              /\ pass' = CASE row.st = "suspended" /\ row.upd = "old" -> for("stop")
                         [] row.st = "suspended" /\ row.upd # "old" ->
                                [next EXCEPT !.susp = @ \cup {m}]
                         [] row.st = "dead" -> for("kill")
                         [] row.st \notin {"suspended", "dead"} /\ IsDead(row) -> for("bury")
                         [] row.st = "draining" /\ ~IsDead(row) ->
                                IF row.inFlight = 0 THEN for("stop") ELSE next
                         [] OTHER -> [next EXCEPT !.live = @ \cup {m}]
    /\ UNCHANGED <<members, jobVars, sandbox, wire, bank, leaked>>

\* markDead, first call: the state is recorded.
Bury ==
    /\ At("bury")
    /\ \/ SetMemberState(pass.cur, "dead") /\ Go("kill") /\ NoFault
       \/ /\ IF HasRow(pass.cur) THEN Fail("store") ELSE NoFault
          /\ Continue /\ UNCHANGED members
    /\ UNCHANGED <<jobVars, sandbox, wire, bank, leaked>>

\* Second call: a best-effort stop.
Kill ==
    /\ At("kill") /\ Go("release")
    /\ \/ StopMember(pass.cur) /\ NoFault /\ UNCHANGED leaked
       \/ Fail("stop") /\ leaked' = leaked \cup {pass.cur} /\ UNCHANGED sandbox
    /\ UNCHANGED <<members, jobVars, wire, bank>>

\* Third call: the jobs go back to the queue before the row goes.
Release ==
    /\ At("release")
    /\ \/ /\ Life!GiveBack(pass.cur) /\ NoFault
          /\ Go(IF pass.snap[pass.cur].st = "draining" THEN "stop" ELSE "remove")
       \/ Fail("store") /\ Continue /\ UNCHANGED jobVars
    /\ UNCHANGED <<members, sandbox, wire, bank, leaked>>

\* Mutant of Stop: the row is removed although the stop failed.
StopBestEffort ==
    /\ At("stop") /\ Go("remove")
    /\ \/ StopMember(pass.cur) /\ NoFault
       \/ Fail("stop") /\ UNCHANGED sandbox
    /\ UNCHANGED <<members, jobVars, wire, bank, leaked>>

\* recycle and removeMember: a stop that fails keeps the row for the next pass.
Stop ==
    /\ At("stop")
    /\ \/ StopMember(pass.cur) /\ Go("remove") /\ NoFault
       \/ Fail("stop") /\ Continue /\ UNCHANGED sandbox
    /\ UNCHANGED <<members, jobVars, wire, bank, leaked>>

Remove ==
    /\ At("remove") /\ Continue
    /\ \/ RemoveMember(pass.cur) /\ NoFault
       \/ UNCHANGED members /\ IF HasRow(pass.cur) THEN Fail("store") ELSE NoFault
    /\ UNCHANGED <<jobVars, sandbox, wire, bank, leaked>>

\* The excess is shed, the missing are launched.  Without the queue length the
\* members that run stay.
Size ==
    /\ At("judge") /\ pass.todo = {}
    /\ LET running == Cardinality(pass.live) + Cardinality(pass.susp)
           sized(target) ==
               [pass EXCEPT !.ret = "shed", !.todo = pass.live,
                   !.n = IF running > target THEN running - target ELSE target - running,
                   !.pc = CASE running > target -> "shed"
                          [] running < target -> "launch"
                          [] running = target -> "nap"]
       IN \/ pass' = sized(targetCount) /\ NoFault
          \/ pass' = sized(AtLeast(running, pass.desired)) /\ Spill /\ Fail("queue")
    /\ UNCHANGED <<members, jobVars, sandbox, wire, bank, leaked>>

\* Suspended members go first, then the live ones with the fewest jobs.
Shed ==
    /\ At("shed")
    /\ IF pass.n = 0 \/ (pass.susp = {} /\ pass.todo = {})
       THEN Go("nap")
       ELSE IF pass.susp # {}
       THEN \E m \in pass.susp :
               pass' = [pass EXCEPT !.susp = @ \ {m}, !.n = @ - 1, !.cur = m, !.pc = "stop"]
       ELSE \E m \in pass.todo :
               /\ \A o \in pass.todo : pass.snap[m].inFlight <= pass.snap[o].inFlight
               /\ pass' = [pass EXCEPT !.todo = @ \ {m}, !.n = @ - 1, !.cur = m, !.pc = "drain"]
    /\ UNCHANGED <<members, jobVars, sandbox, wire, bank, faults, leaked>>

\* A member that had nothing in flight when the pass read it is removed at once.
Drain ==
    /\ At("drain")
    /\ \/ /\ SetMemberState(pass.cur, "draining") /\ NoFault
          /\ IF pass.snap[pass.cur].inFlight = 0 THEN Go("stop") ELSE Continue
       \/ /\ IF HasRow(pass.cur) THEN Fail("store") ELSE NoFault
          /\ Continue /\ UNCHANGED members
    /\ UNCHANGED <<jobVars, sandbox, wire, bank, leaked>>

\* A launch takes an id that nothing names; where the model has none, it waits.
Launch ==
    /\ At("launch")
    /\ IF pass.n = 0
       THEN Go("nap") /\ NoFault /\ UNCHANGED sandbox
       ELSE \/ \E m \in Members :
                  /\ sandbox[m] = "none" /\ NoFault
                  /\ sandbox' = [sandbox EXCEPT ![m] = "up"]
                  /\ pass' = [pass EXCEPT !.n = @ - 1, !.cur = m, !.pc = "record"]
            \/ Fail("launch") /\ pass' = [pass EXCEPT !.n = @ - 1] /\ UNCHANGED sandbox
    /\ UNCHANGED <<members, jobVars, wire, bank, leaked>>

\* A launched member that cannot be recorded is stopped rather than leaked; the
\* foreign key refuses a member of a deleted bank.
Record ==
    /\ At("record")
    /\ pass' = [pass EXCEPT !.pc = "launch", !.cur = NoMember]
    /\ \/ /\ ~bank.deleted /\ AddMember(pass.cur, FirstState)
          /\ NoFault /\ UNCHANGED <<sandbox, leaked>>
       \/ /\ IF bank.deleted THEN NoFault ELSE Fail("record")
          /\ StopMember(pass.cur) /\ UNCHANGED <<members, leaked>>
       \/ /\ Fail(IF bank.deleted THEN "stop" ELSE "outage")
          /\ leaked' = leaked \cup {pass.cur} /\ UNCHANGED <<members, sandbox>>
    /\ UNCHANGED <<jobVars, wire, bank>>

\* suspendOrResume reads the queue once.  The live members are those the pass
\* read, the drained ones among them.
Nap ==
    /\ At("nap")
    /\ \/ /\ Unassigned > 0 /\ NoFault
          /\ \E S \in SUBSET pass.susp :
                /\ Cardinality(S) = AtMost(Cardinality(pass.susp),
                                           resumeCount(Unassigned, JobCap))
                /\ pass' = [pass EXCEPT !.todo = S, !.pc = "resume"]
       \/ /\ Unassigned = 0 /\ NoFault
          /\ pass' = [pass EXCEPT !.pc = "suspend",
                         !.todo = {m \in pass.live : IdleLongEnough(pass.snap[m])}]
       \/ Fail("queue") /\ pass' = [pass EXCEPT !.pc = "suspend", !.todo = {}]
    /\ UNCHANGED <<members, jobVars, sandbox, wire, bank, leaked>>

\* The row says suspended until the resumed member reports.
Resume(m) ==
    /\ At("resume") /\ m \in pass.todo
    /\ pass' = [pass EXCEPT !.todo = @ \ {m}]
    /\ \/ /\ NoFault
          /\ sandbox' = [sandbox EXCEPT ![m] = IF @ = "suspended" THEN "up" ELSE @]
       \/ Fail("resume") /\ UNCHANGED sandbox
    /\ UNCHANGED <<members, jobVars, wire, bank, leaked>>

\* A sandbox that is gone cannot be suspended.
Suspend(m) ==
    /\ At("suspend") /\ m \in pass.todo
    /\ \/ /\ sandbox[m] # "stopped" /\ NoFault
          /\ sandbox' = [sandbox EXCEPT ![m] = IF @ = "up" THEN "suspended" ELSE @]
          /\ pass' = [pass EXCEPT !.todo = @ \ {m}, !.cur = m, !.pc = "mark"]
       \/ /\ IF sandbox[m] = "stopped" THEN NoFault ELSE Fail("suspend")
          /\ pass' = [pass EXCEPT !.todo = @ \ {m}] /\ UNCHANGED sandbox
    /\ UNCHANGED <<members, jobVars, wire, bank, leaked>>

MarkSuspended ==
    /\ At("mark")
    /\ pass' = [pass EXCEPT !.pc = "suspend", !.cur = NoMember]
    /\ \/ SetMemberState(pass.cur, "suspended") /\ NoFault
       \/ UNCHANGED members /\ IF HasRow(pass.cur) THEN Fail("store") ELSE NoFault
    /\ UNCHANGED <<jobVars, sandbox, wire, bank, leaked>>

\* closeStaleJobs lists the jobs past the stale limit; any live job may be.
ListStale ==
    /\ pass.pc \in {"resume", "suspend"} /\ pass.todo = {}
    /\ \E S \in SUBSET {j \in Jobs : phase[j] = "live"} :
          pass' = [NoPass EXCEPT !.pc = "sweep", !.stale = S]
    /\ UNCHANGED <<members, jobVars, sandbox, wire, bank, faults, leaked>>

\* A job that somebody closed after the list was read is passed over.
Sweep ==
    /\ At("sweep")
    /\ \/ \E j \in pass.stale :
             /\ pass' = [pass EXCEPT !.stale = @ \ {j}]
             /\ IF phase[j] = "live" THEN Life!Settle(j, "abandoned") ELSE UNCHANGED jobVars
       \/ pass.stale = {} /\ pass' = NoPass /\ UNCHANGED jobVars
    /\ UNCHANGED <<members, sandbox, wire, bank, faults, leaked>>

\* The daemon dies in the middle of a pass and starts over.
Crash ==
    /\ ~At("rest") /\ Fail("crash")
    /\ pass' = NoPass
    /\ leaked' = IF At("record") THEN leaked \cup {pass.cur} ELSE leaked
    /\ UNCHANGED <<members, jobVars, sandbox, wire, bank>>

PassStep ==
    \/ StartPass \/ Bury \/ Kill \/ Release \/ Stop \/ Remove \/ Size \/ Shed \/ Drain
    \/ Launch \/ Record \/ Nap \/ MarkSuspended \/ ListStale \/ Sweep
    \/ \E m \in Members : Judge(m) \/ Resume(m) \/ Suspend(m)

-----------------------------------------------------------------------------
(* The members, the clients, the owner, and time.                          *)

\* ReportMemberStatus: a member that runs sends what it knows of its jobs, or that
\* it waits for its owner to sign in; the report may arrive after the sandbox was
\* stopped or suspended.
SendReport(m) ==
    /\ sandbox[m] = "up" /\ m \notin wire
    /\ wire' = wire \cup {m}
    /\ UNCHANGED <<members, jobVars, sandbox, bank, pass, faults, leaked>>

ReportMemberStatus(m) ==
    /\ m \in wire /\ wire' = wire \ {m}
    /\ \/ \E n \in 0..Cardinality(Held(m)) :
             \E s \in IF n = 0 THEN {"idle", FirstState} \cap Reportable ELSE {"busy"} :
                UpdateMemberStatus(m, s, n)
       \/ ~HasRow(m) /\ UNCHANGED members
    /\ UNCHANGED <<jobVars, sandbox, bank, pass, faults, leaked>>

\* PullJob: Claim asks for a row with a free slot, not for a state.
PullJob(m) ==
    /\ sandbox[m] = "up" /\ MemberHasFreeSlot(m)
    /\ \E j \in Jobs : Life!Take(j, m)
    /\ UNCHANGED <<members, sandbox, wire, bank, pass, faults, leaked>>

OpenJob(j, m) ==
    /\ ~bank.deleted
    /\ m # NoMember => MemberHasFreeSlot(m)
    /\ Life!Begin(j, m)
    /\ UNCHANGED <<members, sandbox, wire, bank, pass, faults, leaked>>

CloseJob(j) ==
    /\ \E v \in Verdicts : Life!Settle(j, v)
    /\ UNCHANGED <<members, sandbox, wire, bank, pass, faults, leaked>>

UpdateBank(d) ==
    /\ ~bank.deleted /\ bank.resizes < MaxResizes /\ d # bank.desired
    /\ bank' = [bank EXCEPT !.desired = d, !.resizes = @ + 1]
    /\ UNCHANGED <<members, jobVars, sandbox, wire, pass, faults, leaked>>

\* The bank_members and jobs rows go with the banks row, by ON DELETE CASCADE.
DeleteBank ==
    /\ ~bank.deleted /\ Fail("delete")
    /\ bank' = [bank EXCEPT !.deleted = TRUE]
    /\ members' = [m \in Members |-> IF HasRow(m) THEN NewRow("gone") ELSE members[m]]
    /\ phase' = [j \in Jobs |-> IF phase[j] = "unopened" THEN phase[j] ELSE "deleted"]
    /\ leaked' = leaked \cup Rows
    /\ UNCHANGED <<holder, verdict, sandbox, wire, pass>>

\* A member that runs reports in time, unless it is slow.
TimePasses(m) ==
    /\ \/ HeartbeatAges(m) /\ IF sandbox[m] = "up" THEN Fail("slow") ELSE NoFault
       \/ IdleAges(m) /\ NoFault
       \/ RowAges(m) /\ members[m].st = "suspended" /\ NoFault
    /\ UNCHANGED <<jobVars, sandbox, wire, bank, pass, leaked>>

Hang(m) ==
    /\ sandbox[m] = "up" /\ Fail("hang")
    /\ sandbox' = [sandbox EXCEPT ![m] = "hung"]
    /\ UNCHANGED <<members, jobVars, wire, bank, pass, leaked>>

\* newMemberID never returns an id twice.  The model takes an id again once no
\* row, live job, report or local of the pass names it; a leaked sandbox that
\* nothing names can do nothing any more.
ForgetMember(m) ==
    /\ ~HasRow(m) /\ sandbox[m] # "none" /\ ~bank.deleted
    /\ m \notin wire /\ Held(m) = {}
    /\ m # pass.cur /\ m \notin pass.live \cup pass.susp \cup pass.todo
    /\ members' = [members EXCEPT ![m] = NewRow("unused")]
    /\ sandbox' = [sandbox EXCEPT ![m] = "none"]
    /\ leaked' = leaked \ {m}
    /\ UNCHANGED <<jobVars, wire, bank, pass, faults>>

RecNext ==
    \/ PassStep \/ Crash
    \/ \E m \in Members : SendReport(m) \/ ReportMemberStatus(m) \/ PullJob(m)
                          \/ TimePasses(m) \/ Hang(m) \/ ForgetMember(m)
    \/ \E j \in Jobs : CloseJob(j) \/ \E m \in Members \cup {NoMember} : OpenJob(j, m)
    \/ \E d \in DesiredCounts : UpdateBank(d)
    \/ DeleteBank

RecSpec == RecInit /\ [][RecNext]_recVars

\* The runner ticks forever and every call returns; a member that runs reports
\* and asks for work every few seconds; time does not stand still.
RecFairness ==
    /\ WF_recVars(PassStep)
    /\ \A m \in Members :
          /\ WF_recVars(SendReport(m)) /\ WF_recVars(ReportMemberStatus(m))
          /\ WF_recVars(TimePasses(m) /\ sandbox[m] # "up")
          /\ SF_recVars(PullJob(m))
          /\ SF_recVars(ForgetMember(m))

FairRecSpec == RecSpec /\ RecFairness

-----------------------------------------------------------------------------
(* Properties.                                                             *)

\* Every sandbox that lives is named by a row, or is about to be: what a pass
\* removes from the table it has stopped before, whatever the calls in between
\* did.  Only a failed stop of a dead member, a crash between a launch and its
\* record, and a deleted bank leave a sandbox that nobody names.
NoLeakedSandbox ==
    \A m \in Members :
        sandbox[m] \in {"up", "hung", "suspended"} /\ ~HasRow(m) =>
            m \in leaked \/ (pass.pc = "record" /\ pass.cur = m)

\* The members that count toward the size of the bank, and those of them that
\* have a sandbox which runs or can be resumed.
Counted == {m \in Rows : members[m].st \notin {"draining", "dead"}}
Serving == {m \in Counted : sandbox[m] \in {"up", "suspended"}}

\* Reconciliation converges: whatever died, hung or crashed, the bank
\* comes back to its desired count of members that can serve, again and again.
BankConverges == []<>(Cardinality(Serving) = bank.desired)

\* Twice the size d, and one member for a bank that its owner stopped.
SpillLimit(d) == d + AtLeast(d, 1)

\* The spill policy grows a bank to at most twice its size, and one that its owner
\* stopped to one member: the queue length is read in every pass, the members it
\* asked for are still there in the next, and a failed read adds none.
SpillIsBounded == Cardinality(Counted) <= SpillLimit(bank.desired)

\* A job in the queue of a bank that is not sized to zero gets a member, or is
\* closed: it wakes a suspended member, and a member that died is replaced by one
\* that pulls.
QueuedJobIsTaken ==
    \A j \in Jobs : (phase[j] = "live" /\ holder[j] = NoMember)
                       ~> (phase[j] # "live" \/ holder[j] # NoMember \/ bank.desired = 0)

-----------------------------------------------------------------------------
(* The inductive invariant.                                                *)

\* The steps of a pass that act on one member, pass.cur.
OnMember == {"bury", "kill", "release", "stop", "remove", "drain", "record", "mark"}

\* What the pass is about to take out of the table it has stopped, or the stop
\* failed; and nothing is left behind before the first failure.
LeakInv ==
    /\ NoLeakedSandbox
    /\ pass.pc \in OnMember => pass.cur \in Members
    /\ pass.pc \in {"release", "remove"} =>
          sandbox[pass.cur] = "stopped" \/ pass.cur \in leaked
    /\ leaked # {} => faults > 0

RecInv == RecTypeOK /\ LeakInv

-----------------------------------------------------------------------------
(* The inductive invariant of SpillIsBounded.                              *)

\* The failures after which a member that a pass replaced counts again for a while: it
\* could not be stopped, its row could not be written, it was taken for dead and
\* reports after all, or the pass ended between two calls.
Disturbing == {"store", "stop", "hang", "slow", "crash"}

\* The steps at which the pass still sorts the members it read.
Judging == pass.pc = "judge"
           \/ (pass.pc \in {"bury", "kill", "release", "stop", "remove"} /\ pass.ret = "judge")

\* The rows that count, or would after a late report: a member that is buried
\* may still say that it is idle, unless it was draining.
Revivable ==
    {m \in Rows : /\ members[m].st # "draining"
                  /\ ~(members[m].st = "dead" /\ pass.snap[m].st = "draining")}

\* The launches the pass is still going to record.
Coming == CASE pass.pc = "launch" -> pass.n
            [] pass.pc = "record" -> pass.n + 1
            [] OTHER -> 0

Expired(row) == row.hb \in {"overdue", "late"}

\* A sandbox that runs has an id of its own.
SandboxInv ==
    /\ \A m \in Rows : sandbox[m] # "none"
    /\ pass.pc = "record" => sandbox[pass.cur] = "up" /\ ~HasRow(pass.cur)

\* A sandbox that does not run has sent its last report and it has arrived, but for
\* the member the pass is suspending or removing and for one that is suspended.
WireInv ==
    \A m \in Rows \cap wire :
        \/ members[m].st = "suspended" \/ sandbox[m] = "up"
        \/ m = pass.cur /\ pass.pc \in {"mark", "kill", "release", "stop", "remove"}

\* The members a pass reads are sorted into disjoint sets, and the queue length is
\* compared with all that count.
SortInv ==
    /\ pass.live \cap pass.susp = {}
    /\ \A m \in pass.susp : pass.snap[m].st = "suspended"
    /\ \A m \in pass.live : pass.snap[m].st \notin {"suspended", "draining", "dead"}
    /\ pass.pc \in {"bury", "kill", "release"} => pass.ret = "judge"
    /\ pass.pc \in {"shed", "drain"} => pass.ret = "shed"
    /\ pass.pc = "judge" => pass.ret = "judge" /\ pass.cur = NoMember
    /\ Judging =>
          /\ pass.todo \cap (pass.live \cup pass.susp) = {}
          /\ pass.cur \notin pass.todo \cup pass.live \cup pass.susp
          /\ Revivable \subseteq pass.todo \cup pass.live \cup pass.susp \cup {pass.cur}

\* What is left to do was read in this pass, and only what had no job in flight,
\* and is not being drained, is suspended.
TodoInv ==
    /\ pass.pc \in {"shed", "stop", "remove", "drain"} /\ pass.ret = "shed" =>
          pass.todo \subseteq pass.live
    /\ pass.pc = "drain" => pass.cur \in pass.live
    /\ pass.pc = "resume" => pass.todo \subseteq pass.susp
    /\ pass.pc \in {"suspend", "mark"} =>
          \A m \in pass.todo : m \in pass.live /\ pass.snap[m].inFlight = 0
    /\ pass.pc = "mark" => pass.cur \in pass.live /\ pass.snap[pass.cur].inFlight = 0

\* A draining row was read as one, or has been drained in this pass with jobs in
\* flight, or is being removed.
DrainInv ==
    \A m \in Rows : members[m].st = "draining" =>
        /\ Expired(members[m]) => sandbox[m] # "up"
        /\ pass.pc \notin {"rest", "sweep"} =>
              \/ pass.snap[m].st = "draining"
              \/ m \in pass.live /\ pass.snap[m].inFlight # 0
              \/ m = pass.cur /\ pass.pc \in {"stop", "remove"}

\* A dead row is the one the pass is removing.
DeadInv ==
    \A m \in Rows : members[m].st = "dead" =>
        m = pass.cur /\ pass.ret = "judge" /\ pass.pc \in {"kill", "release", "stop", "remove"}

\* A live member whose heartbeat expired since it was read does not run.
LiveInv ==
    \A m \in pass.live : HasRow(m) =>
        /\ Expired(members[m]) => sandbox[m] # "up"
        /\ members[m].st = "suspended" => pass.pc \in {"suspend", "mark"}

\* So does one that is still to be judged; and a draining one whose heartbeat was read
\* as expired does not report any more.
ListInv ==
    Judging => \A m \in pass.todo :
        /\ pass.snap[m].st \notin Absent \cup {"dead"}
        /\ HasRow(m) /\ members[m].st = "suspended" => pass.snap[m].st = "suspended"
        /\ HasRow(m) /\ Expired(members[m]) =>
              \/ sandbox[m] # "up" \/ Expired(pass.snap[m])
              \/ pass.snap[m].st \in {"suspended", "draining"}
        /\ pass.snap[m].st = "draining" /\ HasRow(m) =>
              /\ members[m].st = "draining"
              /\ Expired(pass.snap[m]) => sandbox[m] # "up" /\ m \notin wire

\* Nor does one that is being buried.
BuriedInv ==
    Judging /\ pass.pc # "judge" /\ pass.snap[pass.cur].st = "draining" /\ HasRow(pass.cur) =>
        /\ members[pass.cur].st \in {"draining", "dead"}
        /\ pass.pc = "bury" \/ members[pass.cur].st = "dead" =>
              sandbox[pass.cur] # "up" /\ pass.cur \notin wire

MembersInv ==
    /\ SandboxInv /\ WireInv /\ SortInv /\ TodoInv /\ DrainInv /\ DeadInv
    /\ LiveInv /\ ListInv /\ BuriedInv

\* What counts, could count again and is coming stays within the limit of size d.
SpillInv(d) ==
    /\ bank.desired <= d /\ pass.desired <= d
    /\ Cardinality(Revivable) + Coming <= SpillLimit(d)
    /\ MembersInv
=============================================================================
