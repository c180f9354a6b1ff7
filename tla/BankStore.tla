------------------------------ MODULE BankStore ------------------------------
(***************************************************************************)
(* The bank_members table of one tenant database, and the operations the   *)
(* bank store offers on it (internal/platform/bank).  One bank is          *)
(* modelled: every statement of the store is filtered by bank or by        *)
(* member id, so two banks never touch each other's rows.                  *)
(*                                                                         *)
(* A timestamp is kept as what the readers of the table ask of it:         *)
(*   hb    last_heartbeat: "booting" and "overdue" are NULL, before and    *)
(*         after the launch timeout; "fresh" and "late" are set, before    *)
(*         and after the heartbeat timeout                                 *)
(*   idle  idle_since: "null", "recent" or "long" (past the idle time)     *)
(*   upd   updated_at: "recent" or "old" (past the keep time of a          *)
(*         suspended member)                                               *)
(* Time passes in the actions HeartbeatAges, IdleAges and RowAges.         *)
(***************************************************************************)
EXTENDS Integers

CONSTANTS
    Members,    \* member ids; newMemberID never returns one twice
    JobCap      \* banks.max_jobs_in_flight, which becomes a member's job_cap

ASSUME JobCapAssumption == JobCap \in Nat

VARIABLE
    members     \* the bank_members rows, by member id

MemberState == {"launching", "needs_sign_in", "idle", "busy",
                "draining", "dead", "suspended"}

\* isReportableState: the states a member may say it is in.
Reportable == {"idle", "busy", "needs_sign_in"}

\* A row that was never inserted, and one that was deleted.
Absent == {"unused", "gone"}

MemberRow == [st : MemberState \cup Absent,
              inFlight : Nat,
              hb : {"booting", "overdue", "fresh", "late"},
              idle : {"null", "recent", "long"},
              upd : {"recent", "old"}]

BankStoreTypeOK == members \in [Members -> MemberRow]

NewRow(s) == [st |-> s, inFlight |-> 0, hb |-> "booting",
              idle |-> "null", upd |-> "recent"]

BankStoreInit == members = [m \in Members |-> NewRow("unused")]

HasRow(m) == members[m].st \notin Absent

\* The rows of the bank.
Rows == {m \in Members : HasRow(m)}

\* The slot check of the job store: it reads what the member last reported, not
\* the jobs table.
MemberHasFreeSlot(m) == HasRow(m) /\ members[m].inFlight < JobCap

-----------------------------------------------------------------------------
(* The store's operations.  Each is one SQL statement, so it is atomic.    *)

AddMember(m, s) ==
    /\ members[m].st = "unused"
    /\ members' = [members EXCEPT ![m] = NewRow(s)]

\* What a heartbeat leaves in a row: a DRAINING member keeps that state, any
\* other state is overwritten by what the member reports.
Reported(row, s, n) ==
    [row EXCEPT !.st = IF row.st = "draining" THEN "draining" ELSE s,
                !.inFlight = n,
                !.hb = "fresh",
                !.idle = IF n > 0 THEN "null"
                         ELSE IF row.idle = "null" THEN "recent" ELSE row.idle,
                !.upd = "recent"]

UpdateMemberStatus(m, s, n) ==
    /\ s \in Reportable
    /\ HasRow(m)
    /\ members' = [members EXCEPT ![m] = Reported(members[m], s, n)]

SetMemberState(m, s) ==
    /\ HasRow(m)
    /\ members' = [members EXCEPT ![m].st = s, ![m].upd = "recent"]

RemoveMember(m) ==
    /\ HasRow(m)
    /\ members' = [members EXCEPT ![m] = NewRow("gone")]

-----------------------------------------------------------------------------
(* The passage of time, one threshold at a time.                           *)

HeartbeatAges(m) ==
    /\ HasRow(m)
    /\ \/ /\ members[m].hb = "booting"
          /\ members' = [members EXCEPT ![m].hb = "overdue"]
       \/ /\ members[m].hb = "fresh"
          /\ members' = [members EXCEPT ![m].hb = "late"]

IdleAges(m) ==
    /\ HasRow(m)
    /\ members[m].idle = "recent"
    /\ members' = [members EXCEPT ![m].idle = "long"]

\* The keep time is days, the heartbeat timeout seconds, the idle time minutes:
\* a row this old has a late heartbeat and, when it is idle, a long idle time.
RowAges(m) ==
    /\ HasRow(m)
    /\ members[m].upd = "recent"
    /\ members[m].hb \in {"late", "overdue"}
    /\ members[m].idle # "recent"
    /\ members' = [members EXCEPT ![m].upd = "old"]
=============================================================================
