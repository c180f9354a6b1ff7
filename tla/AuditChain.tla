----------------------------- MODULE AuditChain -----------------------------
(***************************************************************************)
(* The audit log: the hash chain of each tenant in the Postgres table      *)
(* audit_log (internal/platform/audit), as the transactions of the writers *)
(* extend it, the exporter copies it to the durable bucket, retention      *)
(* removes its oldest rows, and VerifyChain reads it.  Every replica of    *)
(* the daemon runs all four.                                               *)
(*                                                                         *)
(* A statement that another process can tell from the next one is a step   *)
(* of its own; what a transaction wrote is seen when it commits.  SHA-256  *)
(* is modelled as a function without collisions: the hash of a row is the  *)
(* hash it points at, extended by the row's position and fields.           *)
(***************************************************************************)
EXTENDS Integers, Sequences, FiniteSets

CONSTANTS
    Tenants,         \* numbers, whose order stands for that of the names
    Events,          \* the audit events
    TenantOf,        \* the tenant of an event
    Writers,         \* the processes that flush: run, Log after a stop, WriteSync
    MaxBatch,        \* batchSize
    Exporters,       \* the export loop of each replica
    ExportBatch,     \* the most records of one object
    Pruners,         \* the retention loop of each replica
    InstallMonths,   \* the retention period of the install
    TenantMonths,    \* the periods tenant admins set
    MaxClock,        \* bound: months that pass
    MaxFaults        \* bound: failed calls and lost answers

ASSUME AuditAssumption ==
    /\ Tenants \subseteq Nat
    /\ TenantOf \in [Events -> Tenants]
    /\ MaxBatch \in Nat \ {0} /\ ExportBatch \in Nat \ {0}
    /\ InstallMonths \in Nat \ {0}
    /\ TenantMonths \subseteq {m \in Nat : m >= InstallMonths}
    /\ MaxClock \in Nat /\ MaxFaults \in Nat

VARIABLES
    log,       \* audit_log
    anchor,    \* audit_chain_anchor: where the chain of a tenant starts
    cursor,    \* audit_export_cursor: the position and the pending range, 0 for NULL
    bucket,    \* the objects of the durable bucket
    months,    \* audit_retention_tenant, 0 for no row
    clock,
    tx,        \* the transaction of a writer, and its batch
    export,    \* one ExportTenantOnce per exporter
    prune,     \* one PruneTenant per pruner
    verify,    \* one VerifyChain
    new,       \* the events nobody has handed to a writer yet
    faults,
    history,   \* history: every row that was ever committed
    unsure     \* history: the events of commits whose answer was lost

vars == <<log, anchor, cursor, bucket, months, clock, tx, export, prune, verify,
          new, faults, history, unsure>>

Tables == <<log, anchor, cursor, bucket, months>>

-----------------------------------------------------------------------------
(* chainRow, canonical and computeEntryHash. *)

Entry == [seq : Nat, event : Events, at : Nat]
Hashes == Seq(Entry)
Genesis == <<>>

EntryHash(prev, seq, event, at) == Append(prev, [seq |-> seq, event |-> event, at |-> at])

Row == [tenant : Tenants, seq : Nat, event : Events, at : Nat,
        prev : Hashes, hash : Hashes]

NewRow(t, seq, event, at, prev) ==
    [tenant |-> t, seq |-> seq, event |-> event, at |-> at,
     prev |-> prev, hash |-> EntryHash(prev, seq, event, at)]

Of(rows, t) == {r \in rows : r.tenant = t}

\* Mutant of chainHead: a tenant without rows starts at the beginning.
chainHeadNoAnchor(t) ==
    IF Of(log, t) = {}
    THEN {[seq |-> 0, hash |-> Genesis]}
    ELSE {[seq |-> r.seq, hash |-> r.hash] :
            r \in {r \in Of(log, t) : \A q \in Of(log, t) : q.seq <= r.seq}}

\* chainHead: the last position and its hash, or the position before the
\* anchor.  The answers the query has, of which the invariants leave one.
chainHead(t) ==
    IF Of(log, t) = {}
    THEN {[seq |-> anchor[t].first - 1, hash |-> anchor[t].prev]}
    ELSE {[seq |-> r.seq, hash |-> r.hash] :
            r \in {r \in Of(log, t) : \A q \in Of(log, t) : q.seq <= r.seq}}

-----------------------------------------------------------------------------
(* The types of the processes, and the initial state. *)

Tx == [at : {"idle", "open", "failed"},
       batch : SUBSET Events,
       time : Nat,                 \* createdAt
       held : SUBSET Tenants,      \* the advisory locks, taken in the order of the tenants
       seq : Nat, prev : Hashes,   \* the head, as the rows of the last tenant extend it
       rows : SUBSET Row]          \* the rows to insert

Export == [at : {"idle", "claimed", "read", "put"},
           tenant : Tenants \cup {0}, first : Nat, last : Nat, records : SUBSET Row]

Prune == [at : {"idle", "locked"}, tenant : Tenants \cup {0}, last : Nat, hash : Hashes]

Verify == [at : {"idle", "anchored", "done"}, tenant : Tenants \cup {0},
           first : Nat, prev : Hashes,
           verdict : {"none", "intact", "missing", "unlinked", "altered"}]

NoTx == [at |-> "idle", batch |-> {}, time |-> 0, held |-> {}, seq |-> 0, prev |-> Genesis,
         rows |-> {}]
NoExport == [at |-> "idle", tenant |-> 0, first |-> 0, last |-> 0, records |-> {}]
NoPrune == [at |-> "idle", tenant |-> 0, last |-> 0, hash |-> Genesis]

Init ==
    /\ log = {} /\ history = {} /\ bucket = {} /\ unsure = {}
    /\ anchor = [t \in Tenants |-> [first |-> 1, prev |-> Genesis]]
    /\ cursor = [t \in Tenants |-> [exported |-> 0, first |-> 0, last |-> 0]]
    /\ months = [t \in Tenants |-> 0]
    /\ clock = 0 /\ faults = 0
    /\ tx = [w \in Writers |-> NoTx]
    /\ export = [x \in Exporters |-> NoExport]
    /\ prune = [p \in Pruners |-> NoPrune]
    /\ verify = [at |-> "idle", tenant |-> 0, first |-> 0, prev |-> Genesis, verdict |-> "none"]
    /\ new = Events

Fault == faults < MaxFaults /\ faults' = faults + 1
NoFault == UNCHANGED faults

-----------------------------------------------------------------------------
(* Writer.insert: one transaction per batch.  The order of the events in a *)
(* batch is that of the queue; here it is any order.                       *)

Locked(t) == \/ \E w \in Writers : t \in tx[w].held
             \/ \E p \in Pruners : prune[p].at = "locked" /\ prune[p].tenant = t

\* The rows of the batch that are still to be made for the tenants that are locked.
Due(w) == {e \in tx[w].batch : TenantOf[e] \in tx[w].held
                               /\ \A r \in tx[w].rows : r.event # e}

\* The tenants of the batch that are still to be locked.
ToLock(w) == {TenantOf[e] : e \in tx[w].batch} \ tx[w].held

Opened(w, batch) ==
    tx' = [tx EXCEPT ![w] = [NoTx EXCEPT !.at = "open", !.batch = batch, !.time = clock]]

BeginTx(w, batch) ==
    /\ tx[w].at = "idle"
    /\ batch # {} /\ Cardinality(batch) <= MaxBatch
    /\ Opened(w, batch)
    /\ NoFault
    /\ UNCHANGED <<Tables, clock, export, prune, verify, history, unsure>>

\* Mutant of Begin: the batch can be taken again.
BeginShared(w, batch) ==
    /\ batch \subseteq new /\ new' = new
    /\ BeginTx(w, batch)

\* Every event is handed to one writer.
Begin(w, batch) ==
    /\ batch \subseteq new /\ new' = new \ batch
    /\ BeginTx(w, batch)

\* pg_advisory_xact_lock of the next tenant in sorted order, then chainHead.
LockChain(w, t) ==
    /\ tx[w].at = "open" /\ Due(w) = {}
    /\ t \in ToLock(w) /\ \A u \in ToLock(w) : t <= u
    /\ ~Locked(t)
    /\ \E h \in chainHead(t) :
          tx' = [tx EXCEPT ![w].held = tx[w].held \cup {t}, ![w].seq = h.seq, ![w].prev = h.hash]
    /\ NoFault
    /\ UNCHANGED <<Tables, clock, export, prune, verify, new, history, unsure>>

\* One turn of the loop that makes the rows.
Extend(w, e) ==
    /\ tx[w].at = "open" /\ e \in Due(w)
    /\ LET r == NewRow(TenantOf[e], tx[w].seq + 1, e, tx[w].time, tx[w].prev)
       IN  tx' = [tx EXCEPT ![w].seq = r.seq, ![w].prev = r.hash,
                            ![w].rows = tx[w].rows \cup {r}]
    /\ NoFault
    /\ UNCHANGED <<Tables, clock, export, prune, verify, new, history, unsure>>

\* The INSERT and the commit.  The unique index (tenant_id, chain_seq) is a
\* condition of the INSERT.
Inserted(w) ==
    /\ tx[w].at = "open" /\ Due(w) = {} /\ ToLock(w) = {}
    /\ \A r \in tx[w].rows, q \in log : ~(r.tenant = q.tenant /\ r.seq = q.seq)
    /\ log' = log \cup tx[w].rows
    /\ history' = history \cup tx[w].rows
    /\ UNCHANGED <<anchor, cursor, bucket, months, clock, export, prune, verify, new>>

Failed(w) == tx' = [tx EXCEPT ![w] = [NoTx EXCEPT !.at = "failed", !.batch = tx[w].batch]]

Commit(w) ==
    /\ Inserted(w)
    /\ tx' = [tx EXCEPT ![w] = NoTx]
    /\ NoFault /\ UNCHANGED unsure

\* The commit is made and the connection breaks before its answer.
CommitUnanswered(w) ==
    /\ Inserted(w)
    /\ Failed(w)
    /\ Fault /\ unsure' = unsure \cup tx[w].batch

\* Any statement fails: the transaction is rolled back and its locks are free.
TxFails(w) ==
    /\ tx[w].at = "open"
    /\ Failed(w)
    /\ Fault
    /\ UNCHANGED <<Tables, clock, export, prune, verify, new, history, unsure>>

\* flushDurable tries the batch again.
Retry(w) ==
    /\ tx[w].at = "failed"
    /\ Opened(w, tx[w].batch)
    /\ NoFault
    /\ UNCHANGED <<Tables, clock, export, prune, verify, new, history, unsure>>

\* WriteSync returns the error, and a writer that was told to stop reports the loss.
GiveUp(w) ==
    /\ tx[w].at = "failed"
    /\ tx' = [tx EXCEPT ![w] = NoTx]
    /\ NoFault
    /\ UNCHANGED <<Tables, clock, export, prune, verify, new, history, unsure>>

-----------------------------------------------------------------------------
(* Exporter.ExportTenantOnce. *)

\* The positions above the export position, and the range of the first ExportBatch.
Unexported(t) == {r.seq : r \in {r \in Of(log, t) : r.seq > cursor[t].exported}}

UpTo(t, s) == Cardinality({q \in Unexported(t) : q <= s})

NextRange(t, lo, hi) ==
    /\ \A s \in Unexported(t) : lo <= s
    /\ UpTo(t, hi) <= ExportBatch
    /\ \A s \in Unexported(t) : s > hi => UpTo(t, s) > ExportBatch

Claimed(x, t, lo, hi) ==
    export' = [export EXCEPT ![x] = [at |-> "claimed", tenant |-> t, first |-> lo, last |-> hi,
                                     records |-> {}]]

\* Mutant of claimRange: a range that another replica has pending is claimed
\* afresh, with the records that came since.
claimRangeAfresh(x, t) ==
    /\ export[x].at = "idle"
    /\ Of(log, t) # {}
    /\ \E lo, hi \in Unexported(t) :
          /\ NextRange(t, lo, hi)
          /\ cursor' = [cursor EXCEPT ![t].first = lo, ![t].last = hi]
          /\ Claimed(x, t, lo, hi)
    /\ NoFault
    /\ UNCHANGED <<log, anchor, bucket, months, clock, tx, prune, verify, new, history, unsure>>

\* claimRange, in one transaction: a pending range again, or the next one.
claimRange(x, t) ==
    /\ export[x].at = "idle"
    /\ Of(log, t) # {}
    /\ \/ /\ cursor[t].first # 0
          /\ Claimed(x, t, cursor[t].first, cursor[t].last)
          /\ UNCHANGED cursor
       \/ /\ cursor[t].first = 0
          /\ \E lo, hi \in Unexported(t) :
                /\ NextRange(t, lo, hi)
                /\ cursor' = [cursor EXCEPT ![t].first = lo, ![t].last = hi]
                /\ Claimed(x, t, lo, hi)
    /\ NoFault
    /\ UNCHANGED <<log, anchor, bucket, months, clock, tx, prune, verify, new, history, unsure>>

InRange(t, first, last) == {r \in Of(log, t) : first <= r.seq /\ r.seq <= last}

checkExportRange(records, first, last) ==
    /\ {r.seq : r \in records} = first..last
    /\ \A r, q \in records : r.seq = q.seq + 1 => r.prev = q.hash
    /\ \A r \in records : r.hash = EntryHash(r.prev, r.seq, r.event, r.at)

\* readRange and the check of what it read.
readRange(x) ==
    /\ export[x].at = "claimed"
    /\ LET records == InRange(export[x].tenant, export[x].first, export[x].last)
       IN  \/ /\ checkExportRange(records, export[x].first, export[x].last)
              /\ export' = [export EXCEPT ![x].at = "read", ![x].records = records]
           \/ /\ ~checkExportRange(records, export[x].first, export[x].last)
              /\ export' = [export EXCEPT ![x] = NoExport]
    /\ NoFault
    /\ UNCHANGED <<Tables, clock, tx, prune, verify, new, history, unsure>>

\* An object is named by its tenant and its range; a second write of a name
\* replaces what it holds.
PutLocked(x) ==
    /\ export[x].at = "read"
    /\ LET o == [tenant |-> export[x].tenant, first |-> export[x].first, last |-> export[x].last,
                 records |-> export[x].records]
       IN  bucket' = {p \in bucket : ~(p.tenant = o.tenant /\ p.first = o.first /\ p.last = o.last)}
                     \cup {o}
    /\ export' = [export EXCEPT ![x].at = "put"]
    /\ NoFault
    /\ UNCHANGED <<log, anchor, cursor, months, clock, tx, prune, verify, new, history, unsure>>

\* The UPDATE matches the pending range, so a slow exporter moves nothing.
Advance(x) ==
    /\ export[x].at = "put"
    /\ LET c == cursor[export[x].tenant]
       IN  cursor' = IF c.first = export[x].first /\ c.last = export[x].last
                     THEN [cursor EXCEPT ![export[x].tenant] =
                                [exported |-> export[x].last, first |-> 0, last |-> 0]]
                     ELSE cursor
    /\ export' = [export EXCEPT ![x] = NoExport]
    /\ NoFault
    /\ UNCHANGED <<log, anchor, bucket, months, clock, tx, prune, verify, new, history, unsure>>

\* A call fails or the daemon stops: the range stays pending.
ExportFails(x) ==
    /\ export[x].at # "idle"
    /\ export' = [export EXCEPT ![x] = NoExport]
    /\ Fault
    /\ UNCHANGED <<Tables, clock, tx, prune, verify, new, history, unsure>>

-----------------------------------------------------------------------------
(* Retention.PruneTenant. *)

\* periodOfTenant: the longer of the two periods.
periodOfTenant(t) == IF months[t] > InstallMonths THEN months[t] ELSE InstallMonths

\* Mutant of Old: the export position is not asked for.
OldUnexported(t) ==
    {r \in Of(log, t) :
        \A q \in Of(log, t) : q.at >= clock - periodOfTenant(t) => r.seq < q.seq}

\* Mutant of Old: every row past the period, also one behind a row inside it.
OldByAge(t) ==
    {r \in Of(log, t) : r.seq <= cursor[t].exported /\ r.at < clock - periodOfTenant(t)}

\* The rows before the oldest row inside the period, up to the export position.
Old(t) == {r \in Of(log, t) :
              /\ r.seq <= cursor[t].exported
              /\ \A q \in Of(log, t) : q.at >= clock - periodOfTenant(t) => r.seq < q.seq}

\* The lock, the period and lastOldQuery.
PruneRead(p, t) ==
    /\ prune[p].at = "idle"
    /\ ~Locked(t)
    /\ \E r \in Old(t) :
          /\ \A q \in Old(t) : q.seq <= r.seq
          /\ prune' = [prune EXCEPT ![p] = [at |-> "locked", tenant |-> t,
                                            last |-> r.seq, hash |-> r.hash]]
    /\ NoFault
    /\ UNCHANGED <<Tables, clock, tx, export, verify, new, history, unsure>>

\* Mutant of PruneCommit: the rows go without the anchor.
PruneCommitUnanchored(p) ==
    /\ prune[p].at = "locked"
    /\ log' = log \ {r \in Of(log, prune[p].tenant) : r.seq <= prune[p].last}
    /\ prune' = [prune EXCEPT ![p] = NoPrune]
    /\ NoFault
    /\ UNCHANGED <<anchor, cursor, bucket, months, clock, tx, export, verify, new, history, unsure>>

\* The anchor and the DELETE, in the same transaction.
PruneCommit(p) ==
    /\ prune[p].at = "locked"
    /\ anchor' = [anchor EXCEPT ![prune[p].tenant] = [first |-> prune[p].last + 1,
                                                      prev |-> prune[p].hash]]
    /\ log' = log \ {r \in Of(log, prune[p].tenant) : r.seq <= prune[p].last}
    /\ prune' = [prune EXCEPT ![p] = NoPrune]
    /\ NoFault
    /\ UNCHANGED <<cursor, bucket, months, clock, tx, export, verify, new, history, unsure>>

PruneFails(p) ==
    /\ prune[p].at = "locked"
    /\ prune' = [prune EXCEPT ![p] = NoPrune]
    /\ Fault
    /\ UNCHANGED <<Tables, clock, tx, export, verify, new, history, unsure>>

\* A tenant admin sets a period, or takes the setting back.
SetTenantMonths(t, m) ==
    /\ months' = [months EXCEPT ![t] = m]
    /\ NoFault
    /\ UNCHANGED <<log, anchor, cursor, bucket, clock, tx, export, prune, verify, new, history,
                   unsure>>

Tick ==
    /\ clock < MaxClock
    /\ clock' = clock + 1
    /\ NoFault
    /\ UNCHANGED <<Tables, tx, export, prune, verify, new, history, unsure>>

-----------------------------------------------------------------------------
(* Query.VerifyChain: two queries, outside a transaction. *)

VerifyAnchor(t) ==
    /\ verify.at # "anchored"
    /\ verify' = [at |-> "anchored", tenant |-> t, first |-> anchor[t].first,
                  prev |-> anchor[t].prev, verdict |-> "none"]
    /\ NoFault
    /\ UNCHANGED <<Tables, clock, tx, export, prune, new, history, unsure>>

\* What the loop over the rows has in hand when it comes to row r.
Before(rows, r) == {q \in rows : q.seq < r.seq}
Previous(rows, r) == CHOOSE q \in Before(rows, r) : \A o \in Before(rows, r) : o.seq <= q.seq
expectedSeq(rows, r, first) ==
    IF Before(rows, r) = {} THEN first ELSE Previous(rows, r).seq + 1
prevHash(rows, r, prev) ==
    IF Before(rows, r) = {} THEN prev ELSE Previous(rows, r).hash

ChainBreak(rows, r, first, prev) ==
    IF r.seq # expectedSeq(rows, r, first) THEN "missing"
    ELSE IF r.prev # prevHash(rows, r, prev) THEN "unlinked"
    ELSE IF r.hash # EntryHash(r.prev, r.seq, r.event, r.at) THEN "altered"
    ELSE "intact"

\* The loop stops at the first break.
ChainReport(rows, first, prev) ==
    LET broken == {r \in rows : ChainBreak(rows, r, first, prev) # "intact"}
    IN  IF broken = {} THEN "intact"
        ELSE ChainBreak(rows, CHOOSE r \in broken : \A q \in broken : r.seq <= q.seq, first, prev)

VerifyRows ==
    /\ verify.at = "anchored"
    /\ verify' = [verify EXCEPT !.at = "done",
                     !.verdict = ChainReport(Of(log, verify.tenant), verify.first, verify.prev)]
    /\ NoFault
    /\ UNCHANGED <<Tables, clock, tx, export, prune, new, history, unsure>>

-----------------------------------------------------------------------------
WriterNext(w) ==
    \/ \E batch \in SUBSET new : Begin(w, batch)
    \/ \E t \in Tenants : LockChain(w, t)
    \/ \E e \in Events : Extend(w, e)
    \/ Commit(w) \/ CommitUnanswered(w) \/ TxFails(w) \/ Retry(w) \/ GiveUp(w)

ExporterNext(x) ==
    \/ \E t \in Tenants : claimRange(x, t)
    \/ readRange(x) \/ PutLocked(x) \/ Advance(x) \/ ExportFails(x)

PrunerNext(p) ==
    \/ \E t \in Tenants : PruneRead(p, t)
    \/ PruneCommit(p) \/ PruneFails(p)

Next ==
    \/ \E w \in Writers : WriterNext(w)
    \/ \E x \in Exporters : ExporterNext(x)
    \/ \E p \in Pruners : PrunerNext(p)
    \/ \E t \in Tenants, m \in TenantMonths \cup {0} : SetTenantMonths(t, m)
    \/ Tick
    \/ \E t \in Tenants : VerifyAnchor(t)
    \/ VerifyRows

Spec == Init /\ [][Next]_vars

-----------------------------------------------------------------------------
(* Properties. *)

\* Every variable has its type.
TypeOK ==
    /\ log \subseteq Row /\ history \subseteq Row
    /\ anchor \in [Tenants -> [first : Nat \ {0}, prev : Hashes]]
    /\ cursor \in [Tenants -> [exported : Nat, first : Nat, last : Nat]]
    /\ bucket \subseteq [tenant : Tenants, first : Nat, last : Nat, records : SUBSET Row]
    /\ months \in [Tenants -> TenantMonths \cup {0}]
    /\ clock \in Nat /\ faults \in 0..MaxFaults
    /\ tx \in [Writers -> Tx]
    /\ export \in [Exporters -> Export]
    /\ prune \in [Pruners -> Prune]
    /\ verify \in Verify
    /\ new \subseteq Events /\ unsure \subseteq Events

\* The stored rows of a tenant are one unbroken run of its chain from the
\* anchor on: VerifyChain, if it read anchor and rows at one moment, would
\* find it intact, whatever writers, exporters and retention of all replicas
\* do (chain.go, retention.go).
ChainVerifies ==
    \A t \in Tenants :
        /\ ChainReport(Of(log, t), anchor[t].first, anchor[t].prev) = "intact"
        /\ \A r, q \in Of(log, t) : r.seq = q.seq => r = q

\* A row that was once committed is in the table or in the bucket: retention
\* takes away nothing that the export has not written (retention.go:17).
NoRecordLost ==
    \A r \in history : r \in log \/ \E o \in bucket : r \in o.records

\* A record is in the bucket under one name only, although replicas export
\* the same range, stop in the middle and start again (export.go:19).
OneName ==
    \A o, p \in bucket : o.records \cap p.records # {} => o = p

\* An event has one row, unless a commit was made whose answer was lost, and
\* the batch was tried again.
RecordedOnce ==
    \A r, q \in history : r.event = q.event /\ r # q => r.event \in unsure

\* VerifyChain finds a break only when retention moved the anchor between its
\* two queries, and then says that rows are missing.
BreakMeansOvertaken ==
    verify.verdict \notin {"none", "intact"} =>
        verify.verdict = "missing" /\ anchor[verify.tenant].first > verify.first

\* Retention removes no row that is inside the period of the install
\* (retention.go:288), although rows are chained in another order than the
\* one they were created in.
KeptForThePeriod ==
    [][\A r \in log : r \notin log' => r.at < clock - InstallMonths]_vars

-----------------------------------------------------------------------------
(* The inductive invariant. *)

\* Every row that a tenant ever had, and the same with what w is about to insert.
Chain(t) == Of(history, t)
ChainIn(w, t) == Of(history \cup tx[w].rows, t)

\* The rows are one chain, from position 1 on.
Linked(rows) ==
    /\ \A r, q \in rows : r.seq = q.seq => r = q
    /\ \A r, q \in rows : r.seq = q.seq + 1 => r.prev = q.hash
    /\ \A r \in rows :
          /\ r.seq > 0 /\ (r.seq = 1 => r.prev = Genesis)
          /\ r.hash = EntryHash(r.prev, r.seq, r.event, r.at)
          /\ \A s \in 1..r.seq : \E q \in rows : q.seq = s

HeadOf(rows, seq, hash) ==
    \/ rows = {} /\ seq = 0 /\ hash = Genesis
    \/ \E r \in rows : r.seq = seq /\ r.hash = hash /\ \A q \in rows : q.seq <= seq

\* The table holds the chain from the anchor on, and the anchor is the row before.
StoredInv ==
    \A t \in Tenants :
        /\ Linked(Chain(t))
        /\ Of(log, t) = {r \in Chain(t) : anchor[t].first <= r.seq}
        /\ \/ anchor[t].first = 1 /\ anchor[t].prev = Genesis
           \/ \E r \in Chain(t) : r.seq + 1 = anchor[t].first /\ r.hash = anchor[t].prev

\* The advisory lock of a tenant has one holder.
LockInv ==
    /\ \A w, v \in Writers : w # v => tx[w].held \cap tx[v].held = {}
    /\ \A p \in Pruners : prune[p].at = "locked" =>
          /\ \A w \in Writers : prune[p].tenant \notin tx[w].held
          /\ \A o \in Pruners : (o # p /\ prune[o].at = "locked")
                                   => prune[o].tenant # prune[p].tenant

\* Where an open transaction has got to: the rows it made go on from the end of
\* the chains it holds, and those still to make belong to one of them, whose
\* head it has in hand.
HeldInv(w) ==
    /\ tx[w].at # "open" => tx[w].held = {} /\ tx[w].rows = {}
    /\ \A t \in tx[w].held : Linked(ChainIn(w, t))

MadeInv(w) ==
    \A r \in tx[w].rows :
        /\ r.tenant \in tx[w].held /\ r.event \in tx[w].batch
        /\ anchor[r.tenant].first <= r.seq
        /\ \A q \in Chain(r.tenant) : q.seq < r.seq

DueInv(w) ==
    \A e \in Due(w) :
        /\ anchor[TenantOf[e]].first <= tx[w].seq + 1
        /\ HeadOf(ChainIn(w, TenantOf[e]), tx[w].seq, tx[w].prev)
        /\ \A d \in Due(w) : TenantOf[d] = TenantOf[e]

TxInv == \A w \in Writers : HeldInv(w) /\ MadeInv(w) /\ DueInv(w)

\* An event is nobody's yet, or in the batch of one writer, or through; one in a
\* batch that has a row already got it from a commit whose answer was lost.
OnceInv ==
    /\ RecordedOnce
    /\ \A r \in history : r.event \notin new
    /\ \A w \in Writers :
          /\ tx[w].batch \cap new = {}
          /\ \A v \in Writers : w # v => tx[w].batch \cap tx[v].batch = {}
          /\ \A r \in history : r.event \in tx[w].batch => r.event \in unsure
          /\ \A r, q \in tx[w].rows : r.event = q.event => r = q

\* What an object of a range holds; whether there is one; and the ranges there
\* may be: one the position has passed, or the pending one.
Exported(t, first, last) == {r \in Chain(t) : first <= r.seq /\ r.seq <= last}
Named(t, first, last) == \E o \in bucket : o.tenant = t /\ o.first = first /\ o.last = last
LegalRange(t, first, last) ==
    /\ 0 < first /\ first <= last
    /\ \E r \in Chain(t) : r.seq = last
    /\ \/ last <= cursor[t].exported
       \/ first = cursor[t].first /\ last = cursor[t].last

\* The pending range follows the position; up to the position all is in the bucket.
CursorInv ==
    \A t \in Tenants :
        /\ anchor[t].first <= cursor[t].exported + 1
        /\ cursor[t].exported # 0 => \E r \in Chain(t) : r.seq = cursor[t].exported
        /\ cursor[t].first # 0 =>
              /\ cursor[t].first = cursor[t].exported + 1
              /\ LegalRange(t, cursor[t].first, cursor[t].last)
        /\ \A r \in Chain(t) : r.seq <= cursor[t].exported => \E o \in bucket : r \in o.records

\* An object holds its whole range, and the ranges of two names do not meet.
BucketInv ==
    /\ \A o \in bucket : /\ LegalRange(o.tenant, o.first, o.last)
                         /\ o.records = Exported(o.tenant, o.first, o.last)
    /\ \A o, p \in bucket : o.tenant = p.tenant =>
          \/ o.first = p.first /\ o.last = p.last
          \/ o.last < p.first
          \/ p.last < o.first

\* An exporter works on the pending range, or is late with one that is written.
ExporterInv ==
    \A x \in Exporters : LET e == export[x] IN e.at # "idle" =>
        /\ e.tenant \in Tenants /\ LegalRange(e.tenant, e.first, e.last)
        /\ (e.last <= cursor[e.tenant].exported \/ e.at = "put")
              => Named(e.tenant, e.first, e.last)
        /\ e.at # "claimed" => e.records = Exported(e.tenant, e.first, e.last)

\* What a pruner is about to remove ends in a row of the table, is exported,
\* and stays past the period while the lock is held.
PruneInv ==
    \A p \in Pruners : LET t == prune[p].tenant IN prune[p].at = "locked" =>
        /\ t \in Tenants /\ prune[p].last <= cursor[t].exported
        /\ \E r \in Of(log, t) : r.seq = prune[p].last /\ r.hash = prune[p].hash
        /\ \A r \in Of(log, t) : r.seq <= prune[p].last => r.at < clock - InstallMonths

\* The anchor that VerifyChain has read is that of the table, or an older one.
VerifyInv ==
    /\ BreakMeansOvertaken
    /\ verify.at = "anchored" =>
          /\ verify.tenant \in Tenants /\ verify.first <= anchor[verify.tenant].first
          /\ verify.first = anchor[verify.tenant].first => verify.prev = anchor[verify.tenant].prev
    /\ verify.at = "done" => verify.tenant \in Tenants
    /\ verify.at # "done" => verify.verdict = "none"

AuditInv ==
    /\ TypeOK /\ StoredInv /\ LockInv /\ TxInv /\ OnceInv
    /\ CursorInv /\ BucketInv /\ ExporterInv /\ PruneInv /\ VerifyInv
=============================================================================
