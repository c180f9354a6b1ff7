---------------------------- MODULE AuditProofs ----------------------------
(***************************************************************************)
(* What the audit log keeps, whatever the number of replicas, tenants,     *)
(* events and failures: the chain verifies, nothing that was committed is  *)
(* lost, an object of the bucket has one name, an event is recorded once,  *)
(* and retention stays outside the period.  The invariant is AuditInv of   *)
(* AuditChain.  Then the writer: it uses the chain as AuditChain lets it,  *)
(* and loses no event unseen (WriterInv of AuditWriter).                   *)
(***************************************************************************)
EXTENDS AuditWriter, FiniteSetTheorems, TLAPS

\* Most leaves are first-order; the others, arithmetic and records, name SMT.
USE Zenon

-----------------------------------------------------------------------------
(* Rows and chains.                                                        *)

LEMMA RowFields ==
    ASSUME NEW r \in Row
    PROVE  /\ r.tenant \in Tenants /\ r.seq \in Nat /\ r.event \in Events /\ r.at \in Nat
           /\ r.prev \in Hashes /\ r.hash \in Hashes
  BY DEF Row

LEMMA NewRowIsARow ==
    ASSUME NEW t \in Tenants, NEW seq \in Nat, NEW e \in Events, NEW time \in Nat,
           NEW prev \in Hashes
    PROVE  /\ NewRow(t, seq, e, time, prev) \in Row
           /\ NewRow(t, seq, e, time, prev).tenant = t
           /\ NewRow(t, seq, e, time, prev).seq = seq
           /\ NewRow(t, seq, e, time, prev).event = e
           /\ NewRow(t, seq, e, time, prev).prev = prev
           /\ NewRow(t, seq, e, time, prev).hash = EntryHash(prev, seq, e, time)
           /\ NewRow(t, seq, e, time, prev).at = time
  <1>1. [seq |-> seq, event |-> e, at |-> time] \in Entry
    BY DEF Entry
  <1>2. EntryHash(prev, seq, e, time) \in Hashes
    BY <1>1, SMT DEF EntryHash, Hashes
  <1> QED
    BY <1>2 DEF NewRow, Row

\* A row that goes on from the head extends the chain, and is its new head.
LEMMA LinkedExtend ==
    ASSUME NEW rows \in SUBSET Row, Linked(rows), NEW seq \in Nat, NEW hash,
           HeadOf(rows, seq, hash), NEW r \in Row, r.seq = seq + 1, r.prev = hash,
           r.hash = EntryHash(r.prev, r.seq, r.event, r.at)
    PROVE  /\ Linked(rows \cup {r}) /\ HeadOf(rows \cup {r}, r.seq, r.hash)
           /\ \A q \in rows : q.seq < r.seq
  <1>0. \A q \in rows : q.seq \in Nat
    BY RowFields
  <1>1. \A q \in rows : q.seq <= seq
    BY DEF HeadOf
  <1>2. \A q \in rows : q.seq < r.seq
    BY <1>0, <1>1, SMT
  <1>3. HeadOf(rows \cup {r}, r.seq, r.hash)
    BY <1>0, <1>2, RowFields, SMT DEF HeadOf
  <1>4. \A q \in rows : q.seq = seq => q.hash = hash
    BY <1>0, SMT DEF HeadOf, Linked
  <1>5. seq = 0 => hash = Genesis
    BY <1>0, SMT DEF HeadOf, Linked
  <1>6. \A s \in 1..seq : \E q \in rows : q.seq = s
    BY <1>0, SMT DEF HeadOf, Linked
  <1>7. \A x, y \in rows \cup {r} : x.seq = y.seq => x = y
    BY <1>0, <1>2, SMT DEF Linked
  <1>8. \A x, y \in rows \cup {r} : x.seq = y.seq + 1 => x.prev = y.hash
    BY <1>0, <1>1, <1>2, <1>4, SMT DEF Linked
  <1>9. \A x \in rows \cup {r} :
          /\ x.seq > 0 /\ (x.seq = 1 => x.prev = Genesis)
          /\ x.hash = EntryHash(x.prev, x.seq, x.event, x.at)
          /\ \A s \in 1..x.seq : \E q \in rows \cup {r} : q.seq = s
    <2>1. ASSUME NEW x \in rows
          PROVE  /\ x.seq > 0 /\ (x.seq = 1 => x.prev = Genesis)
                 /\ x.hash = EntryHash(x.prev, x.seq, x.event, x.at)
                 /\ \A s \in 1..x.seq : \E q \in rows \cup {r} : q.seq = s
      BY DEF Linked
    <2>2. r.seq > 0 /\ (r.seq = 1 => r.prev = Genesis)
      BY <1>5, SMT
    <2>3. \A s \in 1..r.seq : \E q \in rows \cup {r} : q.seq = s
      BY <1>6, SMT
    <2> QED
      BY <2>1, <2>2, <2>3
  <1> QED
    BY <1>2, <1>3, <1>7, <1>8, <1>9 DEF Linked

-----------------------------------------------------------------------------
(* What VerifyChain finds.                                                 *)

\* Rows that are one run of a chain, from position f on.
RunFrom(rows, f) ==
    /\ \A r, q \in rows : r.seq = q.seq => r = q
    /\ \A r, q \in rows : r.seq = q.seq + 1 => r.prev = q.hash
    /\ \A r \in rows :
          /\ f <= r.seq /\ r.hash = EntryHash(r.prev, r.seq, r.event, r.at)
          /\ \A s \in f..r.seq : \E q \in rows : q.seq = s

LEMMA LinkedFrom ==
    ASSUME NEW rows \in SUBSET Row, Linked(rows), NEW f \in Nat \ {0}
    PROVE  RunFrom({r \in rows : f <= r.seq}, f)
  <1>1. \A q \in rows : q.seq \in Nat
    BY RowFields
  <1> QED
    BY <1>1, SMT DEF Linked, RunFrom

\* The loop compares a row with its predecessor, or with the anchor.
LEMMA BreakOfARun ==
    ASSUME NEW rows \in SUBSET Row, NEW f \in Nat, RunFrom(rows, f), NEW r \in rows,
           NEW first \in Nat, NEW prev
    PROVE  /\ r.seq # f => ChainBreak(rows, r, first, prev) = "intact"
           /\ r.seq = f /\ first = f /\ prev = r.prev
                 => ChainBreak(rows, r, first, prev) = "intact"
           /\ r.seq = f /\ first # f => ChainBreak(rows, r, first, prev) = "missing"
  <1>1. \A q \in rows : q.seq \in Nat
    BY RowFields
  <1>2. r.hash = EntryHash(r.prev, r.seq, r.event, r.at) /\ f <= r.seq
    BY DEF RunFrom
  <1>3. CASE r.seq # f
    <2>1. PICK q \in rows : q.seq = r.seq - 1
      <3>1. r.seq - 1 \in f..r.seq
        BY <1>1, <1>2, <1>3, SMT
      <3> QED
        BY <3>1 DEF RunFrom
    <2>2. q \in Before(rows, r) /\ \A o \in Before(rows, r) : o.seq <= q.seq
      BY <1>1, <2>1, SMT DEF Before
    <2>3. \A x \in Before(rows, r) : (\A o \in Before(rows, r) : o.seq <= x.seq) => x = q
      BY <1>1, <2>2, SMT DEF Before, RunFrom
    <2>4. Previous(rows, r) = q
      BY <2>2, <2>3, Zenon DEF Previous
    <2>5. r.prev = q.hash
      BY <1>1, <2>1, SMT DEF RunFrom
    <2>6. expectedSeq(rows, r, first) = r.seq
      BY <1>1, <2>1, <2>2, <2>4, SMT DEF expectedSeq
    <2>7. prevHash(rows, r, prev) = r.prev
      BY <2>2, <2>4, <2>5 DEF prevHash
    <2> QED
      BY <1>2, <1>3, <2>6, <2>7 DEF ChainBreak
  <1>4. CASE r.seq = f
    <2>1. Before(rows, r) = {}
      BY <1>1, <1>4, SMT DEF Before, RunFrom
    <2>2. expectedSeq(rows, r, first) = first /\ prevHash(rows, r, prev) = prev
      BY <2>1 DEF expectedSeq, prevHash
    <2>3. CASE first # f
      <3>1. r.seq # expectedSeq(rows, r, first)
        BY <1>4, <2>2, <2>3
      <3>2. ChainBreak(rows, r, first, prev) = "missing"
        BY <3>1 DEF ChainBreak
      <3> QED
        BY <1>4, <2>3, <3>2
    <2>4. CASE first = f /\ prev = r.prev
      <3>1. r.seq = expectedSeq(rows, r, first) /\ r.prev = prevHash(rows, r, prev)
        BY <1>4, <2>2, <2>4
      <3>2. ChainBreak(rows, r, first, prev) = "intact"
        BY <1>2, <3>1 DEF ChainBreak
      <3> QED
        BY <1>4, <2>4, <3>2
    <2> QED
      BY <1>4, <2>3, <2>4
  <1> QED
    BY <1>3, <1>4

\* From its own anchor a run is intact; from an earlier one its first row is missing.
LEMMA ReportOfARun ==
    ASSUME NEW rows \in SUBSET Row, NEW f \in Nat, RunFrom(rows, f), NEW first \in Nat, NEW prev
    PROVE  /\ first = f /\ (\A r \in rows : r.seq = f => r.prev = prev)
                 => ChainReport(rows, first, prev) = "intact"
           /\ first # f => ChainReport(rows, first, prev) \in {"intact", "missing"}
  <1> DEFINE broken == {r \in rows : ChainBreak(rows, r, first, prev) # "intact"}
  <1>1. CASE first = f /\ \A r \in rows : r.seq = f => r.prev = prev
    <2>1. broken = {}
      BY <1>1, BreakOfARun, SMT
    <2> QED
      BY <1>1, <2>1 DEF ChainReport
  <1>2. CASE first # f
    <2>1. \A r \in broken : ChainBreak(rows, r, first, prev) = "missing"
      BY <1>2, BreakOfARun, SMT
    <2>2. CASE broken = {}
      BY <1>2, <2>2 DEF ChainReport
    <2>3. CASE broken # {}
      <3> DEFINE c == CHOOSE r \in broken : \A q \in broken : r.seq <= q.seq
      <3>1. PICK r \in broken : r.seq = f
        BY <2>3, <1>2, BreakOfARun, SMT
      <3>2. \A q \in broken : r.seq <= q.seq
        BY <3>1 DEF RunFrom
      <3>3. c \in broken
        BY <3>1, <3>2, Zenon
      <3>4. ChainReport(rows, first, prev) = ChainBreak(rows, c, first, prev)
        BY <2>3 DEF ChainReport
      <3> QED
        BY <1>2, <2>1, <3>3, <3>4
    <2> QED
      BY <2>2, <2>3
  <1> QED
    BY <1>1, <1>2

-----------------------------------------------------------------------------
(* What a step leaves alone keeps its part of the invariant.               *)

LEMMA StoredFrame == StoredInv /\ UNCHANGED <<log, anchor, history>> => StoredInv'
  BY DEF StoredInv, Chain

LEMMA LockFrame == LockInv /\ UNCHANGED <<tx, prune>> => LockInv'
  BY DEF LockInv

\* A transaction does not move, nor do the chains it holds.
LEMMA TxKept ==
    ASSUME NEW w \in Writers, HeldInv(w), MadeInv(w), DueInv(w), tx'[w] = tx[w],
           \A t \in tx[w].held : /\ Chain(t)' = Chain(t) /\ ChainIn(w, t)' = ChainIn(w, t)
                                 /\ anchor'[t] = anchor[t]
    PROVE  HeldInv(w)' /\ MadeInv(w)' /\ DueInv(w)'
  <1>1. Due(w)' = Due(w)
    BY DEF Due
  <1>2. \A e \in Due(w) : TenantOf[e] \in tx[w].held
    BY DEF Due
  <1>3. HeldInv(w)'
    BY DEF HeldInv
  <1>4. MadeInv(w)'
    BY DEF MadeInv
  <1>5. DueInv(w)'
    BY <1>1, <1>2, SMT DEF DueInv
  <1> QED
    BY <1>3, <1>4, <1>5

LEMMA TxFrame == TxInv /\ UNCHANGED <<tx, anchor, history>> => TxInv'
  <1> SUFFICES ASSUME TxInv, UNCHANGED <<tx, anchor, history>>, NEW w \in Writers
               PROVE  HeldInv(w)' /\ MadeInv(w)' /\ DueInv(w)'
    BY DEF TxInv
  <1>1. HeldInv(w) /\ MadeInv(w) /\ DueInv(w)
    BY DEF TxInv
  <1>2. \A t : Chain(t)' = Chain(t) /\ ChainIn(w, t)' = ChainIn(w, t)
    BY DEF Chain, ChainIn
  <1> QED
    BY <1>1, <1>2, TxKept

LEMMA OnceFrame == OnceInv /\ UNCHANGED <<tx, new, unsure, history>> => OnceInv'
  BY DEF OnceInv, RecordedOnce

LEMMA CursorFrame == CursorInv /\ UNCHANGED <<anchor, cursor, bucket, history>> => CursorInv'
  BY DEF CursorInv, LegalRange, Chain

LEMMA BucketFrame == BucketInv /\ UNCHANGED <<cursor, bucket, history>> => BucketInv'
  BY DEF BucketInv, LegalRange, Exported, Chain

LEMMA ExporterFrame ==
    ExporterInv /\ UNCHANGED <<export, cursor, bucket, history>> => ExporterInv'
  BY SMT DEF ExporterInv, LegalRange, Exported, Named, Chain

LEMMA PruneFrame == PruneInv /\ UNCHANGED <<prune, cursor, log, clock>> => PruneInv'
  BY DEF PruneInv

LEMMA VerifyFrame == VerifyInv /\ UNCHANGED <<verify, anchor>> => VerifyInv'
  BY DEF VerifyInv, BreakMeansOvertaken

LEMMA FaultsTyped == faults \in 0..MaxFaults /\ (Fault \/ NoFault) => faults' \in 0..MaxFaults
  BY AuditAssumption, SMT DEF Fault, NoFault

\* A step of the writers that leaves the tables alone: LockInv, TxInv and
\* OnceInv are left to show.
LEMMA WriterOnly ==
    ASSUME AuditInv, tx' \in [Writers -> Tx], new' \subseteq Events, faults' \in 0..MaxFaults,
           UNCHANGED <<Tables, clock, export, prune, verify, history, unsure>>,
           LockInv', TxInv', OnceInv'
    PROVE  AuditInv'
  <1>1. /\ StoredInv' /\ CursorInv' /\ BucketInv' /\ ExporterInv' /\ PruneInv' /\ VerifyInv'
    BY StoredFrame, CursorFrame, BucketFrame, ExporterFrame, PruneFrame, VerifyFrame
       DEF AuditInv, Tables
  <1>2. TypeOK'
    BY DEF AuditInv, TypeOK, Tables
  <1> QED
    BY <1>1, <1>2 DEF AuditInv

\* A step of an exporter: CursorInv, BucketInv and ExporterInv are left to show.
LEMMA ExporterOnly ==
    ASSUME AuditInv, TypeOK',
           UNCHANGED <<log, anchor, months, clock, tx, prune, verify, new, history, unsure>>,
           \A t \in Tenants : cursor'[t].exported >= cursor[t].exported,
           CursorInv', BucketInv', ExporterInv'
    PROVE  AuditInv'
  <1>1. StoredInv' /\ LockInv' /\ TxInv' /\ OnceInv' /\ VerifyInv'
    BY StoredFrame, LockFrame, TxFrame, OnceFrame, VerifyFrame DEF AuditInv
  <1>2. PruneInv'
    <2>1. \A t \in Tenants : cursor[t].exported \in Nat /\ cursor'[t].exported \in Nat
      BY DEF AuditInv, TypeOK
    <2>2. \A p \in Pruners : prune[p].last \in Nat
      BY DEF AuditInv, TypeOK, Prune
    <2> QED
      BY <2>1, <2>2, SMT DEF AuditInv, PruneInv
  <1> QED
    BY <1>1, <1>2 DEF AuditInv

-----------------------------------------------------------------------------
(* The steps of a writer.                                                  *)

\* One transaction ends or begins: it holds nothing, and its batch is the one it
\* had, a part of the new events, or nothing.
LEMMA ResetKeeps ==
    ASSUME AuditInv, NEW w \in Writers, tx' \in [Writers -> Tx],
           tx'[w].held = {}, tx'[w].rows = {},
           \A v \in Writers \ {w} : tx'[v] = tx[v],
           \/ tx'[w].batch \subseteq tx[w].batch /\ new' = new
           \/ tx'[w].batch \subseteq new /\ new' = new \ tx'[w].batch,
           faults' \in 0..MaxFaults,
           UNCHANGED <<Tables, clock, export, prune, verify, history, unsure>>
    PROVE  AuditInv'
  <1>1. UNCHANGED <<log, anchor, prune, history, unsure>>
    BY DEF Tables
  <1>2. new' \subseteq new /\ new \subseteq Events
    BY DEF AuditInv, TypeOK
  <1>3. LockInv'
    BY <1>1, SMT DEF AuditInv, LockInv
  <1>4. TxInv'
    <2> SUFFICES ASSUME NEW v \in Writers PROVE HeldInv(v)' /\ MadeInv(v)' /\ DueInv(v)'
      BY DEF TxInv
    <2>1. CASE v = w
      BY <2>1 DEF Due, HeldInv, MadeInv, DueInv
    <2>2. CASE v # w
      <3>1. HeldInv(v) /\ MadeInv(v) /\ DueInv(v) /\ tx'[v] = tx[v]
        BY <2>2 DEF AuditInv, TxInv
      <3>2. \A t : Chain(t)' = Chain(t) /\ ChainIn(v, t)' = ChainIn(v, t)
        BY <1>1, <3>1 DEF Chain, ChainIn
      <3> QED
        BY <1>1, <3>1, <3>2, TxKept
    <2> QED
      BY <2>1, <2>2
  <1>5. OnceInv'
    BY <1>1, <1>2, SMT DEF AuditInv, OnceInv, RecordedOnce
  <1> QED
    BY <1>2, <1>3, <1>4, <1>5, WriterOnly

\* What one writer's transaction is after each of the steps that replace it.
LEMMA TxValues ==
    ASSUME TypeOK, NEW w \in Writers, NEW b \in SUBSET Events
    PROVE  /\ NoTx \in Tx
           /\ [NoTx EXCEPT !.at = "open", !.batch = b, !.time = clock] \in Tx
           /\ [NoTx EXCEPT !.at = "failed", !.batch = b] \in Tx
           /\ NoTx.held = {} /\ NoTx.rows = {} /\ NoTx.batch = {}
           /\ LET x == [NoTx EXCEPT !.at = "open", !.batch = b, !.time = clock]
              IN  x.held = {} /\ x.rows = {} /\ x.batch = b
           /\ LET x == [NoTx EXCEPT !.at = "failed", !.batch = b]
              IN  x.held = {} /\ x.rows = {} /\ x.batch = b
  <1>1. clock \in Nat /\ Genesis \in Hashes
    BY SMT DEF TypeOK, Genesis, Hashes
  <1>2. NoTx \in Tx
    BY <1>1 DEF NoTx, Tx
  <1> QED
    BY <1>1, <1>2 DEF NoTx, Tx

LEMMA TxReplaced ==
    ASSUME TypeOK, NEW w \in Writers, NEW x \in Tx, tx' = [tx EXCEPT ![w] = x]
    PROVE  tx' \in [Writers -> Tx] /\ tx'[w] = x /\ \A v \in Writers \ {w} : tx'[v] = tx[v]
  BY DEF TypeOK

LEMMA TxFields ==
    ASSUME TypeOK, NEW w \in Writers
    PROVE  /\ tx[w] \in Tx /\ tx[w].batch \in SUBSET Events /\ tx[w].time \in Nat
           /\ tx[w].held \in SUBSET Tenants /\ tx[w].seq \in Nat /\ tx[w].prev \in Hashes
           /\ tx[w].rows \in SUBSET Row
  BY DEF TypeOK, Tx

LEMMA BeginKeeps ==
    ASSUME AuditInv, NEW w \in Writers, NEW b, Begin(w, b)
    PROVE  AuditInv'
  <1> DEFINE x == [NoTx EXCEPT !.at = "open", !.batch = b, !.time = clock]
  <1>1. TypeOK /\ b \subseteq new /\ b \in SUBSET Events /\ new' = new \ b
    BY DEF AuditInv, TypeOK, Begin
  <1>2. x \in Tx /\ x.held = {} /\ x.rows = {} /\ x.batch = b
    BY <1>1, TxValues
  <1>3. tx' = [tx EXCEPT ![w] = x]
    BY DEF Begin, BeginTx, Opened
  <1> HIDE DEF x
  <1>4. tx' \in [Writers -> Tx] /\ tx'[w] = x /\ \A v \in Writers \ {w} : tx'[v] = tx[v]
    BY <1>1, <1>2, <1>3, TxReplaced
  <1>5. faults' \in 0..MaxFaults
    BY <1>1, FaultsTyped DEF Begin, BeginTx, TypeOK
  <1> QED
    BY <1>1, <1>2, <1>4, <1>5, ResetKeeps DEF Begin, BeginTx

\* TxFails, Retry and GiveUp.
LEMMA RestartKeeps ==
    ASSUME AuditInv, NEW w \in Writers, TxFails(w) \/ Retry(w) \/ GiveUp(w)
    PROVE  AuditInv'
  <1> DEFINE b == tx[w].batch
             o == [NoTx EXCEPT !.at = "open", !.batch = b, !.time = clock]
             f == [NoTx EXCEPT !.at = "failed", !.batch = b]
  <1>1. TypeOK /\ b \in SUBSET Events
    BY TxFields DEF AuditInv
  <1>2. PICK x \in {o, f, NoTx} : tx' = [tx EXCEPT ![w] = x]
    BY Zenon DEF TxFails, Failed, Retry, Opened, GiveUp
  <1>3. x \in Tx /\ x.held = {} /\ x.rows = {} /\ x.batch \subseteq tx[w].batch
    <2>1. /\ o \in Tx /\ o.held = {} /\ o.rows = {} /\ o.batch = b
          /\ f \in Tx /\ f.held = {} /\ f.rows = {} /\ f.batch = b
      BY <1>1, TxValues
    <2>2. NoTx \in Tx /\ NoTx.held = {} /\ NoTx.rows = {} /\ NoTx.batch = {}
      BY <1>1, TxValues
    <2> HIDE DEF o, f
    <2> QED
      BY <1>2, <2>1, <2>2
  <1>4. tx' \in [Writers -> Tx] /\ tx'[w] = x /\ \A v \in Writers \ {w} : tx'[v] = tx[v]
    BY <1>1, <1>2, <1>3, TxReplaced
  <1>5. faults' \in 0..MaxFaults
    BY <1>1, FaultsTyped DEF TxFails, Retry, GiveUp, TypeOK
  <1>6. UNCHANGED <<Tables, clock, export, prune, verify, new, history, unsure>>
    BY DEF TxFails, Retry, GiveUp
  <1> QED
    BY <1>3, <1>4, <1>5, <1>6, ResetKeeps

\* The answer of chainHead is the head of the chain, also of the part of it that
\* retention has taken away.
LEMMA HeadIsTheHead ==
    ASSUME AuditInv, NEW t \in Tenants, NEW h \in chainHead(t)
    PROVE  /\ h.seq \in Nat /\ h.hash \in Hashes
           /\ HeadOf(Chain(t), h.seq, h.hash) /\ anchor[t].first <= h.seq + 1
  <1>1. /\ Linked(Chain(t))
        /\ Of(log, t) = {r \in Chain(t) : anchor[t].first <= r.seq}
        /\ \/ anchor[t].first = 1 /\ anchor[t].prev = Genesis
           \/ \E r \in Chain(t) : r.seq + 1 = anchor[t].first /\ r.hash = anchor[t].prev
    BY DEF AuditInv, StoredInv
  <1>2. /\ anchor[t].first \in Nat \ {0} /\ anchor[t].prev \in Hashes
        /\ Chain(t) \subseteq Row
    BY DEF AuditInv, TypeOK, Chain, Of
  <1>3. \A r \in Chain(t) : r.seq \in Nat /\ r.hash \in Hashes
    BY <1>2, RowFields
  <1>4. CASE Of(log, t) = {}
    <2>1. h.seq = anchor[t].first - 1 /\ h.hash = anchor[t].prev
      BY <1>4, SMT DEF chainHead
    <2>2. \A r \in Chain(t) : r.seq <= h.seq
      BY <1>1, <1>2, <1>3, <1>4, <2>1, SMT
    <2>3. CASE anchor[t].first = 1 /\ anchor[t].prev = Genesis
      <3>1. Chain(t) = {}
        BY <1>1, <1>3, <2>1, <2>2, <2>3, SMT DEF Linked
      <3> QED
        BY <1>2, <2>1, <2>3, <3>1, SMT DEF HeadOf
    <2>4. CASE \E r \in Chain(t) : r.seq + 1 = anchor[t].first /\ r.hash = anchor[t].prev
      <3>1. PICK r \in Chain(t) : r.seq + 1 = anchor[t].first /\ r.hash = anchor[t].prev
        BY <2>4
      <3>2. r.seq = h.seq /\ r.hash = h.hash
        BY <1>2, <1>3, <2>1, <3>1, SMT
      <3> QED
        BY <1>2, <1>3, <2>1, <2>2, <3>2, SMT DEF HeadOf
    <2> QED
      BY <1>1, <2>3, <2>4
  <1>5. CASE Of(log, t) # {}
    <2>1. PICK r \in Of(log, t) : /\ \A q \in Of(log, t) : q.seq <= r.seq
                                  /\ h = [seq |-> r.seq, hash |-> r.hash]
      BY <1>5 DEF chainHead
    <2>2. r \in Chain(t) /\ anchor[t].first <= r.seq /\ h.seq = r.seq /\ h.hash = r.hash
      BY <1>1, <2>1
    <2>3. \A q \in Chain(t) : q.seq <= r.seq
      BY <1>1, <1>2, <1>3, <2>1, <2>2, SMT
    <2> QED
      BY <1>2, <1>3, <2>2, <2>3, SMT DEF HeadOf
  <1> QED
    BY <1>4, <1>5

LEMMA LockChainKeeps ==
    ASSUME AuditInv, NEW w \in Writers, NEW t \in Tenants, LockChain(w, t)
    PROVE  AuditInv'
  <1> DEFINE y == tx[w]
  <1>1. TypeOK /\ HeldInv(w) /\ MadeInv(w) /\ DueInv(w)
    BY DEF AuditInv, TxInv
  <1>2. y \in Tx /\ y.held \in SUBSET Tenants /\ y.rows \in SUBSET Row /\ y.batch \in SUBSET Events
    BY <1>1, TxFields
  <1>3. PICK h \in chainHead(t) :
          tx' = [tx EXCEPT ![w].held = y.held \cup {t}, ![w].seq = h.seq, ![w].prev = h.hash]
    BY DEF LockChain
  <1>4. /\ h.seq \in Nat /\ h.hash \in Hashes
        /\ HeadOf(Chain(t), h.seq, h.hash) /\ anchor[t].first <= h.seq + 1
    BY HeadIsTheHead
  <1>5. /\ tx' \in [Writers -> Tx] /\ \A v \in Writers \ {w} : tx'[v] = tx[v]
        /\ tx'[w].at = y.at /\ tx'[w].batch = y.batch /\ tx'[w].rows = y.rows
        /\ tx'[w].held = y.held \cup {t} /\ tx'[w].seq = h.seq /\ tx'[w].prev = h.hash
    BY <1>1, <1>2, <1>3, <1>4, ZenonT(60) DEF TypeOK, Tx
  <1>6. y.at = "open" /\ Due(w) = {} /\ t \notin y.held /\ ~Locked(t)
    BY DEF LockChain, ToLock
  <1>7. UNCHANGED <<Tables, clock, export, prune, verify, new, history, unsure>>
    BY DEF LockChain
  <1>8. UNCHANGED <<log, anchor, prune, history, new, unsure>>
    BY <1>7 DEF Tables
  <1>9. LockInv'
    BY <1>5, <1>6, <1>8, SMT DEF AuditInv, LockInv, Locked
  <1>10. ASSUME NEW v \in Writers PROVE HeldInv(v)' /\ MadeInv(v)' /\ DueInv(v)'
    <2>1. CASE v # w
      <3>1. HeldInv(v) /\ MadeInv(v) /\ DueInv(v) /\ tx'[v] = tx[v]
        BY <1>5, <2>1 DEF AuditInv, TxInv
      <3>2. \A u : Chain(u)' = Chain(u) /\ ChainIn(v, u)' = ChainIn(v, u)
        BY <1>8, <3>1 DEF Chain, ChainIn
      <3> QED
        BY <1>8, <3>1, <3>2, TxKept
    <2>2. CASE v = w
      <3>1. \A u : Chain(u)' = Chain(u) /\ ChainIn(w, u)' = ChainIn(w, u)
        BY <1>5, <1>8 DEF Chain, ChainIn, Of
      <3>2. Of(y.rows, t) = {}
        BY <1>1, <1>6 DEF MadeInv, Of
      <3>3. ChainIn(w, t) = Chain(t)
        BY <3>2 DEF ChainIn, Chain, Of
      <3>4. HeldInv(w)'
        BY <1>1, <1>5, <1>6, <3>1, <3>3, SMT DEF HeldInv, AuditInv, StoredInv
      <3>5. MadeInv(w)'
        BY <1>1, <1>5, <1>8, <3>1 DEF MadeInv
      <3>6. \A e \in Due(w)' : TenantOf[e] = t
        BY <1>5, <1>6 DEF Due
      <3>7. DueInv(w)'
        BY <1>4, <1>5, <1>8, <3>1, <3>3, <3>6 DEF DueInv
      <3> QED
        BY <2>2, <3>4, <3>5, <3>7
    <2> QED
      BY <2>1, <2>2
  <1>11. TxInv'
    BY <1>10 DEF TxInv
  <1>12. OnceInv'
    <2>1. \A v \in Writers : tx'[v].batch = tx[v].batch /\ tx'[v].rows = tx[v].rows
      BY <1>5
    <2> QED
      BY <1>8, <2>1 DEF AuditInv, OnceInv, RecordedOnce
  <1>13. new' \subseteq Events /\ faults' \in 0..MaxFaults
    BY <1>1, <1>8, FaultsTyped DEF LockChain, TypeOK
  <1> QED
    BY <1>5, <1>7, <1>9, <1>11, <1>12, <1>13, WriterOnly

LEMMA ExtendKeeps ==
    ASSUME AuditInv, NEW w \in Writers, NEW e \in Events, Extend(w, e)
    PROVE  AuditInv'
  <1> DEFINE y == tx[w]
             t == TenantOf[e]
             r == NewRow(t, y.seq + 1, e, y.time, y.prev)
  <1>1. TypeOK /\ HeldInv(w) /\ MadeInv(w) /\ DueInv(w)
    BY DEF AuditInv, TxInv
  <1>2. /\ y \in Tx /\ y.held \in SUBSET Tenants /\ y.rows \in SUBSET Row
        /\ y.batch \in SUBSET Events /\ y.seq \in Nat /\ y.time \in Nat /\ y.prev \in Hashes
    BY <1>1, TxFields
  <1>3. t \in Tenants
    BY AuditAssumption
  <1>4. /\ r \in Row /\ r.tenant = t /\ r.seq = y.seq + 1 /\ r.event = e /\ r.prev = y.prev
        /\ r.hash = EntryHash(r.prev, r.seq, r.event, r.at) /\ r.seq \in Nat /\ r.hash \in Hashes
    <2>1. y.seq + 1 \in Nat
      BY <1>2, SMT
    <2>2. /\ r \in Row /\ r.tenant = t /\ r.seq = y.seq + 1 /\ r.event = e /\ r.prev = y.prev
          /\ r.hash = EntryHash(y.prev, y.seq + 1, e, y.time) /\ r.at = y.time
      BY <1>2, <1>3, <2>1, NewRowIsARow, SMT
    <2> HIDE DEF r
    <2> QED
      BY <2>2, RowFields
  <1>5. tx' = [tx EXCEPT ![w].seq = r.seq, ![w].prev = r.hash, ![w].rows = y.rows \cup {r}]
    BY DEF Extend
  <1>6. e \in Due(w) /\ y.at = "open"
    BY DEF Extend
  <1> HIDE DEF r
  <1>7. /\ tx' \in [Writers -> Tx] /\ \A v \in Writers \ {w} : tx'[v] = tx[v]
        /\ tx'[w].at = y.at /\ tx'[w].batch = y.batch /\ tx'[w].held = y.held
        /\ tx'[w].rows = y.rows \cup {r} /\ tx'[w].seq = r.seq /\ tx'[w].prev = r.hash
    BY <1>1, <1>2, <1>4, <1>5, ZenonT(60) DEF TypeOK, Tx
  <1>8. UNCHANGED <<Tables, clock, export, prune, verify, new, history, unsure>>
    BY DEF Extend
  <1>9. UNCHANGED <<log, anchor, prune, history, new, unsure>>
    BY <1>8 DEF Tables
  <1>10. /\ t \in y.held /\ e \in y.batch /\ \A q \in y.rows : q.event # e
         /\ anchor[t].first <= y.seq + 1 /\ HeadOf(ChainIn(w, t), y.seq, y.prev)
         /\ \A d \in Due(w) : TenantOf[d] = t
    BY <1>1, <1>6 DEF Due, DueInv
  <1>11. LockInv'
    BY <1>7, <1>9, SMT DEF AuditInv, LockInv
  <1>12. ChainIn(w, t) \subseteq Row /\ Linked(ChainIn(w, t))
    BY <1>1, <1>2, <1>10 DEF ChainIn, Of, HeldInv, TypeOK
  <1>13. /\ Linked(ChainIn(w, t) \cup {r}) /\ HeadOf(ChainIn(w, t) \cup {r}, r.seq, r.hash)
         /\ \A q \in ChainIn(w, t) : q.seq < r.seq
    BY <1>2, <1>4, <1>10, <1>12, LinkedExtend
  <1>14. /\ ChainIn(w, t)' = ChainIn(w, t) \cup {r}
         /\ \A u : Chain(u)' = Chain(u)
         /\ \A u : u # t => ChainIn(w, u)' = ChainIn(w, u)
    BY <1>4, <1>7, <1>9 DEF Chain, ChainIn, Of
  <1>15. ASSUME NEW v \in Writers PROVE HeldInv(v)' /\ MadeInv(v)' /\ DueInv(v)'
    <2>1. CASE v # w
      <3>1. HeldInv(v) /\ MadeInv(v) /\ DueInv(v) /\ tx'[v] = tx[v]
        BY <1>7, <2>1 DEF AuditInv, TxInv
      <3>2. \A u : Chain(u)' = Chain(u) /\ ChainIn(v, u)' = ChainIn(v, u)
        BY <1>9, <3>1 DEF Chain, ChainIn
      <3> QED
        BY <1>9, <3>1, <3>2, TxKept
    <2>2. CASE v = w
      <3>1. HeldInv(w)'
        <4>1. \A u \in y.held : Linked(ChainIn(w, u))
          BY <1>1 DEF HeldInv
        <4>2. \A u \in y.held : Linked(ChainIn(w, u))'
          BY <1>13, <1>14, <4>1
        <4> QED
          BY <1>6, <1>7, <4>2 DEF HeldInv
      <3>2. \A q \in Chain(t) : q.seq < r.seq
        BY <1>13 DEF Chain, ChainIn, Of
      <3>3. MadeInv(w)'
        BY <1>1, <1>4, <1>7, <1>9, <1>10, <1>14, <3>2 DEF MadeInv
      <3>4. Due(w)' \subseteq Due(w)
        BY <1>7 DEF Due
      <3>5. anchor[t].first <= r.seq + 1
        BY <1>1, <1>2, <1>3, <1>4, <1>10, SMT DEF TypeOK
      <3>6. DueInv(w)'
        BY <1>7, <1>9, <1>10, <1>13, <1>14, <3>4, <3>5 DEF DueInv
      <3> QED
        BY <2>2, <3>1, <3>3, <3>6
    <2> QED
      BY <2>1, <2>2
  <1>16. TxInv'
    BY <1>15 DEF TxInv
  <1>17. OnceInv'
    <2>1. \A v \in Writers : tx'[v].batch = tx[v].batch
      BY <1>7
    <2>2. \A v \in Writers : \A a, b \in tx'[v].rows : a.event = b.event => a = b
      <3>1. \A v \in Writers : \A a, b \in tx[v].rows : a.event = b.event => a = b
        BY DEF AuditInv, OnceInv
      <3>2. \A a, b \in y.rows \cup {r} : a.event = b.event => a = b
        BY <1>4, <1>10, <3>1
      <3> QED
        BY <1>7, <3>1, <3>2
    <2> QED
      BY <1>9, <2>1, <2>2 DEF AuditInv, OnceInv, RecordedOnce
  <1>18. new' \subseteq Events /\ faults' \in 0..MaxFaults
    BY <1>1, <1>9, FaultsTyped DEF Extend, TypeOK
  <1> QED
    BY <1>7, <1>8, <1>11, <1>16, <1>17, <1>18, WriterOnly

\* The commit, whether its answer arrives or not.
LEMMA InsertKeeps ==
    ASSUME AuditInv, NEW w \in Writers, Inserted(w), tx' \in [Writers -> Tx],
           tx'[w].held = {}, tx'[w].rows = {},
           \A v \in Writers \ {w} : tx'[v] = tx[v],
           \/ tx'[w].batch = {} /\ unsure' = unsure
           \/ tx'[w].batch = tx[w].batch /\ unsure' = unsure \cup tx[w].batch,
           faults' \in 0..MaxFaults
    PROVE  AuditInv'
  <1> DEFINE y == tx[w]
  <1>1. TypeOK /\ HeldInv(w) /\ MadeInv(w)
    BY DEF AuditInv, TxInv
  <1>2. /\ y.held \in SUBSET Tenants /\ y.rows \in SUBSET Row /\ y.batch \in SUBSET Events
    BY <1>1, TxFields
  <1>3. /\ log' = log \cup y.rows /\ history' = history \cup y.rows
        /\ UNCHANGED <<anchor, cursor, bucket, months, clock, export, prune, verify, new>>
    BY DEF Inserted
  <1>4. TypeOK'
    BY <1>1, <1>2, <1>3 DEF TypeOK
  <1>5. \A t : Chain(t)' = ChainIn(w, t) /\ Chain(t)' = Chain(t) \cup Of(y.rows, t)
    BY <1>3 DEF Chain, ChainIn, Of
  <1>6. \A t : Of(log, t)' = Of(log, t) \cup Of(y.rows, t)
    BY <1>3 DEF Of
  <1>7. \A t : t \notin y.held => Of(y.rows, t) = {}
    BY <1>1 DEF MadeInv, Of
  <1>8. ASSUME NEW t, NEW r \in Of(y.rows, t)
        PROVE  /\ t \in y.held /\ t \in Tenants /\ r \in Row /\ r.seq \in Nat
               /\ r.event \in y.batch /\ anchor[t].first <= r.seq
               /\ \A q \in Chain(t) : q.seq < r.seq
    BY <1>1, <1>2, RowFields DEF MadeInv, Of
  <1>9. \A t \in Tenants : \A q \in Chain(t) : q \in Row /\ q.seq \in Nat
    BY <1>1, RowFields DEF Chain, Of, TypeOK
  <1>10. StoredInv'
    <2> SUFFICES ASSUME NEW t \in Tenants
                 PROVE  /\ Linked(Chain(t)')
                        /\ Of(log, t)' = {r \in Chain(t)' : anchor[t].first <= r.seq}
                        /\ \/ anchor[t].first = 1 /\ anchor[t].prev = Genesis
                           \/ \E r \in Chain(t)' : r.seq + 1 = anchor[t].first
                                                   /\ r.hash = anchor[t].prev
      BY <1>3 DEF StoredInv, Linked, Of
    <2>1. Linked(Chain(t)) /\ Of(log, t) = {r \in Chain(t) : anchor[t].first <= r.seq}
      BY DEF AuditInv, StoredInv
    <2>2. Linked(Chain(t)')
      <3>1. CASE t \in y.held
        BY <1>1, <1>5, <3>1 DEF HeldInv
      <3>2. CASE t \notin y.held
        <4>1. Chain(t)' = Chain(t)
          BY <1>5, <1>7, <3>2
        <4> QED
          BY <2>1, <4>1
      <3> QED
        BY <3>1, <3>2
    <2>3. Of(log, t)' = {r \in Chain(t)' : anchor[t].first <= r.seq}
      BY <1>5, <1>6, <1>8, <2>1
    <2>4. \/ anchor[t].first = 1 /\ anchor[t].prev = Genesis
          \/ \E r \in Chain(t)' : r.seq + 1 = anchor[t].first /\ r.hash = anchor[t].prev
      BY <1>5 DEF AuditInv, StoredInv
    <2> QED
      BY <2>2, <2>3, <2>4
  <1>11. LockInv'
    BY <1>3 DEF AuditInv, LockInv
  <1>12. ASSUME NEW v \in Writers PROVE HeldInv(v)' /\ MadeInv(v)' /\ DueInv(v)'
    <2>1. CASE v = w
      BY <2>1 DEF Due, HeldInv, MadeInv, DueInv
    <2>2. CASE v # w
      <3>1. HeldInv(v) /\ MadeInv(v) /\ DueInv(v) /\ tx'[v] = tx[v]
        BY <2>2 DEF AuditInv, TxInv
      <3>2. \A t \in tx[v].held : t \notin y.held
        BY <2>2 DEF AuditInv, LockInv
      <3>3. \A t \in tx[v].held : Chain(t)' = Chain(t)
        <4> SUFFICES ASSUME NEW t \in tx[v].held PROVE Chain(t)' = Chain(t)
          OBVIOUS
        <4>1. Of(y.rows, t) = {} /\ Chain(t)' = Chain(t) \cup Of(y.rows, t)
          BY <1>5, <1>7, <3>2
        <4> QED
          BY <4>1
      <3>4. \A t : ChainIn(v, t) = Chain(t) \cup Of(tx[v].rows, t)
        BY DEF Chain, ChainIn, Of
      <3>5. \A t : ChainIn(v, t)' = Chain(t)' \cup Of(tx[v].rows, t)
        BY <3>1 DEF Chain, ChainIn, Of
      <3> QED
        BY <1>3, <3>1, <3>3, <3>4, <3>5, TxKept
    <2> QED
      BY <2>1, <2>2
  <1>13. TxInv'
    BY <1>12 DEF TxInv
  <1>14. \A r \in y.rows : r.event \in y.batch
    BY <1>1 DEF MadeInv
  <1>15. OnceInv'
    <2>0. OnceInv
      BY DEF AuditInv
    <2>1. RecordedOnce'
      BY <1>3, <1>14, <2>0, SMT DEF OnceInv, RecordedOnce
    <2>2. \A r \in history' : r.event \notin new'
      BY <1>3, <1>14, <2>0 DEF OnceInv
    <2>3. ASSUME NEW v \in Writers
          PROVE  /\ tx'[v].batch \cap new' = {}
                 /\ \A u \in Writers : v # u => tx'[v].batch \cap tx'[u].batch = {}
                 /\ \A r \in history' : r.event \in tx'[v].batch => r.event \in unsure'
                 /\ \A r, q \in tx'[v].rows : r.event = q.event => r = q
      <3>1. \A u \in Writers : tx'[u].batch \subseteq tx[u].batch /\ tx'[u].rows \subseteq tx[u].rows
        OBVIOUS
      <3>2. \A r \in history' : r.event \in tx'[v].batch => r.event \in unsure'
        BY <1>3, <1>14, <2>0, <3>1 DEF OnceInv
      <3> QED
        BY <1>3, <2>0, <3>1, <3>2, SMT DEF OnceInv
    <2> QED
      BY <2>1, <2>2, <2>3 DEF OnceInv
  <1>16. ASSUME NEW t \in Tenants, NEW f, NEW l, LegalRange(t, f, l)
         PROVE  LegalRange(t, f, l)' /\ Exported(t, f, l)' = Exported(t, f, l)
    <2>1. LegalRange(t, f, l)'
      BY <1>3, <1>5, <1>16 DEF LegalRange
    <2>2. PICK q \in Chain(t) : q.seq = l
      BY <1>16 DEF LegalRange
    <2>3. \A r \in Of(y.rows, t) : ~(r.seq <= l)
      BY <1>8, <1>9, <2>2, SMT
    <2>4. Exported(t, f, l)' = {r \in Chain(t)' : f <= r.seq /\ r.seq <= l}
      BY DEF Exported
    <2> QED
      BY <1>5, <2>1, <2>3, <2>4 DEF Exported
  <1>17. CursorInv'
    <2> SUFFICES ASSUME NEW t \in Tenants
                 PROVE  /\ anchor[t].first <= cursor[t].exported + 1
                        /\ cursor[t].exported # 0 =>
                              \E r \in Chain(t)' : r.seq = cursor[t].exported
                        /\ cursor[t].first # 0 =>
                              /\ cursor[t].first = cursor[t].exported + 1
                              /\ LegalRange(t, cursor[t].first, cursor[t].last)'
                        /\ \A r \in Chain(t)' : r.seq <= cursor[t].exported =>
                              \E o \in bucket : r \in o.records
      BY <1>3 DEF CursorInv
    <2>1. /\ anchor[t].first <= cursor[t].exported + 1
          /\ cursor[t].exported # 0 => \E r \in Chain(t) : r.seq = cursor[t].exported
          /\ cursor[t].first # 0 => /\ cursor[t].first = cursor[t].exported + 1
                                    /\ LegalRange(t, cursor[t].first, cursor[t].last)
          /\ \A r \in Chain(t) : r.seq <= cursor[t].exported => \E o \in bucket : r \in o.records
      BY DEF AuditInv, CursorInv
    <2>2. cursor[t].exported \in Nat /\ anchor[t].first \in Nat \ {0}
      BY <1>1 DEF TypeOK
    <2>3. \A r \in Of(y.rows, t) : ~(r.seq <= cursor[t].exported)
      <3> SUFFICES ASSUME NEW r \in Of(y.rows, t) PROVE ~(r.seq <= cursor[t].exported)
        OBVIOUS
      <3>1. r.seq \in Nat /\ anchor[t].first <= r.seq /\ \A q \in Chain(t) : q.seq < r.seq
        BY <1>8
      <3>2. CASE cursor[t].exported # 0
        <4>1. cursor[t].exported < r.seq
          BY <2>1, <3>1, <3>2
        <4> QED
          BY <2>2, <3>1, <4>1, SMT
      <3>3. CASE cursor[t].exported = 0
        BY <2>2, <3>1, <3>3, SMT
      <3> QED
        BY <3>2, <3>3
    <2> QED
      BY <1>3, <1>5, <1>16, <2>1, <2>3
  <1>18. BucketInv'
    <2>1. \A o \in bucket : o.tenant \in Tenants
      BY <1>1 DEF TypeOK
    <2> QED
      BY <1>3, <1>16, <2>1, SMT DEF AuditInv, BucketInv
  <1>19. ExporterInv'
    BY <1>3, <1>16, SMT DEF AuditInv, ExporterInv, Named
  <1>20. PruneInv'
    <2>1. \A p \in Pruners : prune[p].at = "locked" => prune[p].tenant \notin y.held
      BY DEF AuditInv, LockInv
    <2>2. \A p \in Pruners : prune[p].at = "locked" =>
             Of(log', prune[p].tenant) = Of(log, prune[p].tenant)
      BY <1>6, <1>7, <2>1
    <2> QED
      BY <1>3, <2>2 DEF AuditInv, PruneInv
  <1>21. VerifyInv'
    BY <1>3, VerifyFrame DEF AuditInv
  <1> QED
    BY <1>4, <1>10, <1>11, <1>13, <1>15, <1>17, <1>18, <1>19, <1>20, <1>21 DEF AuditInv

LEMMA CommitKeeps ==
    ASSUME AuditInv, NEW w \in Writers, Commit(w) \/ CommitUnanswered(w)
    PROVE  AuditInv'
  <1> DEFINE b == tx[w].batch
             f == [NoTx EXCEPT !.at = "failed", !.batch = b]
  <1>1. TypeOK /\ b \in SUBSET Events
    BY TxFields DEF AuditInv
  <1>2. /\ f \in Tx /\ f.held = {} /\ f.rows = {} /\ f.batch = b
        /\ NoTx \in Tx /\ NoTx.held = {} /\ NoTx.rows = {} /\ NoTx.batch = {}
    BY <1>1, TxValues
  <1>3. Inserted(w) /\ (Fault \/ NoFault)
    BY DEF Commit, CommitUnanswered
  <1>4. faults' \in 0..MaxFaults
    BY <1>1, <1>3, FaultsTyped DEF TypeOK
  <1>5. CASE Commit(w)
    <2>1. tx' = [tx EXCEPT ![w] = NoTx] /\ unsure' = unsure
      BY <1>5 DEF Commit
    <2>2. tx' \in [Writers -> Tx] /\ tx'[w] = NoTx /\ \A v \in Writers \ {w} : tx'[v] = tx[v]
      BY <1>1, <1>2, <2>1, TxReplaced
    <2> QED
      BY <1>2, <1>3, <1>4, <2>1, <2>2, InsertKeeps
  <1>6. CASE CommitUnanswered(w)
    <2>1. tx' = [tx EXCEPT ![w] = f] /\ unsure' = unsure \cup b
      BY <1>6 DEF CommitUnanswered, Failed
    <2> HIDE DEF f
    <2>2. tx' \in [Writers -> Tx] /\ tx'[w] = f /\ \A v \in Writers \ {w} : tx'[v] = tx[v]
      BY <1>1, <1>2, <2>1, TxReplaced
    <2> QED
      BY <1>2, <1>3, <1>4, <2>1, <2>2, InsertKeeps
  <1> QED
    BY <1>5, <1>6

-----------------------------------------------------------------------------
(* The steps of an exporter.                                               *)

LEMMA ExportFields ==
    ASSUME TypeOK, NEW x \in Exporters
    PROVE  /\ export[x] \in Export /\ export[x].first \in Nat /\ export[x].last \in Nat
           /\ export[x].records \in SUBSET Row
  BY DEF TypeOK, Export

LEMMA CursorFields ==
    ASSUME TypeOK, NEW t \in Tenants
    PROVE  /\ cursor[t].exported \in Nat /\ cursor[t].first \in Nat /\ cursor[t].last \in Nat
           /\ anchor[t].first \in Nat \ {0} /\ anchor[t].prev \in Hashes
  BY DEF TypeOK

LEMMA ChainFields ==
    ASSUME TypeOK, NEW t
    PROVE  \A r \in Chain(t) : r \in Row /\ r.seq \in Nat /\ r.tenant = t
  BY RowFields DEF TypeOK, Chain, Of

\* An exporter that stops leaves the range pending.
LEMMA ExportReset ==
    ASSUME AuditInv, NEW x \in Exporters, export' = [export EXCEPT ![x] = NoExport],
           faults' \in 0..MaxFaults,
           UNCHANGED <<Tables, clock, tx, prune, verify, new, history, unsure>>
    PROVE  AuditInv'
  <1>1. UNCHANGED <<log, anchor, cursor, bucket, months>>
    BY DEF Tables
  <1>2. NoExport \in Export /\ NoExport.at = "idle"
    BY DEF NoExport, Export
  <1>3. /\ export' \in [Exporters -> Export] /\ export'[x].at = "idle"
        /\ \A z \in Exporters \ {x} : export'[z] = export[z]
    BY <1>2 DEF AuditInv, TypeOK
  <1>4. TypeOK'
    BY <1>1, <1>3 DEF AuditInv, TypeOK
  <1>5. CursorInv' /\ BucketInv'
    BY <1>1, CursorFrame, BucketFrame DEF AuditInv
  <1>6. \A t, f, l : LegalRange(t, f, l)' = LegalRange(t, f, l)
    BY <1>1, SMT DEF LegalRange, Chain
  <1>7. \A t, f, l : Exported(t, f, l)' = Exported(t, f, l) /\ Named(t, f, l)' = Named(t, f, l)
    BY <1>1 DEF Exported, Named, Chain
  <1>8. ExporterInv'
    BY <1>1, <1>3, <1>6, <1>7 DEF AuditInv, ExporterInv
  <1>9. \A t \in Tenants : cursor'[t].exported >= cursor[t].exported
    BY <1>1, CursorFields, SMT DEF AuditInv
  <1> QED
    BY <1>1, <1>4, <1>5, <1>8, <1>9, ExporterOnly

LEMMA ExportFailsKeeps ==
    ASSUME AuditInv, NEW x \in Exporters, ExportFails(x)
    PROVE  AuditInv'
  <1>1. faults' \in 0..MaxFaults
    BY FaultsTyped DEF AuditInv, TypeOK, ExportFails
  <1> QED
    BY <1>1, ExportReset DEF ExportFails

\* A new range starts right after the export position: retention has not gone
\* past the position, and the chain has no gap.
LEMMA NextRangeStarts ==
    ASSUME AuditInv, NEW t \in Tenants, NEW lo \in Unexported(t), NEW hi \in Unexported(t),
           NextRange(t, lo, hi)
    PROVE  /\ lo \in Nat /\ hi \in Nat /\ lo = cursor[t].exported + 1 /\ lo <= hi
           /\ \E r \in Chain(t) : r.seq = hi
  <1>1. /\ Linked(Chain(t))
        /\ Of(log, t) = {r \in Chain(t) : anchor[t].first <= r.seq}
        /\ anchor[t].first <= cursor[t].exported + 1
    BY DEF AuditInv, StoredInv, CursorInv
  <1>2. /\ cursor[t].exported \in Nat /\ anchor[t].first \in Nat
        /\ \A r \in Chain(t) : r.seq \in Nat
    BY CursorFields, ChainFields DEF AuditInv
  <1>3. \A s \in Unexported(t) : /\ s \in Nat /\ s > cursor[t].exported /\ lo <= s
                                 /\ \E r \in Chain(t) : r.seq = s
    BY <1>1, <1>2 DEF Unexported, NextRange
  <1>4. PICK r \in Chain(t) : r.seq = lo
    BY <1>3
  <1>5. cursor[t].exported + 1 \in 1..r.seq
    BY <1>2, <1>3, <1>4, SMT
  <1>6. PICK q \in Chain(t) : q.seq = cursor[t].exported + 1
    BY <1>1, <1>5 DEF Linked
  <1>7. q \in Of(log, t) /\ q.seq > cursor[t].exported
    BY <1>1, <1>2, <1>6, SMT
  <1>8. cursor[t].exported + 1 \in Unexported(t)
    BY <1>6, <1>7 DEF Unexported
  <1> QED
    BY <1>2, <1>3, <1>8, SMT

LEMMA ClaimKeeps ==
    ASSUME AuditInv, NEW x \in Exporters, NEW t \in Tenants, claimRange(x, t)
    PROVE  AuditInv'
  <1>1. UNCHANGED <<log, anchor, bucket, months, clock, tx, prune, verify, new, history, unsure>>
    BY DEF claimRange
  <1>2. TypeOK /\ CursorInv /\ BucketInv /\ ExporterInv
    BY DEF AuditInv
  <1>3. \A u \in Tenants : cursor[u].exported \in Nat /\ cursor[u].first \in Nat
                           /\ cursor[u].last \in Nat
    BY <1>2, CursorFields
  <1>4. faults' \in 0..MaxFaults
    BY <1>2, FaultsTyped DEF TypeOK, claimRange
  <1>5. ASSUME NEW lo \in Nat, NEW hi \in Nat, Claimed(x, t, lo, hi)
        PROVE  /\ export' \in [Exporters -> Export]
               /\ export'[x].at = "claimed" /\ export'[x].tenant = t
               /\ export'[x].first = lo /\ export'[x].last = hi
               /\ \A z \in Exporters \ {x} : export'[z] = export[z]
    <2> DEFINE c == [at |-> "claimed", tenant |-> t, first |-> lo, last |-> hi, records |-> {}]
    <2>1. c \in Export /\ c.at = "claimed" /\ c.tenant = t /\ c.first = lo /\ c.last = hi
      BY DEF Export
    <2>2. export' = [export EXCEPT ![x] = c]
      BY <1>5 DEF Claimed
    <2> HIDE DEF c
    <2> QED
      BY <1>2, <2>1, <2>2 DEF TypeOK
  <1>6. CASE cursor[t].first # 0 /\ Claimed(x, t, cursor[t].first, cursor[t].last) /\ cursor' = cursor
    <2>1. /\ export' \in [Exporters -> Export]
          /\ export'[x].at = "claimed" /\ export'[x].tenant = t
          /\ export'[x].first = cursor[t].first /\ export'[x].last = cursor[t].last
          /\ \A z \in Exporters \ {x} : export'[z] = export[z]
      BY <1>3, <1>5, <1>6
    <2>2. TypeOK'
      BY <1>1, <1>2, <1>4, <1>6, <2>1 DEF TypeOK
    <2>3. CursorInv' /\ BucketInv'
      BY <1>1, <1>2, <1>6, CursorFrame, BucketFrame
    <2>4. \A u, f, l : LegalRange(u, f, l)' = LegalRange(u, f, l)
      BY <1>1, <1>6 DEF LegalRange, Chain
    <2>5. \A u, f, l : Exported(u, f, l)' = Exported(u, f, l) /\ Named(u, f, l)' = Named(u, f, l)
      BY <1>1 DEF Exported, Named, Chain
    <2>6. /\ LegalRange(t, cursor[t].first, cursor[t].last)
          /\ ~(cursor[t].last <= cursor[t].exported)
      <3>1. cursor[t].first = cursor[t].exported + 1 /\ LegalRange(t, cursor[t].first, cursor[t].last)
        BY <1>2, <1>6 DEF CursorInv
      <3>2. cursor[t].first <= cursor[t].last
        BY <3>1 DEF LegalRange
      <3> QED
        <4>1. cursor[t].exported \in Nat /\ cursor[t].last \in Nat
          BY <1>3
        <4>2. ~(cursor[t].last <= cursor[t].exported)
          BY <3>1, <3>2, <4>1, SMT
        <4> QED
          BY <3>1, <4>2
    <2>7. ExporterInv'
      <3> SUFFICES ASSUME NEW z \in Exporters, export'[z].at # "idle"
                   PROVE  LET d == export'[z] IN
                          /\ d.tenant \in Tenants /\ LegalRange(d.tenant, d.first, d.last)
                          /\ (d.last <= cursor[d.tenant].exported \/ d.at = "put")
                                => Named(d.tenant, d.first, d.last)
                          /\ d.at # "claimed" => d.records = Exported(d.tenant, d.first, d.last)
        BY <1>6, <2>4, <2>5 DEF ExporterInv
      <3>1. CASE z = x
        BY <2>1, <2>6, <3>1
      <3>2. CASE z # x
        BY <1>2, <2>1, <3>2 DEF ExporterInv
      <3> QED
        BY <3>1, <3>2
    <2>8. \A u \in Tenants : cursor'[u].exported >= cursor[u].exported
      BY <1>3, <1>6, SMT
    <2> QED
      BY <1>1, <2>2, <2>3, <2>7, <2>8, ExporterOnly
  <1>7. CASE /\ cursor[t].first = 0
             /\ \E lo, hi \in Unexported(t) :
                   /\ NextRange(t, lo, hi)
                   /\ cursor' = [cursor EXCEPT ![t].first = lo, ![t].last = hi]
                   /\ Claimed(x, t, lo, hi)
    <2>1. PICK lo \in Unexported(t), hi \in Unexported(t) :
             /\ NextRange(t, lo, hi)
             /\ cursor' = [cursor EXCEPT ![t].first = lo, ![t].last = hi]
             /\ Claimed(x, t, lo, hi)
      BY <1>7
    <2>2. /\ lo \in Nat /\ hi \in Nat /\ lo = cursor[t].exported + 1 /\ lo <= hi
          /\ \E r \in Chain(t) : r.seq = hi
      BY <2>1, NextRangeStarts
    <2>3. /\ export' \in [Exporters -> Export]
          /\ export'[x].at = "claimed" /\ export'[x].tenant = t
          /\ export'[x].first = lo /\ export'[x].last = hi
          /\ \A z \in Exporters \ {x} : export'[z] = export[z]
      BY <1>5, <2>1, <2>2
    <2>4. /\ cursor' \in [Tenants -> [exported : Nat, first : Nat, last : Nat]]
          /\ cursor'[t].first = lo /\ cursor'[t].last = hi
          /\ \A u \in Tenants : cursor'[u].exported = cursor[u].exported
          /\ \A u \in Tenants \ {t} : cursor'[u] = cursor[u]
      BY <1>2, <2>1, <2>2 DEF TypeOK
    <2>5. TypeOK'
      BY <1>1, <1>2, <1>4, <2>3, <2>4 DEF TypeOK
    <2>6. \A u : Chain(u)' = Chain(u)
      BY <1>1 DEF Chain
    <2>7. \A u \in Tenants : \A f, l : LegalRange(u, f, l) => LegalRange(u, f, l)'
      BY <1>3, <1>7, <2>4, <2>6, SMT DEF LegalRange
    <2>8. \A u, f, l : Exported(u, f, l)' = Exported(u, f, l) /\ Named(u, f, l)' = Named(u, f, l)
      BY <1>1 DEF Exported, Named, Chain
    <2>9. LegalRange(t, lo, hi)'
      BY <1>3, <2>2, <2>4, <2>6, SMT DEF LegalRange
    <2>10. CursorInv'
      <3> SUFFICES ASSUME NEW u \in Tenants
                   PROVE  /\ anchor[u].first <= cursor[u].exported + 1
                          /\ cursor[u].exported # 0 => \E r \in Chain(u) : r.seq = cursor[u].exported
                          /\ cursor'[u].first # 0 =>
                                /\ cursor'[u].first = cursor[u].exported + 1
                                /\ LegalRange(u, cursor[u].first, cursor[u].last)'
                          /\ \A r \in Chain(u) : r.seq <= cursor[u].exported =>
                                \E o \in bucket : r \in o.records
        BY <1>1, <2>4, <2>6 DEF CursorInv
      <3>1. /\ anchor[u].first <= cursor[u].exported + 1
            /\ cursor[u].exported # 0 => \E r \in Chain(u) : r.seq = cursor[u].exported
            /\ cursor[u].first # 0 => /\ cursor[u].first = cursor[u].exported + 1
                                      /\ LegalRange(u, cursor[u].first, cursor[u].last)
            /\ \A r \in Chain(u) : r.seq <= cursor[u].exported =>
                  \E o \in bucket : r \in o.records
        BY <1>2 DEF CursorInv
      <3>2. cursor'[u].first # 0 => /\ cursor'[u].first = cursor[u].exported + 1
                                    /\ LegalRange(u, cursor[u].first, cursor[u].last)'
        BY <2>2, <2>4, <2>7, <2>9, <3>1
      <3> QED
        BY <3>1, <3>2
    <2>11. BucketInv'
      <3>1. \A o \in bucket : o.tenant \in Tenants
        BY <1>2 DEF TypeOK
      <3> QED
        BY <1>1, <1>2, <2>7, <2>8, <3>1 DEF BucketInv
    <2>12. ExporterInv'
      <3> SUFFICES ASSUME NEW z \in Exporters, export'[z].at # "idle"
                   PROVE  /\ export'[z].tenant \in Tenants
                          /\ LegalRange(export[z].tenant, export[z].first, export[z].last)'
                          /\ (\/ export'[z].last <= cursor'[export'[z].tenant].exported
                              \/ export'[z].at = "put")
                                => Named(export[z].tenant, export[z].first, export[z].last)'
                          /\ export'[z].at # "claimed" =>
                                export'[z].records
                                   = Exported(export[z].tenant, export[z].first, export[z].last)'
        BY DEF ExporterInv
      <3>1. CASE z = x
        <4>1. ~(hi <= cursor'[t].exported)
          <5>1. cursor'[t].exported = cursor[t].exported /\ cursor[t].exported \in Nat
            BY <1>3, <2>4
          <5> QED
            BY <2>2, <5>1, SMT
        <4>2. LegalRange(export[x].tenant, export[x].first, export[x].last)'
          BY <2>3, <2>9
        <4> QED
          BY <2>3, <3>1, <4>1, <4>2
      <3>2. CASE z # x
        <4>1. export'[z] = export[z] /\ export[z].at # "idle"
          BY <2>3, <3>2
        <4>2. /\ export[z].tenant \in Tenants
              /\ LegalRange(export[z].tenant, export[z].first, export[z].last)
              /\ (export[z].last <= cursor[export[z].tenant].exported \/ export[z].at = "put")
                    => Named(export[z].tenant, export[z].first, export[z].last)
              /\ export[z].at # "claimed" =>
                    export[z].records = Exported(export[z].tenant, export[z].first, export[z].last)
          BY <1>2, <4>1 DEF ExporterInv
        <4>3. cursor'[export[z].tenant].exported = cursor[export[z].tenant].exported
          BY <2>4, <4>2
        <4>4. LegalRange(export[z].tenant, export[z].first, export[z].last)'
          BY <2>7, <4>1, <4>2
        <4> QED
          BY <2>8, <4>1, <4>2, <4>3, <4>4
      <3> QED
        BY <3>1, <3>2
    <2>13. \A u \in Tenants : cursor'[u].exported >= cursor[u].exported
      BY <1>3, <2>4, SMT
    <2> QED
      BY <1>1, <2>5, <2>10, <2>11, <2>12, <2>13, ExporterOnly
  <1> QED
    BY <1>6, <1>7 DEF claimRange

LEMMA ReadKeeps ==
    ASSUME AuditInv, NEW x \in Exporters, readRange(x)
    PROVE  AuditInv'
  <1> DEFINE e == export[x]
             records == InRange(e.tenant, e.first, e.last)
  <1>1. UNCHANGED <<Tables, clock, tx, prune, verify, new, history, unsure>> /\ e.at = "claimed"
    BY DEF readRange
  <1>2. TypeOK /\ CursorInv /\ BucketInv /\ ExporterInv
    BY DEF AuditInv
  <1>3. faults' \in 0..MaxFaults
    BY <1>2, FaultsTyped DEF TypeOK, readRange
  <1>4. UNCHANGED <<log, anchor, cursor, bucket, months>>
    BY <1>1 DEF Tables
  <1>5. CASE export' = [export EXCEPT ![x] = NoExport]
    BY <1>1, <1>3, <1>5, ExportReset
  <1>6. CASE /\ checkExportRange(records, e.first, e.last)
             /\ export' = [export EXCEPT ![x].at = "read", ![x].records = records]
    <2>1. e.tenant \in Tenants /\ LegalRange(e.tenant, e.first, e.last)
      BY <1>1, <1>2 DEF ExporterInv
    <2>2. /\ Linked(Chain(e.tenant))
          /\ Of(log, e.tenant) \subseteq Chain(e.tenant)
      BY <2>1 DEF AuditInv, StoredInv
    <2>3. /\ \A r \in Chain(e.tenant) : r \in Row /\ r.seq \in Nat
          /\ e \in Export /\ e.first \in Nat /\ e.last \in Nat
      BY <1>2, ChainFields, ExportFields
    <2>4. records \subseteq Exported(e.tenant, e.first, e.last)
      BY <2>2 DEF InRange, Exported
    <2>5. Exported(e.tenant, e.first, e.last) \subseteq records
      <3> SUFFICES ASSUME NEW r \in Exported(e.tenant, e.first, e.last)
                   PROVE  r \in records
        OBVIOUS
      <3>1. r \in Chain(e.tenant) /\ r.seq \in e.first .. e.last
        BY <2>3, SMT DEF Exported
      <3>2. r.seq \in {q.seq : q \in records}
        BY <1>6, <3>1 DEF checkExportRange
      <3>3. PICK q \in records : q.seq = r.seq
        BY <3>2
      <3>4. q \in Chain(e.tenant)
        BY <2>4 DEF Exported
      <3> QED
        BY <2>2, <3>1, <3>3, <3>4 DEF Linked
    <2>6. records = Exported(e.tenant, e.first, e.last) /\ records \in SUBSET Row
      BY <2>3, <2>4, <2>5 DEF Exported
    <2> HIDE DEF records
    <2>7. /\ export' \in [Exporters -> Export]
          /\ export'[x].at = "read" /\ export'[x].tenant = e.tenant /\ export'[x].records = records
          /\ export'[x].first = e.first /\ export'[x].last = e.last
          /\ \A z \in Exporters \ {x} : export'[z] = export[z]
      BY <1>2, <1>6, <2>3, <2>6 DEF TypeOK, Export
    <2>8. TypeOK'
      BY <1>1, <1>2, <1>3, <1>4, <2>7 DEF TypeOK
    <2>9. CursorInv' /\ BucketInv'
      BY <1>1, <1>2, <1>4, CursorFrame, BucketFrame
    <2>10. \A t, f, l : LegalRange(t, f, l)' = LegalRange(t, f, l)
      BY <1>1, <1>4, SMT DEF LegalRange, Chain
    <2>11. \A t, f, l : Exported(t, f, l)' = Exported(t, f, l) /\ Named(t, f, l)' = Named(t, f, l)
      BY <1>1, <1>4 DEF Exported, Named, Chain
    <2>12. ExporterInv'
      <3> SUFFICES ASSUME NEW z \in Exporters, export'[z].at # "idle"
                   PROVE  LET d == export'[z] IN
                          /\ d.tenant \in Tenants /\ LegalRange(d.tenant, d.first, d.last)
                          /\ (d.last <= cursor[d.tenant].exported \/ d.at = "put")
                                => Named(d.tenant, d.first, d.last)
                          /\ d.at # "claimed" => d.records = Exported(d.tenant, d.first, d.last)
        BY <1>4, <2>10, <2>11 DEF ExporterInv
      <3>1. CASE z = x
        <4>1. e.last <= cursor[e.tenant].exported => Named(e.tenant, e.first, e.last)
          BY <1>1, <1>2 DEF ExporterInv
        <4> QED
          BY <2>1, <2>6, <2>7, <3>1, <4>1
      <3>2. CASE z # x
        BY <1>2, <2>7, <3>2 DEF ExporterInv
      <3> QED
        BY <3>1, <3>2
    <2>13. \A t \in Tenants : cursor'[t].exported >= cursor[t].exported
      BY <1>2, <1>4, CursorFields, SMT
    <2> QED
      BY <1>1, <1>4, <2>8, <2>9, <2>12, <2>13, ExporterOnly
  <1> QED
    BY <1>5, <1>6 DEF readRange

\* A second write of a name changes nothing.
LEMMA PutKeeps ==
    ASSUME AuditInv, NEW x \in Exporters, PutLocked(x)
    PROVE  AuditInv'
  <1> DEFINE e == export[x]
             o == [tenant |-> e.tenant, first |-> e.first, last |-> e.last, records |-> e.records]
             Same(p) == p.tenant = e.tenant /\ p.first = e.first /\ p.last = e.last
  <1>1. UNCHANGED <<log, anchor, cursor, months, clock, tx, prune, verify, new, history, unsure>>
    BY DEF PutLocked
  <1>2. TypeOK /\ CursorInv /\ BucketInv /\ ExporterInv
    BY DEF AuditInv
  <1>3. faults' \in 0..MaxFaults
    BY <1>2, FaultsTyped DEF TypeOK, PutLocked
  <1>4. /\ e.at = "read" /\ e.tenant \in Tenants /\ LegalRange(e.tenant, e.first, e.last)
        /\ e.records = Exported(e.tenant, e.first, e.last)
        /\ e.last <= cursor[e.tenant].exported => Named(e.tenant, e.first, e.last)
    BY <1>2 DEF PutLocked, ExporterInv
  <1>5. e \in Export /\ e.first \in Nat /\ e.last \in Nat /\ e.records \in SUBSET Row
    BY <1>2, ExportFields
  <1>6. bucket' = {p \in bucket : ~Same(p)} \cup {o}
    BY DEF PutLocked
  <1>7. /\ o \in [tenant : Tenants, first : Nat, last : Nat, records : SUBSET Row] /\ Same(o)
        /\ o.records = e.records
    BY <1>4, <1>5
  <1>8. \A p \in bucket : Same(p) => p.records = o.records
    BY <1>2, <1>4, <1>7 DEF BucketInv
  <1>9. /\ export' \in [Exporters -> Export]
        /\ export'[x].at = "put" /\ export'[x].tenant = e.tenant /\ export'[x].records = e.records
        /\ export'[x].first = e.first /\ export'[x].last = e.last
        /\ \A z \in Exporters \ {x} : export'[z] = export[z]
    BY <1>2, <1>5 DEF TypeOK, Export, PutLocked
  <1> HIDE DEF o
  <1>10. TypeOK'
    BY <1>1, <1>2, <1>3, <1>6, <1>7, <1>9 DEF TypeOK
  <1>11. \A t, f, l : /\ LegalRange(t, f, l)' = LegalRange(t, f, l)
                      /\ Exported(t, f, l)' = Exported(t, f, l)
    BY <1>1, SMT DEF LegalRange, Exported, Chain
  <1>12. \A r : (\E p \in bucket : r \in p.records) => \E p \in bucket' : r \in p.records
    BY <1>6, <1>8
  <1>13. \A t, f, l : Named(t, f, l) => Named(t, f, l)'
    BY <1>6, <1>7 DEF Named
  <1>14. Named(e.tenant, e.first, e.last)'
    <2>1. o \in bucket' /\ Same(o)
      BY <1>6, <1>7
    <2>2. \E p \in bucket' : p.tenant = e.tenant /\ p.first = e.first /\ p.last = e.last
      BY <2>1
    <2>3. PICK t, f, l : t = e.tenant /\ f = e.first /\ l = e.last
      OBVIOUS
    <2>4. Named(t, f, l)'
      BY <2>2, <2>3 DEF Named
    <2> QED
      BY <1>9, <2>3, <2>4
  <1>15. CursorInv'
    BY <1>1, <1>2, <1>11, <1>12 DEF CursorInv, Chain
  <1>16. BucketInv'
    <2>1. \A p \in bucket' : /\ LegalRange(p.tenant, p.first, p.last)
                             /\ p.records = Exported(p.tenant, p.first, p.last)
      BY <1>2, <1>4, <1>6, <1>7 DEF BucketInv
    <2>2. \A p \in bucket : p.tenant = e.tenant =>
             \/ Same(p)
             \/ p.last < e.first
             \/ e.last < p.first
      <3>1. CASE e.last <= cursor[e.tenant].exported
        <4>1. PICK q \in bucket : Same(q)
          BY <1>4, <3>1 DEF Named
        <4> QED
          BY <1>2, <4>1 DEF BucketInv
      <3>2. CASE ~(e.last <= cursor[e.tenant].exported)
        <4>1. /\ e.first = cursor[e.tenant].first /\ e.last = cursor[e.tenant].last
              /\ e.first = cursor[e.tenant].exported + 1
          <5>1. /\ 0 < e.first /\ e.first = cursor[e.tenant].first
                /\ e.last = cursor[e.tenant].last
            BY <1>4, <3>2 DEF LegalRange
          <5>2. e.first # 0
            BY <1>5, <5>1, SMT
          <5> QED
            BY <1>2, <1>4, <5>1, <5>2 DEF CursorInv
        <4>2. \A p \in bucket : p.last \in Nat /\ p.first \in Nat
          BY <1>2 DEF TypeOK
        <4>3. cursor[e.tenant].exported \in Nat
          BY <1>2, <1>4, CursorFields
        <4>4. \A p \in bucket : p.tenant = e.tenant =>
                 p.last <= cursor[e.tenant].exported \/ Same(p)
          BY <1>2, <4>1 DEF BucketInv, LegalRange
        <4> QED
          <5> SUFFICES ASSUME NEW p \in bucket, p.last <= cursor[e.tenant].exported
                       PROVE  p.last < e.first
            BY <4>4
          <5>1. p.last \in Nat
            BY <4>2
          <5> QED
            BY <4>1, <4>3, <5>1, SMT
      <3> QED
        BY <3>1, <3>2
    <2>3. \A p, q \in bucket' : p.tenant = q.tenant =>
             \/ p.first = q.first /\ p.last = q.last
             \/ p.last < q.first
             \/ q.last < p.first
      BY <1>2, <1>6, <1>7, <2>2, SMT DEF BucketInv
    <2> QED
      BY <1>11, <2>1, <2>3 DEF BucketInv
  <1>17. ExporterInv'
    <2> SUFFICES ASSUME NEW z \in Exporters, export'[z].at # "idle"
                 PROVE  LET d == export'[z] IN
                        /\ d.tenant \in Tenants /\ LegalRange(d.tenant, d.first, d.last)
                        /\ (d.last <= cursor[d.tenant].exported \/ d.at = "put")
                              => Named(export[z].tenant, export[z].first, export[z].last)'
                        /\ d.at # "claimed" => d.records = Exported(d.tenant, d.first, d.last)
      BY <1>1, <1>11 DEF ExporterInv
    <2>1. CASE z = x
      BY <1>4, <1>9, <1>14, <2>1
    <2>2. CASE z # x
      BY <1>2, <1>9, <1>13, <2>2 DEF ExporterInv
    <2> QED
      BY <2>1, <2>2
  <1>18. \A t \in Tenants : cursor'[t].exported >= cursor[t].exported
    BY <1>1, <1>2, CursorFields, SMT
  <1> QED
    BY <1>1, <1>10, <1>15, <1>16, <1>17, <1>18, ExporterOnly

LEMMA AdvanceKeeps ==
    ASSUME AuditInv, NEW x \in Exporters, Advance(x)
    PROVE  AuditInv'
  <1> DEFINE e == export[x]
             t == e.tenant
  <1>1. /\ UNCHANGED <<log, anchor, bucket, months, clock, tx, prune, verify, new, history, unsure>>
        /\ export' = [export EXCEPT ![x] = NoExport] /\ e.at = "put"
    BY DEF Advance
  <1>2. TypeOK /\ CursorInv /\ BucketInv /\ ExporterInv
    BY DEF AuditInv
  <1>3. faults' \in 0..MaxFaults
    BY <1>2, FaultsTyped DEF TypeOK, Advance
  <1>4. CASE cursor' = cursor
    <2>1. UNCHANGED <<Tables, clock, tx, prune, verify, new, history, unsure>>
      BY <1>1, <1>4 DEF Tables
    <2> QED
      BY <1>1, <1>3, <2>1, ExportReset
  <1>5. CASE /\ cursor[t].first = e.first /\ cursor[t].last = e.last
             /\ cursor' = [cursor EXCEPT ![t] = [exported |-> e.last, first |-> 0, last |-> 0]]
    <2>1. t \in Tenants /\ LegalRange(t, e.first, e.last) /\ Named(t, e.first, e.last)
      BY <1>1, <1>2 DEF ExporterInv
    <2>2. /\ e.first \in Nat /\ e.last \in Nat
          /\ \A u \in Tenants : /\ cursor[u].exported \in Nat /\ anchor[u].first \in Nat
                                /\ cursor[u].first \in Nat /\ cursor[u].last \in Nat
          /\ \A u : \A r \in Chain(u) : r.seq \in Nat
      BY <1>2, ExportFields, CursorFields, ChainFields
    <2>3. /\ e.first = cursor[t].exported + 1 /\ 0 < e.first /\ e.first <= e.last
          /\ \E r \in Chain(t) : r.seq = e.last
      <3>1. 0 < e.first /\ e.first <= e.last /\ \E r \in Chain(t) : r.seq = e.last
        BY <2>1 DEF LegalRange
      <3>2. e.first # 0
        BY <2>2, <3>1, SMT
      <3> QED
        BY <1>2, <1>5, <2>1, <3>1, <3>2 DEF CursorInv
    <2>3a. cursor[t].exported <= e.last /\ cursor[t].exported + 1 <= e.last + 1 /\ e.last \in Nat
      <3>1. ASSUME NEW a \in Nat, NEW b \in Nat, a + 1 <= b PROVE a <= b /\ a + 1 <= b + 1
        BY <3>1, SMT
      <3>2. cursor[t].exported \in Nat /\ e.last \in Nat
        BY <2>1, <2>2
      <3>3. cursor[t].exported + 1 <= e.last
        BY <2>3
      <3> QED
        BY <3>1, <3>2, <3>3
    <2>4. /\ cursor' \in [Tenants -> [exported : Nat, first : Nat, last : Nat]]
          /\ cursor'[t].exported = e.last /\ cursor'[t].first = 0
          /\ \A u \in Tenants \ {t} : cursor'[u] = cursor[u]
      BY <1>2, <1>5, <2>1, <2>2 DEF TypeOK
    <2>5. NoExport \in Export /\ NoExport.at = "idle"
      BY DEF NoExport, Export
    <2>6. /\ export' \in [Exporters -> Export] /\ export'[x].at = "idle"
          /\ \A z \in Exporters \ {x} : export'[z] = export[z]
      BY <1>1, <1>2, <2>5 DEF TypeOK
    <2>7. TypeOK'
      BY <1>1, <1>2, <1>3, <2>4, <2>6 DEF TypeOK
    <2>8. \A u : Chain(u)' = Chain(u)
      BY <1>1 DEF Chain
    <2>9. \A u \in Tenants : cursor'[u].exported >= cursor[u].exported
      <3>1. \A a \in Nat : a >= a
        BY SMT
      <3>2. \A a, b \in Nat : a <= b => b >= a
        BY SMT
      <3> QED
        BY <2>1, <2>2, <2>3a, <2>4, <3>1, <3>2
    <2>10. ASSUME NEW u \in Tenants, NEW f \in Nat, NEW l \in Nat, LegalRange(u, f, l)
           PROVE  LegalRange(u, f, l)'
      <3>1. /\ 0 < f /\ f <= l /\ \E r \in Chain(u)' : r.seq = l
            /\ l <= cursor[u].exported \/ (f = cursor[u].first /\ l = cursor[u].last)
        BY <2>8, <2>10 DEF LegalRange
      <3>2. CASE u # t
        <4>1. cursor'[u] = cursor[u]
          BY <2>4, <3>2
        <4> QED
          BY <3>1, <4>1 DEF LegalRange
      <3>3. CASE u = t
        <4>1. l <= cursor[t].exported \/ l = e.last
          BY <1>5, <3>1, <3>3
        <4>2. l <= cursor'[u].exported
          <5>1. cursor[t].exported \in Nat /\ cursor'[u].exported = e.last
            BY <2>1, <2>2, <2>4, <3>3
          <5> QED
            BY <2>3a, <4>1, <5>1, SMT
        <4> QED
          BY <3>1, <4>2 DEF LegalRange
      <3> QED
        BY <3>2, <3>3
    <2>11. \A u, f, l : Exported(u, f, l)' = Exported(u, f, l) /\ Named(u, f, l)' = Named(u, f, l)
      BY <1>1 DEF Exported, Named, Chain
    <2>12. \A r \in Chain(t) : r.seq <= e.last => \E o \in bucket : r \in o.records
      <3>1. PICK o \in bucket : o.tenant = t /\ o.first = e.first /\ o.last = e.last
        BY <2>1 DEF Named
      <3>2. o.records = {r \in Chain(t) : e.first <= r.seq /\ r.seq <= e.last}
        BY <1>2, <3>1 DEF BucketInv, Exported
      <3>3. \A r \in Chain(t) : r.seq <= cursor[t].exported => \E b \in bucket : r \in b.records
        BY <1>2, <2>1 DEF CursorInv
      <3> QED
        <4> SUFFICES ASSUME NEW r \in Chain(t), r.seq <= e.last
                     PROVE  \E b \in bucket : r \in b.records
          OBVIOUS
        <4>1. r.seq \in Nat /\ cursor[t].exported \in Nat
          BY <2>1, <2>2
        <4>2. r.seq <= cursor[t].exported \/ cursor[t].exported + 1 <= r.seq
          BY <4>1, SMT
        <4> QED
          BY <2>3, <3>2, <3>3, <4>2
    <2>13. CursorInv'
      <3> SUFFICES ASSUME NEW u \in Tenants
                   PROVE  /\ anchor[u].first <= cursor'[u].exported + 1
                          /\ cursor'[u].exported # 0 =>
                                \E r \in Chain(u) : r.seq = cursor'[u].exported
                          /\ cursor'[u].first # 0 =>
                                /\ cursor'[u].first = cursor'[u].exported + 1
                                /\ LegalRange(u, cursor[u].first, cursor[u].last)'
                          /\ \A r \in Chain(u) : r.seq <= cursor'[u].exported =>
                                \E o \in bucket : r \in o.records
        BY <1>1, <2>8 DEF CursorInv
      <3>1. /\ anchor[u].first <= cursor[u].exported + 1
            /\ cursor[u].exported # 0 => \E r \in Chain(u) : r.seq = cursor[u].exported
            /\ cursor[u].first # 0 => /\ cursor[u].first = cursor[u].exported + 1
                                      /\ LegalRange(u, cursor[u].first, cursor[u].last)
            /\ \A r \in Chain(u) : r.seq <= cursor[u].exported =>
                  \E o \in bucket : r \in o.records
        BY <1>2 DEF CursorInv
      <3>2. CASE u = t
        <4>1. anchor[t].first <= e.last + 1
          <5>1. anchor[t].first \in Nat /\ cursor[t].exported \in Nat /\ e.last \in Nat
            BY <2>1, <2>2
          <5>2. anchor[t].first <= cursor[t].exported + 1
            BY <3>1, <3>2
          <5> QED
            BY <2>3a, <5>1, <5>2, SMT
        <4> QED
          BY <2>3, <2>4, <2>12, <3>2, <4>1
      <3>3. CASE u # t
        <4>1. cursor'[u] = cursor[u]
          BY <2>4, <3>3
        <4>2. cursor[u].first # 0 => LegalRange(u, cursor[u].first, cursor[u].last)'
          BY <2>2, <2>10, <3>1, <4>1
        <4> QED
          BY <3>1, <4>1, <4>2
      <3> QED
        BY <3>2, <3>3
    <2>14. BucketInv'
      <3>1. \A o \in bucket : o.tenant \in Tenants /\ o.first \in Nat /\ o.last \in Nat
        BY <1>2 DEF TypeOK
      <3> QED
        BY <1>1, <1>2, <2>10, <2>11, <3>1 DEF BucketInv
    <2>15. ExporterInv'
      <3> SUFFICES ASSUME NEW z \in Exporters, z # x, export[z].at # "idle"
                   PROVE  LET d == export[z] IN
                          /\ d.tenant \in Tenants
                          /\ LegalRange(export[z].tenant, export[z].first, export[z].last)'
                          /\ (d.last <= cursor'[d.tenant].exported \/ d.at = "put")
                                => Named(d.tenant, d.first, d.last)
                          /\ d.at # "claimed" => d.records = Exported(d.tenant, d.first, d.last)
        BY <2>6, <2>11 DEF ExporterInv
      <3> DEFINE d == export[z]
      <3>1. /\ d.tenant \in Tenants /\ LegalRange(d.tenant, d.first, d.last)
            /\ (d.last <= cursor[d.tenant].exported \/ d.at = "put")
                  => Named(d.tenant, d.first, d.last)
            /\ d.at # "claimed" => d.records = Exported(d.tenant, d.first, d.last)
        BY <1>2 DEF ExporterInv
      <3>2. d.first \in Nat /\ d.last \in Nat /\ export'[z] = export[z]
        BY <1>2, <2>6, ExportFields
      <3>3. LegalRange(export[z].tenant, export[z].first, export[z].last)'
        BY <2>10, <3>1, <3>2
      <3>4. d.last <= cursor'[d.tenant].exported => Named(d.tenant, d.first, d.last)
        <4>1. CASE d.tenant = t
          <5>1. d.last <= cursor[t].exported \/ (d.first = e.first /\ d.last = e.last)
            BY <1>5, <3>1, <4>1 DEF LegalRange
          <5> QED
            BY <2>1, <3>1, <4>1, <5>1
        <4>2. CASE d.tenant # t
          BY <2>4, <3>1, <4>2
        <4> QED
          BY <4>1, <4>2
      <3> QED
        BY <3>1, <3>3, <3>4
    <2> QED
      BY <1>1, <2>7, <2>9, <2>13, <2>14, <2>15, ExporterOnly
  <1> QED
    BY <1>4, <1>5 DEF Advance

-----------------------------------------------------------------------------
(* The steps of retention, of the clock and of the tenant admin.           *)

\* A step that moves no row: LockInv and PruneInv are left to show.
LEMMA PrunerOnly ==
    ASSUME AuditInv, TypeOK',
           UNCHANGED <<log, anchor, cursor, bucket, tx, export, verify, new, history, unsure>>,
           LockInv', PruneInv'
    PROVE  AuditInv'
  BY StoredFrame, TxFrame, OnceFrame, CursorFrame, BucketFrame, ExporterFrame, VerifyFrame
     DEF AuditInv

LEMMA PruneReset ==
    ASSUME TypeOK, NEW p \in Pruners, prune' = [prune EXCEPT ![p] = NoPrune]
    PROVE  /\ prune' \in [Pruners -> Prune] /\ prune'[p].at = "idle"
           /\ \A o \in Pruners \ {p} : prune'[o] = prune[o]
  <1>1. NoPrune \in Prune /\ NoPrune.at = "idle"
    BY SMT DEF NoPrune, Prune, Genesis, Hashes
  <1> QED
    BY <1>1 DEF TypeOK

LEMMA PruneFailsKeeps ==
    ASSUME AuditInv, NEW p \in Pruners, PruneFails(p)
    PROVE  AuditInv'
  <1>1. /\ UNCHANGED <<log, anchor, cursor, bucket, months, clock, tx, export, verify, new, history,
                       unsure>>
        /\ prune' = [prune EXCEPT ![p] = NoPrune]
    BY DEF PruneFails, Tables
  <1>2. /\ prune' \in [Pruners -> Prune] /\ prune'[p].at = "idle"
        /\ \A o \in Pruners \ {p} : prune'[o] = prune[o]
    BY <1>1, PruneReset DEF AuditInv
  <1>3. faults' \in 0..MaxFaults
    BY FaultsTyped DEF AuditInv, TypeOK, PruneFails
  <1>4. TypeOK'
    BY <1>1, <1>2, <1>3 DEF AuditInv, TypeOK
  <1>5. LockInv'
    BY <1>1, <1>2, SMT DEF AuditInv, LockInv
  <1>6. PruneInv'
    BY <1>1, <1>2 DEF AuditInv, PruneInv
  <1> QED
    BY <1>1, <1>4, <1>5, <1>6, PrunerOnly

\* The period of a tenant is at least that of the install.
LEMMA PeriodBounds ==
    ASSUME TypeOK, NEW t \in Tenants
    PROVE  periodOfTenant(t) \in Nat /\ periodOfTenant(t) >= InstallMonths
  <1>1. months[t] \in TenantMonths \cup {0}
    BY DEF TypeOK
  <1>2. InstallMonths \in Nat /\ \A m \in TenantMonths : m \in Nat
    BY AuditAssumption, Zenon
  <1>3. months[t] \in Nat
    BY <1>1, <1>2, SMT
  <1> QED
    BY <1>2, <1>3, SMT DEF periodOfTenant

LEMMA PruneReadKeeps ==
    ASSUME AuditInv, NEW p \in Pruners, NEW t \in Tenants, PruneRead(p, t)
    PROVE  AuditInv'
  <1>1. /\ UNCHANGED <<log, anchor, cursor, bucket, months, clock, tx, export, verify, new, history,
                       unsure>>
        /\ ~Locked(t)
    BY DEF PruneRead, Tables
  <1>2. TypeOK /\ LockInv /\ PruneInv
    BY DEF AuditInv
  <1>3. PICK r \in Old(t) :
          prune' = [prune EXCEPT ![p] = [at |-> "locked", tenant |-> t, last |-> r.seq,
                                         hash |-> r.hash]]
    BY DEF PruneRead
  <1> DEFINE c == [at |-> "locked", tenant |-> t, last |-> r.seq, hash |-> r.hash]
  <1>4. /\ r \in Of(log, t) /\ r.seq <= cursor[t].exported /\ r.seq \in Nat /\ r.hash \in Hashes
        /\ \A q \in Of(log, t) : q.at >= clock - periodOfTenant(t) => r.seq < q.seq
    BY <1>2, RowFields DEF Old, Of, TypeOK
  <1>5. c \in Prune /\ c.at = "locked" /\ c.tenant = t /\ c.last = r.seq /\ c.hash = r.hash
    BY <1>4 DEF Prune
  <1>6. prune' = [prune EXCEPT ![p] = c]
    BY <1>3
  <1> HIDE DEF c
  <1>7. prune' \in [Pruners -> Prune] /\ prune'[p] = c /\ \A o \in Pruners \ {p} : prune'[o] = prune[o]
    BY <1>2, <1>5, <1>6 DEF TypeOK
  <1>8. faults' \in 0..MaxFaults
    BY <1>2, FaultsTyped DEF TypeOK, PruneRead
  <1>9. TypeOK'
    BY <1>1, <1>2, <1>7, <1>8 DEF TypeOK
  <1>10. LockInv'
    BY <1>1, <1>2, <1>5, <1>7, SMT DEF LockInv, Locked
  <1>11. \A q \in Of(log, t) : q.seq <= r.seq => q.at < clock - InstallMonths
    <2>1. \A q \in Of(log, t) : q.seq \in Nat /\ q.at \in Nat
      BY <1>2, RowFields DEF Of, TypeOK
    <2>2. /\ clock \in Nat /\ InstallMonths \in Nat
          /\ periodOfTenant(t) \in Nat /\ periodOfTenant(t) >= InstallMonths
      BY <1>2, AuditAssumption, PeriodBounds DEF TypeOK
    <2> QED
      BY <1>4, <2>1, <2>2, SMT
  <1>12. PruneInv'
    <2> SUFFICES ASSUME NEW o \in Pruners, prune'[o].at = "locked"
                 PROVE  LET u == prune'[o].tenant IN
                        /\ u \in Tenants /\ prune'[o].last <= cursor[u].exported
                        /\ \E q \in Of(log, u) : q.seq = prune'[o].last /\ q.hash = prune'[o].hash
                        /\ \A q \in Of(log, u) : q.seq <= prune'[o].last => q.at < clock - InstallMonths
      BY <1>1 DEF PruneInv
    <2>1. CASE o = p
      BY <1>4, <1>5, <1>7, <1>11, <2>1
    <2>2. CASE o # p
      BY <1>2, <1>7, <2>2 DEF PruneInv
    <2> QED
      BY <2>1, <2>2
  <1> QED
    BY <1>1, <1>9, <1>10, <1>12, PrunerOnly

\* The period set by a tenant admin is read by the next PruneTenant.
LEMMA SetMonthsKeeps ==
    ASSUME AuditInv, NEW t \in Tenants, NEW m \in TenantMonths \cup {0}, SetTenantMonths(t, m)
    PROVE  AuditInv'
  <1>1. TypeOK'
    BY FaultsTyped DEF AuditInv, TypeOK, SetTenantMonths
  <1>2. LockInv' /\ PruneInv'
    BY LockFrame, PruneFrame DEF AuditInv, SetTenantMonths
  <1> QED
    BY <1>1, <1>2, PrunerOnly DEF SetTenantMonths

\* What is past the period stays past it.
LEMMA TickKeeps ==
    ASSUME AuditInv, Tick
    PROVE  AuditInv'
  <1>1. /\ UNCHANGED <<log, anchor, cursor, bucket, months, tx, export, prune, verify, new, history,
                       unsure>>
        /\ clock' = clock + 1
    BY DEF Tick, Tables
  <1>2. clock \in Nat /\ clock' \in Nat /\ InstallMonths \in Nat /\ log \subseteq Row
    BY <1>1, AuditAssumption, SMT DEF AuditInv, TypeOK
  <1>3. faults' \in 0..MaxFaults
    BY FaultsTyped DEF AuditInv, TypeOK, Tick
  <1>4. TypeOK'
    BY <1>1, <1>2, <1>3 DEF AuditInv, TypeOK
  <1>5. LockInv'
    BY <1>1, LockFrame DEF AuditInv
  <1>6. \A r \in log : r.at < clock - InstallMonths => r.at < clock' - InstallMonths
    BY <1>1, <1>2, RowFields, SMT
  <1>7. PruneInv'
    BY <1>1, <1>6 DEF AuditInv, PruneInv, Of
  <1> QED
    BY <1>1, <1>4, <1>5, <1>7, PrunerOnly

LEMMA PruneCommitKeeps ==
    ASSUME AuditInv, NEW p \in Pruners, PruneCommit(p)
    PROVE  AuditInv'
  <1> DEFINE t == prune[p].tenant
             l == prune[p].last
  <1>1. /\ UNCHANGED <<cursor, bucket, months, clock, tx, export, verify, new, history, unsure>>
        /\ prune' = [prune EXCEPT ![p] = NoPrune] /\ prune[p].at = "locked"
        /\ anchor' = [anchor EXCEPT ![t] = [first |-> l + 1, prev |-> prune[p].hash]]
        /\ log' = log \ {r \in Of(log, t) : r.seq <= l}
    BY DEF PruneCommit
  <1>2. TypeOK /\ StoredInv /\ LockInv /\ PruneInv /\ VerifyInv
    BY DEF AuditInv
  <1>3. t \in Tenants /\ l <= cursor[t].exported
    BY <1>1, <1>2 DEF PruneInv
  <1>4. PICK last \in Of(log, t) : last.seq = l /\ last.hash = prune[p].hash
    BY <1>1, <1>2 DEF PruneInv
  <1>5. /\ l \in Nat /\ prune[p].hash \in Hashes
        /\ \A u \in Tenants : anchor[u].first \in Nat \ {0} /\ cursor[u].exported \in Nat
        /\ \A u : \A r \in Chain(u) : r.seq \in Nat
    BY <1>2, CursorFields, ChainFields DEF TypeOK, Prune
  <1>6. \A u \in Tenants : Of(log, u) = {r \in Chain(u) : anchor[u].first <= r.seq}
    BY <1>2 DEF StoredInv
  <1>7. last \in Chain(t) /\ anchor[t].first <= l
    BY <1>3, <1>4, <1>6
  <1>8. /\ anchor' \in [Tenants -> [first : Nat \ {0}, prev : Hashes]]
        /\ anchor'[t].first = l + 1 /\ anchor'[t].prev = prune[p].hash
        /\ \A u \in Tenants \ {t} : anchor'[u] = anchor[u]
    BY <1>1, <1>2, <1>3, <1>5, SMT DEF TypeOK
  <1>9. /\ prune' \in [Pruners -> Prune] /\ prune'[p].at = "idle"
        /\ \A o \in Pruners \ {p} : prune'[o] = prune[o]
    BY <1>1, <1>2, PruneReset
  <1>10. faults' \in 0..MaxFaults
    BY <1>2, FaultsTyped DEF TypeOK, PruneCommit
  <1>11. TypeOK'
    BY <1>1, <1>2, <1>8, <1>9, <1>10 DEF TypeOK
  <1>12. \A u : Chain(u)' = Chain(u)
    BY <1>1 DEF Chain
  <1>13. \A u : u # t => Of(log', u) = Of(log, u)
    BY <1>1 DEF Of
  <1>14. Of(log', t) = {r \in Of(log, t) : ~(r.seq <= l)}
    BY <1>1 DEF Of
  <1>15. StoredInv'
    <2> SUFFICES ASSUME NEW u \in Tenants
                 PROVE  /\ Linked(Chain(u))
                        /\ Of(log', u) = {r \in Chain(u) : anchor'[u].first <= r.seq}
                        /\ \/ anchor'[u].first = 1 /\ anchor'[u].prev = Genesis
                           \/ \E r \in Chain(u) : r.seq + 1 = anchor'[u].first
                                                  /\ r.hash = anchor'[u].prev
      BY <1>12, SMT DEF StoredInv, Linked
    <2>1. CASE u # t
      BY <1>2, <1>8, <1>13, <2>1 DEF StoredInv
    <2>2. CASE u = t
      <3>1. Linked(Chain(t))
        BY <1>2, <1>3 DEF StoredInv
      <3>2. Of(log', t) = {r \in Chain(t) : l + 1 <= r.seq}
        <4>1. Of(log', t) = {r \in Chain(t) : anchor[t].first <= r.seq /\ ~(r.seq <= l)}
          BY <1>3, <1>6, <1>14
        <4>2. ASSUME NEW r \in Chain(t)
              PROVE  (anchor[t].first <= r.seq /\ ~(r.seq <= l)) <=> l + 1 <= r.seq
          <5>1. r.seq \in Nat /\ anchor[t].first \in Nat
            BY <1>3, <1>5
          <5>2. l \in Nat /\ anchor[t].first <= l
            BY <1>5, <1>7
          <5> QED
            BY <5>1, <5>2, SMT
        <4> QED
          BY <4>1, <4>2
      <3> QED
        BY <1>4, <1>7, <1>8, <2>2, <3>1, <3>2
    <2> QED
      BY <2>1, <2>2
  <1>16. LockInv'
    BY <1>1, <1>2, <1>9 DEF LockInv
  <1>17. ASSUME NEW w \in Writers PROVE HeldInv(w)' /\ MadeInv(w)' /\ DueInv(w)'
    <2>1. HeldInv(w) /\ MadeInv(w) /\ DueInv(w) /\ tx'[w] = tx[w]
      BY <1>1 DEF AuditInv, TxInv
    <2>2. \A u : ChainIn(w, u)' = ChainIn(w, u)
      BY <1>1 DEF ChainIn
    <2>3. \A u \in tx[w].held : u # t /\ u \in Tenants
      BY <1>1, <1>2, TxFields DEF LockInv
    <2> QED
      BY <1>8, <1>12, <2>1, <2>2, <2>3, TxKept
  <1>18. TxInv'
    BY <1>17 DEF TxInv
  <1>19. OnceInv' /\ BucketInv' /\ ExporterInv'
    BY <1>1, OnceFrame, BucketFrame, ExporterFrame DEF AuditInv
  <1>20. CursorInv'
    <2>1. \A u \in Tenants : anchor'[u].first <= cursor[u].exported + 1
      <3>1. \A u \in Tenants : anchor[u].first <= cursor[u].exported + 1
        BY DEF AuditInv, CursorInv
      <3>2. l + 1 <= cursor[t].exported + 1
        BY <1>3, <1>5, SMT
      <3> QED
        BY <1>8, <3>1, <3>2
    <2>2. \A u, f, k : LegalRange(u, f, k)' = LegalRange(u, f, k)
      BY <1>1, <1>12 DEF LegalRange
    <2> QED
      BY <1>1, <1>12, <2>1, <2>2 DEF AuditInv, CursorInv
  <1>21. PruneInv'
    <2>1. \A o \in Pruners : prune'[o].at = "locked" =>
             prune'[o] = prune[o] /\ Of(log', prune'[o].tenant) = Of(log, prune'[o].tenant)
      BY <1>1, <1>2, <1>9, <1>13 DEF LockInv
    <2> SUFFICES ASSUME NEW o \in Pruners, prune'[o].at = "locked"
                 PROVE  LET u == prune'[o].tenant IN
                        /\ u \in Tenants /\ prune'[o].last <= cursor[u].exported
                        /\ \E q \in Of(log', u) : q.seq = prune'[o].last /\ q.hash = prune'[o].hash
                        /\ \A q \in Of(log', u) : q.seq <= prune'[o].last => q.at < clock - InstallMonths
      BY <1>1 DEF PruneInv
    <2> QED
      BY <1>2, <2>1 DEF PruneInv
  <1>22. VerifyInv'
    <2>1. \A u \in Tenants : anchor'[u].first >= anchor[u].first
                             /\ (anchor'[u].first = anchor[u].first => anchor'[u] = anchor[u])
      BY <1>5, <1>7, <1>8, SMT
    <2>2. /\ verify.first \in Nat
          /\ \A u \in Tenants : anchor[u].first \in Nat /\ anchor'[u].first \in Nat
      BY <1>2, <1>8 DEF TypeOK, Verify
    <2>3. BreakMeansOvertaken'
      <3> SUFFICES ASSUME verify.verdict \notin {"none", "intact"}
                   PROVE  /\ verify.verdict = "missing"
                          /\ anchor'[verify.tenant].first > verify.first
        BY <1>1 DEF BreakMeansOvertaken
      <3>1. /\ verify.tenant \in Tenants /\ verify.verdict = "missing"
            /\ anchor[verify.tenant].first > verify.first
        BY <1>2 DEF VerifyInv, BreakMeansOvertaken
      <3>2. \A a, b, c \in Nat : b >= a /\ a > c => b > c
        BY SMT
      <3> QED
        BY <2>1, <2>2, <3>1, <3>2
    <2>4. verify.at = "anchored" =>
             /\ verify.tenant \in Tenants /\ verify.first <= anchor'[verify.tenant].first
             /\ verify.first = anchor'[verify.tenant].first =>
                   verify.prev = anchor'[verify.tenant].prev
      <3> SUFFICES ASSUME verify.at = "anchored"
                   PROVE  /\ verify.tenant \in Tenants
                          /\ verify.first <= anchor'[verify.tenant].first
                          /\ verify.first = anchor'[verify.tenant].first =>
                                verify.prev = anchor'[verify.tenant].prev
        OBVIOUS
      <3>1. /\ verify.tenant \in Tenants /\ verify.first <= anchor[verify.tenant].first
            /\ verify.first = anchor[verify.tenant].first =>
                  verify.prev = anchor[verify.tenant].prev
        BY <1>2 DEF VerifyInv
      <3> DEFINE a == anchor[verify.tenant].first
                 b == anchor'[verify.tenant].first
      <3>2. a \in Nat /\ b \in Nat /\ verify.first \in Nat /\ b >= a
        BY <2>1, <2>2, <3>1
      <3>3. verify.first <= b /\ (verify.first = b => a = b)
        BY <3>1, <3>2, SMT
      <3> QED
        BY <2>1, <3>1, <3>3
    <2> QED
      BY <1>1, <1>2, <2>3, <2>4 DEF VerifyInv
  <1> QED
    BY <1>11, <1>15, <1>16, <1>18, <1>19, <1>20, <1>21, <1>22 DEF AuditInv

-----------------------------------------------------------------------------
(* The steps of VerifyChain.                                               *)

\* The rows of the table are a run from the anchor on, and its first row points
\* at the hash of the anchor.
LEMMA TableIsARun ==
    ASSUME TypeOK, StoredInv, NEW t \in Tenants
    PROVE  /\ Of(log, t) \in SUBSET Row /\ RunFrom(Of(log, t), anchor[t].first)
           /\ \A r \in Of(log, t) : r.seq = anchor[t].first => r.prev = anchor[t].prev
  <1>1. /\ Linked(Chain(t))
        /\ Of(log, t) = {r \in Chain(t) : anchor[t].first <= r.seq}
        /\ \/ anchor[t].first = 1 /\ anchor[t].prev = Genesis
           \/ \E r \in Chain(t) : r.seq + 1 = anchor[t].first /\ r.hash = anchor[t].prev
    BY DEF StoredInv
  <1>2. Chain(t) \subseteq Row /\ anchor[t].first \in Nat \ {0}
    BY ChainFields, CursorFields
  <1>3. RunFrom(Of(log, t), anchor[t].first)
    BY <1>1, <1>2, LinkedFrom
  <1>4. ASSUME NEW r \in Of(log, t), r.seq = anchor[t].first
        PROVE  r.prev = anchor[t].prev
    <2>1. r \in Chain(t)
      BY <1>1
    <2>2. CASE anchor[t].first = 1 /\ anchor[t].prev = Genesis
      BY <1>1, <1>4, <2>1, <2>2 DEF Linked
    <2>3. CASE \E q \in Chain(t) : q.seq + 1 = anchor[t].first /\ q.hash = anchor[t].prev
      BY <1>1, <1>4, <2>1, <2>3, SMT DEF Linked
    <2> QED
      BY <1>1, <2>2, <2>3
  <1> QED
    BY <1>1, <1>2, <1>3, <1>4

LEMMA VerifyKeeps ==
    ASSUME AuditInv, VerifyRows \/ \E t \in Tenants : VerifyAnchor(t)
    PROVE  AuditInv'
  <1>1. UNCHANGED <<log, anchor, cursor, bucket, months, clock, tx, export, prune, new, history,
                    unsure>>
    BY DEF VerifyRows, VerifyAnchor, Tables
  <1>2. faults' \in 0..MaxFaults
    BY FaultsTyped DEF AuditInv, TypeOK, VerifyRows, VerifyAnchor
  <1>3. verify' \in Verify /\ VerifyInv' => AuditInv'
    <2>1. verify' \in Verify => TypeOK'
      BY <1>1, <1>2 DEF AuditInv, TypeOK
    <2> QED
      BY <1>1, <2>1, StoredFrame, LockFrame, TxFrame, OnceFrame, CursorFrame, BucketFrame,
         ExporterFrame, PruneFrame DEF AuditInv
  <1>4. ASSUME NEW t \in Tenants, VerifyAnchor(t)
        PROVE  verify' \in Verify /\ VerifyInv'
    <2>1. verify' = [at |-> "anchored", tenant |-> t, first |-> anchor[t].first,
                     prev |-> anchor[t].prev, verdict |-> "none"]
      BY <1>4 DEF VerifyAnchor
    <2>2. anchor[t].first \in Nat /\ anchor[t].prev \in Hashes
      BY CursorFields DEF AuditInv
    <2>3. verify' \in Verify
      BY <2>1, <2>2 DEF Verify
    <2>4. /\ verify'.at = "anchored" /\ verify'.tenant = t /\ verify'.first = anchor[t].first
          /\ verify'.prev = anchor[t].prev /\ verify'.verdict = "none"
      BY <2>1
    <2>5. VerifyInv'
      BY <1>1, <2>2, <2>4, SMT DEF VerifyInv, BreakMeansOvertaken
    <2> QED
      BY <2>3, <2>5
  <1>5. CASE VerifyRows
    <2> DEFINE t == verify.tenant
               verdict == ChainReport(Of(log, t), verify.first, verify.prev)
    <2>1. /\ verify.at = "anchored" /\ t \in Tenants /\ verify.first <= anchor[t].first
          /\ verify.first = anchor[t].first => verify.prev = anchor[t].prev
      BY <1>5 DEF VerifyRows, AuditInv, VerifyInv
    <2>2. verify \in Verify /\ verify.first \in Nat /\ anchor[t].first \in Nat
      BY <2>1, CursorFields DEF AuditInv, TypeOK, Verify
    <2>3. /\ Of(log, t) \in SUBSET Row /\ RunFrom(Of(log, t), anchor[t].first)
          /\ \A r \in Of(log, t) : r.seq = anchor[t].first => r.prev = anchor[t].prev
      BY <2>1, TableIsARun DEF AuditInv
    <2>4. /\ verdict \in {"intact", "missing"}
          /\ verdict = "missing" => anchor[t].first > verify.first
      BY <2>1, <2>2, <2>3, ReportOfARun, SMT
    <2>5. verify' = [verify EXCEPT !.at = "done", !.verdict = verdict]
      BY <1>5 DEF VerifyRows
    <2> HIDE DEF verdict
    <2>6. /\ verify' \in Verify /\ verify'.at = "done" /\ verify'.tenant = t
          /\ verify'.first = verify.first /\ verify'.verdict = verdict
      BY <2>2, <2>4, <2>5 DEF Verify
    <2>7. VerifyInv'
      BY <1>1, <2>1, <2>4, <2>6 DEF VerifyInv, BreakMeansOvertaken
    <2> QED
      BY <1>3, <2>6, <2>7
  <1> QED
    BY <1>3, <1>4, <1>5

-----------------------------------------------------------------------------
(* The invariant.                                                          *)

LEMMA AuditInit == Init => AuditInv
  <1> SUFFICES ASSUME Init PROVE AuditInv
    OBVIOUS
  <1>0. Genesis \in Hashes /\ MaxFaults \in Nat
    BY AuditAssumption, SMT DEF Genesis, Hashes
  <1>1. NoTx \in Tx /\ NoTx.at = "idle" /\ NoTx.held = {} /\ NoTx.rows = {} /\ NoTx.batch = {}
    BY <1>0 DEF NoTx, Tx
  <1>2. NoExport \in Export /\ NoExport.at = "idle"
    BY DEF NoExport, Export
  <1>3. NoPrune \in Prune /\ NoPrune.at = "idle"
    BY <1>0 DEF NoPrune, Prune
  <1>4. verify \in Verify /\ verify.at = "idle" /\ verify.verdict = "none"
    BY <1>0 DEF Init, Verify
  <1>5. /\ anchor \in [Tenants -> [first : Nat \ {0}, prev : Hashes]]
        /\ \A t \in Tenants : anchor[t].first = 1 /\ anchor[t].prev = Genesis
    BY <1>0, SMT DEF Init
  <1>6. /\ cursor \in [Tenants -> [exported : Nat, first : Nat, last : Nat]]
        /\ \A t \in Tenants : cursor[t].exported = 0 /\ cursor[t].first = 0
    BY DEF Init
  <1>7. /\ \A w \in Writers : tx[w] = NoTx
        /\ \A x \in Exporters : export[x] = NoExport
        /\ \A p \in Pruners : prune[p] = NoPrune
    BY DEF Init
  <1>8. /\ tx \in [Writers -> Tx] /\ export \in [Exporters -> Export]
        /\ prune \in [Pruners -> Prune]
    BY <1>1, <1>2, <1>3 DEF Init
  <1>9. TypeOK
    <2>1. /\ log \subseteq Row /\ bucket = {} /\ history \subseteq Row
          /\ new \subseteq Events /\ unsure \subseteq Events
      BY DEF Init
    <2>2. /\ clock \in Nat /\ faults \in 0..MaxFaults
          /\ months \in [Tenants -> TenantMonths \cup {0}]
      BY <1>0, SMT DEF Init
    <2> QED
      BY <1>4, <1>5, <1>6, <1>8, <2>1, <2>2 DEF TypeOK
  <1>10. \A t : Chain(t) = {} /\ Of(log, t) = {}
    BY DEF Init, Chain, Of
  <1>11. StoredInv
    BY <1>5, <1>10 DEF StoredInv, Linked
  <1>12. LockInv
    BY <1>1, <1>3, <1>7 DEF LockInv
  <1>13. TxInv
    BY <1>1, <1>7 DEF TxInv, HeldInv, MadeInv, DueInv, Due
  <1>14. OnceInv
    BY <1>1, <1>7 DEF Init, OnceInv, RecordedOnce
  <1>15. CursorInv
    <2>1. 1 <= 0 + 1
      BY SMT
    <2> QED
      BY <1>5, <1>6, <1>10, <2>1 DEF CursorInv
  <1>16. BucketInv /\ ExporterInv /\ PruneInv
    BY <1>2, <1>3, <1>7 DEF Init, BucketInv, ExporterInv, PruneInv
  <1>17. VerifyInv
    BY <1>4 DEF VerifyInv, BreakMeansOvertaken
  <1> QED
    BY <1>9, <1>11, <1>12, <1>13, <1>14, <1>15, <1>16, <1>17 DEF AuditInv

LEMMA AuditStep == AuditInv /\ [Next]_vars => AuditInv'
  <1> SUFFICES ASSUME AuditInv, [Next]_vars PROVE AuditInv'
    OBVIOUS
  <1>1. ASSUME NEW w \in Writers, WriterNext(w) PROVE AuditInv'
    BY <1>1, BeginKeeps, LockChainKeeps, ExtendKeeps, CommitKeeps, RestartKeeps DEF WriterNext
  <1>2. ASSUME NEW x \in Exporters, ExporterNext(x) PROVE AuditInv'
    BY <1>2, ClaimKeeps, ReadKeeps, PutKeeps, AdvanceKeeps, ExportFailsKeeps DEF ExporterNext
  <1>3. ASSUME NEW p \in Pruners, PrunerNext(p) PROVE AuditInv'
    BY <1>3, PruneReadKeeps, PruneCommitKeeps, PruneFailsKeeps DEF PrunerNext
  <1>4. ASSUME NEW t \in Tenants, NEW m \in TenantMonths \cup {0}, SetTenantMonths(t, m)
        PROVE  AuditInv'
    BY <1>4, SetMonthsKeeps
  <1>5. CASE UNCHANGED vars
    BY <1>5, StoredFrame, LockFrame, TxFrame, OnceFrame, CursorFrame, BucketFrame, ExporterFrame,
       PruneFrame, VerifyFrame DEF vars, AuditInv, TypeOK
  <1> QED
    BY <1>1, <1>2, <1>3, <1>4, <1>5, TickKeeps, VerifyKeeps DEF Next

\* The inductive invariant holds of every run of the writers, exporters, pruners
\* and readers of all replicas.
THEOREM AuditCorrect == Spec => []AuditInv
  <1>1. Init => AuditInv
    BY AuditInit
  <1>2. AuditInv /\ [Next]_vars => AuditInv'
    BY AuditStep
  <1> QED
    BY <1>1, <1>2, PTL DEF Spec

\* Every variable keeps its type.
THEOREM AuditTypeCorrect == Spec => []TypeOK
  <1>1. AuditInv => TypeOK
    BY DEF AuditInv
  <1> QED
    BY <1>1, AuditCorrect, PTL

\* The stored rows of a tenant are one unbroken run from its anchor on, whatever
\* writers and retention of all replicas do.
THEOREM ChainAlwaysVerifies == Spec => []ChainVerifies
  <1>1. AuditInv => ChainVerifies
    <2> SUFFICES ASSUME AuditInv, NEW t \in Tenants
                 PROVE  /\ ChainReport(Of(log, t), anchor[t].first, anchor[t].prev) = "intact"
                        /\ \A r, q \in Of(log, t) : r.seq = q.seq => r = q
      BY DEF ChainVerifies
    <2>1. /\ Of(log, t) \in SUBSET Row /\ RunFrom(Of(log, t), anchor[t].first)
          /\ \A r \in Of(log, t) : r.seq = anchor[t].first => r.prev = anchor[t].prev
      BY TableIsARun DEF AuditInv
    <2>2. anchor[t].first \in Nat
      BY CursorFields DEF AuditInv
    <2>3. ChainReport(Of(log, t), anchor[t].first, anchor[t].prev) = "intact"
      BY <2>1, <2>2, ReportOfARun
    <2> QED
      BY <2>1, <2>3 DEF RunFrom
  <1> QED
    BY <1>1, AuditCorrect, PTL

\* A committed row is in the table or in the bucket: what retention removed is
\* below the anchor, the anchor is not past the export position, and up to the
\* position every row is in an object.
THEOREM NothingIsLost == Spec => []NoRecordLost
  <1>1. AuditInv => NoRecordLost
    <2> SUFFICES ASSUME AuditInv, NEW r \in history, r \notin log
                 PROVE  \E o \in bucket : r \in o.records
      BY DEF NoRecordLost
    <2> DEFINE t == r.tenant
    <2>1. t \in Tenants /\ r \in Chain(t) /\ r.seq \in Nat
      BY RowFields DEF AuditInv, TypeOK, Chain, Of
    <2>2. ~(anchor[t].first <= r.seq)
      BY <2>1 DEF AuditInv, StoredInv, Of
    <2>3. anchor[t].first \in Nat /\ cursor[t].exported \in Nat
      BY <2>1, CursorFields DEF AuditInv
    <2>4. r.seq <= cursor[t].exported
      <3>1. anchor[t].first <= cursor[t].exported + 1
        BY <2>1 DEF AuditInv, CursorInv
      <3> QED
        BY <2>1, <2>2, <2>3, <3>1, SMT
    <2> QED
      BY <2>1, <2>4 DEF AuditInv, CursorInv
  <1> QED
    BY <1>1, AuditCorrect, PTL

\* A record is in the bucket under one name, although replicas export the same
\* range, stop in the middle and start again.
THEOREM OneNameOnly == Spec => []OneName
  <1>1. AuditInv => OneName
    <2> SUFFICES ASSUME AuditInv, NEW o \in bucket, NEW p \in bucket, NEW r,
                        r \in o.records, r \in p.records
                 PROVE  o = p
      BY DEF OneName
    <2>1. /\ o \in [tenant : Tenants, first : Nat, last : Nat, records : SUBSET Row]
          /\ p \in [tenant : Tenants, first : Nat, last : Nat, records : SUBSET Row]
      BY DEF AuditInv, TypeOK
    <2>2. /\ o.records = Exported(o.tenant, o.first, o.last)
          /\ p.records = Exported(p.tenant, p.first, p.last)
      BY DEF AuditInv, BucketInv
    <2>3. /\ o.tenant = r.tenant /\ p.tenant = r.tenant /\ r.seq \in Nat
          /\ o.first <= r.seq /\ r.seq <= o.last /\ p.first <= r.seq /\ r.seq <= p.last
      BY <2>2, ChainFields DEF AuditInv, Exported
    <2>4. o.first = p.first /\ o.last = p.last
      <3>1. \/ o.first = p.first /\ o.last = p.last
            \/ o.last < p.first
            \/ p.last < o.first
        BY <2>3 DEF AuditInv, BucketInv
      <3>2. /\ o.first \in Nat /\ o.last \in Nat /\ p.first \in Nat /\ p.last \in Nat
        BY <2>1
      <3> QED
        BY <2>3, <3>1, <3>2, SMT
    <2> QED
      BY <2>1, <2>2, <2>3, <2>4, SMT
  <1> QED
    BY <1>1, AuditCorrect, PTL

\* An event has one row, unless the answer of a commit was lost and the batch was
\* tried again.
THEOREM RowsAreNotDoubled == Spec => []RecordedOnce
  <1>1. AuditInv => RecordedOnce
    BY DEF AuditInv, OnceInv
  <1> QED
    BY <1>1, AuditCorrect, PTL

\* VerifyChain reports a break only when retention moved the anchor between its
\* two queries.
THEOREM BreaksAreOvertaken == Spec => []BreakMeansOvertaken
  <1>1. AuditInv => BreakMeansOvertaken
    BY DEF AuditInv, VerifyInv
  <1> QED
    BY <1>1, AuditCorrect, PTL

\* Retention removes no row that is inside the period of the install.
THEOREM RetentionKeepsThePeriod == Spec => KeptForThePeriod
  <1> DEFINE Kept == \A r \in log : r \notin log' => r.at < clock - InstallMonths
  <1>1. AuditInv /\ [Next]_vars => [Kept]_vars
    <2> SUFFICES ASSUME AuditInv, Next, NEW r \in log, r \notin log'
                 PROVE  r.at < clock - InstallMonths
      OBVIOUS
    <2>1. PICK p \in Pruners : PruneCommit(p)
      <3>1. ASSUME NEW w \in Writers PROVE ~WriterNext(w)
        BY DEF WriterNext, Begin, BeginTx, LockChain, Extend, Commit, CommitUnanswered, Inserted,
               TxFails, Retry, GiveUp, Tables
      <3>2. ASSUME NEW x \in Exporters PROVE ~ExporterNext(x)
        BY DEF ExporterNext, claimRange, readRange, PutLocked, Advance, ExportFails, Tables
      <3>3. ~Tick /\ ~VerifyRows /\ \A t \in Tenants : ~VerifyAnchor(t)
        BY DEF Tick, VerifyRows, VerifyAnchor, Tables
      <3>4. \A t \in Tenants, m \in TenantMonths \cup {0} : ~SetTenantMonths(t, m)
        BY DEF SetTenantMonths
      <3>5. PICK p \in Pruners : PrunerNext(p)
        BY <3>1, <3>2, <3>3, <3>4 DEF Next
      <3> QED
        BY <3>5 DEF PrunerNext, PruneRead, PruneFails, Tables
    <2>2. r \in Of(log, prune[p].tenant) /\ r.seq <= prune[p].last /\ prune[p].at = "locked"
      BY <2>1 DEF PruneCommit
    <2> QED
      BY <2>2 DEF AuditInv, PruneInv
  <1>2. KeptForThePeriod <=> [][Kept]_vars
    BY DEF KeptForThePeriod
  <1> HIDE DEF Kept
  <1> QED
    BY <1>1, <1>2, AuditCorrect, PTL DEF Spec

-----------------------------------------------------------------------------
(* The writer: its processes, and what its transactions do.                *)

LEMMA Processes == Run \in Writers /\ Run \notin Events /\ \A e \in Events : e \in Writers
  BY WriterAssumption

Places == {"new", "send", "recheck", "direct", "sync", "done",
           "select", "flush", "last", "drain", "take", "leave"}

LEMMA PlaceMoves ==
    ASSUME at \in [Writers -> Places], NEW p \in Writers, NEW place \in Places, Goes(p, place)
    PROVE  /\ at' \in [Writers -> Places] /\ at'[p] = place
           /\ \A q \in Writers \ {p} : at'[q] = at[q]
  BY DEF Goes

LEMMA TodoMoves ==
    ASSUME todo \in [Writers -> SUBSET Events], NEW p \in Writers, NEW s \in SUBSET Events,
           todo' = [todo EXCEPT ![p] = s]
    PROVE  /\ todo' \in [Writers -> SUBSET Events] /\ todo'[p] = s
           /\ \A q \in Writers \ {p} : todo'[q] = todo[q]
  OBVIOUS

\* A step of an open transaction, or a retry, keeps its batch.
TxQuiet ==
    /\ \A p \in Writers : tx'[p].batch = tx[p].batch /\ (tx'[p].at = "idle" <=> tx[p].at = "idle")
    /\ new' = new /\ \A r \in history : r \in history'

\* The end of a transaction of w.
TxOver(w) ==
    /\ tx[w].at # "idle" /\ tx'[w].at = "idle" /\ tx'[w].batch = {}
    /\ \A p \in Writers \ {w} : tx'[p] = tx[p]
    /\ new' = new /\ \A r \in history : r \in history'

LEMMA RowsOfTheBatch ==
    ASSUME NEW w \in Writers, Due(w) = {}, ToLock(w) = {}
    PROVE  \A e \in tx[w].batch : \E r \in tx[w].rows : r.event = e
  BY DEF Due, ToLock

LEMMA TxEnds ==
    ASSUME AuditInv, NEW w \in Writers, Commit(w) \/ GiveUp(w)
    PROVE  TxOver(w) /\ (Commit(w) => \A e \in tx[w].batch : \E r \in history' : r.event = e)
  <1>1. tx' = [tx EXCEPT ![w] = NoTx] /\ new' = new /\ \A r \in history : r \in history'
    BY DEF Commit, Inserted, GiveUp
  <1>2. tx'[w] = NoTx /\ \A v \in Writers \ {w} : tx'[v] = tx[v]
    BY <1>1 DEF AuditInv, TypeOK
  <1>3. NoTx.at = "idle" /\ NoTx.batch = {}
    BY DEF NoTx
  <1>4. tx[w].at # "idle"
    BY DEF Commit, Inserted, GiveUp
  <1>5. ASSUME Commit(w) PROVE \A e \in tx[w].batch : \E r \in history' : r.event = e
    BY <1>5, RowsOfTheBatch DEF Commit, Inserted
  <1> QED
    BY <1>1, <1>2, <1>3, <1>4, <1>5 DEF TxOver

LEMMA TxOpens ==
    ASSUME AuditInv, NEW w \in Writers, NEW b \in SUBSET Events, Opens(w, b)
    PROVE  /\ tx[w].at = "idle" /\ tx'[w].at = "open" /\ tx'[w].batch = b
           /\ \A p \in Writers \ {w} : tx'[p] = tx[p]
           /\ new' = new \ b /\ history' = history
  <1> DEFINE x == [NoTx EXCEPT !.at = "open", !.batch = b, !.time = clock]
  <1>1. tx' = [tx EXCEPT ![w] = x] /\ tx[w].at = "idle" /\ new' = new \ b /\ history' = history
    BY DEF Opens, BeginTx, Opened
  <1>2. x.at = "open" /\ x.batch = b
    BY DEF NoTx
  <1> HIDE DEF x
  <1>3. tx'[w] = x /\ \A v \in Writers \ {w} : tx'[v] = tx[v]
    BY <1>1 DEF AuditInv, TypeOK
  <1> QED
    BY <1>1, <1>2, <1>3

LEMMA TxGoesOn ==
    ASSUME AuditInv, NEW w \in Writers, InTx(w) \/ Retry(w)
    PROVE  TxQuiet
  <1> DEFINE b == tx[w].batch
             o == [NoTx EXCEPT !.at = "open", !.batch = b, !.time = clock]
             f == [NoTx EXCEPT !.at = "failed", !.batch = b]
  <1>1. tx \in [Writers -> Tx] /\ tx[w] \in Tx
    BY DEF AuditInv, TypeOK
  <1>2. new' = new /\ \A r \in history : r \in history'
    BY DEF InTx, LockChain, Extend, CommitUnanswered, Inserted, TxFails, Retry
  <1>3. tx[w].at # "idle"
    BY DEF InTx, LockChain, Extend, CommitUnanswered, Inserted, TxFails, Retry
  <1>4. /\ \A p \in Writers \ {w} : tx'[p] = tx[p]
        /\ tx'[w].batch = b /\ tx'[w].at # "idle"
    <2>1. CASE \E t \in Tenants : LockChain(w, t)
      <3>1. PICK t, h : tx' = [tx EXCEPT ![w].held = tx[w].held \cup {t},
                                         ![w].seq = h.seq, ![w].prev = h.hash]
        BY <2>1 DEF LockChain
      <3> QED
        BY <1>1, <1>3, <3>1, SMT DEF Tx
    <2>2. CASE \E e \in Events : Extend(w, e)
      <3>1. PICK r : tx' = [tx EXCEPT ![w].seq = r.seq, ![w].prev = r.hash,
                                     ![w].rows = tx[w].rows \cup {r}]
        BY <2>2 DEF Extend
      <3> QED
        BY <1>1, <1>3, <3>1, SMT DEF Tx
    <2>3. CASE CommitUnanswered(w) \/ TxFails(w) \/ Retry(w)
      <3>1. PICK x \in {o, f} : tx' = [tx EXCEPT ![w] = x]
        BY <2>3 DEF CommitUnanswered, TxFails, Failed, Retry, Opened
      <3>2. o.at = "open" /\ f.at = "failed" /\ o.batch = b /\ f.batch = b
        BY DEF NoTx
      <3> HIDE DEF o, f
      <3> QED
        BY <1>1, <3>1, <3>2
    <2> QED
      BY <2>1, <2>2, <2>3 DEF InTx
  <1> QED
    BY <1>2, <1>3, <1>4 DEF TxQuiet

\* The writer uses the transactions of the chain as AuditChain lets it: a batch
\* has never been in a transaction before.
LEMMA StepOfTheChain ==
    ASSUME WriterInv, AuditInv, [WriterStep]_allVars
    PROVE  [Next]_vars
  <1> USE Processes
  <1>1. ASSUME NEW w \in Writers, NEW b \in SUBSET new, Opens(w, b) PROVE Next
    BY <1>1 DEF Opens, Begin, WriterNext, Next
  <1>2. ASSUME NEW w \in Writers,
               InTx(w) \/ Commit(w) \/ GiveUp(w) \/ Retry(w)
        PROVE  Next
    BY <1>2 DEF InTx, WriterNext, Next
  <1>3. ASSUME NEW e \in Events, LogCheck(e) \/ SyncBegin(e) \/ CallStep(e) PROVE [Next]_vars
    <2>1. CASE SyncBegin(e)
      <3>1. {e} \in SUBSET new
        BY <2>1 DEF SyncBegin, WriterInv, HandedInv
      <3> QED
        BY <1>1, <2>1, <3>1 DEF SyncBegin
    <2>2. CASE SyncDone(e)
      BY <1>2, <2>2 DEF SyncDone
    <2> QED
      BY <1>3, <2>1, <2>2 DEF LogCheck, CallStep, LogSend, LogStopped, WritesItself, LogRecheck,
                         takeQueued, DirectDone
  <1>4. ASSUME NEW p \in Writers, TxStep(p) \/ DirectBegin(p) \/ DirectWrite(p) PROVE [Next]_vars
    <2>1. CASE DirectBegin(p)
      BY <1>1, <2>1 DEF DirectBegin, WriterInv, HandedInv
    <2> QED
      BY <1>2, <1>4, <2>1 DEF TxStep, DirectWrite
  <1>5. ASSUME RunStep PROVE [Next]_vars
    <2>1. CASE FlushBegin
      BY <1>1, <2>1 DEF FlushBegin, WriterInv, HandedInv
    <2>2. CASE FlushDone \/ Backoff \/ LastTry \/ LastFailed
      BY <1>2, <2>2 DEF FlushDone, Backoff, LastTry, LastFailed
    <2> QED
      BY <1>5, <2>1, <2>2 DEF RunStep, Receive, Ticker, Drain, DrainQueue, takeQueued, Leave
  <1>6. Stop \/ Cancel \/ UNCHANGED allVars => UNCHANGED vars
    BY DEF Stop, Cancel, allVars
  <1> QED
    BY <1>3, <1>4, <1>5, <1>6 DEF WriterStep

-----------------------------------------------------------------------------
(* What a step of the writer keeps, conjunct by conjunct.                  *)

Safe(e) ==
    \/ e \in queue \/ e \in hand \/ e \in reported
    \/ \E p \in Writers : e \in todo[p] \/ e \in tx[p].batch
    \/ \E r \in history : r.event = e

LEMMA SafeIs ==
    ASSUME NEW e
    PROVE  /\ e \in InWork \cup Recorded \cup reported <=> Safe(e)
           /\ (e \in InWork \cup Recorded \cup reported)' <=> Safe(e)'
  <1>1. /\ e \in InWork <=> \/ e \in queue \/ e \in hand
                           \/ \E p \in Writers : e \in todo[p] \/ e \in tx[p].batch
        /\ e \in InWork' <=> \/ e \in queue' \/ e \in hand'
                            \/ \E p \in Writers : e \in todo'[p] \/ e \in tx'[p].batch
    BY SMT DEF InWork
  <1>2. /\ e \in Recorded <=> \E r \in history : r.event = e
        /\ e \in Recorded' <=> \E r \in history' : r.event = e
    BY DEF Recorded
  <1> QED
    BY <1>1, <1>2 DEF Safe

LEMMA AcceptedKeeps ==
    ASSUME AcceptedInv, \A e \in Events : Safe(e) => Safe(e)',
           \A e \in Events : at[e] \in {"new", "send"} => Safe(e)' \/ at'[e] \in {"new", "send"}
    PROVE  AcceptedInv'
  BY SafeIs DEF AcceptedInv

\* A transaction goes on: nothing of the writer's own moves.
LEMMA QuietKeeps ==
    ASSUME WriterInv, TxQuiet, UNCHANGED <<queue, hand, todo, stopping, cancelled, reported>>
    PROVE  /\ UNCHANGED at => WriterInv'
           /\ HandedInv' <=> \A e \in Events : at'[e] \in {"new", "send"} =>
                                /\ e \in new /\ e \notin queue /\ e \notin hand
                                /\ \A p \in Writers : e \notin todo[p]
           /\ \A e \in Events : Safe(e) => Safe(e)'
           /\ \A p \in Writers : tx'[p].at = "idle" => tx'[p].batch = {}
  <1>1. \A e \in Events : Safe(e) => Safe(e)'
    BY DEF Safe, TxQuiet
  <1>2. HandedInv' <=> \A e \in Events : at'[e] \in {"new", "send"} =>
                                /\ e \in new /\ e \notin queue /\ e \notin hand
                                /\ \A p \in Writers : e \notin todo[p]
    BY Processes DEF WriterInv, HandedInv, TxQuiet
  <1>3. \A p \in Writers : tx'[p].at = "idle" => tx'[p].batch = {}
    BY DEF WriterInv, IdleInv, TxQuiet
  <1>4. ASSUME UNCHANGED at PROVE WriterInv'
    <2>1. WriterTypeOK' /\ SizeInv' /\ StoppedInv'
      BY <1>4 DEF WriterInv, WriterTypeOK, SizeInv, StoppedInv
    <2>2. IdleInv'
      BY <1>3, <1>4, Processes DEF WriterInv, IdleInv, TxQuiet
    <2>3. HandedInv'
      BY <1>2, <1>4 DEF WriterInv, HandedInv
    <2>4. AcceptedInv'
      BY <1>1, <1>4, AcceptedKeeps DEF WriterInv
    <2> QED
      BY <2>1, <2>2, <2>3, <2>4 DEF WriterInv
  <1> QED
    BY <1>1, <1>2, <1>3, <1>4

LEMMA TxStepKeeps ==
    ASSUME WriterInv, AuditInv, NEW p \in Writers, TxStep(p) \/ (p = Run /\ Backoff)
    PROVE  WriterInv'
  <1>1. TxQuiet
    BY TxGoesOn DEF TxStep, Backoff
  <1> QED
    BY <1>1, QuietKeeps DEF TxStep, Backoff, ownVars

LEMMA LastTryKeeps ==
    ASSUME WriterInv, AuditInv, LastTry
    PROVE  WriterInv'
  <1> USE Processes
  <1>1. TxQuiet /\ UNCHANGED <<queue, hand, todo, stopping, cancelled, reported>>
    BY TxGoesOn DEF LastTry, Flag
  <1>2. /\ at' \in [Writers -> Places] /\ at'[Run] = "last" /\ at[Run] = "flush"
        /\ \A q \in Writers \ {Run} : at'[q] = at[q]
    BY PlaceMoves DEF LastTry, WriterInv, WriterTypeOK, Places
  <1>3. \A e \in Events : at'[e] = at[e]
    BY <1>2
  <1>4. WriterTypeOK' /\ SizeInv' /\ StoppedInv'
    BY <1>1, <1>2 DEF WriterInv, WriterTypeOK, SizeInv, StoppedInv, Places
  <1>5. IdleInv'
    BY <1>1, <1>2, <1>3, QuietKeeps DEF WriterInv, IdleInv, TxQuiet
  <1>6. HandedInv' /\ AcceptedInv'
    BY <1>1, <1>3, QuietKeeps, AcceptedKeeps DEF WriterInv, HandedInv
  <1> QED
    BY <1>4, <1>5, <1>6 DEF WriterInv

\* A call moves, and the transactions and what waits for them stay.
LEMMA CallMoves ==
    ASSUME WriterInv, NEW e \in Events, UNCHANGED <<vars, queue, hand, todo, Flag, reported>>,
           (at[e] = "new" /\ Goes(e, "send")) \/ LogRecheck(e) \/ DirectDone(e)
    PROVE  WriterInv'
  <1> USE Processes
  <1>1. UNCHANGED <<tx, new, history, queue, hand, todo, stopping, cancelled, reported>>
    BY DEF vars, Flag
  <1>2. PICK place \in {"send", "take", "done"} :
            /\ Goes(e, place)
            /\ place = "send" => at[e] = "new"
            /\ place = "take" => at[e] = "recheck"
            /\ place = "done" => \/ at[e] = "recheck" /\ ~stopping
                                 \/ at[e] = "direct" /\ tx[e].at = "idle" /\ todo[e] = {}
    <2>1. ASSUME LogRecheck(e)
          PROVE  at[e] = "recheck" /\ (Goes(e, "take") \/ (Goes(e, "done") /\ ~stopping))
      BY <2>1 DEF LogRecheck
    <2>2. ASSUME DirectDone(e)
          PROVE  Goes(e, "done") /\ at[e] = "direct" /\ tx[e].at = "idle" /\ todo[e] = {}
      BY <2>2 DEF DirectDone, Written
    <2> QED
      BY <2>1, <2>2
  <1>3. /\ at' \in [Writers -> Places] /\ at'[e] = place
        /\ \A q \in Writers \ {e} : at'[q] = at[q]
    BY <1>2, PlaceMoves DEF WriterInv, WriterTypeOK, Places
  <1>4. at'[Run] = at[Run]
    BY <1>3
  <1>5. WriterTypeOK' /\ SizeInv'
    BY <1>1, <1>3, <1>4 DEF WriterInv, WriterTypeOK, SizeInv, Places
  <1>6. IdleInv'
    <2>1. ASSUME NEW d \in Events
          PROVE  /\ at'[d] \in {"new", "send", "recheck", "take", "direct", "sync", "done"}
                 /\ at'[d] \notin {"direct", "sync"} => tx[d].at = "idle"
                 /\ at'[d] \notin {"take", "direct"} => todo[d] = {}
      BY <1>2, <1>3 DEF WriterInv, IdleInv
    <2> QED
      BY <1>1, <1>4, <2>1 DEF WriterInv, IdleInv
  <1>7. HandedInv'
    <2>1. \A d \in Events : at'[d] \in {"new", "send"} => at[d] \in {"new", "send"}
      BY <1>2, <1>3
    <2> QED
      BY <1>1, <2>1 DEF WriterInv, HandedInv
  <1>8. AcceptedInv'
    <2>1. \A d \in Events : Safe(d) => Safe(d)'
      BY <1>1 DEF Safe
    <2>2. \A d \in Events : at[d] \in {"new", "send"} => at'[d] \in {"new", "send"}
      BY <1>2, <1>3
    <2> QED
      BY <2>1, <2>2, AcceptedKeeps DEF WriterInv
  <1>9. StoppedInv'
    <2>1. at[Run] \in {"leave", "done"} /\ ~cancelled /\ queue # {}
            => \E d \in Events : at'[d] \in {"recheck", "take"}
      BY <1>2, <1>3 DEF WriterInv, StoppedInv
    <2> QED
      BY <1>1, <1>4, <2>1 DEF WriterInv, StoppedInv
  <1> QED
    BY <1>5, <1>6, <1>7, <1>8, <1>9 DEF WriterInv

LEMMA WritesItselfKeeps ==
    ASSUME WriterInv, NEW e \in Events, at[e] \in {"new", "send"}, WritesItself(e)
    PROVE  WriterInv'
  <1> USE Processes
  <1>1. UNCHANGED <<tx, new, history, queue, hand, stopping, cancelled, reported>>
    BY DEF WritesItself, vars, Flag
  <1>2. /\ at' \in [Writers -> Places] /\ at'[e] = "direct"
        /\ \A q \in Writers \ {e} : at'[q] = at[q]
    BY PlaceMoves DEF WritesItself, WriterInv, WriterTypeOK, Places
  <1>3. /\ todo' \in [Writers -> SUBSET Events] /\ todo'[e] = {e}
        /\ \A q \in Writers \ {e} : todo'[q] = todo[q]
    BY TodoMoves DEF WritesItself, WriterInv, WriterTypeOK
  <1>4. at'[Run] = at[Run] /\ todo'[Run] = todo[Run] /\ todo[e] = {}
    BY <1>2, <1>3 DEF WriterInv, IdleInv
  <1>5. /\ e \in new /\ e \notin queue /\ e \notin hand
        /\ \A p \in Writers : e \notin todo[p]
    BY DEF WriterInv, HandedInv
  <1>6. WriterTypeOK' /\ SizeInv'
    BY <1>1, <1>2, <1>3, <1>4 DEF WriterInv, WriterTypeOK, SizeInv, Places
  <1>7. IdleInv'
    <2>1. ASSUME NEW d \in Events
          PROVE  /\ at'[d] \in {"new", "send", "recheck", "take", "direct", "sync", "done"}
                 /\ at'[d] \notin {"direct", "sync"} => tx[d].at = "idle"
                 /\ at'[d] \notin {"take", "direct"} => todo'[d] = {}
      BY <1>2, <1>3 DEF WriterInv, IdleInv
    <2> QED
      BY <1>1, <1>4, <2>1 DEF WriterInv, IdleInv
  <1>8. HandedInv'
    <2>1. ASSUME NEW p \in Writers
          PROVE  /\ todo'[p] \subseteq new
                 /\ todo'[p] \cap queue = {} /\ todo'[p] \cap hand = {}
                 /\ \A q \in Writers : p # q => todo'[p] \cap todo'[q] = {}
      BY <1>3, <1>5 DEF WriterInv, HandedInv
    <2>2. ASSUME NEW d \in Events, at'[d] \in {"new", "send"}
          PROVE  /\ d \in new /\ d \notin queue /\ d \notin hand
                 /\ \A p \in Writers : d \notin todo'[p]
      <3>1. d # e /\ at[d] \in {"new", "send"}
        BY <1>2, <2>2
      <3>2. /\ d \in new /\ d \notin queue /\ d \notin hand
            /\ \A p \in Writers : d \notin todo[p]
        BY <3>1 DEF WriterInv, HandedInv
      <3> QED
        BY <1>3, <3>1, <3>2
    <2> QED
      BY <1>1, <2>1, <2>2 DEF WriterInv, HandedInv
  <1>9. AcceptedInv'
    <2>1. \A d \in Events : Safe(d) => Safe(d)'
      BY <1>1, <1>3, <1>4 DEF Safe
    <2>2. Safe(e)'
      BY <1>3 DEF Safe
    <2>3. \A d \in Events : at[d] \in {"new", "send"} => Safe(d)' \/ at'[d] \in {"new", "send"}
      BY <1>2, <2>2
    <2> QED
      BY <2>1, <2>3, AcceptedKeeps DEF WriterInv
  <1>10. StoppedInv'
    <2>1. at[Run] \in {"leave", "done"} /\ ~cancelled /\ queue # {}
            => \E d \in Events : at'[d] \in {"recheck", "take"}
      BY <1>2 DEF WriterInv, StoppedInv
    <2> QED
      BY <1>1, <1>4, <2>1 DEF WriterInv, StoppedInv
  <1> QED
    BY <1>6, <1>7, <1>8, <1>9, <1>10 DEF WriterInv

LEMMA LogSendKeeps ==
    ASSUME WriterInv, NEW e \in Events, LogSend(e)
    PROVE  WriterInv'
  <1> USE Processes
  <1>1. /\ UNCHANGED <<tx, new, history, hand, todo, stopping, cancelled, reported>>
        /\ queue' = queue \cup {e} /\ at[e] = "send"
    BY DEF LogSend, vars, Flag
  <1>2. /\ at' \in [Writers -> Places] /\ at'[e] = "recheck"
        /\ \A q \in Writers \ {e} : at'[q] = at[q]
    BY PlaceMoves DEF LogSend, WriterInv, WriterTypeOK, Places
  <1>3. at'[Run] = at[Run]
    BY <1>2
  <1>4. /\ e \in new /\ e \notin queue /\ e \notin hand
        /\ \A p \in Writers : e \notin todo[p]
    BY <1>1 DEF WriterInv, HandedInv
  <1>5. IsFiniteSet(queue') /\ Cardinality(queue') <= BufferSize
    <2>1. IsFiniteSet(queue) /\ Cardinality(queue) < BufferSize
      BY DEF WriterInv, SizeInv, LogSend
    <2>2. IsFiniteSet(queue') /\ Cardinality(queue') = Cardinality(queue) + 1
      BY <1>1, <1>4, <2>1, FS_AddElement
    <2>3. Cardinality(queue) \in Nat /\ BufferSize \in Nat
      BY <2>1, FS_CardinalityType, WriterAssumption
    <2> QED
      BY <2>1, <2>2, <2>3, SMT
  <1>6. WriterTypeOK' /\ SizeInv'
    BY <1>1, <1>2, <1>3, <1>5 DEF WriterInv, WriterTypeOK, SizeInv, Places
  <1>7. IdleInv'
    <2>1. ASSUME NEW d \in Events
          PROVE  /\ at'[d] \in {"new", "send", "recheck", "take", "direct", "sync", "done"}
                 /\ at'[d] \notin {"direct", "sync"} => tx[d].at = "idle"
                 /\ at'[d] \notin {"take", "direct"} => todo[d] = {}
      BY <1>1, <1>2 DEF WriterInv, IdleInv
    <2> QED
      BY <1>1, <1>3, <2>1 DEF WriterInv, IdleInv
  <1>8. HandedInv'
    <2>1. ASSUME NEW d \in Events, at'[d] \in {"new", "send"}
          PROVE  /\ d \in new /\ d \notin queue' /\ d \notin hand
                 /\ \A p \in Writers : d \notin todo[p]
      <3>1. d # e /\ at[d] \in {"new", "send"}
        BY <1>2, <2>1
      <3>2. /\ d \in new /\ d \notin queue /\ d \notin hand
            /\ \A p \in Writers : d \notin todo[p]
        BY <3>1 DEF WriterInv, HandedInv
      <3> QED
        BY <1>1, <3>1, <3>2
    <2>2. /\ queue' \subseteq new /\ queue' \cap hand = {}
          /\ \A p \in Writers : todo[p] \cap queue' = {}
      BY <1>1, <1>4 DEF WriterInv, HandedInv
    <2> QED
      BY <1>1, <2>1, <2>2 DEF WriterInv, HandedInv
  <1>9. AcceptedInv'
    <2>1. (\A d \in Events : Safe(d) => Safe(d)') /\ Safe(e)'
      BY <1>1 DEF Safe
    <2>2. \A d \in Events : at[d] \in {"new", "send"} => Safe(d)' \/ at'[d] \in {"new", "send"}
      BY <1>2, <2>1
    <2> QED
      BY <2>1, <2>2, AcceptedKeeps DEF WriterInv
  <1>10. StoppedInv'
    BY <1>1, <1>2, <1>3 DEF WriterInv, StoppedInv
  <1> QED
    BY <1>6, <1>7, <1>8, <1>9, <1>10 DEF WriterInv

LEMMA takeQueuedKeeps ==
    ASSUME WriterInv, NEW p \in Writers, takeQueued(p)
    PROVE  WriterInv'
  <1> USE Processes
  <1>1. /\ UNCHANGED <<tx, new, history, hand, stopping, cancelled, reported>>
        /\ at[p] = "take"
    BY DEF takeQueued, vars, Flag
  <1>2. CASE queue # {}
    <2>1. PICK e \in queue : /\ queue' = queue \ {e} /\ at' = at
                             /\ todo' = [todo EXCEPT ![p] = todo[p] \cup {e}]
      BY <1>2 DEF takeQueued
    <2>2. e \in Events /\ todo[p] \cup {e} \in SUBSET Events
      BY <2>1 DEF WriterInv, WriterTypeOK
    <2>3. /\ todo' \in [Writers -> SUBSET Events] /\ todo'[p] = todo[p] \cup {e}
          /\ \A q \in Writers \ {p} : todo'[q] = todo[q]
      BY <2>1, <2>2, TodoMoves DEF WriterInv, WriterTypeOK
    <2>4. IsFiniteSet(queue') /\ Cardinality(queue') <= BufferSize
      <3>1. IsFiniteSet(queue) /\ Cardinality(queue) <= BufferSize
        BY DEF WriterInv, SizeInv, WriterTypeOK
      <3>2. IsFiniteSet(queue') /\ Cardinality(queue') = Cardinality(queue) - 1
        BY <2>1, <3>1, FS_RemoveElement
      <3>3. Cardinality(queue) \in Nat /\ BufferSize \in Nat
        BY <3>1, FS_CardinalityType, WriterAssumption
      <3> QED
        BY <3>1, <3>2, <3>3, SMT
    <2>5. WriterTypeOK' /\ SizeInv' /\ StoppedInv'
      BY <1>1, <2>1, <2>3, <2>4 DEF WriterInv, WriterTypeOK, SizeInv, StoppedInv
    <2>6. IdleInv'
      <3>1. \A q \in Writers : todo'[q] = {} <=> (todo[q] = {} /\ q # p)
        BY <2>3
      <3> QED
        BY <1>1, <2>1, <3>1 DEF WriterInv, IdleInv
    <2>7. HandedInv'
      <3>1. e \in new /\ e \notin hand /\ \A q \in Writers : e \notin todo[q]
        BY <2>1 DEF WriterInv, HandedInv
      <3>2. ASSUME NEW q \in Writers
            PROVE  /\ todo'[q] \subseteq new
                   /\ todo'[q] \cap queue' = {} /\ todo'[q] \cap hand = {}
        <4>1. /\ todo[q] \subseteq new /\ todo[q] \cap queue = {} /\ todo[q] \cap hand = {}
              /\ queue' = queue \ {e}
          BY <2>1 DEF WriterInv, HandedInv
        <4> QED
          BY <2>3, <3>1, <4>1, SMT
      <3>3. ASSUME NEW q \in Writers, NEW o \in Writers, q # o PROVE todo'[q] \cap todo'[o] = {}
        <4>1. todo[q] \cap todo[o] = {} /\ e \notin todo[q] /\ e \notin todo[o]
          BY <3>1, <3>3 DEF WriterInv, HandedInv
        <4> QED
          BY <2>3, <3>3, <4>1, SMT
      <3>4. ASSUME NEW d \in Events, at[d] \in {"new", "send"}
            PROVE  /\ d \in new /\ d \notin queue' /\ d \notin hand
                   /\ \A q \in Writers : d \notin todo'[q]
        <4>1. /\ d \in new /\ d \notin queue /\ d \notin hand
              /\ \A q \in Writers : d \notin todo[q]
          BY <3>4 DEF WriterInv, HandedInv
        <4> QED
          BY <2>1, <2>3, <4>1
      <3> QED
        BY <1>1, <2>1, <3>2, <3>3, <3>4 DEF WriterInv, HandedInv
    <2>8. AcceptedInv'
      <3>1. \A d \in Events : Safe(d) => Safe(d)'
        BY <1>1, <2>1, <2>3 DEF Safe
      <3> QED
        BY <2>1, <3>1, AcceptedKeeps DEF WriterInv
    <2> QED
      BY <2>5, <2>6, <2>7, <2>8 DEF WriterInv
  <1>3. CASE queue = {}
    <2>1. PICK place \in {"leave", "direct"} :
              /\ UNCHANGED <<queue, todo>> /\ Goes(p, place)
              /\ place = "leave" <=> p = Run
      BY <1>3 DEF takeQueued
    <2>2. /\ at' \in [Writers -> Places] /\ at'[p] = place
          /\ \A q \in Writers \ {p} : at'[q] = at[q]
      BY <2>1, PlaceMoves DEF WriterInv, WriterTypeOK, Places
    <2>3. tx[p].at = "idle" /\ (p = Run => hand = {} /\ (stopping \/ cancelled))
      BY <1>1, WriterAssumption DEF WriterInv, IdleInv, StoppedInv
    <2>4. WriterTypeOK' /\ SizeInv' /\ StoppedInv'
      BY <1>1, <1>3, <2>1, <2>2 DEF WriterInv, WriterTypeOK, SizeInv, StoppedInv, Places
    <2>5. IdleInv'
      <3>1. ASSUME NEW d \in Events
            PROVE  /\ at'[d] \in {"new", "send", "recheck", "take", "direct", "sync", "done"}
                   /\ at'[d] \notin {"direct", "sync"} => tx[d].at = "idle"
                   /\ at'[d] \notin {"take", "direct"} => todo[d] = {}
        BY <2>1, <2>2 DEF WriterInv, IdleInv
      <3>2. p = Run => at'[Run] = "leave" /\ hand = {}
        BY <2>1, <2>2, <2>3
      <3>3. p # Run => at'[Run] = at[Run]
        BY <2>2
      <3> QED
        BY <1>1, <2>1, <3>1, <3>2, <3>3 DEF WriterInv, IdleInv
    <2>6. HandedInv' /\ AcceptedInv'
      <3>1. \A d \in Events : at'[d] \in {"new", "send"} <=> at[d] \in {"new", "send"}
        BY <1>1, <2>1, <2>2
      <3>2. HandedInv'
        BY <1>1, <2>1, <3>1 DEF WriterInv, HandedInv
      <3>3. \A d \in Events : Safe(d) => Safe(d)'
        BY <1>1, <2>1 DEF Safe
      <3> QED
        BY <3>1, <3>2, <3>3, AcceptedKeeps DEF WriterInv
    <2> QED
      BY <2>4, <2>5, <2>6 DEF WriterInv
  <1> QED
    BY <1>2, <1>3

\* The goroutine moves, with nothing in its hands or to a flush.
LEMMA RunMoves ==
    ASSUME WriterInv, Ticker \/ DrainQueue \/ Leave
    PROVE  WriterInv'
  <1> USE Processes
  <1>1. UNCHANGED <<tx, new, history, queue, hand, todo, stopping, cancelled, reported>>
    BY DEF Ticker, DrainQueue, Leave, vars, Flag
  <1>2. PICK place \in {"flush", "take", "done"} :
            /\ Goes(Run, place)
            /\ place = "flush" => at[Run] = "select"
            /\ place # "flush" => tx[Run].at = "idle" /\ todo[Run] = {}
            /\ place = "take" => at[Run] = "drain"
            /\ place = "done" => at[Run] = "leave"
    BY DEF Ticker, DrainQueue, Leave, Written
  <1>3. /\ at' \in [Writers -> Places] /\ at'[Run] = place
        /\ \A q \in Writers \ {Run} : at'[q] = at[q]
    BY <1>2, PlaceMoves DEF WriterInv, WriterTypeOK, Places
  <1>4. \A e \in Events : at'[e] = at[e]
    BY <1>3
  <1>5. WriterTypeOK' /\ SizeInv'
    BY <1>1, <1>2, <1>3 DEF WriterInv, WriterTypeOK, SizeInv, Places
  <1>6. IdleInv'
    <2>1. CASE place = "flush"
      BY <1>1, <1>2, <1>3, <1>4, <2>1 DEF WriterInv, IdleInv
    <2>2. CASE place \in {"take", "done"}
      BY <1>1, <1>2, <1>3, <1>4, <2>2 DEF WriterInv, IdleInv
    <2> QED
      BY <1>2, <2>1, <2>2
  <1>7. HandedInv'
    BY <1>1, <1>4 DEF WriterInv, HandedInv
  <1>8. AcceptedInv'
    <2>1. \A e \in Events : Safe(e) => Safe(e)'
      BY <1>1 DEF Safe
    <2> QED
      BY <1>4, <2>1, AcceptedKeeps DEF WriterInv
  <1>9. StoppedInv'
    <2>1. CASE place = "flush"
      BY <1>1, <1>3, <2>1 DEF WriterInv, StoppedInv
    <2>2. CASE place = "take"
      BY <1>1, <1>2, <1>3, <2>2 DEF WriterInv, StoppedInv
    <2>3. CASE place = "done"
      BY <1>1, <1>2, <1>3, <1>4, <2>3 DEF WriterInv, StoppedInv
    <2> QED
      BY <1>2, <2>1, <2>2, <2>3
  <1> QED
    BY <1>5, <1>6, <1>7, <1>8, <1>9 DEF WriterInv

LEMMA ReceiveKeeps ==
    ASSUME WriterInv, Receive
    PROVE  WriterInv'
  <1> USE Processes
  <1>1. /\ UNCHANGED <<tx, new, history, todo, stopping, cancelled, reported>>
        /\ at[Run] = "select"
    BY DEF Receive, vars, Flag
  <1>2. PICK e \in queue :
            /\ queue' = queue \ {e} /\ hand' = hand \cup {e}
            /\ IF Cardinality(hand') >= MaxBatch THEN Goes(Run, "flush") ELSE UNCHANGED at
    BY DEF Receive
  <1>3. /\ at' \in [Writers -> Places] /\ at'[Run] \in {"select", "flush"}
        /\ \A d \in Events : at'[d] = at[d]
        /\ at'[Run] = "select" => ~(Cardinality(hand') >= MaxBatch)
    <2>1. at \in [Writers -> Places] /\ "flush" \in Places
      BY DEF WriterInv, WriterTypeOK, Places
    <2>2. CASE Cardinality(hand') >= MaxBatch
      <3>1. Goes(Run, "flush")
        BY <1>2, <2>2
      <3>2. /\ at' \in [Writers -> Places] /\ at'[Run] = "flush"
            /\ \A q \in Writers \ {Run} : at'[q] = at[q]
        BY <2>1, <3>1, PlaceMoves
      <3> QED
        BY <3>2
    <2>3. CASE ~(Cardinality(hand') >= MaxBatch)
      BY <1>1, <1>2, <2>1, <2>3
    <2> QED
      BY <2>2, <2>3
  <1>4. e \in Events /\ e \in new /\ e \notin hand /\ \A p \in Writers : e \notin todo[p]
    BY <1>2 DEF WriterInv, WriterTypeOK, HandedInv
  <1>5. /\ IsFiniteSet(queue') /\ Cardinality(queue') <= BufferSize
        /\ IsFiniteSet(hand') /\ Cardinality(hand') <= MaxBatch
        /\ at'[Run] = "select" => Cardinality(hand') < MaxBatch
    <2>1. /\ IsFiniteSet(queue) /\ Cardinality(queue) <= BufferSize
          /\ IsFiniteSet(hand) /\ Cardinality(hand) < MaxBatch
      BY <1>1 DEF WriterInv, SizeInv, WriterTypeOK
    <2>2. IsFiniteSet(queue') /\ Cardinality(queue') = Cardinality(queue) - 1
      BY <1>2, <2>1, FS_RemoveElement
    <2>3. IsFiniteSet(hand') /\ Cardinality(hand') = Cardinality(hand) + 1
      BY <1>2, <1>4, <2>1, FS_AddElement
    <2>4. /\ Cardinality(queue) \in Nat /\ Cardinality(hand) \in Nat
          /\ BufferSize \in Nat /\ MaxBatch \in Nat
      BY <2>1, FS_CardinalityType, WriterAssumption, AuditAssumption
    <2>5. Cardinality(queue') <= BufferSize /\ Cardinality(hand') <= MaxBatch
      BY <2>1, <2>2, <2>3, <2>4, SMT
    <2>6. ~(Cardinality(hand') >= MaxBatch) => Cardinality(hand') < MaxBatch
      BY <2>3, <2>4, SMT
    <2> QED
      BY <1>3, <2>2, <2>3, <2>5, <2>6
  <1>6. WriterTypeOK' /\ SizeInv'
    <2>1. queue' \subseteq Events /\ hand' \subseteq Events
      BY <1>2, <1>4 DEF WriterInv, WriterTypeOK
    <2> QED
      BY <1>1, <1>3, <1>5, <2>1 DEF WriterInv, WriterTypeOK, SizeInv, Places
  <1>7. IdleInv'
    BY <1>1, <1>3 DEF WriterInv, IdleInv
  <1>8. HandedInv'
    <2>1. /\ queue \subseteq new /\ hand \subseteq new /\ queue \cap hand = {}
          /\ \A p \in Writers : todo[p] \cap queue = {} /\ todo[p] \cap hand = {}
      BY <1>1 DEF WriterInv, HandedInv, IdleInv
    <2>2. /\ queue' \subseteq new /\ hand' \subseteq new /\ queue' \cap hand' = {}
          /\ \A p \in Writers : todo[p] \cap queue' = {} /\ todo[p] \cap hand' = {}
      BY <1>2, <1>4, <2>1, SMT
    <2>3. \A d \in Events : at[d] \in {"new", "send"} => d \notin queue' /\ d \notin hand'
      BY <1>2 DEF WriterInv, HandedInv
    <2> QED
      BY <1>1, <1>3, <2>2, <2>3 DEF WriterInv, HandedInv
  <1>9. AcceptedInv'
    <2>1. \A d \in Events : Safe(d) => Safe(d)'
      BY <1>1, <1>2 DEF Safe
    <2> QED
      BY <1>3, <2>1, AcceptedKeeps DEF WriterInv
  <1>10. StoppedInv'
    BY <1>3 DEF StoppedInv
  <1> QED
    BY <1>6, <1>7, <1>8, <1>9, <1>10 DEF WriterInv

LEMMA DrainKeeps ==
    ASSUME WriterInv, Drain
    PROVE  WriterInv'
  <1> USE Processes
  <1>1. /\ UNCHANGED <<tx, new, history, queue, stopping, cancelled, reported>>
        /\ at[Run] = "select" /\ hand' = {} /\ (stopping \/ cancelled)
    BY DEF Drain, vars, Flag
  <1>2. /\ at' \in [Writers -> Places] /\ at'[Run] = "drain"
        /\ \A d \in Events : at'[d] = at[d]
    <2>1. /\ at' \in [Writers -> Places] /\ at'[Run] = "drain"
          /\ \A q \in Writers \ {Run} : at'[q] = at[q]
      BY PlaceMoves DEF Drain, WriterInv, WriterTypeOK, Places
    <2> QED
      BY <2>1
  <1>3. /\ todo' \in [Writers -> SUBSET Events] /\ todo'[Run] = hand
        /\ \A q \in Writers \ {Run} : todo'[q] = todo[q]
    BY TodoMoves DEF Drain, WriterInv, WriterTypeOK
  <1>4. todo[Run] = {} /\ hand \subseteq new
    BY <1>1 DEF WriterInv, IdleInv, HandedInv
  <1>5. WriterTypeOK' /\ SizeInv'
    <2>1. IsFiniteSet({}) /\ Cardinality({}) = 0 /\ 0 <= MaxBatch
      BY FS_EmptySet, AuditAssumption, SMT
    <2> QED
      BY <1>1, <1>2, <1>3, <2>1 DEF WriterInv, WriterTypeOK, SizeInv, Places
  <1>6. IdleInv'
    <2>1. \A d \in Events : todo'[d] = todo[d]
      BY <1>3
    <2> QED
      BY <1>1, <1>2, <1>3, <2>1 DEF WriterInv, IdleInv
  <1>7. HandedInv'
    <2>1. ASSUME NEW p \in Writers
          PROVE  /\ todo'[p] \subseteq new
                 /\ todo'[p] \cap queue = {} /\ todo'[p] \cap hand' = {}
                 /\ \A q \in Writers : p # q => todo'[p] \cap todo'[q] = {}
      BY <1>1, <1>3, <1>4 DEF WriterInv, HandedInv
    <2>2. ASSUME NEW d \in Events, at[d] \in {"new", "send"}
          PROVE  /\ d \in new /\ d \notin queue /\ d \notin hand'
                 /\ \A p \in Writers : d \notin todo'[p]
      <3>1. /\ d \in new /\ d \notin queue /\ d \notin hand
            /\ \A p \in Writers : d \notin todo[p]
        BY <2>2 DEF WriterInv, HandedInv
      <3> QED
        BY <1>1, <1>3, <3>1
    <2> QED
      BY <1>1, <1>2, <2>1, <2>2 DEF WriterInv, HandedInv
  <1>8. AcceptedInv'
    <2>1. \A d \in Events : Safe(d) => Safe(d)'
      BY <1>1, <1>3, <1>4 DEF Safe
    <2> QED
      BY <1>2, <2>1, AcceptedKeeps DEF WriterInv
  <1>9. StoppedInv'
    BY <1>1, <1>2 DEF StoppedInv
  <1> QED
    BY <1>5, <1>6, <1>7, <1>8, <1>9 DEF WriterInv

\* Stop and the end of the context.
LEMMA StopKeeps ==
    ASSUME WriterInv, Stop \/ Cancel
    PROVE  WriterInv'
  <1>1. /\ UNCHANGED <<tx, new, history, at, queue, hand, todo, reported>>
        /\ stopping' \in BOOLEAN /\ (stopping => stopping')
        /\ cancelled' \in BOOLEAN /\ (cancelled => cancelled')
    BY DEF Stop, Cancel, vars, WriterInv, WriterTypeOK
  <1>2. WriterTypeOK' /\ SizeInv' /\ IdleInv'
    BY <1>1 DEF WriterInv, WriterTypeOK, SizeInv, IdleInv
  <1>3. HandedInv'
    BY <1>1 DEF WriterInv, HandedInv
  <1>4. AcceptedInv'
    <2>1. \A d \in Events : Safe(d) => Safe(d)'
      BY <1>1 DEF Safe
    <2> QED
      BY <1>1, <2>1, AcceptedKeeps DEF WriterInv
  <1>5. StoppedInv'
    BY <1>1 DEF WriterInv, StoppedInv
  <1> QED
    BY <1>2, <1>3, <1>4, <1>5 DEF WriterInv

LEMMA IdleHasNoBatch ==
    ASSUME WriterInv
    PROVE  \A p \in Writers : tx[p].at = "idle" => tx[p].batch = {}
  BY DEF WriterInv, IdleInv

LEMMA SyncBeginKeeps ==
    ASSUME WriterInv, AuditInv, NEW e \in Events, SyncBegin(e)
    PROVE  WriterInv'
  <1> USE Processes
  <1>1. /\ UNCHANGED <<queue, hand, todo, stopping, cancelled, reported>>
        /\ at[e] = "new" /\ Opens(e, {e})
    BY DEF SyncBegin, Flag
  <1>2. /\ tx'[e].at = "open" /\ tx'[e].batch = {e}
        /\ \A p \in Writers \ {e} : tx'[p] = tx[p]
        /\ new' = new \ {e} /\ history' = history /\ tx[e].at = "idle"
    BY <1>1, TxOpens
  <1>3. /\ at' \in [Writers -> Places] /\ at'[e] = "sync"
        /\ \A q \in Writers \ {e} : at'[q] = at[q]
    BY PlaceMoves DEF SyncBegin, WriterInv, WriterTypeOK, Places
  <1>4. at'[Run] = at[Run] /\ tx'[Run] = tx[Run]
    BY <1>2, <1>3
  <1>5. /\ e \notin queue /\ e \notin hand /\ \A p \in Writers : e \notin todo[p]
    BY <1>1 DEF WriterInv, HandedInv
  <1>6. WriterTypeOK' /\ SizeInv'
    BY <1>1, <1>3, <1>4 DEF WriterInv, WriterTypeOK, SizeInv, Places
  <1>7. IdleInv'
    <2>1. \A p \in Writers : tx'[p].at = "idle" => tx'[p].batch = {}
      BY <1>2, IdleHasNoBatch
    <2>2. ASSUME NEW d \in Events
          PROVE  /\ at'[d] \in {"new", "send", "recheck", "take", "direct", "sync", "done"}
                 /\ at'[d] \notin {"direct", "sync"} => tx'[d].at = "idle"
                 /\ at'[d] \notin {"take", "direct"} => todo[d] = {}
      <3>1. CASE d = e
        BY <1>1, <1>3, <3>1 DEF WriterInv, IdleInv
      <3>2. CASE d # e
        <4>1. at'[d] = at[d] /\ tx'[d] = tx[d]
          BY <1>2, <1>3, <3>2
        <4> QED
          BY <4>1 DEF WriterInv, IdleInv
      <3> QED
        BY <3>1, <3>2
    <2> QED
      BY <1>1, <1>4, <2>1, <2>2 DEF WriterInv, IdleInv
  <1>8. HandedInv'
    <2>1. /\ queue \subseteq new' /\ (tx[Run].at = "idle" => hand \subseteq new')
          /\ \A p \in Writers : todo[p] \subseteq new'
      BY <1>2, <1>5 DEF WriterInv, HandedInv
    <2>2. ASSUME NEW d \in Events, at'[d] \in {"new", "send"}
          PROVE  /\ d \in new' /\ d \notin queue /\ d \notin hand
                 /\ \A p \in Writers : d \notin todo[p]
      BY <1>2, <1>3, <2>2 DEF WriterInv, HandedInv
    <2> QED
      BY <1>1, <1>4, <2>1, <2>2 DEF WriterInv, HandedInv
  <1>9. AcceptedInv'
    <2>1. tx[e].batch = {}
      BY <1>2, IdleHasNoBatch
    <2>2. (\A d \in Events : Safe(d) => Safe(d)') /\ Safe(e)'
      BY <1>1, <1>2, <2>1 DEF Safe
    <2>3. \A d \in Events : at[d] \in {"new", "send"} => Safe(d)' \/ at'[d] \in {"new", "send"}
      BY <1>3, <2>2
    <2> QED
      BY <2>2, <2>3, AcceptedKeeps DEF WriterInv
  <1>10. StoppedInv'
    <2>1. \A d \in Events : at[d] \in {"recheck", "take"} => at'[d] \in {"recheck", "take"}
      BY <1>1, <1>3
    <2> QED
      BY <1>1, <1>4, <2>1 DEF WriterInv, StoppedInv
  <1> QED
    BY <1>6, <1>7, <1>8, <1>9, <1>10 DEF WriterInv

LEMMA DirectBeginKeeps ==
    ASSUME WriterInv, AuditInv, NEW p \in Writers, DirectBegin(p)
    PROVE  WriterInv'
  <1> USE Processes
  <1>1. PICK b \in SUBSET todo[p] :
            /\ Opens(p, b) /\ todo' = [todo EXCEPT ![p] = todo[p] \ b]
            /\ UNCHANGED <<at, queue, hand, stopping, cancelled, reported>> /\ Direct(p)
    BY DEF DirectBegin, Flag
  <1>2. b \in SUBSET Events /\ todo[p] \ b \in SUBSET Events
    BY <1>1 DEF WriterInv, WriterTypeOK
  <1>3. /\ tx'[p].at = "open" /\ tx'[p].batch = b
        /\ \A q \in Writers \ {p} : tx'[q] = tx[q]
        /\ new' = new \ b /\ history' = history /\ tx[p].at = "idle"
    BY <1>1, <1>2, TxOpens
  <1>4. /\ todo' \in [Writers -> SUBSET Events] /\ todo'[p] = todo[p] \ b
        /\ \A q \in Writers \ {p} : todo'[q] = todo[q]
    BY <1>1, <1>2, TodoMoves DEF WriterInv, WriterTypeOK
  <1>5. WriterTypeOK' /\ SizeInv' /\ StoppedInv'
    BY <1>1, <1>4 DEF WriterInv, WriterTypeOK, SizeInv, StoppedInv
  <1>6. IdleInv'
    <2>1. \A q \in Writers : tx'[q].at = "idle" => tx'[q].batch = {}
      BY <1>3, IdleHasNoBatch
    <2>2. \A q \in Writers : todo[q] = {} => todo'[q] = {}
      BY <1>4
    <2>3. ASSUME NEW d \in Events, at[d] \notin {"direct", "sync"} PROVE tx'[d].at = "idle"
      <3>1. at[d] # "drain" /\ at[d] # "leave"
        BY DEF WriterInv, IdleInv
      <3>2. d # p
        BY <1>1, <2>3, <3>1 DEF Direct
      <3> QED
        BY <1>3, <2>3, <3>2 DEF WriterInv, IdleInv
    <2>4. p = Run => at[Run] \in {"drain", "leave"}
      BY <1>1 DEF Direct, WriterInv, IdleInv
    <2>5. p # Run => tx'[Run] = tx[Run]
      BY <1>3
    <2> QED
      BY <1>1, <2>1, <2>2, <2>3, <2>4, <2>5 DEF WriterInv, IdleInv
  <1>7. HandedInv'
    <2>1. /\ queue \subseteq new /\ (tx[Run].at = "idle" => hand \subseteq new)
          /\ todo[p] \cap queue = {} /\ todo[p] \cap hand = {}
      BY DEF WriterInv, HandedInv
    <2>2. queue \subseteq new' /\ (tx[Run].at = "idle" => hand \subseteq new')
      BY <1>1, <1>3, <2>1
    <2>3. tx'[Run].at = "idle" => tx[Run].at = "idle"
      BY <1>3
    <2>4. ASSUME NEW q \in Writers
          PROVE  /\ todo'[q] \subseteq new' /\ todo'[q] \subseteq todo[q]
      <3>1. todo[q] \subseteq new /\ (q # p => todo[q] \cap todo[p] = {})
        BY DEF WriterInv, HandedInv
      <3> QED
        BY <1>1, <1>3, <1>4, <3>1
    <2>5. ASSUME NEW q \in Writers
          PROVE  /\ todo'[q] \cap queue = {} /\ todo'[q] \cap hand = {}
                 /\ \A o \in Writers : q # o => todo'[q] \cap todo'[o] = {}
      <3>1. /\ todo[q] \cap queue = {} /\ todo[q] \cap hand = {}
            /\ \A o \in Writers : q # o => todo[q] \cap todo[o] = {}
        BY DEF WriterInv, HandedInv
      <3> QED
        BY <2>4, <3>1
    <2>6. ASSUME NEW d \in Events, at[d] \in {"new", "send"}
          PROVE  /\ d \in new' /\ d \notin queue /\ d \notin hand
                 /\ \A q \in Writers : d \notin todo'[q]
      <3>1. /\ d \in new /\ d \notin queue /\ d \notin hand
            /\ \A q \in Writers : d \notin todo[q]
        BY <2>6 DEF WriterInv, HandedInv
      <3> QED
        BY <1>1, <1>3, <2>4, <3>1
    <2>7. queue \cap hand = {}
      BY DEF WriterInv, HandedInv
    <2> QED
      BY <1>1, <2>2, <2>3, <2>4, <2>5, <2>6, <2>7 DEF HandedInv
  <1>8. AcceptedInv'
    <2>1. tx[p].batch = {}
      BY <1>3, IdleHasNoBatch
    <2>2. \A d \in Events : Safe(d) => Safe(d)'
      BY <1>1, <1>3, <1>4, <2>1 DEF Safe
    <2> QED
      BY <1>1, <2>2, AcceptedKeeps DEF WriterInv
  <1> QED
    BY <1>5, <1>6, <1>7, <1>8 DEF WriterInv

LEMMA FlushBeginKeeps ==
    ASSUME WriterInv, AuditInv, FlushBegin
    PROVE  WriterInv'
  <1> USE Processes
  <1>1. /\ UNCHANGED <<queue, hand, todo, stopping, cancelled, reported>>
        /\ at[Run] = "flush" /\ Opens(Run, hand) /\ hand \in SUBSET Events
    BY DEF FlushBegin, Flag, WriterInv, WriterTypeOK
  <1>2. /\ tx'[Run].at = "open" /\ tx'[Run].batch = hand
        /\ \A p \in Writers \ {Run} : tx'[p] = tx[p]
        /\ new' = new \ hand /\ history' = history /\ tx[Run].at = "idle"
    BY <1>1, TxOpens
  <1>3. /\ at' \in [Writers -> Places] /\ at'[Run] \in {"flush", "last"}
        /\ \A d \in Events : at'[d] = at[d] /\ tx'[d] = tx[d]
    <2>1. PICK place \in {"flush", "last"} : Goes(Run, place)
      BY DEF FlushBegin
    <2>2. /\ at' \in [Writers -> Places] /\ at'[Run] = place
          /\ \A q \in Writers \ {Run} : at'[q] = at[q]
      BY <2>1, PlaceMoves DEF WriterInv, WriterTypeOK, Places
    <2> QED
      BY <1>2, <2>1, <2>2
  <1>4. WriterTypeOK' /\ SizeInv'
    BY <1>1, <1>3 DEF WriterInv, WriterTypeOK, SizeInv, Places
  <1>5. IdleInv'
    <2>1. \A p \in Writers : tx'[p].at = "idle" => tx'[p].batch = {}
      BY <1>2, IdleHasNoBatch
    <2> QED
      BY <1>1, <1>2, <1>3, <2>1 DEF WriterInv, IdleInv
  <1>6. HandedInv'
    <2>1. /\ queue \subseteq new' /\ \A p \in Writers : todo[p] \subseteq new'
      BY <1>2 DEF WriterInv, HandedInv
    <2>2. ASSUME NEW d \in Events, at[d] \in {"new", "send"}
          PROVE  /\ d \in new' /\ d \notin queue /\ d \notin hand
                 /\ \A p \in Writers : d \notin todo[p]
      BY <1>2, <2>2 DEF WriterInv, HandedInv
    <2> QED
      BY <1>1, <1>2, <1>3, <2>1, <2>2 DEF WriterInv, HandedInv
  <1>7. AcceptedInv'
    <2>1. tx[Run].batch = {}
      BY <1>2, IdleHasNoBatch
    <2>2. \A d \in Events : Safe(d) => Safe(d)'
      BY <1>1, <1>2, <2>1 DEF Safe
    <2> QED
      BY <1>3, <2>2, AcceptedKeeps DEF WriterInv
  <1>8. StoppedInv'
    BY <1>3 DEF StoppedInv
  <1> QED
    BY <1>4, <1>5, <1>6, <1>7, <1>8 DEF WriterInv

\* The end of a transaction: its batch is recorded, or its loss is reported.
LEMMA OverKeeps ==
    ASSUME WriterInv, AuditInv, NEW w \in Writers,
           \/ Commit(w) /\ UNCHANGED reported
           \/ GiveUp(w) /\ reported' = reported \cup tx[w].batch,
           UNCHANGED <<queue, todo, stopping, cancelled>>
    PROVE  /\ TxOver(w) /\ reported' \subseteq Events
           /\ \A p \in Writers : tx'[p].at = "idle" => tx'[p].batch = {}
           /\ \A d \in Events : Safe(d) => Safe(d)' \/ d \in hand
           /\ \A d \in tx[w].batch : Safe(d)'
  <1>1. TxOver(w) /\ (Commit(w) => \A d \in tx[w].batch : \E r \in history' : r.event = d)
    BY TxEnds
  <1>2. reported' \subseteq Events
    BY TxFields DEF WriterInv, WriterTypeOK, AuditInv
  <1>3. \A p \in Writers : tx'[p].at = "idle" => tx'[p].batch = {}
    BY <1>1, IdleHasNoBatch DEF TxOver
  <1>4. \A d \in tx[w].batch : Safe(d)'
    BY <1>1 DEF Safe
  <1>5. \A d \in reported : d \in reported'
    OBVIOUS
  <1>6. ASSUME NEW d \in Events, Safe(d), d \notin hand, d \notin tx[w].batch PROVE Safe(d)'
    BY <1>1, <1>5, <1>6 DEF Safe, TxOver
  <1> QED
    BY <1>1, <1>2, <1>3, <1>4, <1>6

LEMMA SyncDoneKeeps ==
    ASSUME WriterInv, AuditInv, NEW e \in Events, SyncDone(e)
    PROVE  WriterInv'
  <1> USE Processes
  <1>1. UNCHANGED <<queue, hand, todo, stopping, cancelled>> /\ at[e] = "sync"
    BY DEF SyncDone, Flag
  <1>2. /\ TxOver(e) /\ reported' \subseteq Events
        /\ \A p \in Writers : tx'[p].at = "idle" => tx'[p].batch = {}
        /\ \A d \in Events : Safe(d) => Safe(d)' \/ d \in hand
    BY <1>1, OverKeeps DEF SyncDone
  <1>3. /\ at' \in [Writers -> Places] /\ at'[e] = "done"
        /\ \A q \in Writers \ {e} : at'[q] = at[q]
    BY PlaceMoves DEF SyncDone, WriterInv, WriterTypeOK, Places
  <1>4. at'[Run] = at[Run] /\ tx'[Run] = tx[Run] /\ new' = new
    BY <1>2, <1>3 DEF TxOver
  <1>5. WriterTypeOK' /\ SizeInv'
    BY <1>1, <1>2, <1>3, <1>4 DEF WriterInv, WriterTypeOK, SizeInv, Places
  <1>6. IdleInv'
    <2>1. ASSUME NEW d \in Events
          PROVE  /\ at'[d] \in {"new", "send", "recheck", "take", "direct", "sync", "done"}
                 /\ at'[d] \notin {"direct", "sync"} => tx'[d].at = "idle"
                 /\ at'[d] \notin {"take", "direct"} => todo[d] = {}
      <3>1. d # e => tx'[d] = tx[d]
        BY <1>2 DEF TxOver
      <3>2. tx'[e].at = "idle"
        BY <1>2 DEF TxOver
      <3> QED
        BY <1>1, <1>3, <3>1, <3>2 DEF WriterInv, IdleInv
    <2> QED
      BY <1>1, <1>2, <1>4, <2>1 DEF WriterInv, IdleInv
  <1>7. HandedInv'
    <2>1. \A d \in Events : at'[d] \in {"new", "send"} => at[d] \in {"new", "send"}
      BY <1>3
    <2> QED
      BY <1>1, <1>4, <2>1 DEF WriterInv, HandedInv
  <1>8. AcceptedInv'
    <2>1. \A d \in Events : Safe(d) => Safe(d)'
      BY <1>1, <1>2 DEF Safe
    <2>2. \A d \in Events : at[d] \in {"new", "send"} => at'[d] \in {"new", "send"}
      BY <1>1, <1>3
    <2> QED
      BY <2>1, <2>2, AcceptedKeeps DEF WriterInv
  <1>9. StoppedInv'
    <2>1. \A d \in Events : at[d] \in {"recheck", "take"} => at'[d] \in {"recheck", "take"}
      BY <1>1, <1>3
    <2> QED
      BY <1>1, <1>4, <2>1 DEF WriterInv, StoppedInv
  <1> QED
    BY <1>5, <1>6, <1>7, <1>8, <1>9 DEF WriterInv

LEMMA DirectWriteKeeps ==
    ASSUME WriterInv, AuditInv, NEW p \in Writers, DirectWrite(p)
    PROVE  WriterInv'
  <1> USE Processes
  <1>1. UNCHANGED <<at, queue, hand, todo, stopping, cancelled>> /\ Direct(p)
    BY DEF DirectWrite, Flag
  <1>2. /\ TxOver(p) /\ reported' \subseteq Events
        /\ \A q \in Writers : tx'[q].at = "idle" => tx'[q].batch = {}
        /\ \A d \in Events : Safe(d) => Safe(d)' \/ d \in hand
    BY <1>1, OverKeeps DEF DirectWrite
  <1>3. WriterTypeOK' /\ SizeInv' /\ StoppedInv'
    BY <1>1, <1>2 DEF WriterInv, WriterTypeOK, SizeInv, StoppedInv
  <1>4. \A q \in Writers : tx[q].at = "idle" => tx'[q].at = "idle"
    BY <1>2 DEF TxOver
  <1>5. p = Run => at[Run] \in {"drain", "leave"} /\ hand = {}
    BY <1>1 DEF Direct, WriterInv, IdleInv
  <1>6. p # Run => tx'[Run] = tx[Run]
    BY <1>2 DEF TxOver
  <1>7. IdleInv'
    BY <1>1, <1>2, <1>4, <1>5, <1>6 DEF WriterInv, IdleInv
  <1>8. HandedInv'
    <2>1. new' = new /\ (tx'[Run].at = "idle" => hand \subseteq new)
      BY <1>2, <1>5, <1>6 DEF TxOver, WriterInv, HandedInv
    <2> QED
      BY <1>1, <2>1 DEF WriterInv, HandedInv
  <1>9. AcceptedInv'
    <2>1. \A d \in Events : Safe(d) => Safe(d)'
      BY <1>1, <1>2 DEF Safe
    <2> QED
      BY <1>1, <2>1, AcceptedKeeps DEF WriterInv
  <1> QED
    BY <1>3, <1>7, <1>8, <1>9 DEF WriterInv

LEMMA FlushedKeeps ==
    ASSUME WriterInv, AuditInv, FlushDone \/ LastFailed
    PROVE  WriterInv'
  <1> USE Processes
  <1>1. /\ UNCHANGED <<queue, todo, stopping, cancelled>> /\ hand' = {}
        /\ at[Run] \in {"flush", "last"} /\ Goes(Run, "select")
    BY DEF FlushDone, LastFailed, Flushed, Flag
  <1>2. /\ TxOver(Run) /\ reported' \subseteq Events
        /\ \A p \in Writers : tx'[p].at = "idle" => tx'[p].batch = {}
        /\ \A d \in Events : Safe(d) => Safe(d)' \/ d \in hand
        /\ \A d \in tx[Run].batch : Safe(d)'
    BY <1>1, OverKeeps DEF FlushDone, LastFailed
  <1>3. /\ at' \in [Writers -> Places] /\ at'[Run] = "select"
        /\ \A d \in Events : at'[d] = at[d] /\ tx'[d] = tx[d]
    <2>1. /\ at' \in [Writers -> Places] /\ at'[Run] = "select"
          /\ \A q \in Writers \ {Run} : at'[q] = at[q]
      BY <1>1, PlaceMoves DEF WriterInv, WriterTypeOK, Places
    <2> QED
      BY <1>2, <2>1 DEF TxOver
  <1>4. tx[Run].batch = hand /\ tx'[Run].at = "idle" /\ new' = new
    BY <1>1, <1>2 DEF TxOver, WriterInv, IdleInv
  <1>5. WriterTypeOK' /\ SizeInv'
    <2>1. IsFiniteSet({}) /\ Cardinality({}) = 0 /\ 0 <= MaxBatch /\ 0 < MaxBatch
      BY FS_EmptySet, AuditAssumption, SMT
    <2> QED
      BY <1>1, <1>2, <1>3, <2>1 DEF WriterInv, WriterTypeOK, SizeInv, Places
  <1>6. IdleInv'
    BY <1>1, <1>2, <1>3, <1>4 DEF WriterInv, IdleInv
  <1>7. HandedInv'
    <2>1. /\ queue \subseteq new /\ \A p \in Writers :
                /\ todo[p] \subseteq new /\ todo[p] \cap queue = {}
                /\ \A q \in Writers : p # q => todo[p] \cap todo[q] = {}
      BY DEF WriterInv, HandedInv
    <2>2. \A d \in Events : at[d] \in {"new", "send"} =>
             d \in new /\ d \notin queue /\ \A p \in Writers : d \notin todo[p]
      BY DEF WriterInv, HandedInv
    <2> QED
      BY <1>1, <1>3, <1>4, <2>1, <2>2 DEF HandedInv
  <1>8. AcceptedInv'
    <2>1. \A d \in Events : Safe(d) => Safe(d)'
      BY <1>2, <1>4
    <2> QED
      BY <1>3, <2>1, AcceptedKeeps DEF WriterInv
  <1>9. StoppedInv'
    BY <1>3 DEF StoppedInv
  <1> QED
    BY <1>5, <1>6, <1>7, <1>8, <1>9 DEF WriterInv

-----------------------------------------------------------------------------
(* The theorems about the writer.                                          *)

LEMMA WriterStart == WriterInit => WriterInv
  <1> SUFFICES ASSUME WriterInit PROVE WriterInv
    OBVIOUS
  <1> USE Processes
  <1>1. /\ at \in [Writers -> Places] /\ at[Run] = "select" /\ \A e \in Events : at[e] = "new"
        /\ todo \in [Writers -> SUBSET Events] /\ \A p \in Writers : todo[p] = {}
        /\ queue = {} /\ hand = {} /\ reported = {} /\ ~stopping /\ ~cancelled
        /\ stopping \in BOOLEAN /\ cancelled \in BOOLEAN
        /\ new = Events
    BY DEF WriterInit, Init, Places
  <1>2. \A p \in Writers : tx[p].at = "idle" /\ tx[p].batch = {}
    BY DEF WriterInit, Init, NoTx
  <1>3. /\ IsFiniteSet({}) /\ Cardinality({}) = 0 /\ 0 <= MaxBatch /\ 0 < MaxBatch
        /\ 0 <= BufferSize
    BY FS_EmptySet, AuditAssumption, WriterAssumption, SMT
  <1>4. WriterTypeOK /\ SizeInv
    BY <1>1, <1>3 DEF WriterTypeOK, SizeInv, Places
  <1>5. IdleInv
    BY <1>1, <1>2 DEF IdleInv
  <1>6. HandedInv /\ AcceptedInv /\ StoppedInv
    BY <1>1 DEF HandedInv, AcceptedInv, StoppedInv
  <1> QED
    BY <1>4, <1>5, <1>6 DEF WriterInv

LEMMA WriterKeeps == WriterInv /\ AuditInv /\ [WriterStep]_allVars => WriterInv'
  <1> SUFFICES ASSUME WriterInv, AuditInv, [WriterStep]_allVars PROVE WriterInv'
    OBVIOUS
  <1> USE Processes
  <1>1. ASSUME NEW e \in Events, LogCheck(e) PROVE WriterInv'
    <2>1. at[e] = "new"
      BY <1>1 DEF LogCheck
    <2>2. CASE WritesItself(e)
      BY <2>1, <2>2, WritesItselfKeeps
    <2>3. CASE Goes(e, "send") /\ UNCHANGED <<vars, queue, hand, todo, Flag, reported>>
      BY <2>1, <2>3, CallMoves
    <2> QED
      BY <1>1, <2>2, <2>3 DEF LogCheck
  <1>2. ASSUME NEW e \in Events, CallStep(e) PROVE WriterInv'
    <2>1. CASE LogStopped(e)
      BY <2>1, WritesItselfKeeps DEF LogStopped
    <2>2. CASE LogRecheck(e) \/ DirectDone(e)
      <3>1. UNCHANGED <<vars, queue, hand, todo, Flag, reported>>
        BY <2>2 DEF LogRecheck, DirectDone
      <3> QED
        BY <2>2, <3>1, CallMoves
    <2> QED
      BY <1>2, <2>1, <2>2, LogSendKeeps, takeQueuedKeeps, SyncDoneKeeps DEF CallStep
  <1>3. ASSUME NEW p \in Writers, TxStep(p) \/ DirectBegin(p) \/ DirectWrite(p) PROVE WriterInv'
    BY <1>3, TxStepKeeps, DirectBeginKeeps, DirectWriteKeeps
  <1>4. ASSUME RunStep PROVE WriterInv'
    BY <1>4, ReceiveKeeps, RunMoves, FlushBeginKeeps, FlushedKeeps, TxStepKeeps, LastTryKeeps,
       DrainKeeps, takeQueuedKeeps DEF RunStep
  <1>5. CASE UNCHANGED allVars
    <2>1. TxQuiet /\ UNCHANGED <<at, queue, hand, todo, stopping, cancelled, reported>>
      BY <1>5 DEF TxQuiet, allVars, vars, ownVars
    <2> QED
      BY <2>1, QuietKeeps
  <1> QED
    BY <1>1, <1>2, <1>3, <1>4, <1>5, SyncBeginKeeps, StopKeeps DEF WriterStep

\* The inductive invariant holds of every run of a writer, with that of its chain.
THEOREM WriterCorrect == WriterSpec => [](WriterInv /\ AuditInv)
  <1>1. WriterInit => WriterInv /\ AuditInv
    BY WriterStart, AuditInit DEF WriterInit
  <1>2. WriterInv /\ AuditInv /\ [WriterStep]_allVars => WriterInv' /\ AuditInv'
    BY WriterKeeps, StepOfTheChain, AuditStep
  <1> QED
    BY <1>1, <1>2, PTL DEF WriterSpec

\* Log, WriteSync, the goroutine, Stop and the end of the context use the
\* transactions as AuditChain lets them: no event is handed to two of them, so
\* what is proved of the chain holds of a writer with its queue.
THEOREM WriterUsesTheChain == WriterSpec => Spec
  <1>1. WriterInit => Init
    BY DEF WriterInit
  <1>2. WriterInv /\ AuditInv /\ [WriterStep]_allVars => [Next]_vars
    BY StepOfTheChain
  <1> QED
    BY <1>1, <1>2, WriterCorrect, PTL DEF WriterSpec, Spec

\* Every variable of the writer keeps its type: the queue stays within its
\* buffer, and a batch within batchSize.
THEOREM WriterTypeCorrect == WriterSpec => []WriterTypeOK
  <1>1. WriterInv => WriterTypeOK
    BY DEF WriterInv
  <1> QED
    BY <1>1, WriterCorrect, PTL

\* An event whose call returned is stored, on its way or reported as lost; and a
\* stopped writer leaves nothing behind, whichever way Log raced with Stop.
THEOREM WriterLosesNothing == WriterSpec => []NoSilentLoss
  <1>1. WriterInv => NoSilentLoss
    <2> SUFFICES ASSUME WriterInv PROVE NoSilentLoss
      OBVIOUS
    <2>1. \A e \in Events : at[e] = "done" => e \in InWork \cup Recorded \cup reported
      BY DEF WriterInv, AcceptedInv
    <2>2. ASSUME at[Run] = "done", ~cancelled, \A e \in Events : at[e] \in {"new", "done"}
          PROVE  InWork = {}
      <3>1. queue = {}
        BY <2>2 DEF WriterInv, StoppedInv
      <3>2. hand = {} /\ todo[Run] = {} /\ tx[Run].batch = {}
        BY <2>2, Processes, IdleHasNoBatch DEF WriterInv, IdleInv
      <3>3. ASSUME NEW e \in Events PROVE todo[e] = {} /\ tx[e].batch = {}
        BY <2>2, Processes, IdleHasNoBatch DEF WriterInv, IdleInv
      <3>4. \A p \in Writers : todo[p] = {} /\ tx[p].batch = {}
        BY <3>2, <3>3, WriterAssumption
      <3> QED
        BY <3>1, <3>2, <3>4 DEF InWork
    <2> QED
      BY <2>1, <2>2 DEF NoSilentLoss
  <1> QED
    BY <1>1, WriterCorrect, PTL
=============================================================================
