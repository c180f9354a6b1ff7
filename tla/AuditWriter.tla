---------------------------- MODULE AuditWriter ----------------------------
(***************************************************************************)
(* One audit Writer (writer.go, sync_writer.go): callers of Log and        *)
(* WriteSync, the bounded queue, the goroutine that batches and flushes,   *)
(* and the two ways it ends, Stop and the end of its context.  A flush is  *)
(* the transaction of AuditChain.                                          *)
(*                                                                         *)
(* Every event is logged by one call, so an event also names the process   *)
(* of its caller; Run names the goroutine.                                 *)
(***************************************************************************)
EXTENDS AuditChain

CONSTANTS
    Run,             \* the goroutine of Start
    BufferSize       \* writerBufferSize

ASSUME WriterAssumption ==
    /\ Run \notin Events /\ Writers = Events \cup {Run}
    /\ BufferSize \in Nat \ {0}

VARIABLES
    at,          \* where a process is
    queue,       \* the buffer: its order does not matter here
    hand,        \* the batch of the goroutine
    todo,        \* what a writeDirect has still to write
    stopping,    \* Stop closed the channel
    cancelled,   \* the context of Start ended
    reported     \* the events whose write was reported as failed

ownVars == <<at, queue, hand, todo, stopping, cancelled, reported>>
allVars == <<vars, ownVars>>

Flag == <<stopping, cancelled>>

WriterInit ==
    /\ Init
    /\ at = [p \in Writers |-> IF p = Run THEN "select" ELSE "new"]
    /\ queue = {} /\ hand = {} /\ reported = {}
    /\ todo = [p \in Writers |-> {}]
    /\ stopping = FALSE /\ cancelled = FALSE

Goes(p, place) == at' = [at EXCEPT ![p] = place]

-----------------------------------------------------------------------------
(* Log.  Its first check, its select and its last check are steps. *)

\* A stopped writer writes the event on the goroutine of the caller.
WritesItself(e) ==
    /\ Goes(e, "direct")
    /\ todo' = [todo EXCEPT ![e] = {e}]
    /\ UNCHANGED <<vars, queue, hand, Flag, reported>>

LogCheck(e) ==
    /\ at[e] = "new"
    /\ \/ stopping /\ WritesItself(e)
       \/ ~stopping /\ Goes(e, "send") /\ UNCHANGED <<vars, queue, hand, todo, Flag, reported>>

LogSend(e) ==
    /\ at[e] = "send" /\ Cardinality(queue) < BufferSize
    /\ queue' = queue \cup {e}
    /\ Goes(e, "recheck")
    /\ UNCHANGED <<vars, hand, todo, Flag, reported>>

\* Mutant of LogStopped: the select waits for room only.
LogStoppedNot(e) == FALSE /\ UNCHANGED allVars

LogStopped(e) == at[e] = "send" /\ stopping /\ WritesItself(e)

\* Mutant of LogRecheck: the event is in the queue, so the call returns.
LogRecheckNot(e) ==
    /\ at[e] = "recheck"
    /\ Goes(e, "done")
    /\ UNCHANGED <<vars, queue, hand, todo, Flag, reported>>

\* The writer may have been stopped meanwhile, and its goroutine gone.
LogRecheck(e) ==
    /\ at[e] = "recheck"
    /\ Goes(e, IF stopping THEN "take" ELSE "done")
    /\ UNCHANGED <<vars, queue, hand, todo, Flag, reported>>

\* takeQueued: one event after the other until the queue is empty, then writeDirect.
takeQueued(p) ==
    /\ at[p] = "take"
    /\ \/ /\ \E e \in queue : /\ queue' = queue \ {e}
                             /\ todo' = [todo EXCEPT ![p] = todo[p] \cup {e}]
          /\ UNCHANGED at
       \/ /\ queue = {}
          /\ Goes(p, IF p = Run THEN "leave" ELSE "direct")
          /\ UNCHANGED <<queue, todo>>
    /\ UNCHANGED <<vars, hand, Flag, reported>>

-----------------------------------------------------------------------------
(* The transaction of a process, and what follows it. *)

InTx(p) == \/ \E t \in Tenants : LockChain(p, t)
           \/ \E e \in Events : Extend(p, e)
           \/ CommitUnanswered(p)
           \/ TxFails(p)

TxStep(p) == InTx(p) /\ UNCHANGED ownVars

Opens(p, batch) == BeginTx(p, batch) /\ new' = new \ batch

\* WriteSync begins its transaction at once.
SyncBegin(e) ==
    /\ at[e] = "new"
    /\ Opens(e, {e})
    /\ Goes(e, "sync")
    /\ UNCHANGED <<queue, hand, todo, Flag, reported>>

SyncDone(e) ==
    /\ at[e] = "sync" /\ Goes(e, "done")
    /\ \/ Commit(e) /\ UNCHANGED reported
       \/ GiveUp(e) /\ reported' = reported \cup tx[e].batch
    /\ UNCHANGED <<queue, hand, todo, Flag>>

\* writeDirect, one chunk after the other: a chunk that fails is reported.
Direct(p) == at[p] \in {"direct", "drain", "leave"}

DirectBegin(p) ==
    /\ Direct(p) /\ tx[p].at = "idle"
    /\ \E batch \in SUBSET todo[p] :
          /\ Cardinality(batch) = MaxBatch \/ batch = todo[p]
          /\ Opens(p, batch)
          /\ todo' = [todo EXCEPT ![p] = todo[p] \ batch]
    /\ UNCHANGED <<at, queue, hand, Flag, reported>>

DirectWrite(p) ==
    /\ Direct(p)
    /\ \/ Commit(p) /\ UNCHANGED reported
       \/ GiveUp(p) /\ reported' = reported \cup tx[p].batch
    /\ UNCHANGED <<at, queue, hand, todo, Flag>>

Written(p) == tx[p].at = "idle" /\ todo[p] = {}

DirectDone(e) ==
    /\ at[e] = "direct" /\ Written(e)
    /\ Goes(e, "done")
    /\ UNCHANGED <<vars, queue, hand, todo, Flag, reported>>

-----------------------------------------------------------------------------
(* run and flushDurable. *)

Receive ==
    /\ at[Run] = "select"
    /\ \E e \in queue :
          /\ queue' = queue \ {e} /\ hand' = hand \cup {e}
          /\ IF Cardinality(hand') >= MaxBatch THEN Goes(Run, "flush") ELSE UNCHANGED at
    /\ UNCHANGED <<vars, todo, Flag, reported>>

\* Mutant of Ticker: only a full batch is flushed.
TickerOfFull ==
    /\ at[Run] = "select" /\ Cardinality(hand) >= MaxBatch
    /\ Goes(Run, "flush")
    /\ UNCHANGED <<vars, queue, hand, todo, Flag, reported>>

Ticker ==
    /\ at[Run] = "select" /\ hand # {}
    /\ Goes(Run, "flush")
    /\ UNCHANGED <<vars, queue, hand, todo, Flag, reported>>

\* A flush under a context that has ended fails at once, and is made again by writeDirect.
FlushBegin ==
    /\ at[Run] = "flush" /\ tx[Run].at = "idle"
    /\ Opens(Run, hand)
    /\ Goes(Run, IF cancelled THEN "last" ELSE "flush")
    /\ UNCHANGED <<queue, hand, todo, Flag, reported>>

Flushed == Goes(Run, "select") /\ hand' = {} /\ UNCHANGED <<queue, todo, Flag>>

FlushDone == at[Run] \in {"flush", "last"} /\ Commit(Run) /\ Flushed /\ UNCHANGED reported

\* The backoff, and the batch is tried again.
Backoff ==
    /\ at[Run] = "flush" /\ ~cancelled
    /\ Retry(Run)
    /\ UNCHANGED ownVars

\* The writer was told to stop: one last try.
LastTry ==
    /\ at[Run] = "flush" /\ (stopping \/ cancelled)
    /\ Retry(Run)
    /\ Goes(Run, "last")
    /\ UNCHANGED <<queue, hand, todo, Flag, reported>>

LastFailed ==
    /\ at[Run] = "last" /\ GiveUp(Run)
    /\ reported' = reported \cup tx[Run].batch
    /\ Flushed

\* drainAndExit: the batch in hand, then what is in the queue.
Drain ==
    /\ at[Run] = "select" /\ (stopping \/ cancelled)
    /\ Goes(Run, "drain")
    /\ todo' = [todo EXCEPT ![Run] = hand] /\ hand' = {}
    /\ UNCHANGED <<vars, queue, Flag, reported>>

DrainQueue ==
    /\ at[Run] = "drain" /\ Written(Run)
    /\ Goes(Run, "take")
    /\ UNCHANGED <<vars, queue, hand, todo, Flag, reported>>

Leave ==
    /\ at[Run] = "leave" /\ Written(Run)
    /\ Goes(Run, "done")
    /\ UNCHANGED <<vars, queue, hand, todo, Flag, reported>>

Stop ==
    /\ ~stopping /\ stopping' = TRUE
    /\ UNCHANGED <<vars, at, queue, hand, todo, cancelled, reported>>

Cancel ==
    /\ ~cancelled /\ cancelled' = TRUE
    /\ UNCHANGED <<vars, at, queue, hand, todo, stopping, reported>>

-----------------------------------------------------------------------------
CallStep(e) ==
    \/ LogSend(e) \/ LogStopped(e) \/ LogRecheck(e) \/ takeQueued(e)
    \/ SyncDone(e) \/ DirectDone(e)

RunStep ==
    \/ Receive \/ Ticker \/ FlushBegin \/ FlushDone \/ Backoff \/ LastTry \/ LastFailed
    \/ Drain \/ DrainQueue \/ takeQueued(Run) \/ Leave

WriterStep ==
    \/ \E e \in Events : LogCheck(e) \/ SyncBegin(e) \/ CallStep(e)
    \/ \E p \in Writers : TxStep(p) \/ DirectBegin(p) \/ DirectWrite(p)
    \/ RunStep
    \/ Stop \/ Cancel

WriterSpec == WriterInit /\ [][WriterStep]_allVars

\* Every process goes on, and Postgres serves the waiters of a lock in turn.
\* Nobody has to call Log, Stop the writer or end its context.
WriterFairness ==
    /\ \A e \in Events : WF_allVars(CallStep(e))
    /\ \A p \in Writers :
          /\ SF_allVars((\E t \in Tenants : LockChain(p, t)) /\ UNCHANGED ownVars)
          /\ WF_allVars((\E e \in Events : Extend(p, e)) /\ UNCHANGED ownVars)
          /\ WF_allVars(DirectBegin(p) \/ DirectWrite(p))
    /\ WF_allVars(RunStep)

FairWriterSpec == WriterSpec /\ WriterFairness

-----------------------------------------------------------------------------
(* Properties. *)

Recorded == {r.event : r \in history}

InWork == queue \cup hand \cup UNION {todo[p] \cup tx[p].batch : p \in Writers}

\* Every variable of the writer has its type.
WriterTypeOK ==
    /\ at \in [Writers -> {"new", "send", "recheck", "direct", "sync", "done",
                           "select", "flush", "last", "drain", "take", "leave"}]
    /\ queue \subseteq Events /\ Cardinality(queue) <= BufferSize
    /\ hand \subseteq Events /\ Cardinality(hand) <= MaxBatch
    /\ todo \in [Writers -> SUBSET Events]
    /\ stopping \in BOOLEAN /\ cancelled \in BOOLEAN
    /\ reported \subseteq Events

\* An audit write never drops (writer.go:16): an event whose call returned is
\* stored, on its way, or reported as lost; and when a stopped writer is gone
\* and no call is left, nothing is left in the queue, whichever way Log raced
\* with Stop (writer.go:210).  The end of the context is the exception.
NoSilentLoss ==
    /\ \A e \in Events : at[e] = "done" => e \in InWork \cup Recorded \cup reported
    /\ (/\ at[Run] = "done" /\ ~cancelled
        /\ \A e \in Events : at[e] \in {"new", "done"}) => InWork = {}

\* A call returns, also when the queue is full and Postgres fails for a while,
\* unless the goroutine left because its context ended and nobody called Stop.
CallReturns ==
    \A e \in Events : (at[e] # "new") ~> (at[e] = "done" \/ (cancelled /\ ~stopping))

\* What is in the queue gets into the table or is reported as lost, although
\* flushes fail and are made again; the same exception.
QueuedIsWritten ==
    \A e \in Events : (e \in queue) ~> (e \in Recorded \/ e \in reported \/ cancelled)

-----------------------------------------------------------------------------
(* The inductive invariant. *)

\* The goroutine takes the event that fills its batch to the flush.
SizeInv ==
    /\ IsFiniteSet(queue) /\ IsFiniteSet(hand)
    /\ at[Run] = "select" => Cardinality(hand) < MaxBatch

\* Where a process has a transaction and something left to write.
IdleInv ==
    /\ \A p \in Writers : tx[p].at = "idle" => tx[p].batch = {}
    /\ \A e \in Events :
          /\ at[e] \in {"new", "send", "recheck", "take", "direct", "sync", "done"}
          /\ at[e] \notin {"direct", "sync"} => tx[e].at = "idle"
          /\ at[e] \notin {"take", "direct"} => todo[e] = {}
    /\ at[Run] \in {"select", "flush", "last", "drain", "take", "leave", "done"}
    /\ at[Run] \in {"select", "take", "done"} => tx[Run].at = "idle"
    /\ at[Run] \notin {"drain", "take", "leave"} => todo[Run] = {}
    /\ at[Run] \notin {"select", "flush", "last"} => hand = {}
    /\ (at[Run] \in {"flush", "last"} /\ tx[Run].at # "idle") => tx[Run].batch = hand

\* An event is in the queue, in the hand of the goroutine or with one writer,
\* and was in no transaction before.
HandedInv ==
    /\ queue \subseteq new /\ (tx[Run].at = "idle" => hand \subseteq new)
    /\ queue \cap hand = {}
    /\ \A p \in Writers :
          /\ todo[p] \subseteq new
          /\ todo[p] \cap queue = {} /\ todo[p] \cap hand = {}
          /\ \A q \in Writers : p # q => todo[p] \cap todo[q] = {}
    /\ \A e \in Events : at[e] \in {"new", "send"} =>
          /\ e \in new /\ e \notin queue /\ e \notin hand
          /\ \A p \in Writers : e \notin todo[p]

\* An event that a call has handed over does not get lost.
AcceptedInv ==
    \A e \in Events : at[e] \notin {"new", "send"} => e \in InWork \cup Recorded \cup reported

\* What is in the queue when the goroutine has seen it empty for the last time
\* has a call that looks at the queue again.
StoppedInv ==
    /\ at[Run] \in {"drain", "take", "leave", "done"} => stopping \/ cancelled
    /\ (at[Run] \in {"leave", "done"} /\ ~cancelled /\ queue # {})
          => \E e \in Events : at[e] \in {"recheck", "take"}

WriterInv ==
    WriterTypeOK /\ SizeInv /\ IdleInv /\ HandedInv /\ AcceptedInv /\ StoppedInv
=============================================================================
