--------------------------- MODULE TriggerWorker ---------------------------
(***************************************************************************)
(* What wakes the batch worker: TokenTransferWorker                        *)
(* (workers/token_transfer_worker.go) follows the change stream of         *)
(* tx_pending, counts the queue and signals the loop of BatchWorker.Run    *)
(* (workers/batch_worker.go) over two buffered channels that drop what     *)
(* does not fit; each loop has a ticker besides.                           *)
(*                                                                         *)
(* Documents of the queue are alike and only counted.  A batch is read     *)
(* newest first, so it reaches a document that came after the last read    *)
(* before any that read had left behind.  The driver that delivers the     *)
(* events of the stream in order is external.                              *)
(***************************************************************************)
EXTENDS Integers

CONSTANTS
  PendingThreshold,    \* length of the queue that triggers a batch
  ChangeBuffer,        \* capacity of changeCh, 16 in the code
  TriggerBatch,        \* documents of one batch
  MaxQueued,           \* bound: documents of the queue, and events of the stream
  MaxTriggerAsides     \* bound: failing calls, ends of the stream, restarts

ASSUME TriggerAssumption ==
  /\ PendingThreshold \in Nat \ {0} /\ ChangeBuffer \in Nat \ {0}
  /\ TriggerBatch \in Nat \ {0} /\ MaxQueued \in Nat /\ MaxTriggerAsides \in Nat

VARIABLES
  fresh,               \* queued documents that came after the last read of the queue
  left,                \* the others
  stream,              \* the goroutine watchChangeStream
  events,              \* inserts the stream has yet to deliver
  changeCh,            \* signals in changeCh
  watcher,             \* the loop of TokenTransferWorker.Run
  triggerCh,           \* signals in triggerCh
  batcher,             \* the loop of BatchWorker.Run
  batch,               \* documents its batch still has to assign
  lost,              \* ghost: since the last insert seen by the stream, a call
                       \* failed, the stream was down or the process stopped
  triggerAsides

triggerVars == <<fresh, left, stream, events, changeCh, watcher, triggerCh,
                 batcher, batch, lost, triggerAsides>>

TriggerInit ==
  /\ fresh = 0 /\ left = 0
  /\ stream = "first" /\ events = 0 /\ changeCh = 0
  /\ watcher = "select" /\ triggerCh = 0
  /\ batcher = "select" /\ batch = 0
  /\ lost = FALSE /\ triggerAsides = 0

TriggerAside == triggerAsides < MaxTriggerAsides /\ triggerAsides' = triggerAsides + 1

InQueue == fresh + left

-----------------------------------------------------------------------------
(* The queue, and the change stream that follows it                        *)

StreamFrame == UNCHANGED <<fresh, left, watcher, triggerCh, batcher, batch>>

\* a transfer is submitted; only an open stream sees it
QueueTransfer ==
  /\ InQueue < MaxQueued /\ events < MaxQueued
  /\ fresh' = fresh + 1
  /\ events' = IF stream = "open" THEN events + 1 ELSE events
  /\ lost' = (stream # "open")
  /\ UNCHANGED <<left, stream, changeCh, watcher, triggerCh, batcher, batch, triggerAsides>>

\* a queued transfer is cancelled, one of the batch perhaps
LeaveQueue ==
  /\ \/ fresh > 0 /\ fresh' = fresh - 1 /\ UNCHANGED <<left, batch>>
     \/ /\ left > 0 /\ left' = left - 1 /\ UNCHANGED fresh
        /\ batch' \in {batch, batch - 1} \intersect 0 .. left'
  /\ TriggerAside
  /\ UNCHANGED <<stream, events, changeCh, watcher, triggerCh, batcher, lost>>

\* what was inserted before is not part of the stream
OpenStream ==
  /\ stream \in {"first", "retry"} /\ stream' = "open"
  /\ UNCHANGED <<events, changeCh, lost, triggerAsides>> /\ StreamFrame

\* no replica set, or any other error of the first attempt: polling only; a
\* later attempt is repeated
OpenFails ==
  /\ stream = "first" /\ stream' = "off"
  /\ TriggerAside
  /\ UNCHANGED <<events, changeCh, lost>> /\ StreamFrame

\* the stream ends and what it had not delivered is lost
StreamEnds ==
  /\ stream = "open" /\ stream' = "retry"
  /\ events' = 0 /\ lost' = TRUE
  /\ TriggerAside
  /\ UNCHANGED changeCh /\ StreamFrame

DrainStream ==
  /\ stream = "open" /\ events > 0 /\ events' = events - 1
  /\ changeCh' = IF changeCh < ChangeBuffer THEN changeCh + 1 ELSE changeCh
  /\ UNCHANGED <<stream, lost, triggerAsides>> /\ StreamFrame

-----------------------------------------------------------------------------
(* TokenTransferWorker.Run                                                 *)

WatcherFrame == UNCHANGED <<fresh, left, stream, events, batcher, batch>>

\* mutant of Fire: nobody hears a signal the batch worker does not wait for
FireUnbuffered == triggerCh' = IF batcher = "select" THEN 1 ELSE triggerCh

\* one signal is buffered, more are dropped
Fire == triggerCh' = 1

IntervalPasses ==
  /\ watcher = "select" /\ Fire
  /\ UNCHANGED <<changeCh, watcher, lost, triggerAsides>> /\ WatcherFrame

TakeChange ==
  /\ watcher = "select" /\ changeCh > 0
  /\ changeCh' = changeCh - 1 /\ watcher' = "count"
  /\ UNCHANGED <<triggerCh, lost, triggerAsides>> /\ WatcherFrame

CountPending ==
  /\ watcher = "count"
  /\ watcher' = IF InQueue >= PendingThreshold THEN "fire" ELSE "select"
  /\ UNCHANGED <<changeCh, triggerCh, lost, triggerAsides>> /\ WatcherFrame

CountFails ==
  /\ watcher = "count" /\ watcher' = "select"
  /\ lost' = TRUE /\ TriggerAside
  /\ UNCHANGED <<changeCh, triggerCh>> /\ WatcherFrame

FireThreshold ==
  /\ watcher = "fire" /\ watcher' = "select" /\ Fire
  /\ UNCHANGED <<changeCh, lost, triggerAsides>> /\ WatcherFrame

-----------------------------------------------------------------------------
(* BatchWorker.Run, and as much of processBatch as empties the queue       *)

BatcherFrame == UNCHANGED <<stream, events, changeCh, watcher>>

\* the ticker and the trigger start the same cycle
StartCycle ==
  /\ batcher = "select" /\ batcher' = "read"
  /\ triggerCh' \in {0, triggerCh}
  /\ UNCHANGED <<fresh, left, batch, lost, triggerAsides>> /\ BatcherFrame

\* FindByStatus, newest first
ReadQueue ==
  /\ batcher = "read"
  /\ batch' = IF InQueue < TriggerBatch THEN InQueue ELSE TriggerBatch
  /\ batcher' = IF InQueue = 0 THEN "select" ELSE "settle"
  /\ left' = InQueue /\ fresh' = 0
  /\ UNCHANGED <<triggerCh, lost, triggerAsides>> /\ BatcherFrame

\* AssignBatch moves its documents out of the queue one by one
AssignOne ==
  /\ batcher = "settle" /\ batch > 0
  /\ batch' = batch - 1 /\ left' = left - 1
  /\ UNCHANGED <<fresh, triggerCh, batcher, lost, triggerAsides>> /\ BatcherFrame

\* the results are recorded
FinishSettling ==
  /\ batcher = "settle" /\ batch = 0 /\ batcher' = "select"
  /\ UNCHANGED <<fresh, left, triggerCh, batch, lost, triggerAsides>> /\ BatcherFrame

\* the queue cannot be read, or AssignBatch stops at an error
BatchFails ==
  /\ batcher # "select" /\ batcher' = "select" /\ batch' = 0
  /\ lost' = (lost \/ batcher = "read") /\ TriggerAside
  /\ UNCHANGED <<fresh, left, triggerCh>> /\ BatcherFrame

TriggerRestart ==
  /\ TriggerAside
  /\ stream' = "first" /\ events' = 0 /\ changeCh' = 0
  /\ watcher' = "select" /\ triggerCh' = 0
  /\ batcher' = "select" /\ batch' = 0
  /\ lost' = TRUE
  /\ UNCHANGED <<fresh, left>>

TriggerNext ==
  \/ QueueTransfer \/ LeaveQueue
  \/ OpenStream \/ OpenFails \/ StreamEnds \/ DrainStream
  \/ IntervalPasses \/ TakeChange \/ CountPending \/ CountFails \/ FireThreshold
  \/ StartCycle \/ ReadQueue \/ AssignOne \/ FinishSettling \/ BatchFails
  \/ TriggerRestart

TriggerSpec == TriggerInit /\ [][TriggerNext]_triggerVars

-----------------------------------------------------------------------------
(* Properties *)

TriggerTypeOK ==
  /\ fresh \in 0 .. MaxQueued /\ left \in 0 .. MaxQueued /\ batch \in 0 .. TriggerBatch
  /\ stream \in {"first", "open", "retry", "off"}
  /\ events \in 0 .. MaxQueued /\ changeCh \in 0 .. ChangeBuffer /\ triggerCh \in 0 .. 1
  /\ watcher \in {"select", "count", "fire"}
  /\ batcher \in {"select", "read", "settle"}
  /\ lost \in BOOLEAN /\ triggerAsides \in 0 .. MaxTriggerAsides

\* no signal is under way and both loops wait for the next
Silent ==
  /\ events = 0 /\ changeCh = 0 /\ triggerCh = 0
  /\ watcher = "select" /\ batcher = "select"

\* Although both channels drop signals and the count is taken while a batch
\* empties the queue, no wake-up is lost: when nothing failed and nothing is
\* under way, fewer than PendingThreshold transfers have come since the queue
\* was last read.
NoWakeupLost == Silent /\ ~lost => fresh < PendingThreshold
=============================================================================
