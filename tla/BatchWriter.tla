------------------------------ MODULE BatchWriter ------------------------------
(***************************************************************************)
(* The buffer in front of the database (storage/batch_writer.py) and the   *)
(* write lock with its one thread (storage/duckdb_manager.py): coroutines  *)
(* append rows and flush a full buffer, a timer flushes what there is, a   *)
(* failed batch goes back in front, stop cancels the timer and flushes.    *)
(*                                                                         *)
(* Abstracted: a row is its key and its version; INSERT OR REPLACE keeps   *)
(* the row that was inserted last.                                         *)
(***************************************************************************)
EXTENDS Integers, Sequences, SequencesExt

CONSTANTS
  RowWriters,       \* the coroutines that write rows
  RowKeys,          \* primary keys
  BufferSize,       \* buffer_size
  MaxVersions,      \* bound: rows written per key
  MaxWriteFailures  \* bound: inserts that fail

Timer  == "timer"
Closer == "closer"

ASSUME BatchAssumption ==
  /\ RowWriters \cap {Timer, Closer} = {}
  /\ BufferSize \in Nat \ {0} /\ MaxVersions \in Nat /\ MaxWriteFailures \in Nat

VARIABLES
  pending,     \* _buffer
  batch,       \* per flusher: the rows it took, <<>> when it is not in flush
  lockQueue,   \* who holds the write lock, and who waits for it, in order
  writerUp,    \* _running, the final flush being one of the steps of stop
  database,    \* per key: the version in the table
  versions,    \* per key: the last version written to the buffer
  inserted,    \* ghost: rows that were inserted once
  cancelled,   \* ghost: rows the timer held when it was cancelled
  failures

batchVars == <<pending, batch, lockQueue, writerUp, database, versions,
               inserted, cancelled, failures>>

Flushers == RowWriters \cup {Timer, Closer}

BatchTypeOK ==
  /\ \A i \in DOMAIN pending : pending[i] \in RowKeys \X (1 .. MaxVersions)
  /\ DOMAIN batch = Flushers
  /\ ToSet(lockQueue) = {f \in Flushers : batch[f] # <<>>}
  /\ writerUp \in {"up", "stopping", "stopped"}
  /\ versions \in [RowKeys -> 0 .. MaxVersions]
  /\ failures \in 0 .. MaxWriteFailures

BatchInit ==
  /\ pending = <<>> /\ batch = [f \in Flushers |-> <<>>] /\ lockQueue = <<>>
  /\ writerUp = "up"
  /\ database = [k \in RowKeys |-> 0] /\ versions = [k \in RowKeys |-> 0]
  /\ inserted = {} /\ cancelled = {} /\ failures = 0

-----------------------------------------------------------------------------
\* flush: the rows are taken out of the buffer before the await.
TakeBatch(f, rows) ==
  /\ batch' = [batch EXCEPT ![f] = rows] /\ pending' = <<>>
  /\ lockQueue' = Append(lockQueue, f)

\* write, write_batch.
WriteRow(w, k) ==
  /\ batch[w] = <<>> /\ versions[k] < MaxVersions
  /\ versions' = [versions EXCEPT ![k] = @ + 1]
  /\ LET rows == Append(pending, <<k, versions'[k]>>) IN
     IF Len(rows) >= BufferSize THEN TakeBatch(w, rows)
     ELSE pending' = rows /\ UNCHANGED <<batch, lockQueue>>
  /\ UNCHANGED <<writerUp, database, inserted, cancelled, failures>>

TimerFlush ==
  /\ writerUp = "up" /\ batch[Timer] = <<>> /\ pending # <<>>
  /\ TakeBatch(Timer, pending)
  /\ UNCHANGED <<writerUp, database, versions, inserted, cancelled, failures>>

\* executemany, one row after the other.
Insert(rows) ==
  /\ database' = [k \in RowKeys |->
       LET of == {i \in DOMAIN rows : rows[i][1] = k}
       IN IF of = {} THEN database[k] ELSE rows[Max(of)][2]]
  /\ inserted' = inserted \cup ToSet(rows)

\* Mutant: a batch that is done with keeps its turn.
LeaveWaiting(f) == batch' = [batch EXCEPT ![f] = <<>>] /\ UNCHANGED lockQueue

Leave(f) ==
  /\ batch' = [batch EXCEPT ![f] = <<>>]
  /\ \/ f \notin ToSet(lockQueue) /\ UNCHANGED lockQueue
     \/ \E i \in DOMAIN lockQueue : lockQueue[i] = f /\ lockQueue' = RemoveAt(lockQueue, i)

WriteBatch(f) ==
  /\ lockQueue # <<>> /\ Head(lockQueue) = f
  /\ Insert(batch[f]) /\ Leave(f)
  /\ UNCHANGED <<pending, writerUp, versions, cancelled, failures>>

\* Some rows may be in when the insert fails; all of them are tried again.
WriteFails(f) ==
  /\ lockQueue # <<>> /\ Head(lockQueue) = f /\ failures < MaxWriteFailures
  /\ failures' = failures + 1
  /\ \E n \in 0 .. Len(batch[f]) : Insert(SubSeq(batch[f], 1, n))
  /\ pending' = batch[f] \o pending
  /\ Leave(f)
  /\ UNCHANGED <<writerUp, versions, cancelled>>

\* stop cancels the timer where it is: its batch is not put back, but an insert
\* that had begun goes on in the thread.
StopWriter ==
  /\ writerUp = "up" /\ writerUp' = "stopping"
  /\ cancelled' = ToSet(batch[Timer])
  /\ \/ UNCHANGED <<database, inserted>>
     \/ lockQueue # <<>> /\ Head(lockQueue) = Timer /\ Insert(batch[Timer])
  /\ Leave(Timer)
  /\ UNCHANGED <<pending, versions, failures>>

LastFlush ==
  /\ writerUp = "stopping" /\ writerUp' = "stopped"
  /\ IF pending = <<>> THEN UNCHANGED <<pending, batch, lockQueue>>
     ELSE TakeBatch(Closer, pending)
  /\ UNCHANGED <<database, versions, inserted, cancelled, failures>>

BatchNext ==
  \/ \E w \in RowWriters, k \in RowKeys : WriteRow(w, k)
  \/ \E f \in Flushers : WriteBatch(f) \/ WriteFails(f)
  \/ TimerFlush \/ StopWriter \/ LastFlush

BatchSpec == BatchInit /\ [][BatchNext]_batchVars

-----------------------------------------------------------------------------
(* Properties.                                                             *)

\* A row that was written is in the table, in a batch or in the buffer, through
\* any order of flushes and failures, unless stop cancelled the timer that held
\* it (flush, _periodic_flush, stop).
NoRowLost ==
  \A k \in RowKeys : \A v \in 1 .. versions[k] :
    <<k, v>> \in inserted \cup ToSet(pending) \cup cancelled
                 \cup UNION {ToSet(batch[f]) : f \in Flushers}

\* As long as no insert failed, the table has the newest version that was
\* inserted of every key, whoever took it (flush, executemany).
NewestInTable ==
  failures = 0 => \A k \in RowKeys : \A r \in inserted : r[1] = k => r[2] <= database[k]

\* Both: nothing is lost on the way to the table, nor overwritten in it.
RowsKept == NoRowLost /\ NewestInTable
==============================================================================
