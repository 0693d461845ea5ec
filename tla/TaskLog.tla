------------------------------ MODULE TaskLog ------------------------------
(***************************************************************************)
(* How the log records of one task reach the database (TaskLogHandler).    *)
(*                                                                         *)
(* The handler keeps the records of the task in a list and, on every emit, *)
(* saves those it has not flushed.  logging.Handler.handle takes the       *)
(* handler's lock around emit, so two threads of the task do not emit at   *)
(* once; but the last flush, after the handler was removed, is a plain call*)
(* without the lock, and a synchronous function that timed out may still be*)
(* inside emit on a thread of its own.                                     *)
(***************************************************************************)
EXTENDS Naturals, Sequences

CONSTANTS
    Threads,      \* the threads that log for the task
    Last,         \* the thread of the last flush
    None,
    MaxRecords,   \* records (bounds the state space)
    MaxFails      \* saves that may fail (bounds the state space)

ASSUME ThreadsAssumption == Last \notin Threads /\ None \notin Threads
ASSUME BoundsAssumption == MaxRecords \in Nat /\ MaxFails \in Nat

Workers == Threads \cup {Last}

VARIABLES
    attached,   \* the handler is one of the logger's
    records,    \* how many records the list holds
    flushed,    \* _flushed
    saved,      \* the rows of the database, in order
    lock,       \* the thread that holds the handler's lock
    pc,         \* where each thread is
    pending,    \* the slice each thread is saving: first and last record
    fails,      \* saves that failed
    late        \* threads that logged when the task was over

vars == <<attached, records, flushed, saved, lock, pc, pending, fails, late>>

(* called: handle was called; appended: the record is in the list; saving: *)
(* pending was read; marking: pending is saved, and _flushed is not set.   *)
Places == {"idle", "called", "appended", "saving", "marking", "finished"}

TypeOK ==
    /\ attached \in BOOLEAN
    /\ records \in 0..MaxRecords
    /\ flushed \in 0..records
    /\ saved \in Seq(1..records)
    /\ lock \in Threads \cup {None}
    /\ pc \in [Workers -> Places]
    /\ pending \in [Workers -> (1..MaxRecords + 1) \X (0..MaxRecords)]
    /\ fails \in 0..MaxFails
    /\ late \subseteq Threads

Init ==
    /\ attached = TRUE
    /\ records = 0
    /\ flushed = 0
    /\ saved = <<>>
    /\ lock = None
    /\ pc = [w \in Workers |-> "idle"]
    /\ pending = [w \in Workers |-> <<1, 0>>]
    /\ fails = 0
    /\ late = {}

Goto(w, place) == pc' = [pc EXCEPT ![w] = place]

Release(w) == lock' = IF lock = w THEN None ELSE lock

(* The end of _maybe_flush: an emit returns, the last flush is over.       *)
Return(w) ==
    /\ Goto(w, IF w = Last THEN "finished" ELSE "idle")
    /\ Release(w)

-----------------------------------------------------------------------------
(* A thread of the task logs, and finds the handler.                       *)
Log(t) ==
    /\ attached
    /\ pc[t] = "idle"
    /\ Goto(t, "called")
    /\ UNCHANGED <<attached, records, flushed, saved, lock, pending, fails, late>>

(* emit, under the lock.                                                   *)
Emit(t) ==
    /\ pc[t] = "called"
    /\ lock = None
    /\ records < MaxRecords
    /\ lock' = t
    /\ records' = records + 1
    /\ Goto(t, "appended")
    /\ UNCHANGED <<attached, flushed, saved, pending, fails, late>>

(* execute_task, in its finally.  The threads of synchronous functions     *)
(* outlive a timeout: they may be in the handler still.                    *)
RemoveHandler ==
    /\ attached
    /\ attached' = FALSE
    /\ late' = {t \in Threads : pc[t] # "idle"}
    /\ Goto(Last, "appended")
    /\ UNCHANGED <<records, flushed, saved, lock, pending, fails>>

(* pending = self.records[self._flushed:]                                  *)
ReadPending(w) ==
    /\ pc[w] = "appended"
    /\ IF flushed = records
       THEN Return(w) /\ UNCHANGED pending
       ELSE /\ pending' = [pending EXCEPT ![w] = <<flushed + 1, records>>]
            /\ Goto(w, "saving")
            /\ UNCHANGED lock
    /\ UNCHANGED <<attached, records, flushed, saved, fails, late>>

Rows(w) == [i \in 1..(pending[w][2] + 1 - pending[w][1]) |-> pending[w][1] + i - 1]

(* save_task_logs is one transaction.                                      *)
Save(w) ==
    /\ pc[w] = "saving"
    /\ saved' = saved \o Rows(w)
    /\ Goto(w, "marking")
    /\ UNCHANGED <<attached, records, flushed, lock, pending, fails, late>>

(* The exception is swallowed; the next emit tries again.                  *)
SaveFails(w) ==
    /\ pc[w] = "saving"
    /\ fails < MaxFails
    /\ fails' = fails + 1
    /\ Return(w)
    /\ UNCHANGED <<attached, records, flushed, saved, pending, late>>

(* A variant of Mark: what was saved stays pending.                        *)
MarkNothing(w) ==
    /\ pc[w] = "marking"
    /\ Return(w)
    /\ UNCHANGED <<attached, records, flushed, saved, pending, fails, late>>

(* self._flushed = len(self.records)                                       *)
Mark(w) ==
    /\ pc[w] = "marking"
    /\ flushed' = records
    /\ Return(w)
    /\ UNCHANGED <<attached, records, saved, pending, fails, late>>

-----------------------------------------------------------------------------
Next ==
    \/ \E t \in Threads : Log(t) \/ Emit(t)
    \/ RemoveHandler
    \/ \E w \in Workers : ReadPending(w) \/ Save(w) \/ SaveFails(w) \/ Mark(w)

Spec == Init /\ [][Next]_vars

-----------------------------------------------------------------------------
(* The rows are the records up to some point, each once and in order, and  *)
(* what is marked as flushed is among them: no failed save, retry or second*)
(* thread loses, repeats or reorders a record, unless a thread is late.    *)
RowsAreAPrefix ==
    late = {} =>
        /\ \A i \in DOMAIN saved : saved[i] = i
        /\ flushed <= Len(saved)

=============================================================================
