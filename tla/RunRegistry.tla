----------------------------- MODULE RunRegistry -----------------------------
(***************************************************************************)
(* The life of the runs of the Riverflow singleton (core/riverflow.py):    *)
(* admission by trigger and trigger_task, the lock of each DAG, the        *)
(* registry of active runs, the in-memory history, the rows of the SQLite  *)
(* store, clear_history, and the end of the process.                       *)
(*                                                                         *)
(* The registry of Flow runs (trigger_flow, _execute_flow,                 *)
(* clear_flow_history, the table flow_runs) is the same code with other    *)
(* names: with the Flows for DAGs, and without TriggerTask, this module    *)
(* describes it too.                                                       *)
(*                                                                         *)
(* How a DAG is executed is DAGExecutor's subject; here an execution is    *)
(* the interval between Start and End, and its outcome is arbitrary.       *)
(* Coroutines interleave where they await: for the lock, while the DAG     *)
(* executes, and while a worker thread saves the row.                      *)
(***************************************************************************)
EXTENDS Naturals

CONSTANTS
    DAGs,     \* the registered DAGs
    MaxRuns,  \* how many runs are ever created (bounds the state space)
    NoRun     \* no run: a free lock, no current run

ASSUME MaxRunsAssumption == MaxRuns \in Nat
ASSUME NoRunAssumption == NoRun \notin 1..MaxRuns

Runs == 1..MaxRuns

(* locked: trigger without force; forced: trigger with force, which takes  *)
(* no lock; task: trigger_task, which takes no lock either.                *)
Kinds == {"locked", "forced", "task"}

(* new        not created yet                                              *)
(* pending    registered, its coroutine has not started or awaits the lock *)
(* executing  its tasks run                                                *)
(* saving     left the registry; save_run was handed to a thread           *)
(* saved      the row is written, the coroutine has not been resumed       *)
(* over       the coroutine has ended, or its process has                  *)
(* stray      cancelled before it had the lock; nobody unregisters it      *)
Phases == {"new", "pending", "executing", "saving", "saved", "over", "stray"}

VARIABLES
    run,      \* the history record and the coroutine of each run
    next,     \* how many runs were created (_run_counter, over all processes)
    active,   \* _active_runs: the registered runs of each DAG (runs are
              \* numbered as they are inserted: the last is the largest)
    current,  \* _current_runs
    lock,     \* _dag_locks: who holds the lock of each DAG
    history,  \* the runs in _run_history
    rows,     \* the runs in the table dag_runs
    jobs,     \* the runs whose save_run is queued or running in a thread
    stopping  \* the event loop is being shut down

vars == <<run, next, active, current, lock, history, rows, jobs, stopping>>

(* state is the state of the record, told the one the update callbacks     *)
(* were last called with.  busy: tasks of the run are executing.  cut:     *)
(* cancelled while executing.                                              *)
RunType == [dag : DAGs, kind : Kinds, phase : Phases,
            state : {"running", "success", "failed"},
            told : {"nothing", "running", "success", "failed"},
            busy : BOOLEAN, cut : BOOLEAN]

(* A variant of NewRun: the record starts in no state of DAGRunState.       *)
NewRunUndecided(d, kind) ==
    [dag |-> d, kind |-> kind, phase |-> "new", state |-> "none",
     told |-> "nothing", busy |-> FALSE, cut |-> FALSE]

NewRun(d, kind) == [dag |-> d, kind |-> kind, phase |-> "new",
                       state |-> "running", told |-> "nothing", busy |-> FALSE, cut |-> FALSE]

TypeOK ==
    /\ run \in [Runs -> RunType]
    /\ next \in 0..MaxRuns
    /\ active \in [DAGs -> SUBSET Runs]
    /\ current \in [DAGs -> Runs \cup {NoRun}]
    /\ lock \in [DAGs -> Runs \cup {NoRun}]
    /\ history \subseteq Runs
    /\ rows \subseteq Runs
    /\ jobs \subseteq Runs
    /\ stopping \in BOOLEAN

Init ==
    /\ \E d \in DAGs : run = [r \in Runs |-> NewRun(d, "locked")]
    /\ next = 0
    /\ active = [d \in DAGs |-> {}]
    /\ current = [d \in DAGs |-> NoRun]
    /\ lock = [d \in DAGs |-> NoRun]
    /\ history = {}
    /\ rows = {}
    /\ jobs = {}
    /\ stopping = FALSE

-----------------------------------------------------------------------------

(* A variant of IsRunning: the lock tells whether the DAG is running.       *)
LockIsHeld(d) == lock[d] # NoRun

IsRunning(d) == active[d] # {}

(* A variant of Newest: the next in line, not the last.                    *)
Oldest(S) == IF S = {} THEN NoRun ELSE CHOOSE r \in S : \A s \in S : r <= s

(* next(reversed(active.values())).                                        *)
Newest(S) == IF S = {} THEN NoRun ELSE CHOOSE r \in S : \A s \in S : s <= r

(* _create_run_history: the run is registered and announced before its     *)
(* coroutine does anything.                                                *)
Create(d, kind) ==
    /\ ~stopping
    /\ next < MaxRuns
    /\ next' = next + 1
    /\ run' = [run EXCEPT ![next'] = [NewRun(d, kind) EXCEPT !.phase = "pending",
                                                             !.told = "running"]]
    /\ active' = [active EXCEPT ![d] = @ \cup {next'}]
    /\ current' = [current EXCEPT ![d] = next']
    /\ history' = history \cup {next'}
    /\ UNCHANGED <<lock, rows, jobs, stopping>>

(* trigger(d, force=False); when the DAG is running it returns None.       *)
Trigger(d) == ~IsRunning(d) /\ Create(d, "locked")

(* trigger(d, force=True).                                                 *)
ForceTrigger(d) == Create(d, "forced")

(* trigger_task(d, t): refused like a trigger while the DAG is running.    *)
TriggerTask(d) == ~IsRunning(d) /\ Create(d, "task")

(* A variant of Start: a background run forgets `async with dag_lock`.     *)
StartUnlocked(r) ==
    /\ run[r].phase = "pending"
    /\ run' = [run EXCEPT ![r].phase = "executing", ![r].busy = TRUE]
    /\ UNCHANGED <<next, active, current, lock, history, rows, jobs, stopping>>

(* The coroutine of the run begins to execute; `async with dag_lock` for a *)
(* locked run.                                                             *)
Start(r) ==
    /\ run[r].phase = "pending"
    /\ IF run[r].kind = "locked"
       THEN /\ lock[run[r].dag] = NoRun
            /\ lock' = [lock EXCEPT ![run[r].dag] = r]
       ELSE lock' = lock
    /\ run' = [run EXCEPT ![r].phase = "executing", ![r].busy = TRUE]
    /\ UNCHANGED <<next, active, current, history, rows, jobs, stopping>>

(* _finish_active_run for the runs of S: the newest of the others is the   *)
(* current run.                                                            *)
Unregister(S) ==
    /\ active' = [d \in DAGs |-> active[d] \ S]
    /\ current' = [d \in DAGs |-> Newest(active'[d])]

(* A variant of Released: acquire() without release().                     *)
NeverReleased(S) == [d \in DAGs |-> IF S = {} THEN NoRun ELSE lock[d]]

Released(S) == [d \in DAGs |-> IF lock[d] \in S THEN NoRun ELSE lock[d]]

(* A variant of Outcomes: the handler of Exception leaves the state alone. *)
OutcomesOrNone == {"success", "failed", "running"}

Outcomes == {"success", "failed"}

(* The DAG or the task ended, well or badly: the record gets its state,    *)
(* the run leaves the registry, and a thread is asked to save it.          *)
End(r) ==
    /\ run[r].phase = "executing"
    /\ \E s \in Outcomes :
           run' = [run EXCEPT ![r].phase = "saving", ![r].state = s, ![r].busy = FALSE]
    /\ Unregister({r})
    /\ jobs' = jobs \cup {r}
    /\ UNCHANGED <<next, lock, history, rows, stopping>>

(* The thread: INSERT OR REPLACE INTO dag_runs.                            *)
SaveRow(r) ==
    /\ r \in jobs
    /\ jobs' = jobs \ {r}
    /\ rows' = rows \cup {r}
    /\ run' = [run EXCEPT ![r].phase = IF @ = "saving" THEN "saved" ELSE @]
    /\ UNCHANGED <<next, active, current, lock, history, stopping>>

(* A variant of SaveFails: _persist_run swallows the exception.            *)
SaveFailsQuietly(r) ==
    /\ r \in jobs
    /\ jobs' = jobs \ {r}
    /\ run' = [run EXCEPT ![r].phase = IF @ = "saving" THEN "saved" ELSE @]
    /\ UNCHANGED <<next, active, current, lock, history, rows, stopping>>

(* save_run raised: the exception leaves the coroutine, which skips the    *)
(* final update but releases the lock.                                     *)
SaveFails(r) ==
    /\ r \in jobs
    /\ jobs' = jobs \ {r}
    /\ run' = [run EXCEPT ![r].phase = "over"]
    /\ lock' = Released({r})
    /\ UNCHANGED <<next, active, current, history, rows, stopping>>

(* The coroutine is resumed: final update, lock released.                  *)
Return(r) ==
    /\ run[r].phase = "saved"
    /\ run' = [run EXCEPT ![r].phase = "over", ![r].told = run[r].state]
    /\ lock' = Released({r})
    /\ UNCHANGED <<next, active, current, history, rows, jobs, stopping>>

(* The records and the rows of the DAGs in D are deleted.                  *)
Forget(D) ==
    LET gone == {r \in Runs : run[r].dag \in D}
    IN  /\ history' = history \ gone
        /\ rows' = rows \ gone
        /\ UNCHANGED <<run, next, active, current, lock, jobs, stopping>>

(* A variant of Clear: a running DAG is no obstacle.                       *)
ClearAtAnyTime(D) == ~stopping /\ Forget(D)

(* clear_history of one DAG or of all: refused while one of them runs.     *)
Clear(D) == ~stopping /\ (\A d \in D : ~IsRunning(d)) /\ Forget(D)

-----------------------------------------------------------------------------
(* Cancellation.                                                           *)

(* CancelledError, which no handler catches, is thrown into the coroutines *)
(* of S; the tasks of the runs in alive go on.  One that waits for the     *)
(* lock is gone, and stays registered.  An executing one passes its        *)
(* finally block, which unregisters it and saves the record as it is,      *)
(* RUNNING.  One that awaits the thread skips the final update; a save     *)
(* that has not begun is dropped.                                          *)
Throw(S, alive) ==
    LET end(r) == CASE run[r].phase = "pending" -> "stray"
                    [] run[r].phase = "executing" -> "saving"
                    [] run[r].phase \in {"saving", "saved"} -> "over"
                    [] OTHER -> run[r].phase
        cut == {r \in S : run[r].phase = "executing"}
    IN  /\ run' = [r \in Runs |-> IF r \in S
                                  THEN [run[r] EXCEPT !.phase = end(r),
                                                      !.busy = @ /\ r \in alive,
                                                      !.cut = @ \/ r \in cut]
                                  ELSE run[r]]
        /\ Unregister(cut)
        /\ lock' = Released(S \ cut)
        /\ \E dropped \in SUBSET (jobs \cap S) : jobs' = (jobs \cup cut) \ dropped
        /\ UNCHANGED <<next, history, rows>>

(* The caller that awaits trigger or trigger_task (wait=True, which any    *)
(* run may have been asked with) is cancelled: a task with a timeout may   *)
(* await a run, and wait_for cancels it.  The tasks that DAGExecutor.run   *)
(* has started are asyncio tasks of their own and go on;                   *)
(* that of trigger_task is part of the cancelled coroutine.                *)
Cancel(r) ==
    /\ ~stopping
    /\ \/ run[r].phase \in {"executing", "saving", "saved"}
       \/ run[r].phase = "pending" /\ run[r].kind = "locked" /\ lock[run[r].dag] # NoRun
    /\ Throw({r}, {r} \cap {s \in Runs : run[s].kind # "task"})
    /\ UNCHANGED stopping

(* The tasks of a run that was cut end at last.                            *)
OrphansEnd(r) ==
    /\ run[r].busy /\ run[r].phase # "executing"
    /\ run' = [run EXCEPT ![r].busy = FALSE]
    /\ UNCHANGED <<next, active, current, lock, history, rows, jobs, stopping>>

(* The event loop is closed (Ctrl-C): every coroutine is cancelled, those  *)
(* of the tasks too.                                                       *)
Shutdown == ~stopping /\ stopping' = TRUE /\ Throw(Runs, {})

(* The process ends, at any moment, and a new one rehydrates its history   *)
(* from the table.                                                         *)
Restart ==
    /\ stopping' = FALSE
    /\ run' = [r \in Runs |-> [run[r] EXCEPT
           !.phase = IF @ = "new" THEN @ ELSE "over", !.busy = FALSE]]
    /\ active' = [d \in DAGs |-> {}]
    /\ current' = [d \in DAGs |-> NoRun]
    /\ lock' = [d \in DAGs |-> NoRun]
    /\ history' = rows
    /\ jobs' = {}
    /\ UNCHANGED <<next, rows>>

-----------------------------------------------------------------------------

Admit == \E d \in DAGs : Trigger(d) \/ ForceTrigger(d) \/ TriggerTask(d)

ClearHistory == (\E d \in DAGs : Clear({d})) \/ Clear(DAGs)

Save(r) == SaveRow(r) \/ SaveFails(r)

Proceed(r) == Start(r) \/ End(r) \/ Save(r) \/ Return(r) \/ OrphansEnd(r)

Next == \/ Admit
        \/ \E r \in Runs : Proceed(r) \/ Cancel(r)
        \/ ClearHistory \/ Shutdown \/ Restart

(* Coroutines that can run are resumed, worker threads get to work, and a  *)
(* DAG ends once it executes (DAGExecutor!RunEnds).                        *)
Fairness ==
    \A r \in Runs : WF_vars(Start(r)) /\ WF_vars(End(r)) /\ WF_vars(Save(r)) /\ WF_vars(Return(r))

Spec == Init /\ [][Next]_vars

FairSpec == Spec /\ Fairness

-----------------------------------------------------------------------------
(* Properties.                                                             *)

In(phases) == {r \in Runs : run[r].phase \in phases}

(* Two runs of one DAG that were admitted only because it was not running. *)
Rivals(r, s) ==
    r # s /\ run[r].dag = run[s].dag /\ run[r].kind # "forced" /\ run[s].kind # "forced"

(* At most one active run of a DAG was admitted without force, and it was  *)
(* there before every forced one: the registry alone closes the rapid      *)
(* double-trigger race, long before the lock is taken.                     *)
OneUnforcedActive ==
    \A d \in DAGs : \A r, s \in active[d] : s < r => run[r].kind = "forced"

(* "Execution locking to prevent concurrent runs": a locked run does not   *)
(* start before the coroutine of the previous one has let go of its row,   *)
(* and no two unforced runs of a DAG execute at the same time.             *)
RivalsExclude ==
    \A r, s \in Runs : Rivals(r, s) =>
        /\ ~({r, s} \subseteq In({"executing"}))
        /\ run[r].kind = "locked" /\ run[s].kind = "locked" =>
               ~({r, s} \subseteq In({"executing", "saving", "saved"}))

(* The registry holds exactly the runs of the DAG that are pending or      *)
(* executing, and those lost on the way to the lock; the current run is    *)
(* the newest of them, so a forced run that ends does not hide the others. *)
RegistryIsExact ==
    \A d \in DAGs :
        /\ active[d] = {r \in In({"pending", "executing", "stray"}) : run[r].dag = d}
        /\ current[d] = Newest(active[d])

(* The history never loses a run that is still active, whichever DAG is    *)
(* cleared meanwhile.                                                      *)
ActiveRunsInHistory == In({"pending", "executing"}) \subseteq history

(* A run whose end was announced to the listeners is in the database as    *)
(* long as the history has it: a crash after the announcement loses        *)
(* nothing ("DAG run history (survives process restarts)").                *)
AnnouncedIsDurable == \A r \in history : run[r].told \in {"success", "failed"} => r \in rows

(* A run is stored as RUNNING only if it was cancelled while it executed;  *)
(* that row is what a later process rehydrates, though nothing executes it. *)
RunningRowsWereCut == \A r \in rows : run[r].state = "running" => run[r].cut

(* An admitted run comes to its end, unless it is cancelled before it has  *)
(* the lock or the process ends first.                                     *)
AdmittedRunsSettle ==
    \A r \in Runs : run[r].phase = "pending" ~> run[r].phase \in {"over", "stray"}

-----------------------------------------------------------------------------
(* What the repository says, and the code does not do.                     *)

(* What test_clear_history_removes_persisted_runs_and_logs asserts, for    *)
(* every moment at which clear_history accepts: a cleared run does not     *)
(* come back.                                                              *)
ClearedStaysCleared == rows \subseteq history

(* trigger: "None only when the DAG is already running and force=False".   *)
RefusedOnlyWhenRunning ==
    \A d \in DAGs : IsRunning(d) /\ ~stopping =>
        \E r \in In({"pending", "executing"}) : run[r].dag = d

(* "Execution locking to prevent concurrent runs", taken at its word: the  *)
(* tasks of two unforced runs of a DAG never execute at the same time.     *)
TasksOfOneRun == \A r, s \in Runs : Rivals(r, s) => ~(run[r].busy /\ run[s].busy)

=============================================================================
