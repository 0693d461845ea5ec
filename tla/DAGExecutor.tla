----------------------------- MODULE DAGExecutor -----------------------------
(***************************************************************************)
(* One run of a DAG: the coroutine DAGExecutor.run and, for every task it  *)
(* starts, the coroutine TaskExecutor.execute_task                         *)
(* (core/dag_executor.py, core/task_executor.py).                          *)
(*                                                                         *)
(* All of them share one asyncio event loop, so a coroutine is interrupted *)
(* only where it awaits.  run() awaits in asyncio.wait (pc = "waiting")    *)
(* and in the skip callbacks (pc = "skipping"); task coroutines move only  *)
(* then.  Between the two, one pass of its loop starts every ready task.   *)
(*                                                                         *)
(* A task reports its progress twice: through on_state_change, at once     *)
(* (seen, the task_states of the run's history record), and through the    *)
(* result of its asyncio task, which run() collects later (states).        *)
(***************************************************************************)
EXTENDS Naturals, TriggerRules

CONSTANTS
    Tasks,  \* the task identifiers
    Dags    \* the DAGs a run may be given

(* up: the upstream_tasks; rule: the trigger_rule; retries: how often a    *)
(* failed call is repeated; limited: the tasks that have a timeout.        *)
DagType == [up : [Tasks -> SUBSET Tasks], rule : [Tasks -> Rules],
            retries : [Tasks -> Nat], limited : SUBSET Tasks]

ASSUME DagsAssumption == Dags \subseteq DagType

VARIABLES
    dag,      \* the DAG of this run
    pc,       \* where run() is
    states,   \* the dictionary `states` of run()
    blocked,  \* what is left of its list `blocked`
    worker,   \* the coroutine of each task
    seen      \* task_states of the history record, "none" for a missing key

vars == <<dag, pc, states, blocked, worker, seen>>

(* at      idle     there is no asyncio task (yet)                         *)
(*         created  scheduled, or in the on_execute callback               *)
(*         call     awaiting the task's function                           *)
(*         backoff  in the on_retry callback or the retry delay            *)
(*         leaving  decided; in on_success/on_failure or flushing logs     *)
(*         done     the asyncio task is complete                           *)
(*         gone     its result was collected by run()                      *)
(* attempt and result are the retry_count and state of the TaskInstance.   *)
WorkerType == [at : {"idle", "created", "call", "backoff", "leaving", "done", "gone"},
               attempt : Nat,
               result : TaskStates]

Idle == [at |-> "idle", attempt |-> 0, result |-> "none"]

TypeOK ==
    /\ dag \in DagType
    /\ pc \in {"loop", "waiting", "skipping", "finished", "stuck"}
    /\ states \in [Tasks -> TaskStates]
    /\ blocked \subseteq Tasks
    /\ worker \in [Tasks -> WorkerType]
    /\ seen \in [Tasks -> TaskStates]

(* _check_cycles, for the DAG as it was validated: every set of tasks has  *)
(* a member that waits for none of the others.                             *)
Acyclic(d) == \A S \in (SUBSET Tasks) \ {{}} : \E t \in S : d.up[t] \cap S = {}

-----------------------------------------------------------------------------
(* The queries of the loop.  Beside some of the definitions below stands a *)
(* variant with a plausible mistake, which is used nowhere: it shows that  *)
(* the property that PROJECT.json pairs it with notices that mistake.      *)

UpstreamStates(t) == {states[u] : u \in dag.up[t]}

UpstreamsAreTerminal(t) == UpstreamStates(t) \subseteq Terminal

UnresolvedOrFailed == {t \in Tasks : states[t] \in {"none", "failed"}}

Unresolved == {t \in Tasks : states[t] = "none"}

ReadyTasksByRuleOnly == {t \in Unresolved : ShouldRun(dag.rule[t], UpstreamStates(t))}

ReadyTasks == {t \in Unresolved : /\ UpstreamsAreTerminal(t)
                                  /\ ShouldRun(dag.rule[t], UpstreamStates(t))}

BlockedByFailure ==
    {t \in Unresolved : UpstreamsAreTerminal(t) /\ UpstreamStates(t) \cap FailedStates # {}}

BlockedTasks == {t \in Unresolved : UpstreamsAreTerminal(t)}

(* The keys of running_tasks.                                              *)
Running == {t \in Tasks : worker[t].at \notin {"idle", "gone"}}

(* What asyncio.wait(..., FIRST_COMPLETED) returns, once it is not empty.  *)
DoneWhenAllDone == IF \A t \in Running : worker[t].at = "done" THEN Running ELSE {}

DoneTasks == {t \in Running : worker[t].at = "done"}

(* A task that raised is FAILED whatever it had reported.                  *)
Outcome(t) == IF worker[t].result = "success" THEN "success" ELSE "failed"

(* _notify_state_change for every task of S, with its state in s.          *)
NotifiedNothing(S, s) == seen

NotifiedQueued(S, s) == [t \in Tasks |-> IF t \in S THEN "queued" ELSE seen[t]]

Notified(S, s) == [t \in Tasks |-> IF t \in S THEN s[t] ELSE seen[t]]

-----------------------------------------------------------------------------
(* The coroutine DAGExecutor.run.                                          *)

Init ==
    /\ dag \in Dags
    /\ pc = "loop"
    /\ states = [t \in Tasks |-> "none"]
    /\ blocked = {}
    /\ worker = [t \in Tasks |-> Idle]
    /\ seen = [t \in Tasks |-> "none"]

(* _start_task for every ready task, then asyncio.wait.                    *)
StartReady ==
    /\ pc = "loop"
    /\ ReadyTasks # {}
    /\ pc' = "waiting"
    /\ states' = [t \in Tasks |-> IF t \in ReadyTasks THEN "running" ELSE states[t]]
    /\ seen' = Notified(ReadyTasks, states')
    /\ worker' = [t \in Tasks |-> IF t \in ReadyTasks THEN [Idle EXCEPT !.at = "created"]
                                                      ELSE worker[t]]
    /\ UNCHANGED <<dag, blocked>>

(* Nothing new is ready, but something runs: asyncio.wait.                 *)
WaitWithoutLooking ==
    /\ pc = "loop"
    /\ Running # {}
    /\ pc' = "waiting"
    /\ UNCHANGED <<dag, states, blocked, worker, seen>>

WaitAgain ==
    /\ pc = "loop"
    /\ ReadyTasks = {} /\ Running # {}
    /\ pc' = "waiting"
    /\ UNCHANGED <<dag, states, blocked, worker, seen>>

(* asyncio.wait returned: every asyncio task that is done by now is        *)
(* collected.                                                              *)
Collect ==
    /\ pc = "waiting"
    /\ DoneTasks # {}
    /\ pc' = "loop"
    /\ states' = [t \in Tasks |-> IF t \in DoneTasks THEN Outcome(t) ELSE states[t]]
    /\ seen' = Notified(DoneTasks, states')
    /\ worker' = [t \in Tasks |-> IF t \in DoneTasks THEN [worker[t] EXCEPT !.at = "gone"]
                                                     ELSE worker[t]]
    /\ UNCHANGED <<dag, blocked>>

(* Nothing runs and nothing is ready: the list of tasks that will not run. *)
FindBlocked ==
    /\ pc = "loop"
    /\ ReadyTasks = {} /\ Running = {} /\ BlockedTasks # {}
    /\ pc' = "skipping"
    /\ blocked' = BlockedTasks
    /\ UNCHANGED <<dag, states, worker, seen>>

(* One turn of the loop over that list, up to the await of on_skip.  The   *)
(* order of the list is the order in which tasks were declared; any order  *)
(* is allowed here.                                                        *)
Skip(t) ==
    /\ pc = "skipping"
    /\ t \in blocked
    /\ states' = [states EXCEPT ![t] = IF UpstreamStates(t) \cap FailedStates # {}
                                       THEN "upstream_failed" ELSE "skipped"]
    /\ seen' = Notified({t}, states')
    /\ blocked' = blocked \ {t}
    /\ pc' = IF blocked' = {} THEN "loop" ELSE "skipping"
    /\ UNCHANGED <<dag, worker>>

(* Every task is resolved: run() returns states.                           *)
FinishWhenIdle ==
    /\ pc = "loop"
    /\ Running = {} /\ ReadyTasks = {}
    /\ pc' = "finished"
    /\ UNCHANGED <<dag, states, blocked, worker, seen>>

Finish ==
    /\ pc = "loop"
    /\ Running = {} /\ Unresolved = {}
    /\ pc' = "finished"
    /\ UNCHANGED <<dag, states, blocked, worker, seen>>

(* "no remaining task can make progress": run() raises DAGNotReadyError.   *)
GiveUp ==
    /\ pc = "loop"
    /\ ReadyTasks = {} /\ Running = {} /\ Unresolved # {} /\ BlockedTasks = {}
    /\ pc' = "stuck"
    /\ UNCHANGED <<dag, states, blocked, worker, seen>>

-----------------------------------------------------------------------------
(* The coroutine of task t, TaskExecutor._run_with_retries.                *)

Moved(t, place, result) ==
    [worker EXCEPT ![t] = [at |-> place, attempt |-> worker[t].attempt, result |-> result]]

(* The head of the attempt loop: RUNNING is reported again every time.     *)
Attempt(t) ==
    /\ pc = "waiting"
    /\ worker[t].at \in {"created", "backoff"}
    /\ worker' = [worker EXCEPT ![t] =
           [at |-> "call", result |-> "running",
            attempt |-> IF @.at = "created" THEN 0 ELSE @.attempt + 1]]
    /\ seen' = [seen EXCEPT ![t] = "running"]
    /\ UNCHANGED <<dag, pc, states, blocked>>

(* The task's function returned.                                           *)
Succeed(t) ==
    /\ pc = "waiting"
    /\ worker[t].at = "call"
    /\ worker' = Moved(t, "leaving", "success")
    /\ seen' = [seen EXCEPT ![t] = "success"]
    /\ UNCHANGED <<dag, pc, states, blocked>>

(* The call timed out (wait_for, or the function raised TimeoutError) or   *)
(* raised.  It is repeated, and nothing reported, while retries are left.  *)
RetryOnceMore(t) ==
    /\ pc = "waiting"
    /\ worker[t].at = "call"
    /\ worker[t].attempt <= dag.retries[t]
    /\ \E s \in {"failed", "timeout"} :
           worker' = Moved(t, "backoff", s)
    /\ UNCHANGED <<dag, pc, states, blocked, seen>>

Retry(t) ==
    /\ pc = "waiting"
    /\ worker[t].at = "call"
    /\ worker[t].attempt < dag.retries[t]
    /\ \E s \in {"failed", "timeout"} :
           worker' = Moved(t, "backoff", s)
    /\ UNCHANGED <<dag, pc, states, blocked, seen>>

(* The last attempt failed: that is reported, and the coroutine raises     *)
(* after the on_failure callback.                                          *)
Fail(t) ==
    /\ pc = "waiting"
    /\ worker[t].at = "call"
    /\ worker[t].attempt >= dag.retries[t]
    /\ \E s \in {"failed", "timeout"} :
           /\ worker' = Moved(t, "leaving", s)
           /\ seen' = [seen EXCEPT ![t] = s]
    /\ UNCHANGED <<dag, pc, states, blocked>>

(* The last callback and the log flush are over.                           *)
Return(t) ==
    /\ pc = "waiting"
    /\ worker[t].at = "leaving"
    /\ worker' = Moved(t, "done", worker[t].result)
    /\ UNCHANGED <<dag, pc, states, blocked, seen>>

-----------------------------------------------------------------------------

(* The run is over; the coroutine has returned or raised.                  *)
Over == pc \in {"finished", "stuck"} /\ UNCHANGED vars

Loop == \/ StartReady \/ WaitAgain \/ Collect \/ FindBlocked \/ Finish \/ GiveUp
        \/ \E t \in Tasks : Skip(t)

CallEnds(t) == Succeed(t) \/ Retry(t) \/ Fail(t)

Worker(t) == Attempt(t) \/ CallEnds(t) \/ Return(t)

Next == Loop \/ (\E t \in Tasks : Worker(t)) \/ Over

(* The event loop resumes every coroutine that can run, and callbacks and  *)
(* retry delays end.  A call is only sure to end if the task has a         *)
(* timeout: a function may hang for ever.                                  *)
Fairness ==
    /\ WF_vars(Loop)
    /\ \A t \in Tasks : /\ WF_vars(Attempt(t))
                        /\ WF_vars(Return(t))
                        /\ WF_vars(t \in dag.limited /\ CallEnds(t))

Spec == Init /\ [][Next]_vars

FairSpec == Spec /\ Fairness

-----------------------------------------------------------------------------
(* Properties.                                                             *)

Graph == INSTANCE GraphRun WITH Nodes <- Tasks, up <- dag.up, rule <- dag.rule

(* The executor implements the abstract run of a graph: whatever the       *)
(* interleaving of task coroutines, each task is decided once, after its   *)
(* upstreams, by its rule.                                                 *)
ImplementsGraphRun == Graph!Spec

(* Every started task was entitled to start and every skipped one was not, *)
(* judged by the upstream states as they are now (GraphRun!Justified).     *)
DecisionsJustified == Graph!Justified

(* UPSTREAM_FAILED never appears without a task that failed itself, so the *)
(* verdict that _execute_dag computes has a culprit to show.               *)
FailureHasCause == Graph!FailureHasCause

(* The two reports of a task agree: the history record equals the          *)
(* executor's dictionary except while a decided task has not been          *)
(* collected, when it is ahead by exactly that decision.                   *)
HistoryAgrees ==
    \A t \in Tasks :
        seen[t] = IF worker[t].at \in {"leaving", "done"} THEN worker[t].result ELSE states[t]

(* What the history record says of a decided task is final, except that    *)
(* TIMEOUT becomes FAILED when run() collects the raised error.            *)
HistorySettles ==
    [][\A t \in Tasks :
           seen[t] \in Terminal /\ seen'[t] # seen[t] =>
               seen[t] = "timeout" /\ seen'[t] = "failed"]_vars

(* While run() waits no task that could run is idle, and it waits for      *)
(* something: "start tasks as soon as dependencies are satisfied".         *)
NoIdleReadyTask == pc = "waiting" => ReadyTasks = {} /\ Running # {}

(* A task fails only when its last permitted attempt failed, and a task    *)
(* never makes more attempts than it is allowed.                           *)
RetriesUsedUp ==
    \A t \in Tasks :
        /\ worker[t].attempt <= dag.retries[t]
        /\ states[t] = "failed" => /\ worker[t].attempt = dag.retries[t]
                                   /\ worker[t].result \in {"failed", "timeout"}

(* run() never returns a partially executed DAG, not even for a DAG that   *)
(* was made cyclic after validation, and for a valid DAG it never gives up. *)
NoPartialRun ==
    /\ pc = "finished" => \A t \in Tasks : states[t] \in Terminal /\ seen[t] = states[t]
    /\ pc = "stuck" => ~Acyclic(dag)

(* A run of a valid DAG ends when each of its calls is bounded by a        *)
(* timeout.                                                                *)
RunEnds == Acyclic(dag) /\ dag.limited = Tasks => <>(pc = "finished")

(* A task with a timeout that was started is decided, however long other   *)
(* tasks hang.                                                             *)
NoTaskHeldUp ==
    \A t \in Tasks : worker[t].at = "created" /\ t \in dag.limited ~> states[t] \in Terminal

-----------------------------------------------------------------------------
(* What the comments of the enumeration TriggerRule say.                   *)

(* What the task executor reported of a task, before run() collected it.   *)
Reported(t) == IF worker[t].at = "gone" THEN worker[t].result ELSE states[t]

(* A NONE_FAILED task that is held back although the states of its         *)
(* upstreams are all among these.                                          *)
HeldBack(t, fine) ==
    /\ dag.rule[t] = "none_failed"
    /\ \A u \in dag.up[t] : Reported(u) \in fine
    /\ states[t] = "upstream_failed"

(* "no upstream task should fail (success, skipped, upstream_failed,       *)
(* timeout are ok)": a NONE_FAILED task is not held back by upstreams that *)
(* timed out, nor by upstreams that were not run because of a task above   *)
(* them.  If the code tolerated at least one of the two, no run could hold *)
(* back one task for the one and another for the other.                    *)
NoneFailedIsTolerant ==
    ~ /\ \E t \in Tasks : HeldBack(t, {"success", "skipped", "timeout"})
      /\ \E t \in Tasks : HeldBack(t, {"success", "skipped", "upstream_failed"})

(* "at least one upstream task must be in a terminal state", where a       *)
(* skipped task counts as terminal (comment of ALL_DONE, TERMINAL_STATES): *)
(* a ONE_DONE task whose upstreams are terminal is not skipped.            *)
OneDoneCountsSkipped ==
    \A t \in Tasks :
        dag.rule[t] = "one_done" /\ UpstreamsAreTerminal(t) => states[t] # "skipped"

=============================================================================
