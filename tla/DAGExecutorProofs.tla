-------------------------- MODULE DAGExecutorProofs --------------------------
(***************************************************************************)
(* Safety of the DAG executor for every set of tasks, every dependency     *)
(* relation, and every choice of rules, retries and timeouts.              *)
(***************************************************************************)
EXTENDS DAGExecutor, TLAPS

(* What the coroutine of a task and the executor know of each other: a     *)
(* task is RUNNING in `states` exactly while its asyncio task exists.      *)
WorkerMatches(t) ==
    /\ worker[t].at = "idle" => states[t] \in {"none", "skipped", "upstream_failed"}
    /\ worker[t].at \in {"created", "call", "backoff", "leaving", "done"} =>
           states[t] = "running"
    /\ worker[t].at \in {"leaving", "done", "gone"} =>
           worker[t].result \in {"success", "failed", "timeout"}
    /\ worker[t].at = "gone" => states[t] = Outcome(t)

(* The attempts made so far, at each point of the retry loop.              *)
AttemptsMatch(t) ==
    /\ worker[t].attempt <= dag.retries[t]
    /\ worker[t].at = "backoff" => worker[t].attempt < dag.retries[t]
    /\ worker[t].at \in {"leaving", "done", "gone"} /\ worker[t].result # "success" =>
           worker[t].attempt = dag.retries[t]

(* The list `blocked` is still right when a skip callback returns.         *)
BlockedMatches ==
    pc = "skipping" => \A t \in blocked : /\ states[t] = "none"
                                          /\ UpstreamsAreTerminal(t)
                                          /\ ~ShouldRun(dag.rule[t], UpstreamStates(t))

IInv == /\ TypeOK
        /\ \A t \in Tasks : WorkerMatches(t) /\ AttemptsMatch(t)
        /\ BlockedMatches
        /\ HistoryAgrees

-----------------------------------------------------------------------------

LEMMA InitIInv == Init => IInv
<1>. SUFFICES ASSUME Init PROVE IInv
  OBVIOUS
<1>1. TypeOK
  BY DagsAssumption DEF Init, TypeOK, WorkerType, Idle, TaskStates
<1>2. ASSUME NEW t \in Tasks
      PROVE  WorkerMatches(t) /\ AttemptsMatch(t)
  BY <1>1 DEF Init, WorkerMatches, AttemptsMatch, Idle, TypeOK, DagType
<1>. QED
  BY <1>1, <1>2 DEF Init, IInv, BlockedMatches, HistoryAgrees, Idle

(* The steps of run() keep the types.                                      *)
LEMMA LoopTypes == TypeOK /\ Loop => TypeOK'
<1>. SUFFICES ASSUME TypeOK, Loop PROVE TypeOK'
  OBVIOUS
<1>. USE DEF TypeOK
<1>1. CASE StartReady
  BY <1>1 DEF StartReady, ReadyTasks, Notified, WorkerType, Idle, TaskStates
<1>2. CASE WaitAgain
  BY <1>2 DEF WaitAgain
<1>3. CASE Collect
  BY <1>3 DEF Collect, DoneTasks, Outcome, Notified, WorkerType, TaskStates
<1>4. CASE FindBlocked
  BY <1>4 DEF FindBlocked, BlockedTasks, Unresolved
<1>5. CASE Finish
  BY <1>5 DEF Finish
<1>6. CASE GiveUp
  BY <1>6 DEF GiveUp
<1>7. ASSUME NEW t \in Tasks, Skip(t) PROVE TypeOK'
  BY <1>7 DEF Skip, Notified, TaskStates
<1>. QED
  BY <1>1, <1>2, <1>3, <1>4, <1>5, <1>6, <1>7 DEF Loop

(* The steps of a task coroutine keep the types.                           *)
LEMMA WorkerTypes ==
    ASSUME TypeOK, NEW t \in Tasks, Worker(t)
    PROVE  TypeOK'
<1>. USE DEF TypeOK, WorkerType, TaskStates, Moved
<1>1. CASE Attempt(t)
  BY <1>1 DEF Attempt
<1>2. CASE Succeed(t)
  BY <1>2 DEF Succeed
<1>3. CASE Retry(t)
  BY <1>3 DEF Retry
<1>4. CASE Fail(t)
  BY <1>4 DEF Fail
<1>5. CASE Return(t)
  BY <1>5 DEF Return
<1>. QED
  BY <1>1, <1>2, <1>3, <1>4, <1>5 DEF Worker, CallEnds

(* The steps of run() keep the link between its dictionary, the task       *)
(* coroutines and the history record.                                      *)
LEMMA LoopIInv == IInv /\ Loop => IInv'
<1>. SUFFICES ASSUME IInv, Loop PROVE IInv'
  OBVIOUS
<1>0. TypeOK /\ TypeOK'
  BY LoopTypes DEF IInv
<1>. USE <1>0 DEF IInv, TypeOK
<1>1. CASE StartReady
  <2>1. ASSUME NEW t \in Tasks
        PROVE  /\ WorkerMatches(t)' /\ AttemptsMatch(t)'
               /\ seen'[t] = IF worker'[t].at \in {"leaving", "done"} THEN worker'[t].result
                                                                   ELSE states'[t]
    BY <1>1, <2>1 DEF StartReady, ReadyTasks, Unresolved, Notified, Idle, WorkerMatches,
                      AttemptsMatch, HistoryAgrees, Outcome, DagType
  <2>2. BlockedMatches'
    BY <1>1 DEF StartReady, BlockedMatches
  <2>. QED
    BY <2>1, <2>2 DEF HistoryAgrees
<1>2. CASE Collect
  <2>1. ASSUME NEW t \in Tasks
        PROVE  /\ WorkerMatches(t)' /\ AttemptsMatch(t)'
               /\ seen'[t] = IF worker'[t].at \in {"leaving", "done"} THEN worker'[t].result
                                                                   ELSE states'[t]
    BY <1>2, <2>1 DEF Collect, DoneTasks, Running, Notified, WorkerType, WorkerMatches,
                      AttemptsMatch, HistoryAgrees, Outcome
  <2>2. BlockedMatches'
    BY <1>2 DEF Collect, BlockedMatches
  <2>. QED
    BY <2>1, <2>2 DEF HistoryAgrees
<1>3. CASE FindBlocked
  <2>1. ASSUME NEW t \in Tasks
        PROVE  WorkerMatches(t)' /\ AttemptsMatch(t)'
    BY <1>3, <2>1 DEF FindBlocked, WorkerMatches, AttemptsMatch, Outcome
  <2>2. BlockedMatches'
    <3>1. ASSUME NEW t \in blocked'
          PROVE  /\ states[t] = "none" /\ UpstreamsAreTerminal(t)
                 /\ ~ShouldRun(dag.rule[t], UpstreamStates(t))
      BY <1>3, <3>1 DEF FindBlocked, BlockedTasks, ReadyTasks, Unresolved
    <3>2. ASSUME NEW t \in Tasks
          PROVE  /\ UpstreamStates(t)' = UpstreamStates(t)
                 /\ UpstreamsAreTerminal(t)' = UpstreamsAreTerminal(t)
      BY <1>3 DEF FindBlocked, UpstreamsAreTerminal, UpstreamStates
    <3>. QED
      BY <1>3, <3>1, <3>2 DEF FindBlocked, BlockedMatches
  <2>. QED
    BY <1>3, <2>1, <2>2 DEF FindBlocked, HistoryAgrees
<1>4. ASSUME NEW t \in Tasks, Skip(t) PROVE IInv'
  <2>1. worker[t].at = "idle" /\ states[t] = "none" /\ UpstreamsAreTerminal(t)
    BY <1>4 DEF Skip, BlockedMatches, WorkerMatches, WorkerType, Outcome
  <2>2. ASSUME NEW n \in Tasks
        PROVE  /\ WorkerMatches(n)' /\ AttemptsMatch(n)'
               /\ seen'[n] = IF worker'[n].at \in {"leaving", "done"} THEN worker'[n].result
                                                                   ELSE states'[n]
    BY <1>4, <2>1, <2>2 DEF Skip, Notified, WorkerMatches, AttemptsMatch, HistoryAgrees, Outcome
  <2>3. BlockedMatches'
    <3>. SUFFICES ASSUME pc' = "skipping", NEW n \in blocked'
                  PROVE  /\ states'[n] = "none" /\ UpstreamsAreTerminal(n)'
                         /\ ~ShouldRun(dag'.rule[n], UpstreamStates(n)')
      BY DEF BlockedMatches
    <3>1. n \in blocked /\ n # t /\ n \in Tasks
      BY <1>4 DEF Skip
    <3>2. /\ states[n] = "none" /\ UpstreamsAreTerminal(n)
          /\ ~ShouldRun(dag.rule[n], UpstreamStates(n))
      BY <1>4, <3>1 DEF Skip, BlockedMatches
    <3>3. t \notin dag.up[n]
      BY <2>1, <3>2 DEF UpstreamsAreTerminal, UpstreamStates, Terminal
    <3>4. UpstreamStates(n)' = UpstreamStates(n)
      BY <1>4, <3>1, <3>3 DEF Skip, UpstreamStates, DagType
    <3>. QED
      BY <1>4, <3>1, <3>2, <3>4 DEF Skip, UpstreamsAreTerminal
  <2>. QED
    BY <2>2, <2>3 DEF HistoryAgrees
<1>5. CASE WaitAgain \/ Finish \/ GiveUp
  <2>1. UNCHANGED <<dag, states, blocked, worker, seen>> /\ pc' # "skipping"
    BY <1>5 DEF WaitAgain, Finish, GiveUp
  <2>2. ASSUME NEW t \in Tasks
        PROVE  WorkerMatches(t)' /\ AttemptsMatch(t)'
    BY <2>1, <2>2 DEF WorkerMatches, AttemptsMatch, Outcome
  <2>. QED
    BY <2>1, <2>2 DEF BlockedMatches, HistoryAgrees
<1>. QED
  BY <1>1, <1>2, <1>3, <1>4, <1>5 DEF Loop

(* An attempt that has no successor is the last one permitted.             *)
LEMMA LastAttempt == \A m, n \in Nat : m >= n /\ m <= n => m = n
OBVIOUS

(* The steps of a task coroutine keep it too.                              *)
LEMMA WorkerIInv ==
    ASSUME IInv, NEW t \in Tasks, Worker(t)
    PROVE  IInv'
<1>0. TypeOK /\ TypeOK'
  BY WorkerTypes DEF IInv
<1>a. worker[t].attempt <= dag.retries[t]
  BY DEF IInv, AttemptsMatch
<1>. USE <1>0 DEF IInv, TypeOK
<1>1. pc = "waiting" /\ UNCHANGED <<dag, pc, states, blocked>>
  BY DEF Worker, CallEnds, Attempt, Succeed, Retry, Fail, Return
<1>2. ASSUME NEW n \in Tasks, n # t
      PROVE  worker'[n] = worker[n] /\ seen'[n] = seen[n]
  BY <1>2 DEF Worker, CallEnds, Attempt, Succeed, Retry, Fail, Return, Moved
<1>3. WorkerMatches(t)' /\ AttemptsMatch(t)'
  <2>. USE <1>1 DEF WorkerMatches, AttemptsMatch, Outcome, WorkerType, DagType, Moved
  <2>1. CASE Attempt(t)
    BY <2>1 DEF Attempt
  <2>2. CASE Succeed(t)
    BY <2>2 DEF Succeed
  <2>3. CASE Retry(t)
    BY <2>3 DEF Retry
  <2>4. CASE Fail(t)
    <3>1. worker[t].attempt \in Nat /\ dag.retries[t] \in Nat
      OBVIOUS
    <3>2. worker[t].attempt >= dag.retries[t]
      BY <2>4 DEF Fail
    <3>3. worker[t].attempt = dag.retries[t]
      BY <1>a, <3>1, <3>2, LastAttempt
    <3>. QED
      BY <2>4, <3>1, <3>3 DEF Fail
  <2>5. CASE Return(t)
    BY <2>5 DEF Return
  <2>. QED
    BY <2>1, <2>2, <2>3, <2>4, <2>5 DEF Worker, CallEnds
<1>4. seen'[t] = IF worker'[t].at \in {"leaving", "done"} THEN worker'[t].result ELSE states'[t]
  <2>. USE <1>1 DEF WorkerMatches, HistoryAgrees, WorkerType, Moved
  <2>1. CASE Attempt(t)
    BY <2>1 DEF Attempt
  <2>2. CASE Succeed(t)
    BY <2>2 DEF Succeed
  <2>3. CASE Retry(t)
    BY <2>3 DEF Retry
  <2>4. CASE Fail(t)
    BY <2>4 DEF Fail
  <2>5. CASE Return(t)
    BY <2>5 DEF Return
  <2>. QED
    BY <2>1, <2>2, <2>3, <2>4, <2>5 DEF Worker, CallEnds
<1>5. ASSUME NEW n \in Tasks
      PROVE  WorkerMatches(n)' /\ AttemptsMatch(n)'
  BY <1>1, <1>2, <1>3, <1>5 DEF WorkerMatches, AttemptsMatch, Outcome
<1>. QED
  BY <1>1, <1>2, <1>4, <1>5 DEF HistoryAgrees, BlockedMatches

LEMMA NextIInv == IInv /\ [Next]_vars => IInv'
<1>. SUFFICES ASSUME IInv, [Next]_vars PROVE IInv'
  OBVIOUS
<1>1. CASE Loop
  BY <1>1, LoopIInv
<1>2. CASE \E t \in Tasks : Worker(t)
  BY <1>2, WorkerIInv
<1>3. CASE UNCHANGED vars
  <2>1. TypeOK' /\ HistoryAgrees'
    BY <1>3 DEF vars, IInv, TypeOK, HistoryAgrees
  <2>2. ASSUME NEW t \in Tasks
        PROVE  WorkerMatches(t)' /\ AttemptsMatch(t)'
    BY <1>3, <2>2 DEF vars, IInv, WorkerMatches, AttemptsMatch, Outcome
  <2>3. BlockedMatches'
    BY <1>3 DEF vars, IInv, BlockedMatches, UpstreamsAreTerminal, UpstreamStates
  <2>. QED
    BY <2>1, <2>2, <2>3 DEF IInv
<1>. QED
  BY <1>1, <1>2, <1>3 DEF Next, Over

LEMMA Invariance == Spec => []IInv
  BY InitIInv, NextIInv, PTL DEF Spec

-----------------------------------------------------------------------------

(* Every variable stays within its type.                                   *)
THEOREM TypeCorrect == Spec => []TypeOK
<1>1. IInv => TypeOK
  BY DEF IInv
<1>. QED
  BY <1>1, Invariance, PTL

(* The history record and the executor agree on every task, except that    *)
(* the record is ahead by the decision of a task not yet collected.        *)
THEOREM HistoryFollows == Spec => []HistoryAgrees
<1>1. IInv => HistoryAgrees
  BY DEF IInv
<1>. QED
  BY <1>1, Invariance, PTL

(* FAILED is only recorded after the last permitted attempt failed.        *)
THEOREM FailuresAreFinal == Spec => []RetriesUsedUp
<1>1. IInv => RetriesUsedUp
  BY DEF IInv, RetriesUsedUp, WorkerMatches, AttemptsMatch, TypeOK, WorkerType, Outcome
<1>. QED
  BY <1>1, Invariance, PTL

(* While run() waits, everything that may run does.                        *)
THEOREM NoTaskKeptIdle == Spec => []NoIdleReadyTask
<1>1. Init => NoIdleReadyTask
  BY DEF Init, NoIdleReadyTask
<1>2. IInv /\ NoIdleReadyTask /\ [Next]_vars => NoIdleReadyTask'
  <2>. SUFFICES ASSUME IInv, NoIdleReadyTask, [Next]_vars, pc' = "waiting"
                PROVE  ReadyTasks' = {} /\ Running' # {}
    BY DEF NoIdleReadyTask
  <2>. USE DEF IInv, TypeOK
  <2>1. CASE StartReady
    <3>1. ASSUME NEW t \in ReadyTasks' PROVE FALSE
      <4>1. t \in Tasks /\ states'[t] = "none"
        BY <3>1 DEF ReadyTasks, Unresolved
      <4>2. states[t] = "none" /\ t \notin ReadyTasks
        BY <2>1, <4>1 DEF StartReady
      <4>3. \A u \in dag.up[t] : u \in Tasks /\ states'[u] \in Terminal
        BY <2>1, <3>1, <4>1 DEF StartReady, ReadyTasks, UpstreamsAreTerminal, UpstreamStates,
                                DagType
      <4>4. \A u \in dag.up[t] : states'[u] = states[u]
        BY <2>1, <4>3 DEF StartReady, Terminal
      <4>5. UpstreamStates(t)' = UpstreamStates(t)
        BY <2>1, <4>4 DEF StartReady, UpstreamStates
      <4>. QED
        BY <2>1, <3>1, <4>1, <4>2, <4>5 DEF StartReady, ReadyTasks, Unresolved,
                                            UpstreamsAreTerminal
    <3>2. PICK r \in ReadyTasks : TRUE
      BY <2>1 DEF StartReady
    <3>3. r \in Running'
      BY <2>1, <3>2 DEF StartReady, Running, ReadyTasks, Unresolved, Idle
    <3>. QED
      BY <3>1, <3>3
  <2>2. CASE WaitAgain
    BY <2>2 DEF WaitAgain, ReadyTasks, Unresolved, UpstreamsAreTerminal, UpstreamStates, Running
  <2>3. CASE Collect \/ FindBlocked \/ Finish \/ GiveUp \/ \E t \in Tasks : Skip(t)
    BY <2>3 DEF Collect, FindBlocked, Finish, GiveUp, Skip
  <2>4. ASSUME NEW t \in Tasks, Worker(t)
        PROVE  ReadyTasks' = {} /\ Running' # {}
    <3>1. pc = "waiting" /\ UNCHANGED <<dag, states>>
      BY <2>4 DEF Worker, CallEnds, Attempt, Succeed, Retry, Fail, Return
    <3>2. ReadyTasks' = {}
      BY <3>1 DEF NoIdleReadyTask, ReadyTasks, Unresolved, UpstreamsAreTerminal, UpstreamStates
    <3>3. t \in Running'
      BY <2>4 DEF Worker, CallEnds, Attempt, Succeed, Retry, Fail, Return, Moved, Running
    <3>. QED
      BY <3>2, <3>3
  <2>5. CASE UNCHANGED vars
    BY <2>5 DEF vars, NoIdleReadyTask, ReadyTasks, Unresolved, UpstreamsAreTerminal,
                UpstreamStates, Running
  <2>. QED
    BY <2>1, <2>2, <2>3, <2>4, <2>5 DEF Next, Loop, Over
<1>. QED
  BY <1>1, <1>2, Invariance, PTL DEF Spec

(* run() returns only when every task is resolved and reported so, and on  *)
(* an acyclic DAG it never raises "no remaining task can make progress".   *)
THEOREM RunsAreComplete == Spec => []NoPartialRun
<1>1. Init => NoPartialRun
  BY DEF Init, NoPartialRun
<1>2. IInv /\ NoPartialRun /\ [Next]_vars => NoPartialRun'
  <2>. SUFFICES ASSUME IInv, NoPartialRun, [Next]_vars
                PROVE  NoPartialRun'
    OBVIOUS
  <2>. USE DEF IInv, TypeOK
  <2>1. CASE Finish
    <3>1. ASSUME NEW t \in Tasks
          PROVE  states[t] \in Terminal /\ seen[t] = states[t]
      BY <2>1, <3>1 DEF Finish, Running, Unresolved, WorkerMatches, HistoryAgrees, Outcome,
                        WorkerType, Terminal
    <3>. QED
      BY <2>1, <3>1 DEF Finish, NoPartialRun
  <2>2. CASE GiveUp
    <3>1. ASSUME Acyclic(dag) PROVE FALSE
      <4>1. PICK t \in Unresolved : dag.up[t] \cap Unresolved = {}
        BY <2>2, <3>1 DEF GiveUp, Acyclic, Unresolved
      <4>2. ASSUME NEW u \in dag.up[t] PROVE states[u] \in Terminal
        <5>1. u \in Tasks /\ states[u] # "none"
          BY <4>1, <4>2 DEF Unresolved, DagType
        <5>. QED
          BY <2>2, <5>1 DEF GiveUp, Running, WorkerMatches, WorkerType, Outcome, Terminal
      <4>. QED
        BY <2>2, <4>1, <4>2 DEF GiveUp, BlockedTasks, UpstreamsAreTerminal, UpstreamStates
    <3>. QED
      BY <2>2, <3>1 DEF GiveUp, NoPartialRun
  <2>3. CASE Over \/ UNCHANGED vars
    BY <2>3 DEF Over, vars, NoPartialRun
  <2>4. CASE StartReady \/ WaitAgain \/ Collect \/ FindBlocked \/ \E t \in Tasks : Skip(t)
    BY <2>4 DEF StartReady, WaitAgain, Collect, FindBlocked, Skip, NoPartialRun
  <2>5. ASSUME NEW t \in Tasks, Worker(t) PROVE NoPartialRun'
    BY <2>5 DEF Worker, CallEnds, Attempt, Succeed, Retry, Fail, Return, NoPartialRun
  <2>. QED
    BY <2>1, <2>2, <2>3, <2>4, <2>5 DEF Next, Loop
<1>. QED
  BY <1>1, <1>2, Invariance, PTL DEF Spec

(* A decision that was reported is not taken back by any later report,     *)
(* except that a TIMEOUT becomes FAILED.                                   *)
THEOREM ReportsAreFinal == Spec => HistorySettles
<1>1. IInv /\ [Next]_vars =>
          \A t \in Tasks : seen[t] \in Terminal /\ seen'[t] # seen[t] =>
                               seen[t] = "timeout" /\ seen'[t] = "failed"
  <2>. SUFFICES ASSUME IInv, [Next]_vars, NEW t \in Tasks,
                       seen[t] \in Terminal, seen'[t] # seen[t]
                PROVE  seen[t] = "timeout" /\ seen'[t] = "failed"
    OBVIOUS
  <2>. USE DEF IInv, TypeOK
  <2>0. /\ seen[t] = IF worker[t].at \in {"leaving", "done"} THEN worker[t].result
                                                             ELSE states[t]
        /\ WorkerMatches(t)
    BY DEF HistoryAgrees
  <2>1. CASE StartReady
    BY <2>0, <2>1 DEF StartReady, Notified, ReadyTasks, Unresolved, WorkerMatches, Terminal
  <2>2. CASE Collect
    <3>1. t \in DoneTasks /\ seen'[t] = Outcome(t)
      BY <2>2 DEF Collect, Notified
    <3>2. seen[t] = worker[t].result /\ worker[t].result \in {"success", "failed", "timeout"}
      BY <2>0, <3>1 DEF DoneTasks, WorkerMatches
    <3>. QED
      BY <3>1, <3>2 DEF Outcome
  <2>3. ASSUME NEW n \in Tasks, Skip(n)
        PROVE  seen[t] = "timeout" /\ seen'[t] = "failed"
    BY <2>0, <2>3 DEF Skip, Notified, BlockedMatches, WorkerMatches, Terminal
  <2>4. ASSUME NEW n \in Tasks, Worker(n)
        PROVE  seen[t] = "timeout" /\ seen'[t] = "failed"
    BY <2>0, <2>4 DEF Worker, CallEnds, Attempt, Succeed, Retry, Fail, Return, WorkerMatches,
                      Terminal
  <2>5. CASE WaitAgain \/ FindBlocked \/ Finish \/ GiveUp \/ Over \/ UNCHANGED vars
    BY <2>5 DEF WaitAgain, FindBlocked, Finish, GiveUp, Over, vars
  <2>. QED
    BY <2>1, <2>2, <2>3, <2>4, <2>5 DEF Next, Loop
<1>. QED
  BY <1>1, Invariance, PTL DEF Spec, HistorySettles

-----------------------------------------------------------------------------
(* Refinement.                                                             *)

Promise == INSTANCE GraphRunProofs WITH Nodes <- Tasks, up <- dag.up, rule <- dag.rule

(* The abstract run reads the states and rules as the executor does.       *)
LEMMA SameRules ==
    /\ Graph!TaskStates = TaskStates /\ Graph!Rules = Rules
    /\ Graph!Terminal = Terminal /\ Graph!FailedStates = FailedStates
    /\ \A r, S : Graph!ShouldRun(r, S) <=> ShouldRun(r, S)
<1>1. /\ Graph!TaskStates = TaskStates /\ Graph!Rules = Rules
      /\ Graph!Terminal = Terminal /\ Graph!FailedStates = FailedStates
  BY DEF TaskStates, Graph!TaskStates, Rules, Graph!Rules, Terminal, Graph!Terminal,
         FailedStates, Graph!FailedStates
<1>2. \A r, S : Graph!ShouldRun(r, S) <=> ShouldRun(r, S)
  BY <1>1 DEF ShouldRun, Graph!ShouldRun
<1>. QED
  BY <1>1, <1>2

LEMMA SameQueries ==
    ASSUME NEW n \in Tasks
    PROVE  /\ Graph!UpstreamStates(n) = UpstreamStates(n)
           /\ Graph!UpstreamsTerminal(n) <=> UpstreamsAreTerminal(n)
           /\ Graph!RuleHolds(n) <=> ShouldRun(dag.rule[n], UpstreamStates(n))
           /\ Graph!UpstreamFailure(n) <=> UpstreamStates(n) \cap FailedStates # {}
<1>1. Graph!UpstreamStates(n) = UpstreamStates(n)
  BY DEF UpstreamStates, Graph!UpstreamStates
<1>. QED
  BY <1>1, SameRules DEF UpstreamsAreTerminal, Graph!UpstreamsTerminal, Graph!RuleHolds,
                         Graph!UpstreamFailure

LEMMA InitRefines == Init => Graph!Init
BY DagsAssumption, SameRules DEF Init, Graph!Init, DagType

(* A step of run() is a step of the abstract run or leaves it unchanged:   *)
(* starting the ready tasks is one abstract step for all of them.          *)
LEMMA LoopRefines == IInv /\ Loop => [Graph!Next]_(Graph!vars)
<1>. SUFFICES ASSUME IInv, Loop PROVE [Graph!Next]_(Graph!vars)
  OBVIOUS
<1>. USE DEF IInv, TypeOK
<1>0. states' \in [Tasks -> TaskStates] /\ dag' = dag
  BY LoopTypes DEF Loop, StartReady, WaitAgain, Collect, FindBlocked, Skip, Finish, GiveUp
<1>. SUFFICES ASSUME states' # states, NEW n \in Tasks, states'[n] # states[n]
              PROVE  Graph!Starts(n) \/ Graph!Ends(n) \/ Graph!Blocks(n)
  BY <1>0, SameRules DEF Graph!Next, Graph!vars
<1>1. CASE StartReady
  <2>1. n \in ReadyTasks /\ states'[n] = "running"
    BY <1>1 DEF StartReady
  <2>. QED
    BY <2>1, SameQueries DEF ReadyTasks, Unresolved, Graph!Starts
<1>2. CASE Collect
  <2>1. n \in DoneTasks /\ states'[n] = Outcome(n)
    BY <1>2 DEF Collect
  <2>. QED
    BY <2>1 DEF DoneTasks, Outcome, WorkerMatches, Graph!Ends
<1>3. ASSUME NEW t \in Tasks, Skip(t)
      PROVE  Graph!Blocks(n)
  <2>1. /\ n = t /\ t \in blocked /\ pc = "skipping"
        /\ states'[t] = IF UpstreamStates(t) \cap FailedStates # {} THEN "upstream_failed"
                                                                  ELSE "skipped"
    BY <1>3 DEF Skip
  <2>2. /\ states[t] = "none" /\ UpstreamsAreTerminal(t)
        /\ ~ShouldRun(dag.rule[t], UpstreamStates(t))
    BY <2>1 DEF BlockedMatches
  <2>. QED
    BY <2>1, <2>2, SameQueries DEF Graph!Blocks
<1>4. CASE WaitAgain \/ FindBlocked \/ Finish \/ GiveUp
  BY <1>4 DEF WaitAgain, FindBlocked, Finish, GiveUp
<1>. QED
  BY <1>1, <1>2, <1>3, <1>4 DEF Loop

LEMMA NextRefines == IInv /\ [Next]_vars => [Graph!Next]_(Graph!vars)
<1>. SUFFICES ASSUME IInv, [Next]_vars PROVE [Graph!Next]_(Graph!vars)
  OBVIOUS
<1>1. CASE Loop
  BY <1>1, LoopRefines
<1>2. CASE \E t \in Tasks : Worker(t)
  BY <1>2 DEF Worker, CallEnds, Attempt, Succeed, Retry, Fail, Return, Graph!vars
<1>3. CASE UNCHANGED vars
  BY <1>3 DEF vars, Graph!vars
<1>. QED
  BY <1>1, <1>2, <1>3 DEF Next, Over

(* The executor, with its coroutines, retries and late collection,         *)
(* implements the abstract run of a graph.                                 *)
THEOREM ExecutorRefinesGraphRun == Spec => ImplementsGraphRun
BY InitRefines, NextRefines, Invariance, PTL DEF Spec, ImplementsGraphRun, Graph!Spec

(* The abstract theorems speak of the same run.                            *)
LEMMA SamePromise ==
    /\ Graph!Spec => Promise!Spec
    /\ Promise!Justified => DecisionsJustified
    /\ Promise!FailureHasCause => FailureHasCause
<1>. USE DEF Graph!UpstreamStates, Promise!UpstreamStates, Graph!UpstreamsTerminal,
             Promise!UpstreamsTerminal, Graph!RuleHolds, Promise!RuleHolds,
             Graph!UpstreamFailure, Promise!UpstreamFailure
<1>0. /\ Promise!TaskStates = Graph!TaskStates /\ Promise!Rules = Graph!Rules
      /\ Promise!Terminal = Graph!Terminal /\ Promise!FailedStates = Graph!FailedStates
  BY DEF Graph!TaskStates, Promise!TaskStates, Graph!Rules, Promise!Rules, Graph!Terminal,
         Promise!Terminal, Graph!FailedStates, Promise!FailedStates
<1>1. \A r, S : Promise!ShouldRun(r, S) <=> Graph!ShouldRun(r, S)
  BY <1>0 DEF Graph!ShouldRun, Promise!ShouldRun
<1>2. Graph!Init => Promise!Init
  BY <1>0 DEF Graph!Init, Promise!Init
<1>3. ASSUME NEW n \in Tasks
      PROVE  /\ Graph!Starts(n) => Promise!Starts(n)
             /\ Graph!Ends(n) => Promise!Ends(n)
             /\ Graph!Blocks(n) => Promise!Blocks(n)
  BY <1>0, <1>1 DEF Graph!Starts, Promise!Starts, Graph!Ends, Promise!Ends, Graph!Blocks,
                    Promise!Blocks
<1>4. [Graph!Next]_(Graph!vars) => [Promise!Next]_(Promise!vars)
  BY <1>0, <1>3 DEF Graph!Next, Promise!Next, Graph!vars, Promise!vars
<1>5. Promise!Justified => Graph!Justified
  BY <1>0, <1>1 DEF Graph!Justified, Promise!Justified
<1>6. Promise!FailureHasCause => Graph!FailureHasCause
  BY DEF Graph!FailureHasCause, Promise!FailureHasCause
<1>. QED
  BY <1>2, <1>4, <1>5, <1>6, PTL DEF Graph!Spec, Promise!Spec, DecisionsJustified,
                                     FailureHasCause

(* Hence every start and every skip is justified by the upstream states.   *)
THEOREM DecisionsAreJustified == Spec => []DecisionsJustified
BY SamePromise, Promise!DecisionsStayJustified, ExecutorRefinesGraphRun, PTL
   DEF ImplementsGraphRun

(* Hence a run that blames an upstream has a task that failed itself.      *)
THEOREM FailuresHaveCauses == Spec => []FailureHasCause
BY SamePromise, Promise!FailuresHaveCauses, ExecutorRefinesGraphRun, PTL
   DEF ImplementsGraphRun

=============================================================================
