# Riverflow in TLA+

Riverflow runs workflows on one host: a *DAG* of tasks is executed by asyncio
coroutines in one process, a *Flow* is a graph of DAG runs, a SQLite file keeps
runs and logs, and a web page follows everything over a WebSocket. This
directory specifies the parts of it whose correctness depends on the order in
which things happen, checks them with TLC on small instances and proves the
main safety properties with TLAPS for instances of every size.

Paths below are relative to the repository; `core/` is `src/riverflow/core/`,
`server/` is `src/riverflow/server/`.

## The system

| Component | State it keeps | Operations | What makes it correct |
|---|---|---|---|
| Trigger rules (`core/trigger_rules.py`) | none | `should_run(rule, states)` | the rule a task is decided by is the one `should_run` states; where the comments of the enumeration `TriggerRule` say otherwise (three cases), see the findings |
| DAG executor (`core/dag_executor.py`) | `states`, `running_tasks` of one run | start ready tasks, collect ended ones, skip blocked ones, give up | each task decided once, by its rule, after its upstreams; no idle ready task; no partial run |
| Task executor (`core/task_executor.py`) | one `TaskInstance` | attempts, retries, timeout, callbacks | attempts within the budget; the reports agree with the result |
| Run registry (`core/riverflow.py`) | active and current runs, a lock per DAG, history, update callbacks | `trigger`, `trigger_task`, `clear_history`, the coroutines of runs, rehydration | no two unforced runs of a DAG at a time; the registry is exact; ends are durable before they are announced; admitted runs settle |
| Flow executor and runs (`core/flow_executor.py`, `core/riverflow.py`) | node states of one Flow run, registry of Flow runs | start nodes, poll a busy DAG, collect, skip | as the DAG executor; a node reports the end of its child run; REJECT, QUEUE and FORCE do what they say |
| Scheduler and registration (`core/riverflow.py`) | `_dags`, `_flows`, APScheduler jobs | `register_dag`, `register_flow`, start, stop | the jobs are those of the registered definitions; a registered Flow finds its DAGs |
| Log store (`core/log_store.py`) | tables `dag_runs`, `flow_runs`, `task_logs` | save, query, clear | what was saved stays until it is cleared |
| Task log capture (`core/logger.py`) | records of a task's handler, how many are flushed | emit from several threads, flush | the saved rows are the records in order, each once |
| Definition and validation (`core/dag.py`, `core/flow.py`, `core/task.py`) | graph | `>>`, `add_dag`, `_validate` | the cycle check finds exactly the cyclic graphs |
| WebSocket updates (`server/ws.py`, `server/api.py`) | connections, sends in flight | connect, snapshot, broadcast, drop | see the next row |
| Live updates of the page (`ui/src/hooks/`) | query cache, running flags | apply an update, reconnect | the page is never ahead of the server, and converges to it |
| Trigger dialogs (`ui/src/components/Trigger*Dialog.tsx`) | the fields, the request on its way | edit, submit, cancel, change the page | the keys of the form have the values its fields showed; that no second unforced run starts is left to the server |
| Command palette, keyboard, row navigation (`CommandPalette.tsx`, `useShortcut.ts`, `useRowNav.ts`) | cursor, armed sequences, active row | keys, clicks, polls under them | a sequence needs its leader; typing is not a shortcut; the results are the matches and the rows are where the cursor is |
| Lists, logs, overview, charts (`ui/src/pages`, `ui/src/components`) | what they cache and select | polls, filters, late answers, failed requests | what is shown belongs to what is selected and adds up |
| API models, host sampling, graph layout, command line | little or none | formatting, I/O | not modelled, see below |

How they interact: `trigger` registers a run and creates a coroutine (or awaits
it); that coroutine takes the lock of the DAG, runs a `DAGExecutor`, which
creates one asyncio task per started task; each of those runs the task's
function under the retry loop of `TaskExecutor` and reports through
`on_task_state_change` into the history record and to the update callbacks. At
the end the run leaves the registry, a worker thread writes its row, and the
final update goes out. A Flow run triggers DAG runs in the same way as a user,
and so does a job of the scheduler. A page gets the updates over a WebSocket
and asks the REST API for lists, flags and logs; both write one query cache,
which all pages read.

What is hard: coroutines interleave at every `await`; a run is registered
before it has the lock and unregistered before it is saved; a task's end is
reported to two places at different times; cancellation passes through
`except Exception`; the process may end anywhere; two channels write the cache
of a page with no order between them; the user acts on what a page showed a
moment ago. `PROJECT.json` lists the hazards at their lines with the properties
that watch them.

## Modules

| Module | Models | Checked by | Proofs |
|---|---|---|---|
| `TriggerRules` | `should_run`, `TERMINAL_STATES` | used by all graph modules | |
| `GraphRun` | abstract: what the run of a dependency graph promises | implemented by the next two | `GraphRunProofs` |
| `DAGExecutor` | `DAGExecutor.run` with `TaskExecutor` | `MCDAGExecutor` | `DAGExecutorProofs` |
| `FlowExecutor` | `FlowExecutor.run`, `_run_node`, `_execute_flow` | `MCFlowExecutor` | `FlowExecutorProofs` |
| `RunRegistry` | runs in `Riverflow`, table `dag_runs` | `MCRunRegistry` | `RunRegistryProofs` |
| `Scheduler` | registration, start and stop of the scheduler | `MCRunPages` | `SchedulerProofs` |
| `TaskLog` | `TaskLogHandler` | `MCRunPages` | `TaskLogProofs` |
| `LiveUpdates` | server, socket, cache of a page | `MCLiveUpdates` | `LiveUpdatesProofs` |
| `Pages` | the keyboard and the models below, one at a time | `MCPages` | `PagesProofs` |
| `KeySequences` | `useSequenceShortcut`, `useShortcut` | `MCPages` | `PagesProofs` |
| `LogTail` | the log of a run on its page | `MCPages`, `MCRunPages` | `PagesProofs` |
| `RunLists` | pages over cached run lists, clearing | `MCPages`, `MCRunPages` | `PagesProofs` |
| `TriggerFlowForm`, `TriggerRunForm` | the two dialogs, their pages and requests | `MCPages` | `PagesProofs` |
| `CommandPalette`, `DAGList`, `Overview`, `RunCharts`, `MetricsChart` | the component of that name | `MCPages` | `PagesProofs` |
| `Ranking` | `Array.prototype.filter` and `sort` | used by four pages | `PagesProofs` |

Some definitions have a neighbour with a comment "A variant of": the same
definition with a plausible mistake in it. It is used nowhere; `PROJECT.json`
pairs it with the property that notices the mistake.

### DAGExecutor

`dag` is the DAG of the run, chosen from the constant `Dags` (upstreams, rule,
retries and the tasks with a timeout). `pc` says where `run()` is: at the head
of its loop, in `asyncio.wait`, in the loop over blocked tasks, or over.
`states` is its dictionary, `worker[t]` the coroutine of task `t` with the
fields of its `TaskInstance`, `seen` the `task_states` of the history record.

Steps between two awaits are one action. `run()` starts all ready tasks and
waits (`StartReady`, `WaitAgain`), collects what is done when it is resumed
(`Collect`), lists the blocked tasks once nothing runs (`FindBlocked`), skips
them one by one, each followed by the await of `on_skip` (`Skip`), and ends
(`Finish`, `GiveUp`). A task coroutine begins an attempt (`Attempt`), the call
returns, or fails or times out (`Succeed`, `Retry`, `Fail`), and the coroutine
ends after its last callback (`Return`). Task functions are arbitrary: they may
return, raise or time out at any attempt. What they may not do is raise
`CancelledError` of their own accord, which passes through every
`except Exception` of the two executors and ends the run like a cancellation
(`RunRegistry!Cancel` has the consequences). User callbacks are only the time they take, because
`_safe_callback` swallows what they raise.

Upstream states are taken as sets, not lists: every rule is a quantification
over them. The order in which blocked tasks are skipped is left open, which
allows more than the code's declaration order.

### FlowExecutor

The loop is that of the DAG executor; what differs is the coroutine of a node.
`node[n]` is where `_run_node` is, and `run[x]` the DAG run that the call of
`trigger` by a node or another caller made, with its place in the registry and
at the lock. Under QUEUE a node polls until its DAG is free (`TriggerNode` is
not enabled before), under REJECT it fails at a busy DAG, under FORCE it takes
no lock. A child run whose row cannot be saved raises, so its node is FAILED and
has no run id. The Flow's caller may be cancelled: `_execute_flow` then saves
the record as it is, and the nodes' coroutines go on. `GiveUp` (a graph made
cyclic) never happens, as `run()` validates the Flow again before it starts;
the passing run contains such a Flow to show it.

### RunRegistry

A run is a record with its phase (see the table in the module), the state of
its history record, and the state last announced. Runs are numbered as they
are created, over all processes, which stands for unique run ids.
`Trigger`, `ForceTrigger` and `TriggerTask` are the three ways in; `Start` takes
the lock when the run has one to take; `End` is the `finally` block up to the
await of the save, `SaveRow`/`SaveFails` the worker thread, `Return` the rest.
`Clear` is `clear_history`. `Cancel` is the cancellation of a caller that awaits
the run, `Shutdown` the cancellation of everything when the event loop is
closed, `Restart` the end of the process at any moment followed by rehydration.
A thread job that was queued survives the cancellation of its coroutine or is
dropped with it, both outcomes being possible.

The update callbacks are called in the step in which the code calls them
(`announced`). A callback that only schedules its work, as those of the WebSocket
do, may read the record later, and then tells what the record says by then; that
is the subject of `LiveUpdates`.

The registry of Flow runs is the same code with other names, and the module
stands for it too. How a DAG executes is the executors' subject: the only thing
taken from it is that an execution ends (`DAGExecutor!RunEnds`) with success or
failure.

### Scheduler

`dags` and `flows` hold the object registered under each id, `jobs` the times of
the job with each id. Everything is synchronous, so an operation is one step,
also when it raises half-way: `RegisterFlow` registers the DAGs of its nodes up
to the first that conflicts or cannot be scheduled (`Reached`), and the Flow
only after all of them (`Accepted`). `register_dag` removes the job of the
predecessor before it makes a trigger, `register_flow` does not
(`JobOfDag`, `JobOfFlow`). The job of a Flow has the id `flow:<flow_id>`; that no
DAG is called so is assumed (`IdOf`), as its job would be taken for the Flow's.
APScheduler is external: when a job is due is not
modelled, and what it does then is `RunRegistry!Trigger`.

### TaskLog

`records` and `flushed` are how many records the handler has and has marked;
`saved` is the table, a sequence of record numbers. A thread reads the pending
records, saves them, and marks what has arrived *by then*. Emits exclude each
other by the lock of `logging.Handler`; the last flush, after the handler was
removed, does not take it. A thread that is inside the handler at that moment is
`late`, and `RowsAreAPrefix` then says nothing: the unlocked flush beside it may
repeat or lose a record. A save may fail `MaxFails` times, and is then taken to
leave nothing: `save_task_logs` inserts and commits without a rollback, so after
a commit that failed (and not an insert) the rows would be in the open transaction
of that connection and could be committed with the next batch, which repeats them.

### LiveUpdates

`server` is the state of each run in the server's memory, `wire` the socket,
`lists` and `flags` the query cache, `asked` and `answers` the requests on their
way. Updates and answers interleave freely; the socket is first in, first out,
loses what it carried when it closes, and is opened again. The server drops a
client whose send takes too long (`DropSlowClient`) and leaves its socket open.
A list is what it shows of each run; the toasts and labels are left out.

### Pages

A page model has the page's state (`useState`, `useRef`, the URL), what is
cached of its queries, and the server as far as the page can tell. A step is a
key, a click, a poll, an answer, or a failure; a render is part of the step
that causes it. What the code filters, sorts or groups is a set of places in
the list it came from: `Ranked` puts such a set in an order, equal elements as
they were, which is what `Array.prototype.sort` promises. In `RunLists` a list
of runs is a set, as the server answers the latest runs and pages only look
whether a run is among them; the activity chart collects its line segments in
one pass over the days, as the code does, each segment as the set of its days. Two
simplifications are made of time and numbers: the timestamps of the server and
the days of the browser are one clock in `RunCharts` (and no run leaves its
list), and `MetricsChart` counts values in a decimal unit that is small enough for
all of them, so that bytes per second and hundredths of a GiB are both natural
numbers of any magnitude; the rounding of `Math.log10` and of division in floating
point is left out. Its `Window` is the most samples there are of the 60 minutes the
page asks for; a poll may bring fewer at any time. By name, `DAGList` sorts by
`NameRank`, the place of an id in the order of `localeCompare`, which is unrelated
to the order in which the server lists the DAGs.

In the trigger dialogs `isPending` is what the page rendered last (`busy`): a
second press before the next render, or a trigger from the palette, is a second
request on its way. `mutate` makes the mutation follow the new request only
(`Mutate`), while `onSuccess` is called for each. The palette is its own model,
and its trigger of a DAG is an action of `TriggerRunForm` (`TriggerFromPalette`),
as it happens beside the page and its dialog.

React drops the state of a page with the page, so no two page models share
variables. `Pages` therefore composes them one at a time: `model` says which of
them a behaviour is of, `x1` to `x11` are the variables of that model, in the
order in which it declares them, and a record per model (`FieldsOf`, `HostOf`,
...) gives it its parameters. The keyboard has its own variables. The
properties of the pages are stated in `Pages` for all parameters that the
models' assumptions admit; `MCPages` only defines small ones. No property of
`TriggerRunForm` is stated beyond its types: what matters of a DAG's trigger, that
the server lets one unforced run in, is `RunRegistry`'s. `MCRunPages` does
the same with the two page models whose properties need fairness, `TaskLog` and
`Scheduler`.

## Runs

| Run | Question | Instance |
|---|---|---|
| `DAGExecutorRuns` | is every decision of a run right, final and reported, and do runs end? | 3 tasks, all 8 shapes, all rules on tasks with upstreams, one retry, one cyclic DAG, DAGs of which one task may hang |
| `FlowExecutorRuns` | does a Flow run decide as a DAG run does, and tell the truth about its child runs? | 3 nodes on 2 DAGs, seven Flows in which every policy meets every other, one other caller; 305 thousand states |
| `RunRegistrySafety` | are runs excluded, tracked and stored correctly? | 1 DAG, 3 runs; 1.7 million states |
| `RunRegistryLiveness` | does clearing respect active runs of any DAG, and does an admitted run settle? | 2 DAGs, 2 runs |
| `LiveUpdatesPage` | is the page never ahead, and does it converge? | 2 runs of a DAG, one list and the flags, a socket of 2 messages; 101 thousand states |
| `LogsPagesAndJobs` | does a log reach the database and the page in order, does a page find its run, do jobs follow definitions? | 2 threads, 4 records, 2 failures; 2 lines; 3 runs under one shared key; 5 DAG and 4 Flow objects; 24 thousand states |
| `Pages` | do the pages agree with what they were given, whatever comes late or fails? | see `MCPages`: two or three items of each sort, two requests on their way; 1.5 million states |
| `NoneFailedHeldBack`, `OneDoneSkipped` | do the rules do what their comments say? | two chains of 3 tasks; violated |
| `ClearedRunReturns` | does a cleared run stay cleared? | violated |
| `RefusedWhileIdle` | is a trigger refused only when the DAG is running? | violated |
| `OrphanTasks` | do tasks of unforced runs never overlap? | violated |

Bounds. Three tasks give every combination of two upstreams with different
ends, a chain, a fork and a join; a rule looks at a set of states, so further
upstreams add no new case beyond a set of three states, and what they add is
covered by the proofs, which have no bound. One retry distinguishes the first
attempt, a repeated one and the last. Three nodes and one other caller give two
contenders for a DAG while a third holds it, and a caller that takes a DAG
between two polls of a QUEUE node. Three runs of one DAG give a run that waits
for the lock of one that is being saved while a third is forced, and every order
in which one of three active runs ends. Only `Clear(DAGs)` and the shared
counter connect two DAGs, which two runs exercise. A socket of two messages lets
an update wait behind another while an answer overtakes both. Four records and
two failures give a batch that fails, a longer one that fails again, and one
that succeeds. The samples of a chart slide under a window that is full; their
values, in tenths, are zero, a power of ten, and above two and above five times
one, which takes every branch of `niceCeil` but one (the proof has all). Two requests
on their way (`MaxRequests`) are a second press before the render, or the palette
beside the page; the dialog of a Flow is checked once with all its fields for two
Flows, and once with two requests and two runs. The other bounds (`MaxRuns`, `MaxActive`, `MaxLines`, `MaxWire`) guard only the
creation of something new; what is on its way always ends.

`MCLiveUpdates` restricts one thing: the second run of the DAG starts only if
the page never asks for the list. What a second run adds are the running flags,
which the update of one run sets for both; with the list they would multiply
the states without a new case. No fair action is cut by it.

Deadlock is checked wherever the system always has something to do; it is off
in `LogsPagesAndJobs`, where the log of a task is complete at some point.

Fairness. `DAGExecutor`, `FlowExecutor`: the event loop resumes every coroutine
that can run (weak fairness of the loop and of the steps of each task or node),
callbacks and retry delays end, and a call is sure to end only when the task has
a timeout (`asyncio.wait_for`); without one it may hang. A QUEUE node polls for
ever, and gets its DAG because other callers make finitely many runs; with
callers that never stop it may starve. `RunRegistry`: weak fairness of each
run's own steps; that an execution ends is what `RunEnds` shows of DAGs whose
tasks all have timeouts, and is an assumption for others. Weak fairness of
`Start` suffices for the lock because an unforced run that waits for it is
registered, so no other is admitted meanwhile. `LiveUpdates` and the pages: a
mounted query polls (weak fairness), and of the requests that are made again and
again one is answered and its answer taken (strong fairness, since a request may
fail or be discarded each time); the socket is opened again by its timer.
Nothing is assumed of triggers, cancellation, clearing, shutdown or restart, or
of what users do.

## What the checks found

* `TIMEOUT` is reported by the task executor and overwritten with `FAILED` when
  the DAG executor collects the raised error (`core/dag_executor.py:103`). So
  `NONE_FAILED`, said to tolerate timeouts (`core/task.py:28`), does not.
* The same comment says that `upstream_failed` is ok for `NONE_FAILED`; `should_run`
  refuses it together with `FAILED` (`core/trigger_rules.py:48-51`). A task behind one
  that was not run because of a failure above it is marked `UPSTREAM_FAILED` too.
  `NoneFailedHeldBack` shows both halves in one run: its property is violated only
  when one task is held back by a timeout and another by an upstream that was
  `UPSTREAM_FAILED`. `TriggerRules` has the rule of the code, so
  `DecisionsJustified` and the refinements say nothing of the comment.
* `ONE_DONE` does not count a skipped upstream although it is terminal
  (`core/task.py:27`).
* `clear_history` is accepted while the row of the last run is still being
  written, and the row then comes back (`core/riverflow.py:531-534`).
* A caller cancelled while it waits for the lock leaves its run registered: the
  DAG counts as running until the process ends (`core/riverflow.py:257`).
* A cancelled caller ends its run and frees the DAG, but the asyncio tasks of
  the run go on, beside those of the next run (`core/riverflow.py:524`).

The passing runs state what does hold in their presence: the record settles
except for this one change (`HistorySettles`), the registry is exact when the
abandoned runs are counted in (`RegistryIsExact`), a row says RUNNING only after
a cancellation (`RunningRowsWereCut`).

### Known divergences without a run of their own

Modelling the rest met these. The models behave so, and the passing properties
are stated so as to be true of it.

* An empty list of one DAG takes the pushed run of any other, and a pushed Flow
  run is written into the lists of all Flows (`useLiveUpdates.ts:17`, `:55`);
  both last until the next poll.
* A client that was too slow once gets no further update while its page still
  says it is live (`server/ws.py:65`).
* A DAG that is registered again without a schedule keeps the job of its
  predecessor (`core/riverflow.py:122`); a Flow keeps it also when its new
  schedule is unusable (`:1132`), where a DAG loses it (`:1099`).
* A Flow whose registration is refused leaves the DAGs of its first nodes
  registered (`core/riverflow.py:137`), and a DAG object that is replaced by
  `register_dag` stays in the Flows that name it, which then run the new one.
* One invalid schedule keeps the scheduler, and with it the server, from
  starting (`core/riverflow.py:1080`).
* The last flush of a log takes no lock and is not repeated: a record of a thread
  that outlived its timeout, or those of a failed last save, are in no row
  (`core/logger.py:343`, `:345`).
* The lines saved between the last poll and the end of a run are not fetched
  while the page keeps its selection (`RunDetail.tsx:33`).
* Dates typed for a backfill are validated in every mode
  (`TriggerFlowDialog.tsx:106`), and the fields of the dialog survive the way to
  another Flow, the force included (`:41`).
* After a render within the 800 ms a key sequence stays armed until the next key
  (`useShortcut.ts:99`).
* The palette's cursor may be off the results after a poll
  (`CommandPalette.tsx:111`); the active row of the list of DAGs is a place, and
  another DAG after a reordering (`DAGList.tsx:92`).
* After a clearing, cleared runs show until the next poll in two cases. A list that
  is out of sight keeps its request: `invalidateQueries` refetches, and so cancels,
  only the requests of queries in sight. And one in sight keeps its request when its
  entry is still empty, because `cancelRefetch` drops a fetch only if there are data:
  whoever sends the clearing, follows a link to a page that still loads, and is told
  of the success there, gets the answer from before it, which also marks the list as
  fresh (`DAGDetail.tsx:296-300`, `FlowDetail.tsx:285-288`; `RunLists!Restarts`). The
  properties of `RunLists` therefore speak of the entries that were asked for anew
  when the page was told (`told`).
* Two triggers of one Flow or DAG may be on their way at once: two presses before a
  render, or a page and the palette (`CommandPalette.tsx:83-96`). The server refuses
  the second unless it is forced; two forced ones make two runs. The first success
  closes the dialog, also when it was opened again for another Flow or DAG meanwhile
  (`FlowDetail.tsx:41-47`), and `isPending` is that of the latest request only.
* A run older than the latest 200 of all DAGs is not found by its page
  (`RunDetail.tsx:23`); a Flow run is called unknown until the next answer when
  the cached list is a shorter one of another page (`FlowRunDetail.tsx:33`).
* The overview counts failed runs as Flows (`Dashboard.tsx:70`) and says that
  nothing is registered when its requests failed (`:216`).
* The activity chart ends with the day on which the runs last changed
  (`ActivityChart.tsx:33`); a reference line above the axis is drawn at its top
  (`TimeSeriesChart.tsx:108`).

## Proofs

All theorems hold for arbitrary constants, under the named assumptions in the
modules: any set of tasks, nodes, DAGs and Flows of their types, any number of
runs, records, threads, failures, messages, modes, queries, samples or days.
TLC evaluates the assumptions for the instances of the runs. Every invariant and
every action property of a passing run is stated by a theorem.

* `GraphRunProofs`: a decided node stays decided (`DecidedStable`), hence decisions
  stay justified by the current upstream states, hence failures have causes.
* `DAGExecutorProofs`: the invariant `IInv` adds to the type invariant how the
  executor's dictionary and each task coroutine match (a task is RUNNING exactly
  while its asyncio task exists), how many attempts each place of the retry loop
  has behind it, that the list of blocked tasks stays right while it is worked
  off, and `HistoryAgrees`. None of the properties is inductive without the
  first. The refinement maps `states` to itself; every step is a step of
  `GraphRun` or leaves `states` alone, and `DecisionsJustified` and
  `FailureHasCause` are inherited from the abstract theorems.
* `FlowExecutorProofs`: the same matching of dictionary and coroutines, with the
  run each node made in the place of attempts; that unforced runs exclude each
  other rests on the registry being consulted in the step that registers. The
  Flow executor refines the same `GraphRun`.
* `RunRegistryProofs`: `IInv` adds the numbering of runs (a new run is larger than
  all registered ones, which is what "the newest" and `OneUnforcedActive` rest
  on), that a locked run holds its lock until it ends, and which runs may have a
  save pending. The exclusion of rivals then follows in two ways: from the
  registry while they execute, from the lock while they save. The one fact about
  data, that a non-empty set of runs has a largest element (`NewestIsLast`), comes
  from the well-foundedness of the natural numbers.
* `TaskLogProofs`: the rows are the records in order because what is not flushed
  begins where the rows end, unless a save of the same batch went through just
  now; the invariant says which of the two each thread is in.
* `LiveUpdatesProofs`: `NeverAhead` is inductive together with the same statement
  about every message on the wire, every answer on its way and every end that was
  not told yet: a run only goes forward on the server (`Forward`), so what was
  true when it was sent is true when it arrives.
* `SchedulerProofs`: the statement about jobs is inductive for the ids of DAGs and
  of Flows apart (`DagJobs`, `FlowJobs`); that a Flow finds its DAGs, because an id
  that has an object keeps having one.

* `PagesProofs`: one invariant, `PagesInv`, with a part for each model; a step of
  the pages is a step of the model that is running (`FieldsMove` to `RunsMove`), so
  each part is preserved on its own, and the properties of `Pages` follow from it.
  Beyond the types the parts say:
  - keyboard: an armed sequence has seen its leader last, also across renders
    (`ArmedByLeader`);
  - dialogs: what the form would send has its keys managed whenever it reports no
    problem (`PayloadIsManaged`), so every request has, of however many are on
    their way;
  - log: what is cached or on its way for a selection was asked for it, and is
    a beginning of the log (`AnswersFit`);
  - lists of runs: neither an answer on its way nor a list that is not stale has
    a run that was cleared when its entry was asked for anew (`AnswersLackCleared`),
    whether or not a request under way was cancelled for that;
  - list of DAGs: while there are rows one of them is active, also behind an
    error that hides them (`ListInv`); a poll may shorten the rows, but then their
    number changes and `ResetOnLength` applies;
  - activity: no run is of a day after the one the chart was computed on
    (`ActivityInv`), without which runs could fall out of its window.

  What the pages compute is proved for every list. A finite set in a strict total
  order is listed by `Ordered` completely and in order (`OrderedLists`, by counting
  what is before an element), hence filtering and sorting are complete, sorted and
  stable (`PlacesByWeight`); the rows of the list of DAGs, the recent activity, the
  percentile and the palette's results (`ResultsAreMatches`) rest on it. Of a page's
  samples, the crosshair is the nearest, the axis is at most two and a half times the
  largest (`NiceCeiling`), and the ticks are strictly increasing. That every positive
  value, however large, lies between two powers of ten (`PowerBelowIt`) comes from
  their growth and the well-foundedness of the natural numbers. The collection of line
  segments is a recursive function of the day; that it is defined, and that after
  each day the segments are the maximal ones so far (`CollectIsSound`), is proved by
  an induction stated with a set instead of a predicate (`UpToTheTop`), from the
  well-foundedness of the natural numbers.

What is only model-checked: liveness (`RunEnds`, `NoTaskHeldUp`, `FlowRunEnds`,
`AdmittedRunsSettle`, `PageConverges`, `PagesCatchUp`), which is
out of reach of the prover's backends. The types of `TaskLog`, `LiveUpdates` and
`Scheduler` are proved and not checked again by a run.

## Not modelled

* Formatting: response models and converters, labels, durations, toasts, the
  layout and drawing of pages (`DAGGraph`, `DAGGantt`, `DAGGrid`, `FlowGraph`), and
  `server/graph_layout.py`, which computes coordinates nothing else depends on.
* SQL and its connections per thread, HTTP, the start of the process and the
  discovery of files, the sampling of the host: they are I/O. What they give the
  rest is modelled where it is used.
* The depth-first search of `_check_cycles` and the operators `>>` and `<<`: they
  work on an object before anything runs. Their verdict is `Acyclic`.
* APScheduler's clock. A job fires like a trigger by a user.
* The composition of a Flow run with restarts and clearing: `FlowExecutor` has one
  Flow run, `RunRegistry` the life of any number of runs.
