------------------------------ MODULE MCPages ------------------------------
(***************************************************************************)
(* Small instances of the pages.                                           *)
(***************************************************************************)
EXTENDS Pages, TLC

CONSTANTS f1, f2, d1, d2

(* KeySequences: the sequences of the Shell and the keys of the palette    *)
(* (mod+k), the detail pages (t) and the lists (/).                        *)

ShellKeys == {"d", "f", "l", "h", "s"}

PageShortcuts ==
    {[key |-> "k", mod |-> TRUE, skipInInput |-> FALSE],
     [key |-> "t", mod |-> FALSE, skipInInput |-> TRUE],
     [key |-> "/", mod |-> FALSE, skipInInput |-> TRUE],
     [key |-> "g", mod |-> FALSE, skipInInput |-> TRUE]}

-----------------------------------------------------------------------------
(* The trigger dialogs: with every field for two Flows that never run; with*)
(* two requests of one Flow, of which two runs may be forced; and with two *)
(* requests of two DAGs.                                                   *)

AllFields ==
    [flows |-> {f1, f2}, customModes |-> {"", "nightly"}, dates |-> {1, 2},
     extras |-> {"empty", "reserved", "invalid"},
     maxActive |-> 0, maxRequests |-> 1]

TwoRequests ==
    [flows |-> {f1}, customModes |-> {""}, dates |-> {}, extras |-> {"empty"},
     maxActive |-> 2, maxRequests |-> 2]

TwoDags ==
    [dags |-> {d1, d2}, runModes |-> {""}, metadata |-> {"empty", "invalid"},
     maxActive |-> 1, maxRequests |-> 2]

-----------------------------------------------------------------------------
(* The palette: a page, two DAGs and a Flow, with the items the palette    *)
(* makes of them, and queries that match all, some and, while the cache is *)
(* empty, none of them.                                                    *)

AllItems == <<"page", "flow f", "dag a", "dag b", "Run f", "Trigger a", "Trigger b">>
Triggers == {"Trigger a", "Trigger b"}

TargetOf ==
    [it \in {AllItems[i] : i \in 2..7} |->
        CASE it \in {"flow f", "Run f"} -> "f"
          [] it \in {"dag a", "Trigger a"} -> "a"
          [] OTHER -> "b"]

(* "a" finds one DAG and its trigger, "r" everything that runs.            *)
Scores ==
    [text \in {"a", "r"} |->
        [it \in {AllItems[i] : i \in 1..7} |->
            CASE text = "a" /\ it = "dag a" -> 96
              [] text = "a" /\ it = "Trigger a" -> 92
              [] text = "r" /\ it = "Run f" -> 500
              [] text = "r" /\ it \in Triggers -> 99
              [] OTHER -> 0]]

SomeItems ==
    [items |-> AllItems, always |-> {"page"}, itemOf |-> TargetOf,
     targets |-> {"a", "b", "f"}, queries |-> {"", "a", "r"}, score |-> Scores]

-----------------------------------------------------------------------------
(* The list of DAGs: three DAGs, of which each may be running or not and   *)
(* unregistered or not, a Flow, and a query that finds one DAG by its name *)
(* and others by the Flow's.                                               *)

(* Equal and different counts of runs, in and against the server's order.  *)
Summary(d, running) ==
    [is_running |-> d \in running, total_runs |-> IF d = "load" THEN 2 ELSE 1]
SomeDagLists ==
    {[d \in known |-> Summary(d, running)] :
        known \in {{}, {"load"}, {"etl", "report"}, {"etl", "load", "report"}},
        running \in {{}, {"etl"}, {"etl", "load", "report"}}}

SomeDags ==
    [dags |-> <<"load", "etl", "report">>, flows |-> {"reporting"}, dagLists |-> SomeDagLists,
     nameRank |-> "etl" :> 1 @@ "load" :> 2 @@ "report" :> 3,
     flowLists |-> [{"reporting"} -> {{}, {"etl"}, {"etl", "load"}}],
     queries |-> {"", "report"}, matches |-> "report" :> {"report", "reporting"}]

-----------------------------------------------------------------------------
(* The overview: two Flows of which either may be gone, and more runs than *)
(* the page shows.                                                         *)

FlowRun(f, state, time) == [flow |-> f, state |-> state, time |-> time]
DagRun(d, state, time) == [dag |-> d, state |-> state, time |-> time]

SomeFlowLists ==
    {<<FlowRun("f", "success", 4), FlowRun("f", "failed", 2)>>,
     <<FlowRun("g", "running", 5), FlowRun("f", "success", 4), FlowRun("g", "success", 3)>>,
     <<FlowRun("g", "failed", 5), FlowRun("g", "failed", 3)>>}

SomeFlows ==
    [flows |-> {"f", "g"}, dags |-> {"a", "b"}, nodesOf |-> "f" :> {"a"} @@ "g" :> {"a", "b"},
     flowLists |-> SomeFlowLists,
     runLists |-> {<<>>, <<DagRun("b", "success", 3), DagRun("a", "failed", 1)>>},
     shown |-> 2, queries |-> {"", "a"}, matches |-> "a" :> {"a"}]

-----------------------------------------------------------------------------
(* The charts of runs, three days long, over four, and the charts of the   *)
(* host: in tenths, samples at zero, at a power of ten, and above two and  *)
(* five times one, and the pointer at the edges and between the samples.   *)

FourDays ==
    [days |-> 3, percent |-> 60, cells |-> 2, maxRuns |-> 3, maxDay |-> 4, maxSeconds |-> 2]

SixSamples ==
    [window |-> 6, values |-> {0, 10, 21, 70}, one |-> 10,
     pointers |-> {0, 48, 137, 138, 300, 498, 499, 857, 858, 948, 960}]

-----------------------------------------------------------------------------
(* The log of a run of two tasks; and the runs of a DAG, which can be      *)
(* cleared, with the page of a run, which finds it in another list.        *)

TwoTasks == [tasks |-> {"extract", "load"}, levels |-> {"INFO", "ERROR"}, maxLines |-> 1]

TwoLists ==
    [dags |-> {"d"}, pages |-> {"runs", "detail"},
     keyOf |-> [runs |-> "history d full", detail |-> "history"],
     scopeOf |-> [runs |-> "d", detail |-> All], limitOf |-> [runs |-> 2, detail |-> 1],
     details |-> {"detail"}, clearing |-> {"runs"}, maxRuns |-> 2]

=============================================================================
