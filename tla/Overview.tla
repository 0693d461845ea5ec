------------------------------ MODULE Overview ------------------------------
(***************************************************************************)
(* The Overview page (pages/Dashboard) and the list of Flows               *)
(* (pages/FlowList): what they show of four queries, of which each may     *)
(* still load, may have failed, and may be older than the others.          *)
(***************************************************************************)
EXTENDS Integers, Sequences, FiniteSetsExt, Ranking

CONSTANTS
    Flows,      \* the ids Flows have, or had in an earlier process
    Dags,
    NodesOf,    \* NodesOf[f]: the DAGs of Flow f
    FlowLists,  \* the answers for the Flow runs: [flow, state, time], newest first
    RunLists,   \* the answers for the DAG runs: [dag, state, time], newest first
    Shown,      \* 10: the entries of the recent activity, and failures counted
    Queries,    \* what may be typed as a filter; "" is nothing
    Matches     \* Matches[q]: the ids that contain q

States == {"running", "success", "failed"}

OverviewAssumption ==
    /\ NodesOf \in [Flows -> SUBSET Dags]
    /\ FlowLists \subseteq Seq([flow : Flows, state : States, time : Nat])
    /\ RunLists \subseteq Seq([dag : Dags, state : States, time : Nat])
    /\ Shown \in Nat \ {0}
    /\ "" \in Queries /\ Matches \in [Queries \ {""} -> SUBSET (Flows \cup Dags)]

VARIABLES
    registered, \* the Flows that are registered
    library,    \* the DAGs that are registered
    status,     \* of each query: "pending", "error" or "success"
    flows,      \* the cached Flows: [id -> is it running]
    flowRuns,   \* the cached Flow runs
    dags,       \* the cached DAGs
    runs,       \* the cached DAG runs
    q,          \* the filters of the list of Flows, in the URL
    onlyRunning

vars == <<registered, library, status, flows, flowRuns, dags, runs, q, onlyRunning>>

Names == {"flows", "flow-history", "dags", "history"}

TypeOK ==
    /\ registered \subseteq Flows /\ library \subseteq Dags
    /\ status \in [Names -> {"pending", "error", "success"}]
    /\ DOMAIN flows \subseteq registered /\ flows \in [DOMAIN flows -> BOOLEAN]
    /\ dags \subseteq library
    /\ flowRuns \in FlowLists \cup {<<>>} /\ runs \in RunLists \cup {<<>>}
    /\ q \in Queries /\ onlyRunning \in BOOLEAN

(* Nothing is cached: "?? []".  A Flow has its DAGs registered.            *)
Init ==
    /\ registered \in SUBSET Flows
    /\ library \in {known \in SUBSET Dags : \A f \in registered : NodesOf[f] \subseteq known}
    /\ status = [n \in Names |-> "pending"]
    /\ flows = <<>> /\ flowRuns = <<>> /\ dags = {} /\ runs = <<>>
    /\ q \in Queries /\ onlyRunning \in BOOLEAN

-----------------------------------------------------------------------------
(* The queries *)

Arrived(n) ==
    /\ status' = [status EXCEPT ![n] = "success"]
    /\ UNCHANGED <<registered, library, q, onlyRunning>>

ReceiveFlows ==
    /\ Arrived("flows")
    /\ flows' \in [registered -> BOOLEAN]
    /\ UNCHANGED <<flowRuns, dags, runs>>

ReceiveFlowRuns ==
    /\ Arrived("flow-history")
    /\ flowRuns' \in FlowLists
    /\ UNCHANGED <<flows, dags, runs>>

ReceiveDags ==
    /\ Arrived("dags")
    /\ dags' = library
    /\ UNCHANGED <<flows, flowRuns, runs>>

ReceiveRuns ==
    /\ Arrived("history")
    /\ runs' \in RunLists
    /\ UNCHANGED <<flows, flowRuns, dags>>

(* A request and its retry fail; what was cached stays.                    *)
Fail(n) ==
    /\ status' = [status EXCEPT ![n] = "error"]
    /\ UNCHANGED <<registered, library, flows, flowRuns, dags, runs, q, onlyRunning>>

Typed(text) ==
    /\ q' = text
    /\ UNCHANGED <<registered, library, status, flows, flowRuns, dags, runs, onlyRunning>>

ToggleRunning ==
    /\ onlyRunning' = ~onlyRunning
    /\ UNCHANGED <<registered, library, status, flows, flowRuns, dags, runs, q>>

Next ==
    \/ ReceiveFlows \/ ReceiveFlowRuns \/ ReceiveDags \/ ReceiveRuns
    \/ \E n \in Names : Fail(n)
    \/ \E text \in Queries : Typed(text)
    \/ ToggleRunning

Spec == Init /\ [][Next]_vars

-----------------------------------------------------------------------------
(* The Overview page *)

Loading == \E n \in Names : status[n] = "pending"

(* A variant of CurrentFlowRuns: those of Flows that are gone as well.     *)
AllFlowRuns == DOMAIN flowRuns

(* The places of the runs of Flows there are.                              *)
CurrentFlowRuns == {i \in DOMAIN flowRuns : flowRuns[i].flow \in DOMAIN flows}

Least(a, b) == IF a < b THEN a ELSE b

FailedFlows ==
    Least(Shown, Cardinality({i \in CurrentFlowRuns : flowRuns[i].state = "failed"}))

RunningFlows == Cardinality({f \in DOMAIN flows : flows[f]})

(* The headline: what it says, and of how many.                            *)
Headline ==
    CASE Loading -> <<"loading", 0>>
      [] ~Loading /\ DOMAIN flows = {} /\ dags = {} -> <<"no workflows registered", 0>>
      [] ~Loading /\ DOMAIN flows \cup dags # {} ->
            CASE FailedFlows > 0 -> <<"need attention", FailedFlows>>
              [] FailedFlows = 0 /\ RunningFlows > 0 -> <<"running", RunningFlows>>
              [] OTHER -> <<"ready", Cardinality(IF flows # <<>> THEN DOMAIN flows ELSE dags)>>

RunsOf(f) == {i \in DOMAIN flowRuns : flowRuns[i].flow = f}

(* The state of a Flow, on both pages: of two queries.                     *)
FlowState(f) ==
    CASE flows[f] -> "running"
      [] ~flows[f] /\ RunsOf(f) # {} -> flowRuns[Min(RunsOf(f))].state
      [] OTHER -> "idle"

Activity == Kept(flowRuns, CurrentFlowRuns) \o runs

(* Flow runs and DAG runs together, the latest first.                      *)
RecentActivity ==
    LET items == Ranked(Activity, DOMAIN Activity, LAMBDA a, b : a.time > b.time)
    IN  SubSeq(items, 1, Least(Shown, Len(items)))

(* The sections: an error hides what is cached.                            *)
Section(n, content) ==
    CASE status[n] = "pending" -> {}
      [] status[n] = "error" -> {"error"}
      [] OTHER -> content

FlowSection == Section("flows", DOMAIN flows)
DagSection == Section("dags", dags)

-----------------------------------------------------------------------------
(* The list of Flows *)

Listed ==
    {f \in FlowSection \cap DOMAIN flows :
        /\ onlyRunning => flows[f]
        /\ q = "" \/ ({f} \cup NodesOf[f]) \cap Matches[q] # {}}

-----------------------------------------------------------------------------
(* The headline asks for attention only if a Flow that is registered, and  *)
(* was fetched, has a run that failed; runs of Flows of earlier processes  *)
(* do not count.                                                           *)
AttentionIsForRegistered ==
    Headline[1] = "need attention" =>
        \E i \in DOMAIN flowRuns : flowRuns[i].flow \in registered /\ flowRuns[i].state = "failed"

(* Nothing that the recent activity leaves out is newer than what it shows,*)
(* and it shows the latest first.                                          *)
RecentAreTheLatest ==
    LET shown == RecentActivity
        all == Activity
    IN  /\ \A i, j \in DOMAIN shown : i < j => shown[i].time >= shown[j].time
        /\ \A i \in DOMAIN all :
              Cardinality({j \in DOMAIN all : all[j].time > all[i].time}) < Shown
                  => \E j \in DOMAIN shown : shown[j].time = all[i].time

(* The Flows the list is filtered for are shown running, though the runs   *)
(* are cached by another query, at another time.                           *)
FilteredAreShownRunning == onlyRunning => \A f \in Listed : FlowState(f) = "running"

=============================================================================
