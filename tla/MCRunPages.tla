---------------------------- MODULE MCRunPages ----------------------------
(***************************************************************************)
(* How a log gets from a task into the database (TaskLog), from there to a *)
(* page (LogTail), how a page finds the run it was opened for (RunLists),  *)
(* and which jobs start runs (Scheduler): a behaviour is of one of the     *)
(* four.  x1 to x11 are the variables of LogTail, or of RunLists, in the   *)
(* order they declare them; the safety of these two is checked by MCPages. *)
(***************************************************************************)
EXTENDS TaskLog, Scheduler, TLC

CONSTANT All

VARIABLES model, x1, x2, x3, x4, x5, x6, x7, x8, x9, x10, x11

others == <<x1, x2, x3, x4, x5, x6, x7, x8, x9, x10, x11>>
pages == <<model, others, vars, schedulerVars>>

(* The log of a run of one task.                                           *)
LogPage == INSTANCE LogTail WITH
    Tasks <- {"load"}, Levels <- {"INFO"}, MaxLines <- 2,
    saved <- x1, running <- x2, believed <- x3, selected <- x4,
    cache <- x5, asked <- x6, answers <- x7, levels <- x8

(* A Flow run is opened from the overview of its Flow, whose list is of    *)
(* the latest run only, and is cached under the key of the page it leads   *)
(* to, which finds the run among the latest three.                         *)
FlowPages == INSTANCE RunLists WITH
    Dags <- {"f"}, Pages <- {"overview", "detail"},
    KeyOf <- [overview |-> "flow-history f", detail |-> "flow-history f"],
    ScopeOf <- [overview |-> "f", detail |-> "f"],
    LimitOf <- [overview |-> 1, detail |-> 3],
    Details <- {"detail"}, Clearing <- {}, MaxRuns <- 3,
    made <- x1, cleared <- x2, page <- x3, opened <- x4, filter <- x5, cache <- x6,
    failed <- x7, stale <- x8, fetch <- x9, clear <- x10, told <- x11

(* Two ids with several DAG objects, with schedules of every sort, and     *)
(* Flows of which one names a DAG twice, two share an id, one cannot be    *)
(* scheduled and one brings two objects for one id.                        *)
DagObjects == {"a", "a hourly", "a malformed", "b", "b daily"}
FlowObjects == {"f", "f manual", "g", "h"}

ObjectIds ==
    [x \in DagObjects \cup FlowObjects |->
        CASE x \in {"b", "b daily"} -> "B"
          [] x \in {"f", "f manual"} -> "flow:F"
          [] x \in {"g", "h"} -> x
          [] OTHER -> "A"]

FlowNodes ==
    [f |-> <<"a hourly", "b", "a hourly">>] @@ "f manual" :> <<"b", "a">>
    @@ [g |-> <<"b daily">>, h |-> <<"b daily", "b">>]

Schedules ==
    [x \in DagObjects \cup FlowObjects |->
        CASE x \in {"a", "f manual"} -> Manual
          [] x = "a malformed" -> Malformed
          [] x \in {"b", "g"} -> Invalid
          [] x = "a hourly" -> "hourly"
          [] OTHER -> "daily"]

ASSUME PagesAssumptions == LogPage!TasksAssumption /\ FlowPages!PagesAssumption

-----------------------------------------------------------------------------
From9 == x9 = None /\ x10 = None /\ x11 = None

Closed ==
    /\ x1 = None /\ x2 = None /\ x3 = None /\ x4 = None
    /\ x5 = None /\ x6 = None /\ x7 = None /\ x8 = None /\ From9

PagesInit ==
    /\ Init /\ SchedulerInit
    /\ \/ model \in {"log", "jobs"} /\ Closed
       \/ model = "log page" /\ LogPage!Init /\ From9
       \/ model = "flow pages" /\ FlowPages!Init

PagesNext ==
    /\ UNCHANGED model
    /\ \/ model = "log" /\ Next /\ UNCHANGED <<schedulerVars, others>>
       \/ model = "jobs" /\ SchedulerNext /\ UNCHANGED <<vars, others>>
       \/ /\ UNCHANGED <<vars, schedulerVars>>
          /\ \/ model = "log page" /\ LogPage!Next /\ UNCHANGED <<x9, x10, x11>>
             \/ model = "flow pages" /\ FlowPages!Next

(* The fairness of LogPage!FairSpec and FlowPages!FairSpec.                *)
logVars == <<x1, x2, x3, x4, x5, x6, x7, x8>>

OfLog(A) == model = "log page" /\ A
OfFlow(A) == model = "flow pages" /\ A

Fairness ==
    /\ WF_logVars(OfLog(LogPage!Learn)) /\ WF_logVars(OfLog(LogPage!Poll))
    /\ \A s \in LogPage!Selections :
          SF_logVars(OfLog(LogPage!Respond(s))) /\ SF_logVars(OfLog(LogPage!Receive(s)))
    /\ WF_others(OfFlow(FlowPages!Poll))
    /\ \A k \in FlowPages!Keys :
          SF_others(OfFlow(FlowPages!Respond(k))) /\ SF_others(OfFlow(FlowPages!Receive(k)))

PagesSpec == PagesInit /\ [][PagesNext]_pages /\ Fairness

-----------------------------------------------------------------------------
(* The page of a log gets every line that is saved while it stays on its  *)
(* selection and believes that the run is running (LogPage!LogFollowsRun), *)
(* and a page that was opened for a Flow run comes to show it              *)
(* (FlowPages!RunIsFound).                                                 *)
PagesCatchUp ==
    /\ \A s \in LogPage!Selections, n \in 1..2 :
          OfLog(LogPage!IsSaved(n)) ~> OfLog(LogPage!Followed(s, n))
    /\ \A i \in 1..3 :
          OfFlow(FlowPages!Opened("detail", i)) ~> OfFlow(FlowPages!Shown("detail", i))

=============================================================================
