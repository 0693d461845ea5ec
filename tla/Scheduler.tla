----------------------------- MODULE Scheduler -----------------------------
(***************************************************************************)
(* Registration of DAGs and Flows (core/riverflow.py) and the jobs that    *)
(* the scheduler keeps for them.                                           *)
(*                                                                         *)
(* A DAG object and a Flow object have an id, under which another object   *)
(* may be registered later.  A job fires by id: it triggers whatever is    *)
(* registered then (RunRegistry!Trigger), at the times of the definition   *)
(* it was made for.  All of this is synchronous code: an operation is one  *)
(* step, also when it raises half-way.                                     *)
(*                                                                         *)
(* Objects that _validate refuses change nothing and are left out.         *)
(***************************************************************************)
EXTENDS Naturals, Sequences

CONSTANTS
    Dags,      \* the DAG objects of the program
    Flows,     \* its Flow objects
    IdOf,      \* the id of each; ids of Flow jobs are prefixed with "flow:"
    NodesOf,   \* the DAG objects of the nodes of a Flow, in order
    TimesOf,   \* the schedule of each object
    Times,     \* the schedules an APScheduler trigger can be made of
    Manual,    \* no schedule
    Malformed, \* a schedule no trigger is made of: not five fields
    Invalid,   \* a schedule that makes the constructor of the trigger raise
    Absent     \* no object under this id, no job

DagIds == {IdOf[d] : d \in Dags}
FlowIds == {IdOf[f] : f \in Flows}
Ids == DagIds \cup FlowIds

(* What there is to know of the objects.                                   *)
ASSUME ObjectsAssumption ==
    /\ NodesOf \in [Flows -> Seq(Dags)]
    /\ TimesOf \in [Dags \cup Flows -> Times \cup {Manual, Malformed, Invalid}]
    /\ DagIds \cap FlowIds = {}
    /\ Absent \notin Dags \cup Flows \cup Times
    /\ {Manual, Malformed, Invalid} \cap Times = {}
    /\ Manual # Malformed /\ Manual # Invalid /\ Malformed # Invalid

VARIABLES
    dags,     \* _dags: the object registered under each id
    flows,    \* _flows
    jobs,     \* the times of the job with each id
    started   \* _scheduler_started

schedulerVars == <<dags, flows, jobs, started>>

SchedulerTypeOK ==
    /\ dags \in [DagIds -> Dags \cup {Absent}]
    /\ flows \in [FlowIds -> Flows \cup {Absent}]
    /\ jobs \in [Ids -> Times \cup {Absent}]
    /\ started \in BOOLEAN
    /\ \A i \in DagIds : dags[i] # Absent => IdOf[dags[i]] = i
    /\ \A i \in FlowIds : flows[i] # Absent => IdOf[flows[i]] = i

SchedulerInit ==
    /\ dags = [i \in DagIds |-> Absent]
    /\ flows = [i \in FlowIds |-> Absent]
    /\ jobs = [i \in Ids |-> Absent]
    /\ started = FALSE

-----------------------------------------------------------------------------
(* Jobs. *)

IsScheduled(x) == TimesOf[x] # Manual

(* A variant of JobOfDag: a trigger that cannot be made leaves the job.    *)
JobOfDagKept(d) == IF TimesOf[d] \in Times THEN TimesOf[d] ELSE jobs[IdOf[d]]

(* _schedule_dag: the job of the predecessor is removed first, and stays   *)
(* removed when no trigger can be made of the schedule.                    *)
JobOfDag(d) == IF TimesOf[d] \in Times THEN TimesOf[d] ELSE Absent

(* _schedule_flow: add_job replaces the job, if it is reached.             *)
JobOfFlow(f) == IF TimesOf[f] \in Times THEN TimesOf[f] ELSE jobs[IdOf[f]]

(* The jobs after the DAGs of S, no two with one id, were registered.      *)
JobsWith(S) ==
    [i \in Ids |-> IF started /\ \E d \in S : IdOf[d] = i /\ IsScheduled(d)
                   THEN JobOfDag(CHOOSE d \in S : IdOf[d] = i) ELSE jobs[i]]

DagsWith(S) ==
    [i \in DagIds |-> IF \E d \in S : IdOf[d] = i
                      THEN CHOOSE d \in S : IdOf[d] = i ELSE dags[i]]

-----------------------------------------------------------------------------
(* Registration. *)

(* register_dag, also where _schedule_dag raises at its end.               *)
RegisterDag(d) ==
    /\ dags' = DagsWith({d})
    /\ jobs' = JobsWith({d})
    /\ UNCHANGED <<flows, started>>

(* The object that a node of the Flow with this id must refer to: the one  *)
(* that is registered, or that of the first such node.                     *)
Owner(f, i) ==
    IF dags[i] # Absent THEN dags[i]
    ELSE LET with == {k \in DOMAIN NodesOf[f] : IdOf[NodesOf[f][k]] = i}
         IN  NodesOf[f][CHOOSE k \in with : \A l \in with : k <= l]

(* The node refers to another object than the registered one: ValueError.  *)
Conflicts(f, k) == Owner(f, IdOf[NodesOf[f][k]]) # NodesOf[f][k]

IsNew(d) == dags[IdOf[d]] = Absent

(* register_dag of this node raises, after the DAG was registered.         *)
Raises(f, k) ==
    LET d == NodesOf[f][k] IN IsNew(d) /\ started /\ TimesOf[d] = Invalid

Stops(f, k) == Conflicts(f, k) \/ Raises(f, k)

(* The nodes whose DAG is registered, in order, up to the first exception. *)
Reached(f) ==
    {k \in DOMAIN NodesOf[f] : /\ IsNew(NodesOf[f][k])
                               /\ ~Conflicts(f, k)
                               /\ \A l \in 1..(k - 1) : ~Stops(f, l)}

NewDags(f) == {NodesOf[f][k] : k \in Reached(f)}

(* A variant of Accepted: the Flow is registered before its nodes are.     *)
AcceptedFirst(f) == Len(NodesOf[f]) > 0

Accepted(f) == \A k \in DOMAIN NodesOf[f] : ~Stops(f, k)

(* register_flow: the DAGs of its nodes come first, and those registered   *)
(* before an exception stay; the Flow is registered after the last.        *)
RegisterFlow(f) ==
    /\ dags' = DagsWith(NewDags(f))
    /\ flows' = IF Accepted(f) THEN [flows EXCEPT ![IdOf[f]] = f] ELSE flows
    /\ jobs' = IF Accepted(f) /\ started /\ IsScheduled(f)
               THEN [JobsWith(NewDags(f)) EXCEPT ![IdOf[f]] = JobOfFlow(f)]
               ELSE JobsWith(NewDags(f))
    /\ UNCHANGED started

-----------------------------------------------------------------------------
(* The scheduler. *)

Registered == {dags[i] : i \in DagIds} \cup {flows[i] : i \in FlowIds}

At(i) == IF i \in DagIds THEN dags[i] ELSE flows[i]

(* start_scheduler, with a new AsyncIOScheduler: every registered object   *)
(* with a schedule gets its job; one invalid schedule and nothing starts.  *)
Start ==
    /\ ~started
    /\ started' = (\A x \in Registered \ {Absent} : TimesOf[x] # Invalid)
    /\ jobs' = [i \in Ids |-> IF started' /\ At(i) # Absent /\ TimesOf[At(i)] \in Times
                              THEN TimesOf[At(i)] ELSE Absent]
    /\ UNCHANGED <<dags, flows>>

(* stop_scheduler: the scheduler goes, with its jobs.                      *)
Stop ==
    /\ started
    /\ started' = FALSE
    /\ jobs' = [i \in Ids |-> Absent]
    /\ UNCHANGED <<dags, flows>>

SchedulerNext ==
    \/ \E d \in Dags : RegisterDag(d)
    \/ \E f \in Flows : RegisterFlow(f)
    \/ Start \/ Stop

SchedulerSpec == SchedulerInit /\ [][SchedulerNext]_schedulerVars

-----------------------------------------------------------------------------
(* A job is there only for something registered, while the scheduler runs, *)
(* and what is registered with a usable schedule has its own job, and not  *)
(* that of an object which had the id before it.  A DAG with an unusable   *)
(* schedule has none; the jobs that outlive their definition are those of  *)
(* DAGs that became manual and of Flows that have no usable schedule now.  *)
JobsFollowDefinitions ==
    \A i \in Ids :
        /\ jobs[i] # Absent => started /\ At(i) # Absent
        /\ started /\ At(i) # Absent /\ TimesOf[At(i)] \in Times => jobs[i] = TimesOf[At(i)]
        /\ i \in DagIds /\ dags[i] # Absent /\ TimesOf[dags[i]] \in {Malformed, Invalid} =>
               jobs[i] = Absent

(* Wherever a registration raised, a registered Flow finds a DAG under the *)
(* id of each of its nodes: trigger never refuses one as not registered.   *)
FlowsFindTheirDags ==
    \A i \in FlowIds : flows[i] # Absent =>
        \A k \in DOMAIN NodesOf[flows[i]] : dags[IdOf[NodesOf[flows[i]][k]]] # Absent

=============================================================================
