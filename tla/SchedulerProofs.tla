-------------------------- MODULE SchedulerProofs --------------------------
(***************************************************************************)
(* Jobs agree with definitions and Flows find their DAGs: for all DAG and  *)
(* Flow objects, with any ids, nodes and schedules.                        *)
(***************************************************************************)
EXTENDS Scheduler, TLAPS

LEMMA Objects ==
    /\ Absent \notin Dags /\ Absent \notin Flows /\ Absent \notin Times
    /\ \A d \in Dags : IdOf[d] \in DagIds /\ IdOf[d] \in Ids /\ IdOf[d] \notin FlowIds
    /\ \A f \in Flows : IdOf[f] \in FlowIds /\ IdOf[f] \in Ids /\ IdOf[f] \notin DagIds
    /\ \A f \in Flows : \A k \in DOMAIN NodesOf[f] : NodesOf[f][k] \in Dags
<1>1. Absent \notin Dags /\ Absent \notin Flows /\ Absent \notin Times
  BY ObjectsAssumption
<1>2. (\A d \in Dags : IdOf[d] \in DagIds) /\ (\A f \in Flows : IdOf[f] \in FlowIds)
  BY DEF DagIds, FlowIds
<1>3. DagIds \cap FlowIds = {}
  BY ObjectsAssumption
<1>4. ASSUME NEW f \in Flows, NEW k \in DOMAIN NodesOf[f] PROVE NodesOf[f][k] \in Dags
  <2>1. NodesOf[f] \in Seq(Dags)
    BY ObjectsAssumption
  <2>. QED
    BY <2>1
<1>. QED
  BY <1>1, <1>2, <1>3, <1>4 DEF Ids

LEMMA NewDagsAreDags ==
    \A f \in Flows : NewDags(f) \subseteq Dags
BY Objects DEF NewDags, Reached

(* What registration leaves under each id.                                 *)
LEMMA DagsWithTypes ==
    ASSUME SchedulerTypeOK, NEW S \in SUBSET Dags
    PROVE  /\ DagsWith(S) \in [DagIds -> Dags \cup {Absent}]
           /\ \A i \in DagIds : DagsWith(S)[i] # Absent => IdOf[DagsWith(S)[i]] = i
           /\ \A i \in DagIds : dags[i] # Absent => DagsWith(S)[i] # Absent
           /\ \A d \in S : DagsWith(S)[IdOf[d]] # Absent
<1>1. ASSUME NEW i \in DagIds, \E d \in S : IdOf[d] = i
      PROVE  DagsWith(S)[i] \in Dags /\ IdOf[DagsWith(S)[i]] = i
  BY <1>1 DEF DagsWith
<1>2. ASSUME NEW i \in DagIds, ~\E d \in S : IdOf[d] = i
      PROVE  DagsWith(S)[i] = dags[i]
  BY <1>2 DEF DagsWith
<1>3. DagsWith(S) = [i \in DagIds |-> DagsWith(S)[i]]
  BY DEF DagsWith
<1>. QED
  BY <1>1, <1>2, <1>3, Objects DEF SchedulerTypeOK

LEMMA JobsWithTypes ==
    ASSUME SchedulerTypeOK, NEW S \in SUBSET Dags
    PROVE  JobsWith(S) \in [Ids -> Times \cup {Absent}]
BY DEF JobsWith, JobOfDag, SchedulerTypeOK

LEMMA InitTypes == SchedulerInit => SchedulerTypeOK
BY DEF SchedulerInit, SchedulerTypeOK

LEMMA NextTypes ==
    SchedulerTypeOK /\ [SchedulerNext]_schedulerVars => SchedulerTypeOK'
<1>. SUFFICES ASSUME SchedulerTypeOK, [SchedulerNext]_schedulerVars PROVE SchedulerTypeOK'
  OBVIOUS
<1>1. ASSUME NEW d \in Dags, RegisterDag(d) PROVE SchedulerTypeOK'
  BY <1>1, DagsWithTypes, JobsWithTypes DEF RegisterDag, SchedulerTypeOK
<1>2. ASSUME NEW f \in Flows, RegisterFlow(f) PROVE SchedulerTypeOK'
  <2>1. NewDags(f) \in SUBSET Dags
    BY NewDagsAreDags
  <2>2. /\ dags' \in [DagIds -> Dags \cup {Absent}]
        /\ \A i \in DagIds : dags'[i] # Absent => IdOf[dags'[i]] = i
    BY <1>2, <2>1, DagsWithTypes DEF RegisterFlow
  <2>3. /\ flows' \in [FlowIds -> Flows \cup {Absent}]
        /\ \A i \in FlowIds : flows'[i] # Absent => IdOf[flows'[i]] = i
    BY <1>2, Objects DEF RegisterFlow, SchedulerTypeOK
  <2>4. jobs' \in [Ids -> Times \cup {Absent}]
    <3>1. JobOfFlow(f) \in Times \cup {Absent}
      BY Objects DEF JobOfFlow, SchedulerTypeOK
    <3>. QED
      BY <1>2, <2>1, <3>1, JobsWithTypes DEF RegisterFlow
  <2>. QED
    BY <1>2, <2>2, <2>3, <2>4 DEF RegisterFlow, SchedulerTypeOK
<1>3. CASE Start
  <2>1. jobs' \in [Ids -> Times \cup {Absent}]
    BY <1>3 DEF Start
  <2>2. started' \in BOOLEAN
    BY <1>3 DEF Start
  <2>. QED
    BY <1>3, <2>1, <2>2 DEF Start, SchedulerTypeOK
<1>4. CASE Stop
  BY <1>4 DEF Stop, SchedulerTypeOK
<1>5. CASE UNCHANGED schedulerVars
  BY <1>5 DEF schedulerVars, SchedulerTypeOK
<1>. QED
  BY <1>1, <1>2, <1>3, <1>4, <1>5 DEF SchedulerNext

(* The registries hold objects under their own ids, the jobs times.        *)
THEOREM TypeCorrect ==
    SchedulerSpec => []SchedulerTypeOK
BY InitTypes, NextTypes, PTL DEF SchedulerSpec

-----------------------------------------------------------------------------
(* Each of the two properties is inductive, given the types.               *)

DagJobs ==
    \A i \in DagIds :
        /\ jobs[i] # Absent => started /\ dags[i] # Absent
        /\ started /\ dags[i] # Absent /\ TimesOf[dags[i]] \in Times => jobs[i] = TimesOf[dags[i]]
        /\ dags[i] # Absent /\ TimesOf[dags[i]] \in {Malformed, Invalid} => jobs[i] = Absent

FlowJobs ==
    \A i \in FlowIds :
        /\ jobs[i] # Absent => started /\ flows[i] # Absent
        /\ started /\ flows[i] # Absent /\ TimesOf[flows[i]] \in Times =>
               jobs[i] = TimesOf[flows[i]]

LEMMA JobsSplit ==
    JobsFollowDefinitions <=> DagJobs /\ FlowJobs
BY ObjectsAssumption DEF JobsFollowDefinitions, DagJobs, FlowJobs, At, Ids

(* DAGs that are registered get their jobs, whichever objects they are.    *)
LEMMA RegisteredDagJobs ==
    ASSUME SchedulerTypeOK, DagJobs, NEW S \in SUBSET Dags,
           dags' = DagsWith(S), started' = started,
           \A i \in DagIds : jobs'[i] = JobsWith(S)[i]
    PROVE  DagJobs'
<1>. SUFFICES ASSUME NEW i \in DagIds
              PROVE  /\ jobs'[i] # Absent => started /\ dags'[i] # Absent
                     /\ started /\ dags'[i] # Absent /\ TimesOf[dags'[i]] \in Times =>
                            jobs'[i] = TimesOf[dags'[i]]
                     /\ dags'[i] # Absent /\ TimesOf[dags'[i]] \in {Malformed, Invalid} =>
                            jobs'[i] = Absent
  BY DEF DagJobs
<1>. DEFINE c == CHOOSE d \in S : IdOf[d] = i
<1>0. i \in Ids
  BY DEF Ids
<1>1. CASE ~\E d \in S : IdOf[d] = i
  BY <1>0, <1>1 DEF DagsWith, JobsWith, DagJobs
<1>2. CASE \E d \in S : IdOf[d] = i
  <2>1. c \in S /\ IdOf[c] = i /\ dags'[i] = c /\ c # Absent
    BY <1>2, Objects DEF DagsWith
  <2>2. jobs'[i] = IF started /\ \E d \in S : IdOf[d] = i /\ IsScheduled(d)
                   THEN JobOfDag(c) ELSE jobs[i]
    BY <1>0 DEF JobsWith
  <2>. HIDE DEF c
  <2>3. CASE started /\ \E d \in S : IdOf[d] = i /\ IsScheduled(d)
    <3>1. jobs'[i] = JobOfDag(c)
      BY <2>2, <2>3
    <3>. QED
      BY <2>1, <2>3, <3>1, ObjectsAssumption DEF JobOfDag
  <2>4. CASE ~started
    <3>1. jobs'[i] = Absent
      BY <2>2, <2>4 DEF DagJobs
    <3>. QED
      BY <2>4, <3>1
  <2>5. CASE started /\ ~\E d \in S : IdOf[d] = i /\ IsScheduled(d)
    <3>1. TimesOf[c] = Manual
      BY <2>1, <2>5 DEF IsScheduled
    <3>. QED
      BY <2>1, <2>5, <3>1, ObjectsAssumption
  <2>. QED
    BY <2>3, <2>4, <2>5
<1>. QED
  BY <1>1, <1>2

LEMMA InitJobs == SchedulerInit => DagJobs /\ FlowJobs
BY DEF SchedulerInit, DagJobs, FlowJobs, Ids

LEMMA NextJobs ==
    SchedulerTypeOK /\ DagJobs /\ FlowJobs /\ [SchedulerNext]_schedulerVars => DagJobs' /\ FlowJobs'
<1>. SUFFICES ASSUME SchedulerTypeOK, DagJobs, FlowJobs, [SchedulerNext]_schedulerVars PROVE DagJobs' /\ FlowJobs'
  OBVIOUS
<1>0. \A S \in SUBSET Dags, i \in FlowIds : JobsWith(S)[i] = jobs[i]
  BY Objects DEF JobsWith, Ids
<1>1. ASSUME NEW d \in Dags, RegisterDag(d) PROVE DagJobs' /\ FlowJobs'
  <2>1. DagJobs'
    BY <1>1, RegisteredDagJobs DEF RegisterDag
  <2>2. \A i \in FlowIds : jobs'[i] = jobs[i]
    BY <1>0, <1>1 DEF RegisterDag
  <2>. QED
    BY <1>1, <2>1, <2>2 DEF RegisterDag, FlowJobs
<1>2. ASSUME NEW f \in Flows, RegisterFlow(f) PROVE DagJobs' /\ FlowJobs'
  <2>0. NewDags(f) \in SUBSET Dags /\ IdOf[f] \in FlowIds /\ IdOf[f] \notin DagIds
    BY Objects, NewDagsAreDags
  <2>1. \A i \in Ids : jobs'[i] = IF Accepted(f) /\ started /\ IsScheduled(f) /\ i = IdOf[f]
                                  THEN JobOfFlow(f) ELSE JobsWith(NewDags(f))[i]
    BY <1>2, <2>0, JobsWithTypes DEF RegisterFlow
  <2>2. DagJobs'
    <3>1. \A i \in DagIds : jobs'[i] = JobsWith(NewDags(f))[i]
      BY <2>0, <2>1 DEF Ids
    <3>. QED
      BY <1>2, <2>0, <3>1, RegisteredDagJobs DEF RegisterFlow
  <2>3. FlowJobs'
    <3>. SUFFICES ASSUME NEW i \in FlowIds
                  PROVE  /\ jobs'[i] # Absent => started /\ flows'[i] # Absent
                         /\ started /\ flows'[i] # Absent /\ TimesOf[flows'[i]] \in Times =>
                                jobs'[i] = TimesOf[flows'[i]]
      BY <1>2 DEF FlowJobs, RegisterFlow
    <3>1. i \in Ids /\ JobsWith(NewDags(f))[i] = jobs[i]
      BY <1>0, <2>0 DEF Ids
    <3>2. CASE Accepted(f) /\ i = IdOf[f]
      <4>1. flows'[i] = f /\ f # Absent
        BY <1>2, <3>2, Objects DEF RegisterFlow, SchedulerTypeOK
      <4>2. CASE started /\ IsScheduled(f)
        BY <2>1, <3>1, <3>2, <4>1, <4>2 DEF JobOfFlow
      <4>3. CASE ~(started /\ IsScheduled(f))
        <5>1. jobs'[i] = jobs[i]
          BY <2>1, <3>1, <4>3
        <5>2. TimesOf[f] \in Times => ~started
          BY <4>3, ObjectsAssumption DEF IsScheduled
        <5>. QED
          BY <4>1, <5>1, <5>2 DEF FlowJobs
      <4>. QED
        BY <4>2, <4>3
    <3>3. CASE ~(Accepted(f) /\ i = IdOf[f])
      <4>1. jobs'[i] = jobs[i]
        BY <2>1, <3>1, <3>3
      <4>2. flows'[i] = flows[i]
        BY <1>2, <3>3 DEF RegisterFlow, SchedulerTypeOK
      <4>. QED
        BY <4>1, <4>2 DEF FlowJobs
    <3>. QED
      BY <3>2, <3>3
  <2>. QED
    BY <2>2, <2>3
<1>3. CASE Start
  <2>1. \A i \in DagIds : i \in Ids /\ At(i) = dags[i] /\ dags[i] \in Registered
    BY DEF At, Ids, Registered
  <2>2. \A i \in FlowIds : i \in Ids /\ At(i) = flows[i] /\ flows[i] \in Registered
    BY ObjectsAssumption DEF At, Ids, Registered
  <2>3. \A i \in Ids : jobs'[i] = IF started' /\ At(i) # Absent /\ TimesOf[At(i)] \in Times
                                  THEN TimesOf[At(i)] ELSE Absent
    BY <1>3 DEF Start
  <2>4. dags' = dags /\ flows' = flows
    BY <1>3 DEF Start
  <2>5. DagJobs'
    BY <2>1, <2>3, <2>4, ObjectsAssumption DEF DagJobs
  <2>6. FlowJobs'
    BY <2>2, <2>3, <2>4, ObjectsAssumption DEF FlowJobs
  <2>. QED
    BY <2>5, <2>6
<1>4. CASE Stop
  BY <1>4 DEF Stop, DagJobs, FlowJobs, Ids
<1>5. CASE UNCHANGED schedulerVars
  BY <1>5 DEF schedulerVars, DagJobs, FlowJobs
<1>. QED
  BY <1>1, <1>2, <1>3, <1>4, <1>5 DEF SchedulerNext

(* After any sequence of registrations, starts and stops, the jobs are     *)
(* those of what is registered.                                            *)
THEOREM JobsAgree ==
    SchedulerSpec => []JobsFollowDefinitions
BY InitTypes, NextTypes, InitJobs, NextJobs, JobsSplit, PTL DEF SchedulerSpec

-----------------------------------------------------------------------------

LEMMA NextNodes ==
    SchedulerTypeOK /\ FlowsFindTheirDags /\ [SchedulerNext]_schedulerVars => FlowsFindTheirDags'
<1>. SUFFICES ASSUME SchedulerTypeOK, FlowsFindTheirDags, [SchedulerNext]_schedulerVars,
                     NEW i \in FlowIds, flows'[i] # Absent,
                     NEW k \in DOMAIN NodesOf[flows'[i]]
              PROVE  dags'[IdOf[NodesOf[flows'[i]][k]]] # Absent
  BY DEF FlowsFindTheirDags
<1>1. ASSUME flows'[i] = flows[i], NEW S \in SUBSET Dags, dags' = DagsWith(S)
      PROVE  dags'[IdOf[NodesOf[flows'[i]][k]]] # Absent
  <2>1. flows[i] \in Flows
    BY <1>1 DEF SchedulerTypeOK
  <2>2. IdOf[NodesOf[flows[i]][k]] \in DagIds
    BY <1>1, <2>1, Objects
  <2>. QED
    BY <1>1, <2>2, DagsWithTypes DEF FlowsFindTheirDags
<1>2. ASSUME NEW d \in Dags, RegisterDag(d) PROVE dags'[IdOf[NodesOf[flows'[i]][k]]] # Absent
  BY <1>1, <1>2 DEF RegisterDag
<1>3. ASSUME NEW f \in Flows, RegisterFlow(f) PROVE dags'[IdOf[NodesOf[flows'[i]][k]]] # Absent
  <2>1. NewDags(f) \in SUBSET Dags /\ dags' = DagsWith(NewDags(f))
    BY <1>3, NewDagsAreDags DEF RegisterFlow
  <2>2. CASE Accepted(f) /\ i = IdOf[f]
    <3>1. flows'[i] = f
      BY <1>3, <2>2, Objects DEF RegisterFlow, SchedulerTypeOK
    <3>. DEFINE d == NodesOf[f][k]
    <3>2. k \in DOMAIN NodesOf[f] /\ d \in Dags /\ IdOf[d] \in DagIds
      BY <3>1, Objects
    <3>3. CASE dags[IdOf[d]] # Absent
      BY <2>1, <3>1, <3>2, <3>3, DagsWithTypes
    <3>4. CASE dags[IdOf[d]] = Absent
      <4>1. DOMAIN NodesOf[f] = 1..Len(NodesOf[f]) /\ Len(NodesOf[f]) \in Nat
        BY ObjectsAssumption
      <4>2. \A l \in 1..(k - 1) : l \in DOMAIN NodesOf[f]
        BY <3>2, <4>1
      <4>3. k \in Reached(f)
        BY <2>2, <3>2, <3>4, <4>2 DEF Reached, IsNew, Accepted, Stops
      <4>4. d \in NewDags(f)
        BY <4>3 DEF NewDags
      <4>. QED
        BY <2>1, <3>1, <4>4, DagsWithTypes
    <3>. QED
      BY <3>3, <3>4
  <2>3. CASE ~(Accepted(f) /\ i = IdOf[f])
    <3>1. flows'[i] = flows[i]
      BY <1>3, <2>3 DEF RegisterFlow, SchedulerTypeOK
    <3>. QED
      BY <1>1, <2>1, <3>1
  <2>. QED
    BY <2>2, <2>3
<1>4. CASE UNCHANGED <<dags, flows>>
  BY <1>4 DEF FlowsFindTheirDags
<1>. QED
  BY <1>2, <1>3, <1>4 DEF SchedulerNext, Start, Stop, schedulerVars

(* A registered Flow finds a DAG for each of its nodes, whatever was       *)
(* refused half-way or registered in place of another.                     *)
THEOREM FlowsAreComplete ==
    SchedulerSpec => []FlowsFindTheirDags
<1>1. SchedulerInit => FlowsFindTheirDags
  BY DEF SchedulerInit, FlowsFindTheirDags
<1>. QED
  BY <1>1, InitTypes, NextTypes, NextNodes, PTL DEF SchedulerSpec

=============================================================================
