--------------------------- MODULE MCDAGExecutor ---------------------------
(***************************************************************************)
(* Instances of DAGExecutor with three tasks.                              *)
(***************************************************************************)
EXTENDS DAGExecutor, FiniteSets

CONSTANTS a, b, c

MCTasks == {a, b, c}

(* The shapes of three tasks, up to renaming: each task may depend on the  *)
(* earlier ones.                                                           *)
Shapes == {[t \in MCTasks |-> CASE t = a -> {} [] t = b -> ub [] t = c -> uc] :
             ub \in SUBSET {a}, uc \in SUBSET {a, b}}

(* b waits for c and c for b: what `>>` can do to a validated DAG.         *)
CyclicShape == [t \in MCTasks |-> CASE t = a -> {} [] t = b -> {a, c} [] t = c -> {b}]

Roots(up) == {t \in MCTasks : up[t] = {}}

(* Every assignment of rules; the rule of a task without upstreams is      *)
(* never looked at and is fixed.                                           *)
RuleChoices(up) == {r \in [MCTasks -> Rules] : \A t \in Roots(up) : r[t] = "all_success"}

Once == [t \in MCTasks |-> IF t = a THEN 1 ELSE 0]

DagsOf(shapes, limits) ==
    UNION {{[up |-> up, rule |-> r, retries |-> Once, limited |-> l] :
              r \in RuleChoices(up), l \in limits} : up \in shapes}

(* All DAGs of three tasks with all rules, and a cyclic one; a may retry   *)
(* once.                                                                   *)
AllDags == DagsOf(Shapes, {MCTasks}) \cup
           {[up |-> CyclicShape, rule |-> [t \in MCTasks |-> "one_success"],
             retries |-> Once, limited |-> MCTasks]}

(* For liveness: a fork, a join and a chain under rules that run a task,   *)
(* skip it and run it after a failure; any of the tasks may hang.          *)
SomeRules == {"all_success", "one_failed", "all_done"}

SomeDags == {d \in DagsOf(Shapes, SUBSET MCTasks) :
               /\ \A t \in MCTasks : d.rule[t] \in SomeRules
               /\ \E t \in MCTasks : d.up[t] # {}
               /\ Cardinality(d.limited) >= 2}

ExecutedDags == AllDags \cup SomeDags

(* A chain: b waits for a, and c for b, under their rules.                 *)
ChainDags(rb, rc) ==
    {[up |-> [t \in MCTasks |-> CASE t = a -> {} [] t = b -> {a} [] t = c -> {b}],
      rule |-> [t \in MCTasks |-> CASE t = a -> "all_success" [] t = b -> rb [] t = c -> rc],
      retries |-> [t \in MCTasks |-> 0], limited |-> MCTasks]}

(* b should tolerate that a times out, and c that b is not run.            *)
NoneFailedChain == ChainDags("none_failed", "none_failed")

(* a fails or not, b runs only if it failed, c needs b to be done.         *)
OneDoneDags == ChainDags("one_failed", "one_done")

=============================================================================
