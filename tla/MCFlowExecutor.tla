--------------------------- MODULE MCFlowExecutor ---------------------------
(***************************************************************************)
(* Instances of FlowExecutor with three nodes, two DAGs and one other      *)
(* caller.                                                                 *)
(***************************************************************************)
EXTENDS FlowExecutor

CONSTANTS a, b, c, d1, d2

MCNodes == {a, b, c}

(* Upstreams and rules of b and c, the DAGs and policies of all three.     *)
FlowOf(ub, uc, rb, rc, dag, policy) ==
    [up |-> [n \in MCNodes |-> CASE n = a -> {} [] n = b -> ub [] n = c -> uc],
     rule |-> [n \in MCNodes |-> CASE n = a -> "all_success" [] n = b -> rb [] n = c -> rc],
     dag |-> dag, policy |-> policy]

ByNode(x, y, z) == [n \in MCNodes |-> CASE n = a -> x [] n = b -> y [] n = c -> z]

SameDAG == ByNode(d1, d1, d1)

(* Three nodes at once on one DAG; a fork to a node that needs success and *)
(* one that needs failure; a join; a chain that goes on after a failure or *)
(* a skip.  Between them every policy meets every other on d1.             *)
Independent(policy) == FlowOf({}, {}, "all_success", "all_success", SameDAG, policy)

Fork(policy) == FlowOf({a}, {a}, "all_success", "one_failed", ByNode(d1, d1, d2), policy)

Join(rule, policy) == FlowOf({}, {a, b}, "all_success", rule, SameDAG, policy)

Chain(policy) == FlowOf({a}, {b}, "one_failed", "all_done", ByNode(d1, d2, d1), policy)

(* a waits for c, which waits for b, which waits for a: what `>>` can do   *)
(* to a registered chain.                                                  *)
ClosedChain == [Chain(ByNode("queue", "queue", "queue")) EXCEPT !.up[a] = {c}]

MCFlows ==
    {Independent(ByNode("queue", "queue", "reject")),
     Independent(ByNode("force", "reject", "queue")),
     Fork(ByNode("reject", "queue", "force")),
     Join("all_done", ByNode("queue", "queue", "queue")),
     Join("none_failed", ByNode("force", "reject", "force")),
     Chain(ByNode("queue", "reject", "queue")),
     ClosedChain}

=============================================================================
