---------------------------- MODULE TriggerRules ----------------------------
(***************************************************************************)
(* Task states and trigger rules, shared by the task graphs of DAGs and    *)
(* the node graphs of Flows (core/task.py, core/trigger_rules.py).         *)
(*                                                                         *)
(* should_run only asks "all of the upstream states are ..." and "one of   *)
(* the upstream states is ...", so the list of states of the code is the   *)
(* set of its elements here.                                               *)
(***************************************************************************)

TaskStates ==
    {"none", "running", "success", "failed", "skipped", "upstream_failed", "timeout"}

Terminal == {"success", "failed", "skipped", "upstream_failed", "timeout"}

(* The states that make a node whose rule is not met UPSTREAM_FAILED, and  *)
(* that make a whole run FAILED.                                           *)
NotSuccessful == Terminal \ {"success"}

FailedStates == {"failed", "upstream_failed", "timeout"}

Rules ==
    {"all_success", "all_failed", "all_done", "all_done_min_one_success",
     "all_skipped", "one_success", "one_failed", "one_done", "none_failed",
     "none_failed_min_one_success", "none_skipped", "always"}

(* should_run(rule, states): S is the set of the upstream states.          *)
ShouldRun(rule, S) ==
    \/ S = {}
    \/ rule = "all_success" /\ S \subseteq {"success"}
    \/ rule = "all_failed" /\ S \subseteq {"failed"}
    \/ rule = "all_done" /\ S \subseteq Terminal
    \/ rule = "all_done_min_one_success" /\ S \subseteq Terminal /\ "success" \in S
    \/ rule = "all_skipped" /\ S \subseteq {"skipped"}
    \/ rule = "one_success" /\ "success" \in S
    \/ rule = "one_failed" /\ "failed" \in S
    \/ rule = "one_done" /\ S \cap (Terminal \ {"skipped"}) # {}
    \/ rule = "none_failed" /\ S \cap {"failed", "upstream_failed"} = {}
    \/ /\ rule = "none_failed_min_one_success"
       /\ S \cap {"failed", "upstream_failed"} = {}
       /\ "success" \in S
    \/ rule = "none_skipped" /\ "skipped" \notin S
    \/ rule = "always"

=============================================================================
