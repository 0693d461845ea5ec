--------------------------- MODULE MCLiveUpdates ---------------------------
(***************************************************************************)
(* Two runs of one DAG.  The second starts only if the page never asks for *)
(* the list of runs: what such a page shows are the running flags, which   *)
(* the update of one run sets for both.  Everything else is as in          *)
(* LiveUpdates; none of its fair actions starts a run or opens a page.     *)
(***************************************************************************)
EXTENDS LiveUpdates, TLC

CONSTANTS g1, r1, r2

SameGroup == r1 :> g1 @@ r2 :> g1

SecondUnlisted ==
    server'[r2] # "absent" =>
        /\ All \notin mounted' \cup asked'
        /\ NoData = answers'[All] /\ NoData = lists'[All]

PageSpec == Init /\ [][Next /\ SecondUnlisted]_vars /\ Fairness
=============================================================================
