------------------------------ MODULE DAGList ------------------------------
(***************************************************************************)
(* The DAG library: the rows the page makes of the cached DAGs and Flows,  *)
(* of the filter in the URL and of the chosen order (pages/DAGList), and   *)
(* the row navigation by the keyboard (hooks/useRowNav), which knows the   *)
(* rows only by their places in the table.                                 *)
(***************************************************************************)
EXTENDS Integers, Sequences, SequencesExt, Ranking

CONSTANTS
    Dags,       \* the ids of the DAGs, in the order the server lists them
    Flows,
    DagLists,   \* the answers to a request for the DAGs: [ids -> summary]
    FlowLists,  \* the answers to one for the Flows: [Flows -> set of DAGs]
    Queries,    \* what may be typed; "" is nothing
    Matches,    \* Matches[q]: the ids of DAGs and Flows that contain q
    NameRank,   \* the place of each id in the order of localeCompare
    NoData

DagSet == ToSet(Dags)

DagsAssumption ==
    /\ Dags \in Seq(DagSet) /\ \A i, j \in DOMAIN Dags : Dags[i] = Dags[j] => i = j
    /\ \A list \in DagLists :
          /\ DOMAIN list \subseteq DagSet
          /\ list \in [DOMAIN list -> [is_running : BOOLEAN, total_runs : Nat]]
    /\ FlowLists \subseteq [Flows -> SUBSET DagSet]
    /\ "" \in Queries
    /\ Matches \in [Queries \ {""} -> SUBSET (DagSet \cup Flows)]
    /\ NameRank \in [DagSet -> Nat]

VARIABLES
    dags,       \* the cached DAGs: [a set of ids -> their summary]
    uses,       \* the cached Flows: the DAGs each has as nodes
    failed,     \* the last request for the DAGs, and its retry, failed
    q,          \* the filter, of the URL
    onlyRunning,
    sort,
    active,     \* the active row; 0 is the first
    armed       \* a g was pressed less than 400 ms ago

vars == <<dags, uses, failed, q, onlyRunning, sort, active, armed>>

SortKeys == {"dag_id", "total_runs"}

TypeOK ==
    /\ dags \in DagLists \cup {NoData}
    /\ uses \in [Flows -> SUBSET DagSet]
    /\ q \in Queries
    /\ sort \in [key : SortKeys, dir : {"asc", "desc"}]
    /\ active \in 0..Len(Dags)
    /\ {failed, onlyRunning, armed} \subseteq BOOLEAN

Init ==
    /\ dags = NoData
    /\ uses = [f \in Flows |-> {}]
    /\ failed = FALSE
    /\ q \in Queries
    /\ onlyRunning \in BOOLEAN
    /\ sort = [key |-> "dag_id", dir |-> "asc"]
    /\ active = 0
    /\ armed = FALSE

-----------------------------------------------------------------------------
(* The rows *)

(* A DAG matches by its own id or by that of a Flow it is a node of.       *)
MatchesFilter(d) ==
    q = "" \/ d \in Matches[q] \/ \E f \in Flows : d \in uses[f] /\ f \in Matches[q]

Matching(d) ==
    /\ d \in DOMAIN dags
    /\ onlyRunning => dags[d].is_running
    /\ MatchesFilter(d)

Place(d) == CHOOSE i \in DOMAIN Dags : Dags[i] = d

(* A variant of Value: by name is as the server lists the DAGs.            *)
ValueUnsorted(d) == IF sort.key = "dag_id" THEN Place(d) ELSE dags[d].total_runs

Value(d) == IF sort.key = "dag_id" THEN NameRank[d] ELSE dags[d].total_runs

Precedes(a, b) ==
    IF sort.dir = "asc" THEN Value(a) < Value(b) ELSE Value(b) < Value(a)

Rows ==
    IF dags = NoData THEN <<>>
    ELSE Ranked(Dags, {i \in DOMAIN Dags : Matching(Dags[i])}, Precedes)

(* The rows in the document: none while the page shows the error.          *)
Shown == IF failed THEN <<>> ELSE Rows

(* A variant of ResetOnLength: the active row stays.                       *)
KeepActive == active' = active

(* useRowNav's effect, with the number of rows as its dependency.          *)
ResetOnLength == active' = IF Len(Rows') # Len(Rows) THEN 0 ELSE active

-----------------------------------------------------------------------------
(* The data and the controls *)

Refetch ==
    /\ dags' \in DagLists
    /\ failed' = FALSE
    /\ UNCHANGED <<uses, q, onlyRunning, sort, armed>>
    /\ ResetOnLength

(* What was cached stays.                                                  *)
RefetchFails ==
    /\ failed' = TRUE
    /\ UNCHANGED <<dags, uses, q, onlyRunning, sort, active, armed>>

RefetchFlows ==
    /\ uses' \in FlowLists
    /\ UNCHANGED <<dags, failed, q, onlyRunning, sort, armed>>
    /\ ResetOnLength

SetFilter(text) ==
    /\ q' = text
    /\ UNCHANGED <<dags, uses, failed, onlyRunning, sort, armed>>
    /\ ResetOnLength

SetOnlyRunning ==
    /\ onlyRunning' = ~onlyRunning
    /\ UNCHANGED <<dags, uses, failed, q, sort, armed>>
    /\ ResetOnLength

Opposite == [asc |-> "desc", desc |-> "asc"]

(* Only a table has headers to press.                                      *)
ToggleSort(key) ==
    /\ Shown # <<>>
    /\ sort' = [key |-> key, dir |-> IF sort.key = key THEN Opposite[sort.dir] ELSE "asc"]
    /\ UNCHANGED <<dags, uses, failed, q, onlyRunning, armed>>
    /\ ResetOnLength

-----------------------------------------------------------------------------
(* The keys; without rows they do nothing *)

Move(to) ==
    /\ Shown # <<>>
    /\ active' = to
    /\ armed' = FALSE
    /\ UNCHANGED <<dags, uses, failed, q, onlyRunning, sort>>

Least(a, b) == IF a < b THEN a ELSE b

Down == Move(Least(Len(Shown) - 1, active + 1))

Up == Move(IF active = 0 THEN 0 ELSE active - 1)

Bottom == Move(Len(Shown) - 1)

(* The first g arms a listener for the next key, which jumps if that is g, *)
(* and the second g arms another.                                          *)
PressG ==
    /\ Shown # <<>>
    /\ active' = IF armed THEN 0 ELSE active
    /\ armed' = TRUE
    /\ UNCHANGED <<dags, uses, failed, q, onlyRunning, sort>>

(* 400 ms pass, or another key is pressed.                                 *)
Disarm ==
    /\ armed
    /\ armed' = FALSE
    /\ UNCHANGED <<dags, uses, failed, q, onlyRunning, sort, active>>

Next ==
    \/ Refetch \/ RefetchFails \/ RefetchFlows \/ SetOnlyRunning
    \/ \E text \in Queries : SetFilter(text)
    \/ \E key \in SortKeys : ToggleSort(key)
    \/ Down \/ Up \/ Bottom \/ PressG \/ Disarm

Spec == Init /\ [][Next]_vars

-----------------------------------------------------------------------------
(* Enter opens the DAG of the active row: as long as there are rows one of *)
(* them is active, however the filters, the order, the DAGs and the Flows  *)
(* changed since the last key.                                             *)
ActiveIsARow == Shown # <<>> => active \in 0..(Len(Shown) - 1)

(* Every DAG that matches has one row, in the order of the names or of the *)
(* runs, and DAGs that are equal in it keep the order in which the server  *)
(* lists them (that of registration), in both directions.                  *)
RowsAreTheMatches ==
    dags # NoData =>
        /\ ToSet(Rows) = {d \in DagSet : Matching(d)}
        /\ \A i, j \in DOMAIN Rows : i < j =>
              LET a == Rows[i]  b == Rows[j]
                  x == IF sort.key = "dag_id" THEN NameRank[a] ELSE dags[a].total_runs
                  y == IF sort.key = "dag_id" THEN NameRank[b] ELSE dags[b].total_runs
              IN  /\ sort.dir = "asc" => x <= y
                  /\ sort.dir = "desc" => x >= y
                  /\ x = y => Place(a) < Place(b)

=============================================================================
