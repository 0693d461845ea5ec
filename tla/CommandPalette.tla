--------------------------- MODULE CommandPalette ---------------------------
(***************************************************************************)
(* The command palette: its results are computed from the cached DAGs and  *)
(* Flows and from what was typed; a cursor, moved by the arrows and the    *)
(* mouse, says which result Enter chooses.  The data change while it is    *)
(* open, by polls of the page behind it and by updates of the WebSocket.   *)
(***************************************************************************)
EXTENDS Integers, Sequences, SequencesExt, Ranking

CONSTANTS
    Items,      \* every item there may be, in the order of the list
    Always,     \* the items that are always there: the pages
    ItemOf,     \* the DAG or Flow of every other item
    Targets,    \* the DAGs and Flows
    Queries,    \* what may be typed; "" is nothing
    Score       \* Score[q][it], 0 for no match

ItemSet == ToSet(Items)

ItemsAssumption ==
    /\ Items \in Seq(ItemSet) /\ \A i, j \in DOMAIN Items : Items[i] = Items[j] => i = j
    /\ Always \subseteq ItemSet /\ Always # {}
    /\ ItemOf \in [ItemSet \ Always -> Targets]
    /\ "" \in Queries
    /\ Score \in [Queries \ {""} -> [ItemSet -> Nat]]

VARIABLES
    known,      \* the DAGs and Flows in the cache
    open,
    q,
    cursor      \* 0 is the first result

vars == <<known, open, q, cursor>>

TypeOK ==
    /\ known \subseteq Targets
    /\ open \in BOOLEAN
    /\ q \in Queries
    /\ cursor \in -1..(Len(Items) - 1)

Init ==
    /\ known = {}
    /\ open = FALSE
    /\ q = ""
    /\ cursor = 0

-----------------------------------------------------------------------------
(* The places of the items there are.                                      *)
Known == {i \in DOMAIN Items : Items[i] \in Always \/ ItemOf[Items[i]] \in known}

Filtered ==
    IF q = "" THEN Kept(Items, Known)
    ELSE Ranked(Items, {i \in Known : Score[q][Items[i]] > 0},
                LAMBDA a, b : Score[q][a] > Score[q][b])

Results == Len(Filtered)

(* The cache changes; the palette renders with the new results.            *)
Refetch ==
    /\ \E k \in SUBSET Targets : known' = k
    /\ UNCHANGED <<open, q, cursor>>

(* mod+k, which keeps what was typed and the cursor.                       *)
Toggle ==
    /\ open' = ~open
    /\ UNCHANGED <<known, q, cursor>>

(* close                                                                   *)
Closed ==
    /\ open' = FALSE
    /\ q' = ""
    /\ cursor' = 0

(* By Escape or a click beside the palette.                                *)
Escape == open /\ Closed /\ UNCHANGED known

(* The cursor is reset while the palette renders with what was typed.      *)
Type(text) ==
    /\ open
    /\ q' = text
    /\ cursor' = IF text = q THEN cursor ELSE 0
    /\ UNCHANGED <<known, open>>

Least(a, b) == IF a < b THEN a ELSE b

ArrowDown ==
    /\ open
    /\ cursor' = Least(cursor + 1, Results - 1)
    /\ UNCHANGED <<known, open, q>>

ArrowUp ==
    /\ open
    /\ cursor' = IF cursor < 1 THEN 0 ELSE cursor - 1
    /\ UNCHANGED <<known, open, q>>

MouseEnter(i) ==
    /\ open
    /\ cursor' = i
    /\ UNCHANGED <<known, open, q>>

(* choose: the palette closes, and then the page changes, or a DAG is      *)
(* triggered (TriggerFromPalette of TriggerRunForm).                       *)
Choose == Closed /\ UNCHANGED known

Enter ==
    /\ open
    /\ cursor \in 0..(Results - 1)
    /\ Choose

Click == open /\ Results > 0 /\ Choose

Next ==
    \/ Refetch \/ Toggle \/ Escape \/ ArrowDown \/ ArrowUp \/ Enter \/ Click
    \/ \E text \in Queries : Type(text)
    \/ \E i \in 0..(Results - 1) : MouseEnter(i)

Spec == Init /\ [][Next]_vars

-----------------------------------------------------------------------------
(* The palette offers exactly what there is and matches what was typed,    *)
(* each item once, the best match first, and equal matches in the order of *)
(* the list, whatever the cache holds by now.                              *)
ResultsAreTheMatches ==
    LET worth(it) == IF q = "" THEN 1 ELSE Score[q][it]
        place(it) == CHOOSE i \in DOMAIN Items : Items[i] = it
    IN  /\ ToSet(Filtered) = {Items[i] : i \in {j \in Known : worth(Items[j]) > 0}}
        /\ \A i, j \in DOMAIN Filtered : i < j =>
              LET x == Filtered[i]  y == Filtered[j]
              IN  worth(x) > worth(y) \/ (worth(x) = worth(y) /\ place(x) < place(y))

=============================================================================
