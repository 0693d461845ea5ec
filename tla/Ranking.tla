------------------------------ MODULE Ranking ------------------------------
(***************************************************************************)
(* Array.prototype.filter and sort: the elements of a sequence at some     *)
(* places of it, in an order of theirs, equal ones as they were.           *)
(***************************************************************************)
EXTENDS Naturals, Sequences, FiniteSets

(* A finite set in a strict total order, given as its pairs.               *)
Ordered(S, R) ==
    [k \in 1..Cardinality(S) |->
        CHOOSE x \in S : Cardinality({y \in S : <<y, x>> \in R}) = k - 1]

Ranked(s, I, Before(_, _)) ==
    LET first(i, j) == Before(s[i], s[j]) \/ (~Before(s[j], s[i]) /\ i < j)
        places == Ordered(I, {p \in I \X I : first(p[1], p[2])})
    IN  [k \in 1..Cardinality(I) |-> s[places[k]]]

Kept(s, I) == Ranked(s, I, LAMBDA a, b : FALSE)

=============================================================================
