----------------------------- MODULE RunCharts -----------------------------
(***************************************************************************)
(* The charts of runs: the activity of the last days (ActivityChart), the  *)
(* strip of the latest runs (RunStrip) and their durations (Sparkline).    *)
(* The activity is computed when the runs change, from the day it is then. *)
(***************************************************************************)
EXTENDS Integers, Sequences, SequencesExt, Ranking

CONSTANTS
    Days,       \* the days the activity covers
    Percent,    \* 95: the percentile of the durations
    Cells,      \* 20: the cells of the strip, and of the durations
    MaxRuns,    \* runs and
    MaxDay,     \* days (they bound the state space)
    MaxSeconds, \* the longest duration
    None

ChartsAssumption ==
    /\ Days \in Nat \ {0} /\ Cells \in Nat \ {0} /\ MaxSeconds \in Nat \ {0}
    /\ MaxRuns \in Nat /\ MaxDay \in Nat /\ Days <= MaxDay
    /\ Percent \in 1..99
    /\ None \notin 1..MaxSeconds

VARIABLES
    today,
    runs,       \* the cached runs, newest first
    drawn       \* what the activity was computed from: the runs, and today

vars == <<today, runs, drawn>>

Runs == [day : 1..MaxDay, state : {"running", "success", "failed"}, duration : 1..MaxSeconds \cup {None}]

TypeOK ==
    /\ today \in 1..MaxDay
    /\ runs \in Seq(Runs) /\ Len(runs) <= MaxRuns
    /\ drawn.today \in 1..today /\ drawn.runs \in Seq(Runs)
    /\ \A i \in DOMAIN runs : runs[i].duration = None <=> runs[i].state = "running"

Init ==
    /\ today \in {Days}
    /\ runs = <<>>
    /\ drawn = [today |-> today, runs |-> <<>>]

StartRun ==
    /\ Len(runs) < MaxRuns
    /\ runs' = <<[day |-> today, state |-> "running", duration |-> None]>> \o runs
    /\ UNCHANGED <<today, drawn>>

EndRun(i, s, d) ==
    /\ runs[i].state = "running"
    /\ runs' = [runs EXCEPT ![i].state = s, ![i].duration = d]
    /\ UNCHANGED <<today, drawn>>

Midnight ==
    /\ today < MaxDay
    /\ today' = today + 1
    /\ UNCHANGED <<runs, drawn>>

(* The page renders; useMemo computes anew if the runs are other ones.     *)
Render ==
    /\ drawn' = IF drawn.runs = runs THEN drawn ELSE [today |-> today, runs |-> runs]
    /\ UNCHANGED <<today, runs>>

Next ==
    \/ StartRun \/ Midnight \/ Render
    \/ \E i \in DOMAIN runs, s \in {"success", "failed"}, d \in 1..MaxSeconds : EndRun(i, s, d)

Spec == Init /\ [][Next]_vars

-----------------------------------------------------------------------------
(* The activity *)

Least(a, b) == IF a < b THEN a ELSE b
Greatest(a, b) == IF a > b THEN a ELSE b

DayOf(i) == drawn.today - Days + i

(* The places of the runs of a day.                                       *)
RunsOf(i) == {n \in DOMAIN drawn.runs : drawn.runs[n].day = DayOf(i)}

Count(i, state) == Cardinality({n \in RunsOf(i) : drawn.runs[n].state = state})

Durations(i) ==
    LET ended == {n \in RunsOf(i) : drawn.runs[n].duration # None}
    IN  Ranked([n \in DOMAIN drawn.runs |-> drawn.runs[n].duration], ended, LAMBDA a, b : a < b)

(* A variant of Percentile: one too low.                                   *)
PercentileBelow(durs) == durs[Greatest(1, (Len(durs) * Percent) \div 100)]

(* The index is counted from 0 there.                                      *)
Percentile(durs) == durs[((Len(durs) * Percent) \div 100) + 1]

Bucket(i) ==
    [total |-> Cardinality(RunsOf(i)),
     failures |-> Count(i, "failed"),
     rate |-> IF Count(i, "success") + Count(i, "failed") = 0 THEN None
              ELSE <<Count(i, "success"), Count(i, "success") + Count(i, "failed")>>,
     p95 |-> IF Durations(i) = <<>> THEN None ELSE Percentile(Durations(i))]

Buckets == [i \in 1..Days |-> Bucket(i)]

(* The segments of a line, each the set of its days: those that follow     *)
(* each other without a gap, collected from the left, one at a time.       *)
Collect(acc, i, has) ==
    IF has[i] THEN [acc EXCEPT !.cur = @ \cup {i}]
    ELSE [segs |-> acc.segs \cup ({acc.cur} \ {{}}), cur |-> {}]

Segments(has) ==
    LET upTo[i \in 0..Days] ==
            IF i = 0 THEN [segs |-> {}, cur |-> {}] ELSE Collect(upTo[i - 1], i, has)
    IN  upTo[Days].segs \cup ({upTo[Days].cur} \ {{}})

AreaSegments == Segments([i \in 1..Days |-> Buckets[i].rate # None])

(* A segment of one day would have no line.                                *)
LineSegments ==
    {s \in Segments([i \in 1..Days |-> Buckets[i].p95 # None]) : Cardinality(s) >= 2}

-----------------------------------------------------------------------------
(* The strip and the durations *)

Latest(s, n) == SubSeq(s, 1, Least(n, Len(s)))

(* The latest runs, the oldest of them first, after empty cells.           *)
Strip ==
    LET cells == Reverse(Latest(runs, Cells))
    IN  [i \in 1..(Cells - Len(cells)) |-> None] \o cells

(* The latest runs that ended; no bars for less than two.                  *)
Sparks ==
    LET points == Reverse(Latest(Kept(runs, {n \in DOMAIN runs : runs[n].duration # None}), Cells))
    IN  IF Len(points) < 2 THEN <<>> ELSE points

-----------------------------------------------------------------------------
(* "n runs, d days": every run of the window is on one day of the chart,   *)
(* and a day's rate and failures are about its runs that ended.            *)
EveryRunIsCounted ==
    /\ \A n \in DOMAIN drawn.runs :
          drawn.runs[n].day > drawn.today - Days <=> \E i \in 1..Days : n \in RunsOf(i)
    /\ \A i, j \in 1..Days : i # j => RunsOf(i) \cap RunsOf(j) = {}
    /\ \A i \in 1..Days : Buckets[i].rate # None =>
          Buckets[i].rate[2] - Buckets[i].rate[1] = Buckets[i].failures

(* Of the runs of a day, at least the percentage took no longer than the   *)
(* duration that is drawn.                                                 *)
PercentileCovers ==
    \A i \in 1..Days : Buckets[i].p95 # None =>
        LET durs == Durations(i)
        IN  Cardinality({n \in DOMAIN durs : durs[n] <= Buckets[i].p95}) * 100 >= Percent * Len(durs)

(* A line runs through every day that has a value and a neighbour with one,*)
(* and through no day without.                                             *)
LinesHaveNoGaps ==
    LET has(i) == i \in 1..Days /\ Buckets[i].p95 # None
    IN  /\ \A i \in 1..Days :
              (\E s \in LineSegments : i \in s) <=> has(i) /\ (has(i - 1) \/ has(i + 1))
        /\ \A s \in LineSegments \cup AreaSegments : \E a, b \in 1..Days : s = a..b

(* The strip has all its cells, and the latest run is the last; a run in   *)
(* the durations is in the strip, unless runs that are running displace it.*)
StripEndsWithTheLatest ==
    /\ Len(Strip) = Cells
    /\ runs # <<>> => Strip[Cells] = runs[1]
    /\ \A n \in DOMAIN Sparks :
          \/ Sparks[n] \in ToSet(Strip)
          \/ \E i \in DOMAIN runs : runs[i].state = "running"

=============================================================================
