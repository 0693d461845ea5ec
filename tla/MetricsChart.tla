---------------------------- MODULE MetricsChart ----------------------------
(***************************************************************************)
(* The charts of the Host page (pages/Host, TimeSeriesChart): the window of*)
(* samples that slides under them, their axes, and the crosshair that all  *)
(* of them share.  Lengths are those of the view box; a position between   *)
(* two samples is kept as a fraction, multiplied by the number of gaps.    *)
(* Values, be they bytes per second or fractions of a GiB, are counted in a*)
(* decimal unit that is small enough for all of them.                      *)
(***************************************************************************)
EXTENDS Integers, Sequences, SequencesExt

CONSTANTS
    Window,     \* the most samples there are of the 60 minutes the page asks for
    Values,     \* the values of a sample
    One,        \* the units that make 1, a power of ten
    Pointers,   \* where the pointer may be
    None

PowersOfTen[k \in Nat] == IF k = 0 THEN 1 ELSE 10 * PowersOfTen[k - 1]

MetricsAssumption ==
    /\ Window \in Nat \ {0}
    /\ Values \subseteq Nat
    /\ One \in Nat /\ \E k \in 0..One : PowersOfTen[k] = One
    /\ Pointers \subseteq Int /\ None \notin Int

VARIABLES
    samples,    \* the cached samples, the oldest first
    failed,     \* the last request, and its retry, failed
    hover       \* hoverIndex: the sample under the crosshair, from 0, or None

vars == <<samples, failed, hover>>

TypeOK ==
    /\ samples \in Seq(Values) /\ Len(samples) <= Window
    /\ failed \in BOOLEAN
    /\ hover \in 0..(Window - 1) \cup {None}

Init ==
    /\ samples = <<>>
    /\ failed = FALSE
    /\ hover = None

n == Len(samples)

-----------------------------------------------------------------------------
(* The geometry *)

Left == 48
Width == 900
TipWidth == 170
TipGap == 12

(* xOf, times the gaps between the samples.                                *)
ScaledX(i) == Left * (n - 1) + i * Width

Greatest(s) == Max(ToSet(s) \cup {0})

(* Ten to the floor of the logarithm.                                      *)
PowerBelow(x) == PowersOfTen[CHOOSE k \in 0..x : PowersOfTen[k] <= x /\ x < PowersOfTen[k + 1]]

(* The next of 1, 2, 5, 10, 20, 50, ..., or of their tenths, hundredths, ..*)
NiceCeil(x) ==
    IF x <= 0 THEN One
    ELSE LET power == PowerBelow(x)
         IN  CASE x <= power -> power
               [] x > power /\ x <= 2 * power -> 2 * power
               [] x > 2 * power /\ x <= 5 * power -> 5 * power
               [] OTHER -> 10 * power

(* The top of the axis of a chart without a yMax.                          *)
Top == NiceCeil(IF samples = <<>> THEN One ELSE Greatest(samples))

Least(a, b) == IF a < b THEN a ELSE b

(* yOf draws what is above the top at the top.                             *)
DrawnAt(v) == Least(Top, v)

(* computeXTicks: the samples that have a tick, spread evenly and rounded. *)
XTicks ==
    LET ticks == Least(5, n)
    IN  [k \in 1..ticks |-> (2 * (k - 1) * (n - 1) + ticks - 1) \div (2 * (ticks - 1))]

(* The sample nearest to a place in the plot.                              *)
Nearest(x) == (2 * (x - Left) * (n - 1) + Width) \div (2 * Width)

-----------------------------------------------------------------------------
(* The page *)

Charted == ~failed /\ n >= 2

(* A variant of Receive: what is longer ago than the window stays.         *)
ReceiveAll(k, new) ==
    /\ samples' = samples \o new
    /\ failed' = FALSE
    /\ UNCHANGED hover

(* A poll, with a new sample or none: the k oldest are longer ago than the *)
(* window, or were lost with a server that was restarted.                  *)
Receive(k, new) ==
    /\ n - k + Len(new) <= Window
    /\ samples' = SubSeq(samples, k + 1, n) \o new
    /\ failed' = FALSE
    /\ UNCHANGED hover

Fail ==
    /\ failed' = TRUE
    /\ UNCHANGED <<samples, hover>>

(* handlePointer, on any of the charts.                                    *)
Point(x) ==
    /\ Charted
    /\ hover' = IF x \in Left..(Left + Width) THEN Nearest(x) ELSE None
    /\ UNCHANGED <<samples, failed>>

Leave ==
    /\ Charted
    /\ hover' = None
    /\ UNCHANGED <<samples, failed>>

Next ==
    \/ \E k \in 0..n : Receive(k, <<>>) \/ \E v \in Values : Receive(k, <<v>>)
    \/ \E x \in Pointers : Point(x)
    \/ Fail \/ Leave

Spec == Init /\ [][Next]_vars

-----------------------------------------------------------------------------
(* The crosshair and its tooltip *)

(* A variant of Crosshair: the index is not checked.                       *)
CrosshairUnchecked == IF Charted THEN hover ELSE None

Crosshair == IF Charted /\ hover # None /\ hover < n THEN hover ELSE None

(* The left edge, on the other side where it would leave the plot.         *)
TipLeft(i) ==
    IF ScaledX(i) + (TipGap + TipWidth) * (n - 1) > (Left + Width) * (n - 1)
    THEN ScaledX(i) - (TipGap + TipWidth) * (n - 1)
    ELSE ScaledX(i) + TipGap * (n - 1)

-----------------------------------------------------------------------------
(* The crosshair is on a sample there is, whatever was polled since the    *)
(* pointer moved, and its tooltip is within the plot.                      *)
CrosshairIsOnASample ==
    Crosshair # None =>
        /\ Crosshair \in 0..(n - 1)
        /\ TipLeft(Crosshair) >= Left * (n - 1)
        /\ TipLeft(Crosshair) + TipWidth * (n - 1) <= (Left + Width) * (n - 1)

(* The axis of a chart without a given top holds its data, and is not more *)
(* than two and a half times too high.                                     *)
AxisHoldsTheData ==
    /\ \A i \in DOMAIN samples : DrawnAt(samples[i]) = samples[i]
    /\ samples # <<>> /\ Greatest(samples) > 0 => 2 * Top <= 5 * Greatest(samples)

(* The ticks of the time axis are on different samples, the first and the  *)
(* last among them.                                                        *)
TicksSpanTheWindow ==
    n >= 2 =>
        /\ XTicks[1] = 0 /\ XTicks[Len(XTicks)] = n - 1
        /\ \A k \in 2..Len(XTicks) : XTicks[k - 1] < XTicks[k]

=============================================================================
