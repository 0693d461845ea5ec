--------------------------- MODULE TaskLogProofs ---------------------------
(***************************************************************************)
(* The log handler of a task for every set of threads and every number of  *)
(* records and failures.                                                   *)
(***************************************************************************)
EXTENDS TaskLog, SequenceTheorems, TLAPS

(* What a thread saves are records the list holds.                         *)
PendingHeld == \A w \in Workers : pc[w] = "saving" => pending[w][2] <= records

Typed == TypeOK /\ PendingHeld

LEMMA InitTyped == Init => Typed
BY BoundsAssumption, ThreadsAssumption DEF Init, Typed, TypeOK, PendingHeld, Places, Workers

(* Where a thread goes is a place, and it may let go of the lock.          *)
LEMMA GotoTypes ==
    ASSUME TypeOK, NEW w \in Workers, NEW place \in Places, Goto(w, place)
    PROVE  /\ pc' \in [Workers -> Places]
           /\ pc'[w] = place /\ \A v \in Workers \ {w} : pc'[v] = pc[v]
BY DEF TypeOK, Goto

LEMMA ReturnTypes ==
    ASSUME TypeOK, NEW w \in Workers, Return(w)
    PROVE  /\ pc' \in [Workers -> Places] /\ lock' \in Threads \cup {None}
           /\ pc'[w] \in {"idle", "finished"} /\ \A v \in Workers \ {w} : pc'[v] = pc[v]
BY DEF TypeOK, Return, Goto, Release, Places

LEMMA RowsTypes ==
    ASSUME Typed, NEW w \in Workers, pc[w] = "saving"
    PROVE  Rows(w) \in Seq(1..records)
<1>1. /\ pending[w][1] \in 1..MaxRecords + 1 /\ pending[w][2] \in 0..MaxRecords
      /\ pending[w][2] <= records /\ records \in Nat
  BY BoundsAssumption DEF Typed, TypeOK, PendingHeld
<1>2. ASSUME NEW i \in 1..(pending[w][2] + 1 - pending[w][1])
      PROVE  pending[w][1] + i - 1 \in 1..records
  BY <1>1
<1>3. CASE pending[w][2] + 1 - pending[w][1] \in Nat
  <2>1. Rows(w) \in [1..(pending[w][2] + 1 - pending[w][1]) -> 1..records]
    BY <1>2 DEF Rows
  <2>. QED
    BY <1>3, <2>1, SeqDef
<1>4. CASE pending[w][2] + 1 - pending[w][1] \notin Nat
  <2>1. 1..(pending[w][2] + 1 - pending[w][1]) = 1..0
    BY <1>1, <1>4
  <2>2. Rows(w) \in [1..0 -> 1..records]
    BY <2>1, <1>2 DEF Rows
  <2>. QED
    BY <2>2, SeqDef
<1>. QED
  BY <1>3, <1>4

LEMMA NextTyped == Typed /\ [Next]_vars => Typed'
<1>. SUFFICES ASSUME Typed, [Next]_vars PROVE Typed'
  OBVIOUS
<1>. USE BoundsAssumption DEF Typed, PendingHeld
<1>0. records \in Nat /\ flushed \in Nat /\ Last \in Workers /\ Threads \subseteq Workers
  BY DEF TypeOK, Workers
<1>1. ASSUME NEW t \in Threads, Log(t) PROVE Typed'
  BY <1>0, <1>1, GotoTypes DEF Log, TypeOK, Places
<1>2. ASSUME NEW t \in Threads, Emit(t) PROVE Typed'
  <2>1. /\ records' = records + 1 /\ records < MaxRecords /\ lock' = t
        /\ UNCHANGED <<attached, flushed, saved, pending, fails, late>>
    BY <1>2 DEF Emit
  <2>2. /\ pc' \in [Workers -> Places]
        /\ pc'[t] = "appended" /\ \A v \in Workers \ {t} : pc'[v] = pc[v]
    BY <1>0, <1>2, GotoTypes DEF Emit, Places
  <2>3. saved' \in Seq(1..records')
    BY <1>0, <2>1 DEF TypeOK
  <2>4. pending' = pending /\ \A w \in Workers : pending[w][2] \in Nat
    BY <2>1 DEF TypeOK
  <2>5. PendingHeld'
    BY <1>0, <2>1, <2>2, <2>4
  <2>. QED
    BY <1>0, <2>1, <2>2, <2>3, <2>5 DEF TypeOK
<1>3. CASE RemoveHandler
  BY <1>0, <1>3, GotoTypes DEF RemoveHandler, TypeOK, Places
<1>4. ASSUME NEW w \in Workers, ReadPending(w) PROVE Typed'
  <2>1. CASE flushed = records
    BY <1>4, <2>1, ReturnTypes DEF ReadPending, TypeOK
  <2>2. CASE flushed # records
    <3>1. /\ pending' = [pending EXCEPT ![w] = <<flushed + 1, records>>] /\ lock' = lock
          /\ UNCHANGED <<attached, records, flushed, saved, fails, late>>
      BY <1>4, <2>2 DEF ReadPending
    <3>2. <<flushed + 1, records>> \in (1..MaxRecords + 1) \X (0..MaxRecords)
      BY <1>0 DEF TypeOK
    <3>3. /\ pc' \in [Workers -> Places]
          /\ pc'[w] = "saving" /\ \A v \in Workers \ {w} : pc'[v] = pc[v]
      BY <1>4, <2>2, GotoTypes DEF ReadPending, Places
    <3>4. \A v \in Workers : pending'[v] = IF v = w THEN <<flushed + 1, records>> ELSE pending[v]
      BY <3>1 DEF TypeOK
    <3>5. TypeOK'
      BY <3>1, <3>2, <3>3 DEF TypeOK
    <3>6. PendingHeld'
      BY <1>0, <3>1, <3>3, <3>4
    <3>. QED
      BY <3>5, <3>6
  <2>. QED
    BY <2>1, <2>2
<1>5. ASSUME NEW w \in Workers, Save(w) PROVE Typed'
  <2>1. /\ saved' = saved \o Rows(w) /\ pc[w] = "saving"
        /\ UNCHANGED <<attached, records, flushed, lock, pending, fails, late>>
    BY <1>5 DEF Save
  <2>2. saved' \in Seq(1..records)
    BY <2>1, RowsTypes DEF TypeOK
  <2>3. /\ pc' \in [Workers -> Places]
        /\ pc'[w] = "marking" /\ \A v \in Workers \ {w} : pc'[v] = pc[v]
    BY <1>5, GotoTypes DEF Save, Places
  <2>. QED
    BY <2>1, <2>2, <2>3 DEF TypeOK
<1>6. ASSUME NEW w \in Workers, SaveFails(w) PROVE Typed'
  <2>1. /\ fails < MaxFails /\ fails' = fails + 1
        /\ UNCHANGED <<attached, records, flushed, saved, pending, late>>
    BY <1>6 DEF SaveFails
  <2>2. fails' \in 0..MaxFails
    BY <2>1 DEF TypeOK
  <2>3. /\ pc' \in [Workers -> Places] /\ lock' \in Threads \cup {None}
        /\ pc'[w] \in {"idle", "finished"} /\ \A v \in Workers \ {w} : pc'[v] = pc[v]
    BY <1>6, ReturnTypes DEF SaveFails
  <2>. QED
    BY <2>1, <2>2, <2>3 DEF TypeOK
<1>7. ASSUME NEW w \in Workers, Mark(w) PROVE Typed'
  <2>1. flushed' = records /\ UNCHANGED <<attached, records, saved, pending, fails, late>>
    BY <1>7 DEF Mark
  <2>2. /\ pc' \in [Workers -> Places] /\ lock' \in Threads \cup {None}
        /\ pc'[w] \in {"idle", "finished"} /\ \A v \in Workers \ {w} : pc'[v] = pc[v]
    BY <1>7, ReturnTypes DEF Mark
  <2>. QED
    BY <1>0, <2>1, <2>2 DEF TypeOK
<1>8. CASE UNCHANGED vars
  BY <1>8 DEF vars, TypeOK
<1>. QED
  BY <1>1, <1>2, <1>3, <1>4, <1>5, <1>6, <1>7, <1>8 DEF Next

(* The handler keeps its types: no more is marked as flushed than the list *)
(* holds, and every row is a record.                                       *)
THEOREM TypeCorrect == Spec => []TypeOK
<1>1. Typed => TypeOK
  BY DEF Typed
<1>. QED
  BY <1>1, InitTyped, NextTyped, PTL DEF Spec

-----------------------------------------------------------------------------
(* As long as no thread is late, one thread at a time is inside the        *)
(* handler: under the lock of logging, or the last flush after all the     *)
(* others.                                                                 *)
Inside(w) == pc[w] \in {"appended", "saving", "marking"}

InTurn ==
    /\ attached => pc[Last] = "idle"
    /\ ~attached => \A t \in Threads : pc[t] = "idle"
    /\ \A t \in Threads : Inside(t) => lock = t

(* The rows are the first records, up to the mark, or up to the last       *)
(* record once the pending ones are saved.                                 *)
RowsMatch ==
    /\ \A i \in DOMAIN saved : saved[i] = i
    /\ \A w \in Workers : pc[w] = "saving" => pending[w] = <<flushed + 1, records>>
    /\ (\E w \in Workers : pc[w] = "marking") => Len(saved) = records
    /\ (\A w \in Workers : pc[w] # "marking") => Len(saved) = flushed

IInv == /\ Typed
        /\ attached => late = {}
        /\ late = {} => InTurn /\ RowsMatch

LEMMA OneInside ==
    ASSUME Typed, InTurn, NEW v \in Workers, NEW w \in Workers, Inside(v), Inside(w)
    PROVE  v = w
BY ThreadsAssumption DEF Typed, TypeOK, InTurn, Inside, Workers

LEMMA InitIInv == Init => IInv
<1>. SUFFICES ASSUME Init PROVE IInv
  OBVIOUS
<1>. QED
  BY InitTyped, ThreadsAssumption DEF Init, IInv, InTurn, Inside, RowsMatch, Workers

LEMMA NextInTurn ==
    ASSUME IInv, Next, late' = {}
    PROVE  InTurn'
<1>. USE ThreadsAssumption DEF IInv, Typed, InTurn, Inside
<1>0. Last \in Workers /\ Threads \subseteq Workers
  BY DEF Workers
<1>1. ASSUME NEW t \in Threads, Log(t) PROVE InTurn'
  <2>1. /\ \A v \in Workers \ {t} : pc'[v] = pc[v]
        /\ pc'[t] = "called"
    BY <1>0, <1>1, GotoTypes DEF Log, Places
  <2>. QED
    BY <1>0, <1>1, <2>1 DEF Log
<1>2. ASSUME NEW t \in Threads, Emit(t) PROVE InTurn'
  <2>1. /\ \A v \in Workers \ {t} : pc'[v] = pc[v]
        /\ pc'[t] = "appended"
    BY <1>0, <1>2, GotoTypes DEF Emit, Places
  <2>. QED
    BY <1>0, <1>2, <2>1 DEF Emit
<1>3. CASE RemoveHandler
  <2>1. \A v \in Threads : pc'[v] = pc[v]
    BY <1>0, <1>3, GotoTypes DEF RemoveHandler, Places
  <2>. QED
    BY <1>0, <1>3, <2>1 DEF RemoveHandler
<1>4. ASSUME NEW w \in Workers, ReadPending(w) \/ Save(w) \/ SaveFails(w) \/ Mark(w)
      PROVE  InTurn'
  <2>1. Inside(w) /\ late = {} /\ attached' = attached
    BY <1>4 DEF ReadPending, Save, SaveFails, Mark
  <2>2. \A v \in Workers \ {w} : pc'[v] = pc[v]
    BY <1>4, GotoTypes, ReturnTypes DEF ReadPending, Save, SaveFails, Mark, Places
  <2>3. \/ pc'[w] \in {"saving", "marking"} /\ lock' = lock
        \/ pc'[w] \in {"idle", "finished"}
    BY <1>4, GotoTypes, ReturnTypes DEF ReadPending, Save, SaveFails, Mark, Places
  <2>4. w = Last => ~attached
    BY <2>1
  <2>5. w \in Threads => attached /\ lock = w
    BY <2>1
  <2>6. w # Last => w \in Threads /\ Last # w
    BY DEF Workers
  <2>7. CASE w = Last
    BY <1>0, <2>1, <2>2, <2>4, <2>7
  <2>8. CASE w # Last
    <3>1. ASSUME NEW t \in Threads, t # w PROVE ~Inside(t)
      BY <2>5, <2>6, <2>8, <3>1, <2>1
    <3>. QED
      BY <1>0, <2>1, <2>2, <2>3, <2>5, <2>6, <2>8, <3>1
  <2>. QED
    BY <2>7, <2>8
<1>. QED
  BY <1>1, <1>2, <1>3, <1>4 DEF Next

(* A save appends the pending records to the rows.                         *)
LEMMA SavedRows ==
    ASSUME IInv, late = {}, NEW w \in Workers, Save(w)
    PROVE  /\ Len(saved') = records
           /\ \A i \in DOMAIN saved' : saved'[i] = i
<1>1. /\ pc[w] = "saving" /\ saved' = saved \o Rows(w)
      /\ records \in Nat /\ flushed \in 0..records /\ saved \in Seq(1..records)
  BY BoundsAssumption DEF Save, IInv, Typed, TypeOK
<1>2. \A v \in Workers : pc[v] # "marking"
  BY <1>1, OneInside DEF IInv, Inside
<1>3. Len(saved) = flushed /\ pending[w] = <<flushed + 1, records>>
  BY <1>1, <1>2 DEF IInv, RowsMatch
<1>4. /\ Rows(w) = [i \in 1..(records - flushed) |-> flushed + i]
  <2>1. records + 1 - (flushed + 1) = records - flushed
    BY <1>1
  <2>2. Rows(w) = [i \in 1..(records - flushed) |-> flushed + 1 + i - 1]
    BY <1>3, <2>1 DEF Rows
  <2>3. \A i \in 1..(records - flushed) : flushed + 1 + i - 1 = flushed + i
    BY <1>1
  <2>. QED
    BY <2>2, <2>3
<1>5. Rows(w) \in Seq(1..records) /\ Len(Rows(w)) = records - flushed
  <2>1. records - flushed \in Nat
    BY <1>1
  <2>2. Rows(w) \in Seq(1..records)
    BY <1>1, RowsTypes DEF IInv
  <2>. QED
    BY <1>4, <2>1, <2>2
<1>6. \A i \in DOMAIN saved : saved[i] = i
  BY DEF IInv, RowsMatch
<1>7. /\ saved' \in Seq(1..records) /\ Len(saved') = Len(saved) + Len(Rows(w))
      /\ \A i \in 1..Len(saved) + Len(Rows(w)) :
             saved'[i] = IF i <= Len(saved) THEN saved[i] ELSE Rows(w)[i - Len(saved)]
  BY <1>1, <1>5, ConcatProperties
<1>8. Len(saved') = records /\ DOMAIN saved' = 1..records /\ DOMAIN saved = 1..flushed
  BY <1>1, <1>3, <1>5, <1>7
<1>9. ASSUME NEW i \in 1..records PROVE saved'[i] = i
  <2>1. i \in 1..Len(saved) + Len(Rows(w))
    BY <1>1, <1>3, <1>5
  <2>2. CASE i <= flushed
    <3>1. i \in DOMAIN saved /\ saved'[i] = saved[i]
      BY <1>1, <1>3, <1>7, <1>8, <2>1, <2>2
    <3>. QED
      BY <1>6, <3>1
  <2>3. CASE ~(i <= flushed)
    <3>1. saved'[i] = Rows(w)[i - flushed]
      BY <1>3, <1>7, <2>1, <2>3
    <3>2. i - flushed \in 1..(records - flushed)
      BY <1>1, <2>3
    <3>3. flushed + (i - flushed) = i
      BY <1>1
    <3>. QED
      BY <1>4, <3>1, <3>2, <3>3
  <2>. QED
    BY <2>2, <2>3
<1>. QED
  BY <1>8, <1>9

LEMMA NextRows ==
    ASSUME IInv, Next, late' = {}
    PROVE  RowsMatch'
<1>. USE ThreadsAssumption, BoundsAssumption DEF IInv, Typed
<1>0. /\ Last \in Workers /\ Threads \subseteq Workers
      /\ records \in Nat /\ flushed \in Nat
  BY DEF Workers, TypeOK
<1>1. ASSUME NEW t \in Threads, Log(t) PROVE RowsMatch'
  <2>1. /\ \A v \in Workers \ {t} : pc'[v] = pc[v]
        /\ pc'[t] = "called" /\ pc[t] = "idle"
    BY <1>0, <1>1, GotoTypes DEF Log, Places
  <2>. QED
    BY <1>0, <1>1, <2>1 DEF Log, RowsMatch
<1>2. ASSUME NEW t \in Threads, Emit(t) PROVE RowsMatch'
  <2>1. /\ \A v \in Workers \ {t} : pc'[v] = pc[v]
        /\ pc'[t] = "appended" /\ pc[t] = "called" /\ lock = None /\ late = {}
        /\ UNCHANGED <<saved, flushed, pending>>
    BY <1>0, <1>2, GotoTypes DEF Emit, Places
  <2>2. \A v \in Workers : ~Inside(v)
    BY <1>0, <2>1 DEF InTurn, Inside, Workers
  <2>3. \A v \in Workers : pc'[v] \notin {"saving", "marking"}
    BY <2>1, <2>2 DEF Inside
  <2>. QED
    BY <2>1, <2>2, <2>3 DEF RowsMatch, Inside
<1>3. CASE RemoveHandler
  <2>1. /\ late = {} /\ pc[Last] = "idle" /\ \A t \in Threads : pc[t] = "idle"
        /\ UNCHANGED <<records, saved, flushed, pending>>
    BY <1>3 DEF RemoveHandler, InTurn
  <2>2. pc'[Last] = "appended" /\ \A t \in Threads : pc'[t] = "idle"
    BY <1>0, <1>3, <2>1, GotoTypes DEF RemoveHandler, Places
  <2>3. \A v \in Workers : /\ pc[v] \notin {"saving", "marking"}
                           /\ pc'[v] \notin {"saving", "marking"}
    BY <2>1, <2>2 DEF Workers
  <2>. QED
    BY <2>1, <2>3 DEF RowsMatch
<1>4. ASSUME NEW w \in Workers, ReadPending(w) \/ Save(w) \/ SaveFails(w) \/ Mark(w)
      PROVE  RowsMatch'
  <2>1. Inside(w) /\ late = {} /\ records' = records
    BY <1>4 DEF ReadPending, Save, SaveFails, Mark, Inside
  <2>2. \A v \in Workers \ {w} : pc'[v] = pc[v] /\ ~Inside(v)
    BY <1>4, <2>1, OneInside, GotoTypes, ReturnTypes
       DEF ReadPending, Save, SaveFails, Mark, Places
  <2>3. \A v \in Workers \ {w} : /\ pc[v] \notin {"saving", "marking"}
                                 /\ pc'[v] \notin {"saving", "marking"}
    BY <2>2 DEF Inside
  <2>4. CASE ReadPending(w)
    <3>1. /\ pc[w] = "appended" /\ saved' = saved /\ flushed' = flushed
          /\ \/ pc'[w] \in {"idle", "finished"}
             \/ pc'[w] = "saving" /\ pending'[w] = <<flushed + 1, records>>
      BY <2>4, GotoTypes, ReturnTypes DEF ReadPending, Places, TypeOK
    <3>. QED
      BY <2>1, <2>3, <3>1 DEF RowsMatch
  <2>5. CASE Save(w)
    <3>1. pc'[w] = "marking"
      BY <2>5, GotoTypes DEF Save, Places
    <3>2. Len(saved') = records /\ \A i \in DOMAIN saved' : saved'[i] = i
      BY <2>1, <2>5, SavedRows
    <3>. QED
      BY <2>1, <2>3, <3>1, <3>2 DEF RowsMatch
  <2>6. CASE SaveFails(w)
    <3>1. /\ pc[w] = "saving" /\ pc'[w] \in {"idle", "finished"}
          /\ saved' = saved /\ flushed' = flushed
      BY <2>6, ReturnTypes DEF SaveFails
    <3>. QED
      BY <2>1, <2>3, <3>1 DEF RowsMatch
  <2>7. CASE Mark(w)
    <3>1. /\ pc[w] = "marking" /\ pc'[w] \in {"idle", "finished"}
          /\ saved' = saved /\ flushed' = records
      BY <2>7, ReturnTypes DEF Mark
    <3>. QED
      BY <2>1, <2>3, <3>1 DEF RowsMatch
  <2>. QED
    BY <1>4, <2>4, <2>5, <2>6, <2>7
<1>. QED
  BY <1>1, <1>2, <1>3, <1>4 DEF Next

LEMMA NextIInv == IInv /\ [Next]_vars => IInv'
<1>. SUFFICES ASSUME IInv, [Next]_vars PROVE IInv'
  OBVIOUS
<1>1. Typed'
  BY NextTyped DEF IInv
<1>2. CASE Next
  <2>1. attached' => late' = {}
    BY <1>2 DEF IInv, Next, Log, Emit, RemoveHandler, ReadPending, Save, SaveFails, Mark
  <2>. QED
    BY <1>1, <1>2, <2>1, NextInTurn, NextRows DEF IInv
<1>3. CASE UNCHANGED vars
  BY <1>1, <1>3 DEF IInv, vars, InTurn, Inside, RowsMatch
<1>. QED
  BY <1>2, <1>3

(* Whatever fails and whichever thread logs, the rows are the records up   *)
(* to some point, and what counts as flushed is among them.                *)
THEOREM RowsStayAPrefix == Spec => []RowsAreAPrefix
<1>1. IInv => RowsAreAPrefix
  <2>. SUFFICES ASSUME IInv, late = {} PROVE flushed <= Len(saved)
    BY DEF RowsAreAPrefix, IInv, RowsMatch
  <2>1. flushed \in Nat /\ records \in Nat /\ flushed <= records
    BY BoundsAssumption DEF IInv, Typed, TypeOK
  <2>. QED
    BY <2>1 DEF IInv, RowsMatch
<1>. QED
  BY <1>1, InitIInv, NextIInv, PTL DEF Spec

=============================================================================
