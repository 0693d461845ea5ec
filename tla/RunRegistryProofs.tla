-------------------------- MODULE RunRegistryProofs --------------------------
(***************************************************************************)
(* Safety of the run registry for every set of DAGs and every number of    *)
(* runs.                                                                   *)
(***************************************************************************)
EXTENDS RunRegistry, WellFoundedInduction, TLAPS

(* The counter tells the created runs from the others, of which nothing is *)
(* stored.                                                                 *)
Numbered == \A r \in Runs : /\ run[r].phase = "new" <=> r > next
                            /\ r > next => r \notin rows \cup jobs

(* A locked run holds the lock of its DAG until its coroutine ends.        *)
LockHeld ==
    \A r \in Runs : run[r].kind = "locked" /\ run[r].phase \in {"executing", "saving", "saved"} =>
        lock[run[r].dag] = r

(* A saved run whose record is still there has its row, and a row that is  *)
(* stored or about to be is RUNNING only for a run that was cut.           *)
RowsMatch ==
    \A r \in Runs : /\ r \in jobs => run[r].phase \in {"saving", "over"}
                    /\ run[r].phase = "saved" /\ r \in history => r \in rows
                    /\ r \in rows \cup jobs /\ run[r].state = "running" => run[r].cut

IInv == /\ TypeOK
        /\ Numbered
        /\ RegistryIsExact
        /\ OneUnforcedActive
        /\ LockHeld
        /\ ActiveRunsInHistory
        /\ RowsMatch
        /\ AnnouncedIsDurable

-----------------------------------------------------------------------------

(* What `next(reversed(active.values()))` returns: the last run of S.      *)
LEMMA NewestIsLast ==
    ASSUME NEW S \in SUBSET Runs, S # {}
    PROVE  Newest(S) \in S /\ \A s \in S : s <= Newest(S)
<1>. DEFINE Less == {p \in Nat \X Nat : p[1] < p[2]}
            Below == {n \in Nat : MaxRuns - n \in S}
<1>1. IsWellFoundedOn(Less, Nat)
  BY NatLessThanWellFounded DEF OpToRel
<1>2. Below # {}
  <2>1. PICK s \in S : TRUE
    OBVIOUS
  <2>2. s \in 1..MaxRuns
    BY DEF Runs
  <2>3. MaxRuns - s \in Nat /\ MaxRuns - (MaxRuns - s) = s
    BY <2>2, MaxRunsAssumption
  <2>. QED  BY <2>1, <2>3
<1>3. PICK x \in Below : \A y \in Below : ~(<<y, x>> \in Less)
  <2>1. Below \subseteq Nat
    OBVIOUS
  <2>. HIDE DEF Less, Below
  <2>. QED  BY <1>1, <1>2, <2>1, WFMin
<1>4. ASSUME NEW s \in S PROVE s <= MaxRuns - x
  <2>1. s \in Nat /\ s <= MaxRuns /\ MaxRuns - s \in Nat /\ MaxRuns - (MaxRuns - s) = s
    BY MaxRunsAssumption DEF Runs
  <2>2. MaxRuns - s \in Below
    BY <2>1
  <2>3. ~(MaxRuns - s < x)
    BY <1>3, <2>1, <2>2
  <2>. QED  BY <2>1, <2>3, MaxRunsAssumption
<1>5. \E r \in S : \A s \in S : s <= r
  BY <1>4
<1>. QED
  BY <1>5 DEF Newest

LEMMA NewestType ==
    ASSUME NEW S \in SUBSET Runs
    PROVE  Newest(S) \in Runs \cup {NoRun}
<1>1. CASE S = {}
  BY <1>1 DEF Newest
<1>2. CASE S # {}
  BY <1>2, NewestIsLast
<1>. QED  BY <1>1, <1>2

(* A run with a larger number than all of S becomes the newest.            *)
LEMMA NewestOfMore ==
    ASSUME NEW S \in SUBSET Runs, NEW n \in Runs, \A s \in S : s < n
    PROVE  Newest(S \cup {n}) = n
<1>1. Newest(S \cup {n}) \in S \cup {n} /\ \A s \in S \cup {n} : s <= Newest(S \cup {n})
  BY NewestIsLast
<1>2. Runs \subseteq Nat
  BY MaxRunsAssumption DEF Runs
<1>3. Newest(S \cup {n}) \in Nat /\ n \in Nat /\ n <= Newest(S \cup {n})
  BY <1>1, <1>2
<1>. QED
  BY <1>1, <1>3

-----------------------------------------------------------------------------

LEMMA InitIInv == Init => IInv
<1>. SUFFICES ASSUME Init PROVE IInv
  OBVIOUS
<1>1. PICK d0 \in DAGs : run = [r \in Runs |-> NewRun(d0, "locked")]
  BY DEF Init
<1>2. TypeOK
  <2>1. NewRun(d0, "locked") \in RunType
    BY DEF NewRun, RunType, Kinds, Phases
  <2>2. run \in [Runs -> RunType]
    BY <1>1, <2>1
  <2>3. next \in 0..MaxRuns
    BY MaxRunsAssumption DEF Init
  <2>4. active \in [DAGs -> SUBSET Runs]
    BY DEF Init
  <2>. QED
    BY <2>2, <2>3, <2>4 DEF Init, TypeOK
<1>3. Numbered /\ LockHeld /\ ActiveRunsInHistory /\ RowsMatch /\ AnnouncedIsDurable
  BY <1>1, MaxRunsAssumption
  DEF Init, NewRun, Runs, Numbered, LockHeld, ActiveRunsInHistory, In, RowsMatch, AnnouncedIsDurable
<1>4. RegistryIsExact /\ OneUnforcedActive
  BY <1>1 DEF Init, NewRun, RegistryIsExact, OneUnforcedActive, In, Newest
<1>. QED
  BY <1>2, <1>3, <1>4 DEF IInv

LEMMA CreateIInv ==
    ASSUME IInv, NEW d \in DAGs, NEW kind \in Kinds, Create(d, kind),
           kind # "forced" => ~IsRunning(d)
    PROVE  IInv'
<1>. DEFINE n == next'
            new == [NewRun(d, kind) EXCEPT !.phase = "pending", !.told = "running"]
<1>0. TypeOK /\ Numbered /\ RegistryIsExact
  BY DEF IInv
<1>1. n \in Runs /\ n = next + 1 /\ run' = [run EXCEPT ![n] = new]
  BY <1>0, MaxRunsAssumption DEF Create, TypeOK, Runs
<1>2. new \in RunType /\ new.dag = d /\ new.kind = kind /\ new.phase = "pending"
      /\ new.state = "running" /\ new.told = "running"
  BY DEF NewRun, RunType, Kinds, Phases
<1>3. TypeOK'
  BY <1>0, <1>1, <1>2, MaxRunsAssumption DEF Create, TypeOK, Runs
<1>. HIDE DEF new
<1>4. run'[n] = new /\ \A r \in Runs : r # n => run'[r] = run[r]
  BY <1>0, <1>1 DEF TypeOK
<1>5. Numbered'
  BY <1>0, <1>1, <1>2, <1>4, MaxRunsAssumption DEF Numbered, Create, TypeOK, Runs
<1>6. \A e \in DAGs : \A s \in active[e] : s < n
  BY <1>0, <1>1, MaxRunsAssumption DEF RegistryIsExact, Numbered, In, TypeOK, Runs
<1>7. RegistryIsExact'
  <2>1. ASSUME NEW e \in DAGs
        PROVE  active'[e] = {r \in Runs : /\ run'[r].phase \in {"pending", "executing", "stray"}
                                          /\ run'[r].dag = e}
    <3>1. active'[e] = IF e = d THEN active[e] \cup {n} ELSE active[e]
      BY <1>0 DEF Create, TypeOK
    <3>2. n \notin active[e]
      BY <1>0, <1>1, <1>6, MaxRunsAssumption DEF Runs
    <3>3. active[e] = {r \in Runs : /\ run[r].phase \in {"pending", "executing", "stray"}
                                    /\ run[r].dag = e}
      BY <1>0 DEF RegistryIsExact, In
    <3>. QED  BY <1>1, <1>2, <1>4, <3>1, <3>2, <3>3
  <2>2. ASSUME NEW e \in DAGs PROVE current'[e] = Newest(active'[e])
    <3>1. CASE e = d
      <4>1. active'[e] = active[e] \cup {n} /\ current'[e] = n /\ active[e] \in SUBSET Runs
        BY <1>0, <3>1 DEF Create, TypeOK
      <4>. QED  BY <1>1, <1>6, <4>1, NewestOfMore
    <3>2. CASE e # d
      BY <1>0, <3>2 DEF RegistryIsExact, Create, TypeOK
    <3>. QED  BY <3>1, <3>2
  <2>. QED  BY <2>1, <2>2 DEF RegistryIsExact, In
<1>8. OneUnforcedActive'
  <2>1. ASSUME NEW e \in DAGs, NEW r \in active'[e], NEW s \in active'[e], s < r
        PROVE  run'[r].kind = "forced"
    <3>1. CASE r = n /\ e = d
      <4>1. CASE kind = "forced"
        BY <1>2, <1>4, <3>1, <4>1
      <4>2. CASE kind # "forced"
        <5>1. active'[d] = {n}
          BY <1>0, <4>2 DEF Create, IsRunning, TypeOK
        <5>. QED  BY <1>1, <2>1, <3>1, <5>1, MaxRunsAssumption DEF Runs
      <4>. QED  BY <4>1, <4>2
    <3>2. CASE r \in active[e]
      <4>1. s \in active[e] \cup {n} /\ r # n /\ r \in Runs /\ r < n
        BY <1>0, <1>1, <1>6, <3>2, MaxRunsAssumption DEF Create, TypeOK, Runs
      <4>2. s # n
        BY <1>1, <2>1, <4>1, MaxRunsAssumption DEF Runs
      <4>. QED  BY <1>4, <2>1, <3>2, <4>1, <4>2 DEF IInv, OneUnforcedActive
    <3>3. r \in active[e] \/ (r = n /\ e = d)
      BY <1>0 DEF Create, TypeOK
    <3>. QED  BY <3>1, <3>2, <3>3
  <2>. QED  BY <2>1 DEF OneUnforcedActive
<1>9. LockHeld' /\ ActiveRunsInHistory'
  BY <1>0, <1>1, <1>2, <1>4 DEF IInv, LockHeld, ActiveRunsInHistory, In, Create
<1>10. RowsMatch' /\ AnnouncedIsDurable'
  BY <1>0, <1>1, <1>2, <1>4, MaxRunsAssumption
  DEF IInv, RowsMatch, AnnouncedIsDurable, Numbered, Create, TypeOK, Runs
<1>. QED
  BY <1>3, <1>5, <1>7, <1>8, <1>9, <1>10 DEF IInv

-----------------------------------------------------------------------------

Live == {"pending", "executing", "stray"}

(* The runs keep their DAGs and kinds, and those of S leave the registry.  *)
Leaving(S) == \A r \in Runs : /\ run'[r].dag = run[r].dag /\ run'[r].kind = run[r].kind
                              /\ run'[r].phase \in Live <=> run[r].phase \in Live /\ r \notin S

LEMMA RegistryKept ==
    ASSUME TypeOK, RegistryIsExact, OneUnforcedActive, Leaving({}), UNCHANGED <<active, current>>
    PROVE  RegistryIsExact' /\ OneUnforcedActive'
<1>1. RegistryIsExact'
  BY DEF RegistryIsExact, In, Leaving, Live
<1>2. OneUnforcedActive'
  BY DEF OneUnforcedActive, Leaving, TypeOK
<1>. QED  BY <1>1, <1>2

LEMMA RegistryLeft ==
    ASSUME TypeOK, RegistryIsExact, OneUnforcedActive,
           NEW S \in SUBSET Runs, Leaving(S), Unregister(S)
    PROVE  /\ RegistryIsExact' /\ OneUnforcedActive'
           /\ active' \in [DAGs -> SUBSET Runs] /\ current' \in [DAGs -> Runs \cup {NoRun}]
<1>1. active' \in [DAGs -> SUBSET Runs]
  BY DEF Unregister, TypeOK
<1>2. current' \in [DAGs -> Runs \cup {NoRun}]
  BY <1>1, NewestType DEF Unregister
<1>3. \A d \in DAGs : active'[d] = active[d] \ S /\ current'[d] = Newest(active'[d])
  BY DEF Unregister
<1>4. ASSUME NEW d \in DAGs
      PROVE  active'[d] = {r \in Runs : run'[r].phase \in Live /\ run'[r].dag = d}
  <2>1. active[d] = {r \in Runs : run[r].phase \in Live /\ run[r].dag = d}
    BY DEF RegistryIsExact, In, Live
  <2>. QED  BY <1>3, <2>1 DEF Leaving
<1>5. RegistryIsExact'
  BY <1>3, <1>4 DEF RegistryIsExact, In, Live
<1>6. OneUnforcedActive'
  BY <1>3 DEF OneUnforcedActive, Leaving, TypeOK
<1>. QED  BY <1>1, <1>2, <1>5, <1>6

-----------------------------------------------------------------------------

LEMMA StartIInv ==
    ASSUME IInv, NEW r \in Runs, Start(r)
    PROVE  IInv'
<1>. USE DEF IInv
<1>1. /\ run'[r] = [run[r] EXCEPT !.phase = "executing", !.busy = TRUE]
      /\ \A s \in Runs : s # r => run'[s] = run[s]
  BY DEF Start, TypeOK
<1>2. run[r] \in RunType /\ run[r].phase = "pending"
  BY DEF Start, TypeOK
<1>t. run'[r] \in RunType
  BY <1>1, <1>2 DEF RunType, Phases
<1>f. /\ run'[r].dag = run[r].dag /\ run'[r].kind = run[r].kind /\ run'[r].phase = "executing"
      /\ run'[r].state = run[r].state /\ run'[r].told = run[r].told /\ run'[r].cut = run[r].cut
  BY <1>1, <1>2 DEF RunType
<1>3. TypeOK'
  BY <1>1, <1>2, <1>t, NoRunAssumption DEF Start, TypeOK, RunType
<1>4. RegistryIsExact' /\ OneUnforcedActive'
  BY <1>1, <1>2, <1>f, RegistryKept DEF Leaving, Live, Start
<1>5. Numbered' /\ ActiveRunsInHistory' /\ RowsMatch' /\ AnnouncedIsDurable'
  <2>1. Numbered'
    BY <1>1, <1>2, <1>f DEF Start, Numbered
  <2>2. ActiveRunsInHistory'
    BY <1>1, <1>2, <1>f DEF Start, ActiveRunsInHistory, In
  <2>3. RowsMatch'
    BY <1>1, <1>2, <1>f DEF Start, RowsMatch
  <2>4. AnnouncedIsDurable'
    BY <1>1, <1>2, <1>f DEF Start, AnnouncedIsDurable, RowsMatch, TypeOK
  <2>. QED  BY <2>1, <2>2, <2>3, <2>4
<1>6. LockHeld'
  BY <1>1, <1>2, <1>f, NoRunAssumption DEF Start, LockHeld, RunType, TypeOK, Runs
<1>. QED
  BY <1>3, <1>4, <1>5, <1>6

LEMMA EndIInv ==
    ASSUME IInv, NEW r \in Runs, End(r)
    PROVE  IInv'
<1>. USE DEF IInv
<1>0. PICK o \in Outcomes :
          run' = [run EXCEPT ![r].phase = "saving", ![r].state = o, ![r].busy = FALSE]
  BY DEF End
<1>1. \A s \in Runs : s # r => run'[s] = run[s]
  BY <1>0 DEF TypeOK
<1>e. run'[r] = [run[r] EXCEPT !.phase = "saving", !.state = o, !.busy = FALSE]
  BY <1>0 DEF TypeOK
<1>u. UNCHANGED <<next, lock, history, rows>> /\ jobs' = jobs \cup {r}
  BY DEF End
<1>2. run[r] \in RunType /\ run[r].phase = "executing"
  BY DEF End, TypeOK
<1>o. o = "success" \/ o = "failed"
  BY DEF Outcomes
<1>t. run'[r] \in RunType
  BY <1>e, <1>2, <1>o DEF RunType, Phases
<1>f. /\ run'[r].dag = run[r].dag /\ run'[r].kind = run[r].kind /\ run'[r].phase = "saving"
      /\ run'[r].state # "running" /\ run'[r].told = run[r].told
  BY <1>e, <1>2, <1>o DEF RunType
<1>3. /\ RegistryIsExact' /\ OneUnforcedActive'
      /\ active' \in [DAGs -> SUBSET Runs] /\ current' \in [DAGs -> Runs \cup {NoRun}]
  <2>1. Leaving({r}) /\ Unregister({r})
    BY <1>1, <1>2, <1>f DEF Leaving, Live, End
  <2>. QED  BY <2>1, RegistryLeft
<1>4. TypeOK'
  BY <1>1, <1>2, <1>t, <1>3 DEF End, TypeOK
<1>5. Numbered' /\ ActiveRunsInHistory' /\ RowsMatch' /\ AnnouncedIsDurable'
  <2>1. Numbered'
    BY <1>1, <1>2, <1>f, <1>u DEF Numbered
  <2>2. ActiveRunsInHistory'
    BY <1>1, <1>2, <1>f, <1>u DEF ActiveRunsInHistory, In
  <2>3. RowsMatch'
    BY <1>1, <1>2, <1>f, <1>u DEF RowsMatch
  <2>4. AnnouncedIsDurable'
    BY <1>1, <1>2, <1>f, <1>u DEF AnnouncedIsDurable, TypeOK
  <2>. QED  BY <2>1, <2>2, <2>3, <2>4
<1>6. LockHeld'
  BY <1>1, <1>2, <1>f, <1>u DEF LockHeld
<1>. QED
  BY <1>3, <1>4, <1>5, <1>6

(* A lock is released by runs that have ended.                             *)
LEMMA LockReleased ==
    ASSUME IInv, NEW S \in SUBSET Runs, lock' = Released(S),
           \A r \in Runs : /\ run'[r].dag = run[r].dag /\ run'[r].kind = run[r].kind
                           /\ run'[r].phase \in {"executing", "saving", "saved"} =>
                                  run[r].phase \in {"executing", "saving", "saved"} /\ r \notin S
    PROVE  LockHeld' /\ lock' \in [DAGs -> Runs \cup {NoRun}]
<1>. USE DEF IInv
<1>1. lock' \in [DAGs -> Runs \cup {NoRun}]
  BY DEF Released, TypeOK
<1>2. \A r \in Runs : run[r].dag \in DAGs
  BY DEF TypeOK, RunType
<1>3. LockHeld'
  BY <1>2 DEF LockHeld, Released
<1>. QED  BY <1>1, <1>3

LEMMA SaveRowIInv ==
    ASSUME IInv, NEW r \in Runs, SaveRow(r)
    PROVE  IInv'
<1>. USE DEF IInv
<1>1. /\ run'[r] = [run[r] EXCEPT !.phase = IF @ = "saving" THEN "saved" ELSE @]
      /\ \A s \in Runs : s # r => run'[s] = run[s]
  BY DEF SaveRow, TypeOK
<1>2. run[r] \in RunType /\ run'[r] \in RunType
  BY <1>1 DEF TypeOK, RunType, Phases
<1>3. TypeOK'
  BY <1>1, <1>2 DEF SaveRow, TypeOK
<1>4. RegistryIsExact' /\ OneUnforcedActive'
  BY <1>1, <1>2, RegistryKept DEF Leaving, Live, SaveRow, RunType
<1>5. Numbered' /\ ActiveRunsInHistory'
  BY <1>1, <1>2 DEF SaveRow, Numbered, ActiveRunsInHistory, In, RunType
<1>6. RowsMatch' /\ AnnouncedIsDurable' /\ LockHeld'
  BY <1>1, <1>2 DEF SaveRow, RowsMatch, AnnouncedIsDurable, LockHeld, RunType
<1>. QED
  BY <1>3, <1>4, <1>5, <1>6

LEMMA SaveFailsIInv ==
    ASSUME IInv, NEW r \in Runs, SaveFails(r)
    PROVE  IInv'
<1>. USE DEF IInv
<1>1. /\ run'[r] = [run[r] EXCEPT !.phase = "over"]
      /\ \A s \in Runs : s # r => run'[s] = run[s]
  BY DEF SaveFails, TypeOK
<1>2. run[r] \in RunType /\ run[r].phase \in {"saving", "over"}
  BY DEF TypeOK, RowsMatch, SaveFails
<1>t. run'[r] \in RunType
  BY <1>1, <1>2 DEF RunType, Phases
<1>3. LockHeld' /\ lock' \in [DAGs -> Runs \cup {NoRun}]
  BY <1>1, <1>2, LockReleased DEF SaveFails, RunType
<1>4. TypeOK'
  BY <1>1, <1>2, <1>t, <1>3 DEF SaveFails, TypeOK
<1>5. RegistryIsExact' /\ OneUnforcedActive'
  BY <1>1, <1>2, RegistryKept DEF Leaving, Live, SaveFails, RunType
<1>6. Numbered' /\ ActiveRunsInHistory' /\ RowsMatch' /\ AnnouncedIsDurable'
  BY <1>1, <1>2 DEF SaveFails, Numbered, ActiveRunsInHistory, In, RowsMatch, AnnouncedIsDurable, RunType
<1>. QED
  BY <1>3, <1>4, <1>5, <1>6

LEMMA ReturnIInv ==
    ASSUME IInv, NEW r \in Runs, Return(r)
    PROVE  IInv'
<1>. USE DEF IInv
<1>1. /\ run'[r] = [run[r] EXCEPT !.phase = "over", !.told = run[r].state]
      /\ \A s \in Runs : s # r => run'[s] = run[s]
  BY DEF Return, TypeOK
<1>2. run[r] \in RunType /\ run[r].phase = "saved"
  BY DEF Return, TypeOK
<1>t. run'[r] \in RunType
  BY <1>1, <1>2 DEF RunType, Phases
<1>f. /\ run'[r].dag = run[r].dag /\ run'[r].kind = run[r].kind /\ run'[r].phase = "over"
      /\ run'[r].state = run[r].state /\ run'[r].cut = run[r].cut
  BY <1>1, <1>2 DEF RunType
<1>3. LockHeld' /\ lock' \in [DAGs -> Runs \cup {NoRun}]
  <2>1. lock' = Released({r}) /\ {r} \in SUBSET Runs
    BY DEF Return
  <2>2. ASSUME NEW s \in Runs
        PROVE  /\ run'[s].dag = run[s].dag /\ run'[s].kind = run[s].kind
               /\ run'[s].phase \in {"executing", "saving", "saved"} =>
                      run[s].phase \in {"executing", "saving", "saved"} /\ s \notin {r}
    BY <1>1, <1>f
  <2>. QED  BY <2>1, <2>2, LockReleased
<1>4. TypeOK'
  BY <1>1, <1>2, <1>t, <1>3 DEF Return, TypeOK
<1>5. RegistryIsExact' /\ OneUnforcedActive'
  BY <1>1, <1>2, <1>f, RegistryKept DEF Leaving, Live, Return
<1>6. Numbered' /\ ActiveRunsInHistory' /\ RowsMatch' /\ AnnouncedIsDurable'
  <2>1. Numbered'
    BY <1>1, <1>2, <1>f DEF Return, Numbered
  <2>2. ActiveRunsInHistory'
    BY <1>1, <1>2, <1>f DEF Return, ActiveRunsInHistory, In
  <2>3. RowsMatch'
    BY <1>1, <1>2, <1>f DEF Return, RowsMatch
  <2>4. AnnouncedIsDurable'
    BY <1>1, <1>2, <1>f DEF Return, AnnouncedIsDurable, RowsMatch, TypeOK
  <2>. QED  BY <2>1, <2>2, <2>3, <2>4
<1>. QED
  BY <1>3, <1>4, <1>5, <1>6

LEMMA OrphansEndIInv ==
    ASSUME IInv, NEW r \in Runs, OrphansEnd(r)
    PROVE  IInv'
<1>. USE DEF IInv
<1>1. /\ run'[r] = [run[r] EXCEPT !.busy = FALSE]
      /\ \A s \in Runs : s # r => run'[s] = run[s]
  BY DEF OrphansEnd, TypeOK
<1>2. run[r] \in RunType /\ run'[r] \in RunType
  BY <1>1 DEF TypeOK, RunType
<1>3. TypeOK'
  BY <1>1, <1>2 DEF OrphansEnd, TypeOK
<1>4. RegistryIsExact' /\ OneUnforcedActive'
  BY <1>1, <1>2, RegistryKept DEF Leaving, Live, OrphansEnd, RunType
<1>5. Numbered' /\ ActiveRunsInHistory' /\ RowsMatch' /\ AnnouncedIsDurable' /\ LockHeld'
  BY <1>1, <1>2 DEF OrphansEnd, Numbered, ActiveRunsInHistory, In, RowsMatch, AnnouncedIsDurable,
                    LockHeld, RunType
<1>. QED
  BY <1>3, <1>4, <1>5

LEMMA ClearIInv ==
    ASSUME IInv, NEW D \in SUBSET DAGs, Clear(D)
    PROVE  IInv'
<1>. USE DEF IInv
<1>0. \A d \in D : active[d] = {}
  BY DEF Clear, IsRunning
<1>1. /\ UNCHANGED <<run, next, active, current, lock, jobs, stopping>>
      /\ history' = history \ {r \in Runs : run[r].dag \in D}
      /\ rows' = rows \ {r \in Runs : run[r].dag \in D}
  BY DEF Clear, Forget
<1>2. TypeOK'
  BY <1>1 DEF TypeOK
<1>3. Numbered' /\ LockHeld' /\ OneUnforcedActive'
  BY <1>1 DEF Numbered, LockHeld, OneUnforcedActive
<1>4. RegistryIsExact'
  BY <1>1 DEF RegistryIsExact, In
<1>5. ActiveRunsInHistory'
  <2>1. ASSUME NEW r \in Runs, run[r].phase \in {"pending", "executing"} PROVE r \in history'
    <3>1. run[r].dag \in DAGs
      BY DEF TypeOK, RunType
    <3>2. r \in active[run[r].dag]
      BY <2>1, <3>1 DEF RegistryIsExact, In
    <3>. QED  BY <1>0, <1>1, <2>1, <3>2 DEF ActiveRunsInHistory, In
  <2>. QED  BY <1>1, <2>1 DEF ActiveRunsInHistory, In
<1>6. RowsMatch'
  BY <1>1 DEF RowsMatch
<1>7. AnnouncedIsDurable'
  BY <1>1 DEF AnnouncedIsDurable
<1>. QED
  BY <1>2, <1>3, <1>4, <1>5, <1>6, <1>7

LEMMA ThrowIInv ==
    ASSUME IInv, NEW S \in SUBSET Runs, NEW A \in SUBSET Runs, Throw(S, A),
           stopping' \in BOOLEAN
    PROVE  IInv'
<1>. USE DEF IInv
<1>. DEFINE Cut == {r \in S : run[r].phase = "executing"}
            Ends(r) == CASE run[r].phase = "pending" -> "stray"
                         [] run[r].phase = "executing" -> "saving"
                         [] run[r].phase \in {"saving", "saved"} -> "over"
                         [] OTHER -> run[r].phase
<1>1. /\ run' = [r \in Runs |-> IF r \in S
                                THEN [run[r] EXCEPT !.phase = Ends(r),
                                                    !.busy = @ /\ r \in A,
                                                    !.cut = @ \/ r \in Cut]
                                ELSE run[r]]
      /\ Unregister(Cut)
      /\ lock' = Released(S \ Cut)
      /\ UNCHANGED <<next, history, rows>>
  BY DEF Throw
<1>2. PICK dropped \in SUBSET (jobs \cap S) : jobs' = (jobs \cup Cut) \ dropped
  BY DEF Throw
<1>3. ASSUME NEW r \in Runs
      PROVE  /\ run'[r] \in RunType
             /\ run'[r].dag = run[r].dag /\ run'[r].kind = run[r].kind
             /\ run'[r].state = run[r].state /\ run'[r].told = run[r].told
             /\ run'[r].phase = IF r \in S THEN Ends(r) ELSE run[r].phase
             /\ run'[r].cut <=> run[r].cut \/ r \in Cut
  <2>1. run[r] \in RunType
    BY DEF TypeOK
  <2>2. Ends(r) \in Phases
    BY <2>1 DEF RunType, Phases
  <2>. HIDE DEF Ends, Cut
  <2>3. CASE r \in S
    <3>1. run'[r] = [run[r] EXCEPT !.phase = Ends(r), !.busy = @ /\ r \in A,
                                   !.cut = @ \/ r \in Cut]
      BY <1>1, <2>3
    <3>. QED  BY <2>1, <2>2, <2>3, <3>1 DEF RunType
  <2>4. CASE r \notin S
    <3>1. run'[r] = run[r] /\ r \notin Cut
      BY <1>1, <2>4 DEF Cut
    <3>. QED  BY <2>1, <2>4, <3>1
  <2>. QED  BY <2>3, <2>4
<1>4. \A r \in Runs : run[r] \in RunType /\ run[r].phase \in Phases
  BY DEF TypeOK, RunType
<1>5. /\ RegistryIsExact' /\ OneUnforcedActive'
      /\ active' \in [DAGs -> SUBSET Runs] /\ current' \in [DAGs -> Runs \cup {NoRun}]
  <2>1. Leaving(Cut)
    BY <1>3 DEF Leaving, Live
  <2>. QED  BY <1>1, <2>1, RegistryLeft
<1>6. LockHeld' /\ lock' \in [DAGs -> Runs \cup {NoRun}]
  <2>1. ASSUME NEW r \in Runs
        PROVE  /\ run'[r].dag = run[r].dag /\ run'[r].kind = run[r].kind
               /\ run'[r].phase \in {"executing", "saving", "saved"} =>
                      run[r].phase \in {"executing", "saving", "saved"} /\ r \notin S \ Cut
    BY <1>3
  <2>. QED  BY <1>1, <2>1, LockReleased
<1>7. TypeOK'
  <2>1. run' \in [Runs -> RunType]
    BY <1>1, <1>3
  <2>. QED  BY <1>1, <1>2, <1>5, <1>6, <2>1 DEF TypeOK
<1>p. ASSUME NEW r \in Runs
      PROVE  /\ run'[r].phase = "new" <=> run[r].phase = "new"
             /\ run'[r].phase \in {"pending", "executing"} => run[r].phase \in {"pending", "executing"}
             /\ run'[r].phase = "saved" => run[r].phase = "saved"
             /\ run[r].phase \in {"saving", "over"} => run'[r].phase \in {"saving", "over"}
             /\ r \in Cut => run[r].phase = "executing" /\ run'[r].phase = "saving"
  BY <1>3, <1>4
<1>. HIDE DEF Ends, Cut
<1>8. Numbered'
  BY <1>1, <1>2, <1>p DEF Numbered
<1>9. ActiveRunsInHistory'
  BY <1>1, <1>p DEF ActiveRunsInHistory, In
<1>10. RowsMatch'
  <2>1. ASSUME NEW r \in Runs, r \in jobs' PROVE run'[r].phase \in {"saving", "over"}
    BY <1>2, <1>p, <2>1 DEF RowsMatch
  <2>2. ASSUME NEW r \in Runs, run'[r].phase = "saved", r \in history' PROVE r \in rows'
    BY <1>1, <1>p, <2>2 DEF RowsMatch
  <2>3. ASSUME NEW r \in Runs, r \in rows' \cup jobs', run'[r].state = "running"
        PROVE  run'[r].cut
    BY <1>1, <1>2, <1>3, <2>3 DEF RowsMatch
  <2>. QED  BY <2>1, <2>2, <2>3 DEF RowsMatch
<1>11. AnnouncedIsDurable'
  BY <1>1, <1>3 DEF AnnouncedIsDurable, TypeOK
<1>. QED
  BY <1>5, <1>6, <1>7, <1>8, <1>9, <1>10, <1>11

LEMMA RestartIInv ==
    ASSUME IInv, Restart
    PROVE  IInv'
<1>. USE DEF IInv
<1>1. ASSUME NEW r \in Runs
      PROVE  /\ run'[r] \in RunType
             /\ run'[r].state = run[r].state /\ run'[r].cut = run[r].cut
             /\ run'[r].phase = IF run[r].phase = "new" THEN "new" ELSE "over"
  <2>1. run[r] \in RunType
    BY DEF TypeOK
  <2>2. run'[r] = [run[r] EXCEPT !.phase = IF @ = "new" THEN @ ELSE "over", !.busy = FALSE]
    BY DEF Restart
  <2>. QED  BY <2>1, <2>2 DEF RunType, Phases
<1>2. TypeOK'
  <2>1. run' \in [Runs -> RunType]
    BY <1>1 DEF Restart
  <2>. QED  BY <2>1 DEF Restart, TypeOK
<1>u. /\ UNCHANGED <<next, rows>> /\ history' = rows /\ jobs' = {}
      /\ active' = [d \in DAGs |-> {}] /\ current' = [d \in DAGs |-> NoRun]
  BY DEF Restart
<1>3. Numbered' /\ RowsMatch' /\ LockHeld'
  <2>1. Numbered'
    BY <1>1, <1>u DEF Numbered
  <2>2. RowsMatch'
    BY <1>1, <1>u DEF RowsMatch
  <2>3. LockHeld'
    BY <1>1 DEF LockHeld
  <2>. QED  BY <2>1, <2>2, <2>3
<1>4. RegistryIsExact' /\ OneUnforcedActive'
  <2>1. ASSUME NEW d \in DAGs
        PROVE  {r \in In({"pending", "executing", "stray"})' : run'[r].dag = d} = {}
    BY <1>1 DEF In
  <2>2. ASSUME NEW d \in DAGs PROVE active'[d] = {} /\ current'[d] = Newest({})
    BY <1>u DEF Newest
  <2>. QED  BY <2>1, <2>2 DEF RegistryIsExact, OneUnforcedActive
<1>5. ActiveRunsInHistory' /\ AnnouncedIsDurable'
  <2>1. ActiveRunsInHistory'
    BY <1>1 DEF ActiveRunsInHistory, In
  <2>2. AnnouncedIsDurable'
    BY <1>u DEF AnnouncedIsDurable
  <2>. QED  BY <2>1, <2>2
<1>. QED
  BY <1>2, <1>3, <1>4, <1>5

LEMMA StepIInv == IInv /\ [Next]_vars => IInv'
<1>. SUFFICES ASSUME IInv, [Next]_vars PROVE IInv'
  OBVIOUS
<1>1. ASSUME NEW d \in DAGs, Trigger(d) \/ ForceTrigger(d) \/ TriggerTask(d) PROVE IInv'
  BY <1>1, CreateIInv DEF Trigger, ForceTrigger, TriggerTask, Kinds
<1>2. ASSUME NEW r \in Runs, Proceed(r) PROVE IInv'
  BY <1>2, StartIInv, EndIInv, SaveRowIInv, SaveFailsIInv, ReturnIInv, OrphansEndIInv
  DEF Proceed, Save
<1>3. ASSUME NEW r \in Runs, Cancel(r) PROVE IInv'
  <2>1. stopping' \in BOOLEAN
    BY <1>3 DEF Cancel, IInv, TypeOK
  <2>. QED  BY <1>3, <2>1, ThrowIInv DEF Cancel
<1>4. CASE ClearHistory
  BY <1>4, ClearIInv DEF ClearHistory
<1>5. CASE Shutdown
  BY <1>5, ThrowIInv DEF Shutdown
<1>6. CASE Restart
  BY <1>6, RestartIInv
<1>7. CASE UNCHANGED vars
  BY <1>7 DEF vars, IInv, TypeOK, Numbered, RegistryIsExact, OneUnforcedActive, LockHeld,
              ActiveRunsInHistory, RowsMatch, AnnouncedIsDurable, In, RunType
<1>. QED
  BY <1>1, <1>2, <1>3, <1>4, <1>5, <1>6, <1>7 DEF Next, Admit

LEMMA IInvHolds == Spec => []IInv
<1>. QED  BY InitIInv, StepIInv, PTL DEF Spec

-----------------------------------------------------------------------------

(* Every value the registry, the history, the store and the records take   *)
(* is of its type (state of core/riverflow.py, __init__).                  *)
THEOREM TypeCorrect == Spec => []TypeOK
<1>1. IInv => TypeOK
  BY DEF IInv
<1>. QED  BY IInvHolds, <1>1, PTL

(* The registry closes the double-trigger race: of the active runs of a    *)
(* DAG only the first was admitted without force (trigger, trigger_task).  *)
THEOREM OneUnforcedRun == Spec => []OneUnforcedActive
<1>1. IInv => OneUnforcedActive
  BY DEF IInv
<1>. QED  BY IInvHolds, <1>1, PTL

(* _finish_active_run removes a run from the registry when it leaves and   *)
(* never hides another one; only a run cancelled on its way to the lock    *)
(* stays behind.                                                           *)
THEOREM RegistryStaysExact == Spec => []RegistryIsExact
<1>1. IInv => RegistryIsExact
  BY DEF IInv
<1>. QED  BY IInvHolds, <1>1, PTL

(* Admission and the lock together exclude rivals: unforced runs of a DAG  *)
(* do not execute at the same time, and locked ones not even while the     *)
(* row of the earlier one is being saved.                                  *)
THEOREM RivalsAreExcluded == Spec => []RivalsExclude
<1>1. ASSUME IInv, NEW r \in Runs, NEW s \in Runs, Rivals(r, s)
      PROVE  ~({r, s} \subseteq In({"executing"}))
  <2>. SUFFICES ASSUME run[r].phase = "executing", run[s].phase = "executing" PROVE FALSE
    BY DEF In
  <2>1. run[r].dag \in DAGs
    BY <1>1 DEF IInv, TypeOK, RunType
  <2>2. r \in active[run[r].dag] /\ s \in active[run[r].dag]
    BY <1>1, <2>1 DEF IInv, RegistryIsExact, In, Rivals
  <2>3. r < s \/ s < r
    BY <1>1, MaxRunsAssumption DEF Rivals, Runs
  <2>. QED  BY <1>1, <2>1, <2>2, <2>3 DEF IInv, OneUnforcedActive, Rivals
<1>2. ASSUME IInv, NEW r \in Runs, NEW s \in Runs, Rivals(r, s),
             run[r].kind = "locked", run[s].kind = "locked"
      PROVE  ~({r, s} \subseteq In({"executing", "saving", "saved"}))
  BY <1>2 DEF IInv, LockHeld, Rivals, In
<1>3. IInv => RivalsExclude
  BY <1>1, <1>2 DEF RivalsExclude
<1>. QED  BY IInvHolds, <1>3, PTL

(* clear_history never takes the record of an active run away.             *)
THEOREM ActiveRunsAreRecorded == Spec => []ActiveRunsInHistory
<1>1. IInv => ActiveRunsInHistory
  BY DEF IInv
<1>. QED  BY IInvHolds, <1>1, PTL

(* The final update follows the row: whatever end the listeners heard of   *)
(* is in the database, in this process and in the next.                    *)
THEOREM AnnouncedEndsAreDurable == Spec => []AnnouncedIsDurable
<1>1. IInv => AnnouncedIsDurable
  BY DEF IInv
<1>. QED  BY IInvHolds, <1>1, PTL

(* A row says RUNNING only for a run that was cancelled while executing.   *)
THEOREM RunningRowsAreCut == Spec => []RunningRowsWereCut
<1>1. IInv => RunningRowsWereCut
  BY DEF IInv, RowsMatch, RunningRowsWereCut, TypeOK
<1>. QED  BY IInvHolds, <1>1, PTL

=============================================================================
