----------------------------- MODULE PagesProofs -----------------------------
(***************************************************************************)
(* The pages, for every set of keys, Flows, DAGs, items, runs, samples and *)
(* lines that the models' assumptions admit: one inductive invariant,      *)
(* PagesInv, with a part for each model, and what follows from it.         *)
(***************************************************************************)
EXTENDS Pages, Ranking, SequenceTheorems, FiniteSetTheorems,
        WellFoundedInduction, NaturalsInduction, TLAPS

-----------------------------------------------------------------------------
(* The keyboard                                                            *)

LEMMA InitTypes == Init => TypeOK
BY DEF Init, TypeOK

(* After a key that counts, a sequence is armed only if the key was the    *)
(* leader and it was not armed before; it has a timer then.                *)
LEMMA ArmedAfter ==
    ASSUME TypeOK, NEW e \in Events, Press(e), Counts(e)
    PROVE  LET arms == IF e.key = Leader THEN SecondKeys \ armed ELSE {}
           IN  armed' = arms /\ timers' = arms
BY DEF TypeOK, Press, Consumed

LEMMA PressTypes ==
    ASSUME TypeOK, NEW e \in Events, Press(e)
    PROVE  TypeOK'
<1>1. page' \in SecondKeys \cup {Home} /\ fired' \subseteq Shortcuts
  BY DEF TypeOK, Press
<1>2. CASE Counts(e)
  <2>1. armed' \subseteq SecondKeys /\ timers' \subseteq armed'
    BY <1>2, ArmedAfter
  <2>2. last' \in Keys /\ quiet' = FALSE
    BY <1>2 DEF Press, Events
  <2>. QED
    BY <1>1, <2>1, <2>2 DEF TypeOK
<1>3. CASE ~Counts(e)
  BY <1>1, <1>3 DEF Press, TypeOK
<1>. QED
  BY <1>2, <1>3

LEMMA NextTypes == TypeOK /\ [Next]_vars => TypeOK'
<1>. SUFFICES ASSUME TypeOK, [Next]_vars PROVE TypeOK'
  OBVIOUS
<1>1. CASE Wait
  BY <1>1 DEF Wait, TypeOK
<1>2. CASE Render
  BY <1>2 DEF Render, TypeOK
<1>3. CASE UNCHANGED vars
  BY <1>3 DEF vars, TypeOK
<1>. QED
  BY <1>1, <1>2, <1>3, PressTypes DEF Next

(* A sequence that is armed has seen its leader last, even when a render   *)
(* has removed its timer.                                                  *)
ArmedByLeader == armed # {} => last = Leader

LEMMA NextArmed == TypeOK /\ ArmedByLeader /\ [Next]_vars => ArmedByLeader'
<1>. SUFFICES ASSUME TypeOK, ArmedByLeader, [Next]_vars PROVE ArmedByLeader'
  OBVIOUS
<1>. USE DEF ArmedByLeader
<1>1. ASSUME NEW e \in Events, Press(e) PROVE ArmedByLeader'
  <2>1. CASE Counts(e)
    BY <1>1, <2>1, ArmedAfter DEF Press
  <2>2. CASE ~Counts(e)
    BY <1>1, <2>2 DEF Press
  <2>. QED
    BY <2>1, <2>2
<1>2. CASE Wait \/ Render \/ UNCHANGED vars
  BY <1>2 DEF Wait, Render, vars
<1>. QED
  BY <1>1, <1>2 DEF Next

LEMMA NextNavigates == ArmedByLeader /\ [Next]_vars => [page' # page => last = Leader]_vars
<1>. SUFFICES ASSUME ArmedByLeader, Next, page' # page PROVE last = Leader
  OBVIOUS
<1>1. PICK e \in Events : Press(e)
  BY DEF Next, Wait, Render
<1>2. e.key \in armed
  BY <1>1 DEF Press
<1>. QED
  BY <1>2 DEF ArmedByLeader

LEMMA TypingIsNoPress ==
    ASSUME page' # page \/ \E s \in fired' : s.skipInInput,
           NEW e \in Events, e.editable, ~e.mod, Press(e)
    PROVE  FALSE
<1>1. page' = page
  BY DEF Press, Counts
<1>2. PICK s \in fired' : s.skipInInput
  BY <1>1
<1>3. Fires(s, e)
  BY <1>2 DEF Press
<1>4. e.mod \in BOOLEAN
  BY DEF Events
<1>. QED
  BY <1>2, <1>3, <1>4 DEF Fires

-----------------------------------------------------------------------------
(* The dialog of a DAG                                                     *)

LEMMA RunBounds ==
    RunPages!DagsAssumption => DagsOf.maxActive \in Nat /\ DagsOf.maxRequests \in Nat
BY Zenon DEF RunPages!DagsAssumption

LEMMA RunInit == RunPages!DagsAssumption /\ RunPages!Init => RunPages!TypeOK
<1>. SUFFICES ASSUME RunPages!DagsAssumption, RunPages!Init PROVE RunPages!TypeOK
  OBVIOUS
<1>1. x7 \in [DagsOf.dags -> 0..DagsOf.maxActive]
  BY RunBounds DEF RunPages!Init
<1>2. x6 \in Seq(RunPages!Requests) /\ Len(x6) <= DagsOf.maxRequests
  <2>1. Len(<<>>) = 0 /\ <<>> \in Seq(RunPages!Requests)
    OBVIOUS
  <2>. QED
    BY <2>1, RunBounds DEF RunPages!Init
<1>3. x2 \in BOOLEAN /\ x5 \in BOOLEAN /\ x8 \in BOOLEAN
  BY DEF RunPages!Init
<1>. QED
  BY <1>1, <1>2, <1>3 DEF RunPages!Init, RunPages!TypeOK

(* A sequence without one of its elements.                                 *)
LEMMA Removed ==
    ASSUME NEW S, NEW s \in Seq(S), NEW i \in DOMAIN s
    PROVE  /\ SubSeq(s, 1, i - 1) \o SubSeq(s, i + 1, Len(s)) \in Seq(S)
           /\ Len(SubSeq(s, 1, i - 1) \o SubSeq(s, i + 1, Len(s))) = Len(s) - 1
<1>. DEFINE t == SubSeq(s, 1, i - 1)
            u == SubSeq(s, i + 1, Len(s))
<1>1. i \in 1..Len(s) /\ Len(s) \in Nat
  OBVIOUS
<1>2. t \in Seq(S) /\ u \in Seq(S)
  BY <1>1
<1>3. Len(t) = i - 1 /\ Len(u) = Len(s) - i
  BY <1>1
<1>. HIDE DEF t, u
<1>4. t \o u \in Seq(S) /\ Len(t \o u) = Len(t) + Len(u)
  BY <1>2, ConcatProperties
<1>5. Len(t \o u) = Len(s) - 1
  BY <1>1, <1>3, <1>4
<1>. QED
  BY <1>4, <1>5 DEF t, u

(* The requests there were and one more, of which another is followed now. *)
LEMMA Mutated ==
    ASSUME NEW S, NEW s \in Seq(S), NEW r \in S,
           \A i \in DOMAIN s : [s[i] EXCEPT !.followed = FALSE] \in S
    PROVE  LET t == Append([i \in DOMAIN s |-> [s[i] EXCEPT !.followed = FALSE]], r)
           IN  t \in Seq(S) /\ Len(t) = Len(s) + 1
<1>. DEFINE u == [i \in DOMAIN s |-> [s[i] EXCEPT !.followed = FALSE]]
<1>1. DOMAIN s = 1..Len(s) /\ Len(s) \in Nat
  OBVIOUS
<1>2. u \in [1..Len(s) -> S]
  BY <1>1
<1>. HIDE DEF u
<1>3. u \in Seq(S) /\ Len(u) = Len(s)
  BY <1>1, <1>2
<1>4. Append(u, r) \in Seq(S) /\ Len(Append(u, r)) = Len(s) + 1
  BY <1>1, <1>3
<1>. QED
  BY <1>4 DEF u

LEMMA RunTypes ==
    ASSUME RunPages!DagsAssumption, RunPages!TypeOK, [RunPages!Next]_(RunPages!vars)
    PROVE  RunPages!TypeOK'
<1>. USE DEF RunPages!TypeOK
<1>0. RunPages!Blank \in RunPages!Fields
  BY DEF RunPages!Blank, RunPages!Fields, RunPages!DagsAssumption
<1>p. RunPages!pending \in BOOLEAN
  BY DEF RunPages!pending
<1>b. DagsOf.maxActive \in Nat /\ DagsOf.maxRequests \in Nat /\ Len(x6) \in Nat
  <2>1. Len(x6) \in Nat
    OBVIOUS
  <2>. QED
    BY <2>1, RunBounds
<1>1. CASE RunPages!OpenTrigger \/ RunPages!Close \/ RunPages!FetchFails \/ RunPages!Render
  <2>1. CASE RunPages!OpenTrigger
    BY <1>p, <2>1 DEF RunPages!OpenTrigger
  <2>2. CASE RunPages!Close
    BY <1>p, <2>2 DEF RunPages!Close
  <2>3. CASE RunPages!FetchFails
    BY <1>p, <2>3 DEF RunPages!FetchFails, RunPages!Rendered
  <2>4. CASE RunPages!Render
    BY <1>p, <2>4 DEF RunPages!Render
  <2>. QED
    BY <1>1, <2>1, <2>2, <2>3, <2>4
<1>2. CASE RunPages!Submit
  <2>3. x3 \in RunPages!Fields
    BY <1>2 DEF RunPages!Submit
  <2>1. RunPages!Payload \in RunPages!Requests
    BY <2>3 DEF RunPages!Payload, RunPages!Asks, RunPages!Requests, RunPages!Fields
  <2>4. x3' \in RunPages!Fields
    <3>1. [x3 EXCEPT !.error = FALSE] \in RunPages!Fields /\ [x3 EXCEPT !.error = TRUE] \in RunPages!Fields
      BY <2>3 DEF RunPages!Fields
    <3>2. CASE x3.metadata # "invalid"
      BY <1>2, <3>1, <3>2 DEF RunPages!Submit
    <3>3. CASE x3.metadata = "invalid"
      BY <1>2, <3>1, <3>3 DEF RunPages!Submit
    <3>. QED
      BY <3>2, <3>3
  <2>2. x6' \in Seq(RunPages!Requests) /\ Len(x6') <= DagsOf.maxRequests
    <3>1. \A i \in DOMAIN x6 : [x6[i] EXCEPT !.followed = FALSE] \in RunPages!Requests
      <4>1. \A i \in DOMAIN x6 : x6[i] \in RunPages!Requests
        OBVIOUS
      <4>. QED
        BY <4>1 DEF RunPages!Requests
    <3>2. /\ RunPages!Mutate(RunPages!Payload) \in Seq(RunPages!Requests)
          /\ Len(RunPages!Mutate(RunPages!Payload)) = Len(x6) + 1
      BY <2>1, <3>1, Mutated DEF RunPages!Mutate
    <3>3. CASE x3.metadata # "invalid"
      <4>1. x6' = RunPages!Mutate(RunPages!Payload) /\ Len(x6) < DagsOf.maxRequests
        BY <1>2, <3>3 DEF RunPages!Submit
      <4>. QED
        BY <1>b, <3>2, <4>1
    <3>4. CASE x3.metadata = "invalid"
      BY <1>2, <3>4 DEF RunPages!Submit
    <3>. QED
      BY <3>3, <3>4
  <2>. QED
    BY <1>2, <2>2, <2>4 DEF RunPages!Submit, RunPages!DagsAssumption
<1>3. ASSUME NEW new \in RunPages!Fields, RunPages!Edit(new) PROVE RunPages!TypeOK'
  BY <1>3 DEF RunPages!Edit, RunPages!DagsAssumption
<1>4. ASSUME NEW m \in DagsOf.runModes, RunPages!SetRunMode(m) PROVE RunPages!TypeOK'
  BY <1>3, <1>4 DEF RunPages!SetRunMode, RunPages!Edit, RunPages!Fields
<1>5. ASSUME NEW x \in DagsOf.metadata, RunPages!SetMetadataText(x) PROVE RunPages!TypeOK'
  BY <1>3, <1>5 DEF RunPages!SetMetadataText, RunPages!Edit, RunPages!Fields
<1>6. ASSUME NEW b \in BOOLEAN, RunPages!SetForce(b) PROVE RunPages!TypeOK'
  BY <1>3, <1>6 DEF RunPages!SetForce, RunPages!Edit, RunPages!Fields
<1>7. ASSUME NEW d \in DagsOf.dags, RunPages!Show(d) \/ RunPages!Fetched(d) PROVE RunPages!TypeOK'
  BY <1>0, <1>p, <1>7 DEF RunPages!Show, RunPages!Fetched, RunPages!Rendered, RunPages!DagsAssumption
<1>8. ASSUME NEW d \in DagsOf.dags, RunPages!StartElsewhere(d) \/ RunPages!End(d) PROVE RunPages!TypeOK'
  BY <1>b, <1>8 DEF RunPages!StartElsewhere, RunPages!End
<1>9. ASSUME NEW i \in DOMAIN x6, RunPages!Receive(i) PROVE RunPages!TypeOK'
  <2>1. x6[i] \in RunPages!Requests
    OBVIOUS
  <2>2. PICK a \in {"refused", "started"} : x6' = [x6 EXCEPT ![i].answer = a]
    BY <1>9 DEF RunPages!Receive
  <2>3. [x6[i] EXCEPT !.answer = a] \in RunPages!Requests
    BY <2>1 DEF RunPages!Requests
  <2>4. x6' \in Seq(RunPages!Requests) /\ Len(x6') = Len(x6)
    BY <2>2, <2>3
  <2>5. x7' \in [DagsOf.dags -> 0..DagsOf.maxActive]
    <3>1. x6[i].dag \in DagsOf.dags
      BY <2>1 DEF RunPages!Requests
    <3>. QED
      BY <1>b, <1>9, <3>1 DEF RunPages!Receive
  <2>. QED
    BY <1>9, <2>4, <2>5 DEF RunPages!Receive
<1>10. ASSUME NEW i \in DOMAIN x6, RunPages!Succeed(i) \/ RunPages!Fail(i) PROVE RunPages!TypeOK'
  <2>0. RunPages!Answered(i)
    BY <1>10 DEF RunPages!Succeed, RunPages!Fail
  <2>1. x6' \in Seq(RunPages!Requests) /\ Len(x6') <= DagsOf.maxRequests
    <3>1. x6' \in Seq(RunPages!Requests) /\ Len(x6') = Len(x6) - 1
      BY <2>0, Removed DEF RunPages!Answered
    <3>. QED
      BY <1>b, <3>1
  <2>2. CASE RunPages!Succeed(i)
    BY <2>1, <2>2 DEF RunPages!Succeed
  <2>3. CASE RunPages!Fail(i)
    BY <2>1, <2>3 DEF RunPages!Fail
  <2>. QED
    BY <1>10, <2>2, <2>3
<1>11. CASE UNCHANGED RunPages!vars
  BY <1>11 DEF RunPages!vars
<1>12. ASSUME NEW d \in DagsOf.dags, RunPages!TriggerFromPalette(d) PROVE RunPages!TypeOK'
  <2>1. RunPages!Asks(d, "", FALSE, "palette") \in RunPages!Requests
    BY DEF RunPages!Asks, RunPages!Requests, RunPages!DagsAssumption
  <2>. DEFINE r == RunPages!Asks(d, "", FALSE, "palette")
  <2>2. x6' = Append(x6, r) /\ Len(x6) < DagsOf.maxRequests
    BY <1>12 DEF RunPages!TriggerFromPalette
  <2>. HIDE DEF r
  <2>3. Append(x6, r) \in Seq(RunPages!Requests) /\ Len(Append(x6, r)) = Len(x6) + 1
    BY <2>1, AppendProperties DEF r
  <2>4. x6' \in Seq(RunPages!Requests) /\ Len(x6') <= DagsOf.maxRequests
    BY <1>b, <2>2, <2>3
  <2>. QED
    BY <1>12, <2>4 DEF RunPages!TriggerFromPalette
<1>. QED
  BY <1>1, <1>2, <1>4, <1>5, <1>6, <1>7, <1>8, <1>9, <1>10, <1>11, <1>12 DEF RunPages!Next

-----------------------------------------------------------------------------
(* The dialog of a Flow, for any parameters p                              *)

LEMMA FlowBounds ==
    ASSUME NEW p, FlowForm(p)!InputsAssumption
    PROVE  p.maxActive \in Nat /\ p.maxRequests \in Nat
BY Zenon DEF FlowForm!InputsAssumption

LEMMA FlowInit ==
    ASSUME NEW p, FlowForm(p)!FlowsAssumption, FlowForm(p)!InputsAssumption, FlowForm(p)!Init
    PROVE  FlowForm(p)!TypeOK
<1>0. p.maxActive \in Nat /\ p.maxRequests \in Nat
  BY DEF FlowForm!InputsAssumption
<1>1. x7 \in [p.flows -> 0..p.maxActive]
  BY <1>0 DEF FlowForm!Init
<1>2. x6 \in Seq(FlowForm(p)!Requests) /\ Len(x6) <= p.maxRequests
  BY <1>0 DEF FlowForm!Init
<1>3. x4 \in [p.flows -> BOOLEAN \cup {None}]
  BY DEF FlowForm!Init
<1>4. x2 \in BOOLEAN /\ x5 \in BOOLEAN /\ x8 \in BOOLEAN
  BY DEF FlowForm!Init
<1>5. x1 \in p.flows /\ x3 = None
  BY DEF FlowForm!Init
<1>. QED
  BY <1>1, <1>2, <1>3, <1>4, <1>5 DEF FlowForm!TypeOK

(* What is rendered is a form or nothing.                                  *)
LEMMA FlowRendered ==
    ASSUME NEW p, FlowForm(p)!InputsAssumption, FlowForm(p)!TypeOK,
           NEW wanted \in BOOLEAN, NEW isRunning \in BOOLEAN \cup {None}, NEW error \in BOOLEAN
    PROVE  FlowForm(p)!Rendered(wanted, isRunning, error) \in FlowForm(p)!Forms \cup {None}
<1>1. CASE isRunning = None
  BY <1>1 DEF FlowForm!Rendered
<1>2. CASE isRunning \in BOOLEAN
  <2>1. FlowForm(p)!Fresh(isRunning) \in FlowForm(p)!Forms
    BY <1>2 DEF FlowForm!Fresh, FlowForm!Forms, FlowForm!Modes, FlowForm!StandardModes,
                FlowForm!NoDate, FlowForm!InputsAssumption
  <2>. QED
    BY <2>1 DEF FlowForm!Rendered, FlowForm!TypeOK
<1>. QED
  BY <1>1, <1>2

LEMMA FlowEdits ==
    ASSUME NEW p, FlowForm(p)!TypeOK, NEW form \in FlowForm(p)!Forms, x3' = form,
           UNCHANGED <<x1, x2, x4, x5, x6, x7, x8>>
    PROVE  FlowForm(p)!TypeOK'
BY DEF FlowForm!TypeOK

LEMMA PayloadIsARequest ==
    ASSUME NEW p, FlowForm(p)!FlowsAssumption, FlowForm(p)!InputsAssumption,
           FlowForm(p)!TypeOK, x3 \in FlowForm(p)!Forms
    PROVE  FlowForm(p)!Payload \in FlowForm(p)!Requests
<1>1. /\ x3.mode \in FlowForm(p)!Modes /\ x3.custom \in p.customModes
      /\ x3.start \in p.dates \cup {FlowForm(p)!NoDate}
      /\ x3.end \in p.dates \cup {FlowForm(p)!NoDate}
      /\ x3.force \in BOOLEAN /\ x3.extra \in p.extras
  BY DEF FlowForm!Forms
<1>2. FlowForm(p)!EffectiveMode \in FlowForm(p)!Modes \cup p.customModes
  BY <1>1 DEF FlowForm!EffectiveMode
<1>3. x3.mode # "custom" => x3.mode \in FlowForm(p)!StandardModes
  BY <1>1 DEF FlowForm!Modes
<1>4. x3.extra \in FlowForm(p)!ExtraKinds
  BY <1>1 DEF FlowForm!InputsAssumption
<1>5. (IF x3.mode = "custom" THEN None ELSE x3.mode) \in FlowForm(p)!StandardModes \cup {None}
  BY <1>3
<1>6. x1 \in p.flows
  BY DEF FlowForm!TypeOK
<1>7. FlowForm(p)!NoDate \in p.dates \cup {FlowForm(p)!NoDate}
  OBVIOUS
<1>. QED
  BY <1>1, <1>2, <1>4, <1>5, <1>6, <1>7 DEF FlowForm!Payload, FlowForm!Requests

LEMMA FlowUser ==
    ASSUME NEW p, FlowForm(p)!FlowsAssumption, FlowForm(p)!InputsAssumption,
           FlowForm(p)!TypeOK, FlowForm(p)!User
    PROVE  FlowForm(p)!TypeOK'
<1>. USE DEF FlowForm!TypeOK
<1>p. FlowForm(p)!pending \in BOOLEAN
  BY DEF FlowForm!pending
<1>1. CASE FlowForm(p)!OpenTrigger
  BY <1>1, <1>p, FlowRendered DEF FlowForm!OpenTrigger
<1>2. CASE FlowForm(p)!CloseTrigger
  BY <1>2, <1>p DEF FlowForm!CloseTrigger
<1>3. ASSUME NEW f \in p.flows, NEW t \in BOOLEAN, FlowForm(p)!Show(f, t) PROVE FlowForm(p)!TypeOK'
  <2>1. x3' \in FlowForm(p)!Forms \cup {None}
    BY <1>3, FlowRendered DEF FlowForm!Show
  <2>. QED
    BY <1>3, <1>p, <2>1 DEF FlowForm!Show
<1>4. ASSUME x3 # None PROVE x3 \in FlowForm(p)!Forms
  BY <1>4
<1>5. CASE FlowForm(p)!SetAdvancedOpen
  <2>1. [x3 EXCEPT !.advanced = TRUE] \in FlowForm(p)!Forms /\ [x3 EXCEPT !.advanced = FALSE] \in FlowForm(p)!Forms
    BY <1>4, <1>5 DEF FlowForm!SetAdvancedOpen, FlowForm!Edit, FlowForm!Forms
  <2>2. x3' \in FlowForm(p)!Forms
    <3>1. x3.advanced \in BOOLEAN
      BY <1>4, <1>5 DEF FlowForm!SetAdvancedOpen, FlowForm!Edit, FlowForm!Forms
    <3>2. CASE x3.advanced = TRUE
      BY <1>5, <2>1, <3>2 DEF FlowForm!SetAdvancedOpen, FlowForm!Edit
    <3>3. CASE x3.advanced = FALSE
      BY <1>5, <2>1, <3>3 DEF FlowForm!SetAdvancedOpen, FlowForm!Edit
    <3>. QED
      BY <3>1, <3>2, <3>3
  <2>. QED
    BY <1>5, <2>2, FlowEdits DEF FlowForm!SetAdvancedOpen, FlowForm!Edit
<1>6. ASSUME NEW m \in FlowForm(p)!Modes, FlowForm(p)!SetMode(m) PROVE FlowForm(p)!TypeOK'
  <2>1. x3' \in FlowForm(p)!Forms
    BY <1>4, <1>6 DEF FlowForm!SetMode, FlowForm!Edit, FlowForm!Forms
  <2>. QED
    BY <1>6, <2>1, FlowEdits DEF FlowForm!SetMode, FlowForm!Edit
<1>7. ASSUME NEW m \in p.customModes, FlowForm(p)!SetCustomMode(m) PROVE FlowForm(p)!TypeOK'
  <2>1. x3' \in FlowForm(p)!Forms
    BY <1>4, <1>7 DEF FlowForm!SetCustomMode, FlowForm!Edit, FlowForm!Forms
  <2>. QED
    BY <1>7, <2>1, FlowEdits DEF FlowForm!SetCustomMode, FlowForm!Edit
<1>8. ASSUME NEW d \in p.dates \cup {FlowForm(p)!NoDate},
             FlowForm(p)!SetRequestedStart(d) \/ FlowForm(p)!SetRequestedEnd(d)
      PROVE  FlowForm(p)!TypeOK'
  <2>1. x3' \in FlowForm(p)!Forms
    BY <1>4, <1>8 DEF FlowForm!SetRequestedStart, FlowForm!SetRequestedEnd, FlowForm!Edit, FlowForm!Forms
  <2>. QED
    BY <1>8, <2>1, FlowEdits DEF FlowForm!SetRequestedStart, FlowForm!SetRequestedEnd, FlowForm!Edit
<1>9. ASSUME NEW x \in p.extras, FlowForm(p)!SetParametersText(x) PROVE FlowForm(p)!TypeOK'
  <2>1. x3' \in FlowForm(p)!Forms
    BY <1>4, <1>9 DEF FlowForm!SetParametersText, FlowForm!Edit, FlowForm!Forms
  <2>. QED
    BY <1>9, <2>1, FlowEdits DEF FlowForm!SetParametersText, FlowForm!Edit
<1>10. ASSUME NEW b \in BOOLEAN, FlowForm(p)!SetForce(b) PROVE FlowForm(p)!TypeOK'
  <2>1. x3' \in FlowForm(p)!Forms
    BY <1>4, <1>10 DEF FlowForm!SetForce, FlowForm!Edit, FlowForm!Forms
  <2>. QED
    BY <1>10, <2>1, FlowEdits DEF FlowForm!SetForce, FlowForm!Edit
<1>11. CASE FlowForm(p)!Submit
  <2>1. x3 \in FlowForm(p)!Forms
    BY <1>4, <1>11 DEF FlowForm!Submit
  <2>2. FlowForm(p)!Payload \in FlowForm(p)!Requests
    BY <2>1, PayloadIsARequest
  <2>3. FlowForm(p)!Problem \in FlowForm(p)!Errors \cup {None}
    BY DEF FlowForm!Problem, FlowForm!Errors
  <2>4. x3' \in FlowForm(p)!Forms
    BY <1>11, <2>1, <2>3 DEF FlowForm!Submit, FlowForm!Forms
  <2>5. x6' \in Seq(FlowForm(p)!Requests) /\ Len(x6') <= p.maxRequests
    <3>1. \A i \in DOMAIN x6 : [x6[i] EXCEPT !.followed = FALSE] \in FlowForm(p)!Requests
      <4>1. \A i \in DOMAIN x6 : x6[i] \in FlowForm(p)!Requests
        OBVIOUS
      <4>. QED
        BY <4>1 DEF FlowForm!Requests
    <3>2. /\ FlowForm(p)!Mutate(FlowForm(p)!Payload) \in Seq(FlowForm(p)!Requests)
          /\ Len(FlowForm(p)!Mutate(FlowForm(p)!Payload)) = Len(x6) + 1
      BY <2>2, <3>1, Mutated DEF FlowForm!Mutate
    <3>3. CASE FlowForm(p)!Problem = None
      <4>1. x6' = FlowForm(p)!Mutate(FlowForm(p)!Payload) /\ Len(x6) < p.maxRequests
        BY <1>11, <3>3 DEF FlowForm!Submit
      <4>2. Len(x6) \in Nat /\ p.maxRequests \in Nat
        <5>1. Len(x6) \in Nat
          OBVIOUS
        <5>. QED
          BY <5>1, FlowBounds
      <4>. QED
        BY <3>2, <4>1, <4>2
    <3>4. CASE FlowForm(p)!Problem # None
      BY <1>11, <3>4 DEF FlowForm!Submit
    <3>. QED
      BY <3>3, <3>4
  <2>. QED
    BY <1>11, <2>4, <2>5 DEF FlowForm!Submit
<1>. QED
  BY <1>1, <1>2, <1>3, <1>5, <1>6, <1>7, <1>8, <1>9, <1>10, <1>11 DEF FlowForm!User

LEMMA FlowRest ==
    ASSUME NEW p, FlowForm(p)!FlowsAssumption, FlowForm(p)!InputsAssumption,
           FlowForm(p)!TypeOK, FlowForm(p)!Rest
    PROVE  FlowForm(p)!TypeOK'
<1>. USE DEF FlowForm!TypeOK
<1>0. p.maxActive \in Nat /\ p.maxRequests \in Nat
  BY DEF FlowForm!InputsAssumption
<1>p. FlowForm(p)!pending \in BOOLEAN
  BY DEF FlowForm!pending
<1>1. CASE FlowForm(p)!FetchFails \/ FlowForm(p)!Render
  BY <1>1, <1>p DEF FlowForm!FetchFails, FlowForm!Render
<1>2. ASSUME NEW f \in p.flows, FlowForm(p)!Refresh(f) PROVE FlowForm(p)!TypeOK'
  <2>1. PICK b \in BOOLEAN : x4' = [x4 EXCEPT ![f] = b]
    <3>1. (x7[f] > 0) \in BOOLEAN
      OBVIOUS
    <3>. QED
      BY <1>2, <3>1, Zenon DEF FlowForm!Refresh
  <2>2. x4' \in [p.flows -> BOOLEAN \cup {None}]
    BY <2>1
  <2>3. x5' \in BOOLEAN
    BY <1>2, Zenon DEF FlowForm!Refresh
  <2>4. x4'[x1] \in BOOLEAN \cup {None}
    BY <2>2
  <2>5. x3' \in FlowForm(p)!Forms \cup {None}
    BY <1>2, <2>3, <2>4, FlowRendered DEF FlowForm!Refresh
  <2>. QED
    BY <1>2, <1>p, <2>2, <2>3, <2>5 DEF FlowForm!Refresh
<1>3. ASSUME NEW f \in p.flows, FlowForm(p)!StartElsewhere(f) \/ FlowForm(p)!End(f) PROVE FlowForm(p)!TypeOK'
  <2>1. x7' \in [p.flows -> 0..p.maxActive]
    <3>1. PICK n \in 0..p.maxActive : x7' = [x7 EXCEPT ![f] = n]
      BY <1>0, <1>3 DEF FlowForm!StartElsewhere, FlowForm!End
    <3>. QED
      BY <3>1
  <2>2. CASE FlowForm(p)!StartElsewhere(f)
    BY <2>1, <2>2 DEF FlowForm!StartElsewhere
  <2>3. CASE FlowForm(p)!End(f)
    BY <2>1, <2>3 DEF FlowForm!End
  <2>. QED
    BY <1>3, <2>2, <2>3
<1>4. ASSUME NEW i \in DOMAIN x6, FlowForm(p)!Receive(i) PROVE FlowForm(p)!TypeOK'
  <2>1. x6[i] \in FlowForm(p)!Requests
    OBVIOUS
  <2>2. PICK a \in {"refused", "started"} : x6' = [x6 EXCEPT ![i].answer = a]
    BY <1>4 DEF FlowForm!Receive
  <2>3. [x6[i] EXCEPT !.answer = a] \in FlowForm(p)!Requests
    BY <2>1 DEF FlowForm!Requests
  <2>4. x6' \in Seq(FlowForm(p)!Requests) /\ Len(x6') = Len(x6)
    BY <2>2, <2>3
  <2>5. x7' \in [p.flows -> 0..p.maxActive]
    <3>1. x6[i].flow \in p.flows
      BY <2>1 DEF FlowForm!Requests
    <3>. QED
      BY <1>0, <1>4, <3>1 DEF FlowForm!Receive
  <2>. QED
    BY <1>4, <2>4, <2>5 DEF FlowForm!Receive
<1>5. ASSUME NEW i \in DOMAIN x6, FlowForm(p)!Succeed(i) \/ FlowForm(p)!Fail(i) PROVE FlowForm(p)!TypeOK'
  <2>1. FlowForm(p)!Answered(i)
    BY <1>5 DEF FlowForm!Succeed, FlowForm!Fail
  <2>2. x6' \in Seq(FlowForm(p)!Requests) /\ Len(x6') <= p.maxRequests
    <3>1. x6' \in Seq(FlowForm(p)!Requests) /\ Len(x6') = Len(x6) - 1
      BY <2>1, Removed DEF FlowForm!Answered
    <3>. QED
      BY <1>0, <3>1
  <2>3. CASE FlowForm(p)!Succeed(i)
    BY <2>2, <2>3 DEF FlowForm!Succeed
  <2>4. CASE FlowForm(p)!Fail(i)
    BY <2>2, <2>4 DEF FlowForm!Fail
  <2>. QED
    BY <1>5, <2>3, <2>4
<1>. QED
  BY <1>1, <1>2, <1>3, <1>4, <1>5 DEF FlowForm!Rest

LEMMA FlowTypes ==
    ASSUME NEW p, FlowForm(p)!FlowsAssumption, FlowForm(p)!InputsAssumption,
           FlowForm(p)!TypeOK, [FlowForm(p)!Next]_(FlowForm(p)!vars)
    PROVE  FlowForm(p)!TypeOK'
<1>1. CASE UNCHANGED FlowForm(p)!vars
  BY <1>1 DEF FlowForm!vars, FlowForm!TypeOK
<1>. QED
  BY <1>1, FlowUser, FlowRest DEF FlowForm!Next

(* What the form sends without a problem has its keys managed.             *)
Managed(r) ==
    /\ r.extra \in {"empty", "values"}
    /\ r.run_mode # None => r.trigger_mode = r.run_mode
    /\ r.run_mode = "backfill" => r.start # 0
    /\ r.run_mode # "backfill" => {r.start, r.end} = {0}
    /\ r.end # 0 => r.end >= r.start

LEMMA PayloadIsManaged ==
    ASSUME NEW p, FlowForm(p)!FlowsAssumption, FlowForm(p)!InputsAssumption,
           x3 \in FlowForm(p)!Forms, FlowForm(p)!Problem = None
    PROVE  Managed(FlowForm(p)!Payload)
<1>1. /\ x3.mode \in FlowForm(p)!Modes
      /\ x3.start \in p.dates \cup {0} /\ x3.end \in p.dates \cup {0}
      /\ x3.extra \in FlowForm(p)!ExtraKinds
  BY DEF FlowForm!Forms, FlowForm!NoDate, FlowForm!InputsAssumption
<1>2. None \notin FlowForm(p)!Errors /\ None \notin FlowForm(p)!StandardModes
  BY DEF FlowForm!FlowsAssumption
<1>3. x3.start \in Nat /\ x3.end \in Nat
  <2>1. p.dates \subseteq Nat
    BY DEF FlowForm!InputsAssumption
  <2>. QED
    BY <1>1, <2>1
<1>4. /\ ~(x3.mode = "backfill" /\ x3.start = 0)
      /\ FlowForm(p)!NoEndBeforeStart
      /\ x3.extra # "invalid" /\ x3.extra # "reserved"
  BY <1>2 DEF FlowForm!Problem, FlowForm!Errors, FlowForm!NoDate
<1>5. x3.end # 0 => x3.end >= x3.start
  BY <1>3, <1>4 DEF FlowForm!NoEndBeforeStart, FlowForm!NoDate
<1>6. x3.extra \in {"empty", "values"}
  BY <1>1, <1>4 DEF FlowForm!ExtraKinds
<1>7. CASE x3.mode = "backfill"
  BY <1>3, <1>4, <1>5, <1>6, <1>7
     DEF Managed, FlowForm!Payload, FlowForm!EffectiveMode, FlowForm!NoDate
<1>8. CASE x3.mode # "backfill"
  <2>1. FlowForm(p)!Payload.run_mode # "backfill"
    BY <1>2, <1>8 DEF FlowForm!Payload, FlowForm!StandardModes
  <2>2. FlowForm(p)!Payload.start = 0 /\ FlowForm(p)!Payload.end = 0
    BY <1>8 DEF FlowForm!Payload, FlowForm!NoDate
  <2>3. FlowForm(p)!Payload.run_mode # None =>
            FlowForm(p)!Payload.trigger_mode = FlowForm(p)!Payload.run_mode
    BY DEF FlowForm!Payload, FlowForm!EffectiveMode
  <2>4. FlowForm(p)!Payload.extra \in {"empty", "values"}
    BY <1>6 DEF FlowForm!Payload
  <2>. QED
    BY <2>1, <2>2, <2>3, <2>4 DEF Managed
<1>. QED
  BY <1>7, <1>8

LEMMA FlowManaged ==
    ASSUME NEW p, FlowForm(p)!FlowsAssumption, FlowForm(p)!InputsAssumption,
           FlowForm(p)!TypeOK, FlowForm(p)!KeysAreManaged,
           [FlowForm(p)!Next]_(FlowForm(p)!vars)
    PROVE  FlowForm(p)!KeysAreManaged'
<1>. DEFINE Sound == {r \in FlowForm(p)!Requests : Managed(r)}
<1>0. x6 \in Seq(FlowForm(p)!Requests) /\ Len(x6) \in Nat /\ DOMAIN x6 = 1..Len(x6)
  BY DEF FlowForm!TypeOK
<1>1. x6 \in Seq(Sound)
  <2>1. \A i \in DOMAIN x6 : x6[i] \in Sound
    <3>1. \A i \in DOMAIN x6 : x6[i] \in FlowForm(p)!Requests
      BY <1>0
    <3>2. \A i \in DOMAIN x6 : Managed(x6[i])
      BY DEF FlowForm!KeysAreManaged, FlowForm!NoDate, Managed
    <3>. QED
      BY <3>1, <3>2
  <2>. HIDE DEF Sound
  <2>. QED
    BY <1>0, <2>1
<1>. SUFFICES x6' \in Seq(Sound)
  <2>1. \A i \in DOMAIN x6' : x6'[i] \in Sound
    <3>. HIDE DEF Sound
    <3>. QED
      OBVIOUS
  <2>. QED
    BY <2>1 DEF FlowForm!KeysAreManaged, FlowForm!NoDate, Managed
<1>a. \A i \in DOMAIN x6 : x6[i] \in Sound
  <2>. HIDE DEF Sound
  <2>. QED
    BY <1>1
<1>2. CASE FlowForm(p)!Submit
  <2>1. CASE FlowForm(p)!Problem = None
    <3>1. x3 \in FlowForm(p)!Forms
      BY <1>2 DEF FlowForm!Submit, FlowForm!TypeOK
    <3>2. FlowForm(p)!Payload \in Sound
      BY <2>1, <3>1, PayloadIsManaged, PayloadIsARequest
    <3>3. \A i \in DOMAIN x6 : [x6[i] EXCEPT !.followed = FALSE] \in Sound
      BY <1>a DEF FlowForm!Requests, Managed
    <3>4. x6' = FlowForm(p)!Mutate(FlowForm(p)!Payload)
      BY <1>2, <2>1 DEF FlowForm!Submit
    <3>. HIDE DEF Sound
    <3>. QED
      BY <1>1, <3>2, <3>3, <3>4, Mutated DEF FlowForm!Mutate
  <2>2. CASE FlowForm(p)!Problem # None
    BY <1>1, <1>2, <2>2 DEF FlowForm!Submit
  <2>. QED
    BY <2>1, <2>2
<1>3. ASSUME NEW i \in DOMAIN x6, FlowForm(p)!Receive(i) PROVE x6' \in Seq(Sound)
  <2>1. PICK a \in {"refused", "started"} : x6' = [x6 EXCEPT ![i].answer = a]
    BY <1>3 DEF FlowForm!Receive
  <2>2. [x6[i] EXCEPT !.answer = a] \in Sound
    BY <1>a DEF FlowForm!Requests, Managed
  <2>. HIDE DEF Sound
  <2>. QED
    BY <1>1, <2>1, <2>2
<1>4. ASSUME NEW i \in DOMAIN x6, FlowForm(p)!Succeed(i) \/ FlowForm(p)!Fail(i)
      PROVE  x6' \in Seq(Sound)
  <2>1. FlowForm(p)!Answered(i)
    BY <1>4 DEF FlowForm!Succeed, FlowForm!Fail
  <2>. HIDE DEF Sound
  <2>. QED
    BY <1>1, <2>1, Removed DEF FlowForm!Answered
<1>5. ASSUME UNCHANGED x6 PROVE x6' \in Seq(Sound)
  BY <1>1, <1>5
<1>. HIDE DEF Sound
<1>6. CASE FlowForm(p)!User
  BY <1>2, <1>5, <1>6
     DEF FlowForm!User, FlowForm!OpenTrigger, FlowForm!CloseTrigger, FlowForm!SetAdvancedOpen,
         FlowForm!Show, FlowForm!SetMode, FlowForm!SetCustomMode, FlowForm!SetRequestedStart,
         FlowForm!SetRequestedEnd, FlowForm!SetParametersText, FlowForm!SetForce, FlowForm!Edit
<1>7. CASE FlowForm(p)!Rest
  BY <1>3, <1>4, <1>5, <1>7
     DEF FlowForm!Rest, FlowForm!FetchFails, FlowForm!Render, FlowForm!Refresh,
         FlowForm!StartElsewhere, FlowForm!End
<1>8. CASE UNCHANGED FlowForm(p)!vars
  BY <1>5, <1>8 DEF FlowForm!vars
<1>. QED
  BY <1>6, <1>7, <1>8 DEF FlowForm!Next

-----------------------------------------------------------------------------
(* The log of a run                                                        *)

(* What is cached or on its way for a selection was asked for it, of the   *)
(* log there was then.                                                     *)
AnswersFit ==
    \A s \in Log!Selections :
        /\ x5[s] # None => x5[s].of = s /\ x5[s].upTo <= Len(x1)
        /\ x7[s] # None => x7[s].of = s /\ x7[s].upTo <= Len(x1)

LEMMA LogInit == Log!TasksAssumption /\ Log!Init => Log!TypeOK /\ AnswersFit
<1>. SUFFICES ASSUME Log!TasksAssumption, Log!Init PROVE Log!TypeOK /\ AnswersFit
  OBVIOUS
<1>1. x1 \in Seq(Log!Lines) /\ Len(x1) <= LogOf.maxLines
  BY DEF Log!TasksAssumption, Log!Init
<1>2. x2 \in BOOLEAN
  BY DEF Log!Init
<1>. QED
  BY <1>1, <1>2 DEF Log!Init, Log!TypeOK, AnswersFit

LEMMA LogTypes ==
    ASSUME Log!TasksAssumption, Log!TypeOK, AnswersFit, [Log!Next]_(Log!vars)
    PROVE  Log!TypeOK' /\ AnswersFit'
<1>. USE DEF Log!TypeOK, AnswersFit
<1>1. x1 \in Seq(Log!Lines) /\ Len(x1) \in Nat /\ LogOf.maxLines \in Nat
  BY DEF Log!TasksAssumption
<1>2. ASSUME NEW l \in Log!Lines, Log!SaveLine(l) PROVE Log!TypeOK' /\ AnswersFit'
  <2>1. x1' \in Seq(Log!Lines) /\ Len(x1') = Len(x1) + 1 /\ Len(x1') <= LogOf.maxLines
    BY <1>1, <1>2 DEF Log!SaveLine
  <2>2. \A a \in Log!Answers : a.upTo <= Len(x1) => a.upTo <= Len(x1')
    BY <1>1, <2>1 DEF Log!Answers
  <2>3. \A s \in Log!Selections :
            /\ x5[s] # None => x5[s].upTo <= Len(x1')
            /\ x7[s] # None => x7[s].upTo <= Len(x1')
    BY <2>2
  <2>. QED
    BY <1>2, <2>1, <2>3 DEF Log!SaveLine
<1>3. CASE Log!End
  BY <1>3 DEF Log!End
<1>4. CASE Log!Learn
  BY <1>4 DEF Log!Learn
<1>5. CASE Log!Poll
  BY <1>5 DEF Log!Poll
<1>6. ASSUME NEW s \in Log!Selections, Log!Respond(s) PROVE Log!TypeOK' /\ AnswersFit'
  <2>. DEFINE a == [of |-> s, upTo |-> Len(x1)]
  <2>1. a \in Log!Answers
    BY <1>1 DEF Log!Answers
  <2>2. x7' \in [Log!Selections -> Log!Answers \cup {None}]
    BY <1>6, <2>1 DEF Log!Respond
  <2>3. \A t \in Log!Selections : x7'[t] # None => x7'[t].of = t /\ x7'[t].upTo <= Len(x1)
    BY <1>1, <1>6 DEF Log!Respond
  <2>. QED
    BY <1>6, <2>2, <2>3 DEF Log!Respond
<1>7. ASSUME NEW s \in Log!Selections, Log!Fail(s) PROVE Log!TypeOK' /\ AnswersFit'
  BY <1>7 DEF Log!Fail
<1>8. ASSUME NEW s \in Log!Selections, Log!Select(s) PROVE Log!TypeOK' /\ AnswersFit'
  BY <1>8 DEF Log!Select
<1>9. ASSUME NEW s \in Log!Selections, Log!Receive(s) PROVE Log!TypeOK' /\ AnswersFit'
  BY <1>9 DEF Log!Receive
<1>10. ASSUME NEW level \in LogOf.levels, Log!ToggleLevel(level) PROVE Log!TypeOK' /\ AnswersFit'
  BY <1>10 DEF Log!ToggleLevel
<1>11. CASE UNCHANGED Log!vars
  BY <1>11 DEF Log!vars
<1>. QED
  BY <1>2, <1>3, <1>4, <1>5, <1>6, <1>7, <1>8, <1>9, <1>10, <1>11 DEF Log!Next

LEMMA LogDisplays == Log!TypeOK /\ AnswersFit => Log!DisplayIsSelection
<1>. SUFFICES ASSUME Log!TypeOK, AnswersFit, x5[x4] # None PROVE
        /\ x5[x4].upTo <= Len(x1)
        /\ Log!Displayed = {n \in 1..x5[x4].upTo :
                                /\ x4 # All => x1[n].task = x4
                                /\ x8 # {} => x1[n].level \in x8}
  BY DEF Log!DisplayIsSelection
<1>1. x5[x4].of = x4 /\ x5[x4].upTo <= Len(x1)
  BY DEF Log!TypeOK, AnswersFit
<1>2. Log!Displayed = {n \in Log!LinesOf(x5[x4]) : x8 = {} \/ x1[n].level \in x8}
  BY DEF Log!Displayed, Log!Filtered
<1>3. Log!LinesOf(x5[x4]) = {n \in 1..x5[x4].upTo : x4 \in {All, x1[n].task}}
  BY <1>1 DEF Log!LinesOf
<1>. QED
  BY <1>1, <1>2, <1>3

-----------------------------------------------------------------------------
(* The lists of runs                                                       *)

OncePerRun(list) == \A x, y \in list : x.id = y.id => x = y

Lacks(list, ids) == \A x \in list : x.id \notin ids

(* Neither an answer on its way nor a list that is not stale has a run that*)
(* its page was told is cleared.                                           *)
AnswersLackCleared ==
    \A k \in Lists!Keys :
        /\ x9[k] # None /\ x9[k].answer # None =>
              OncePerRun(x9[k].answer) /\ Lacks(x9[k].answer, x11[k])
        /\ k \notin x8 /\ x6[k] # None => Lacks(x6[k], x11[k])

ListsInv == Lists!TypeOK /\ AnswersLackCleared

LEMMA ListsInit == Lists!PagesAssumption /\ Lists!Init => ListsInv
<1>. SUFFICES ASSUME Lists!PagesAssumption, Lists!Init PROVE ListsInv
  OBVIOUS
<1>1. Lists!Keys = {PageOf.keyOf[p] : p \in PageOf.pages}
  BY DEF Lists!Keys
<1>0. x3 \in PageOf.pages /\ PageOf.maxRuns \in Nat
  BY DEF Lists!Init, Lists!PagesAssumption
<1>2. [by |-> x3, answer |-> None] \in Lists!Fetches
  BY <1>0 DEF Lists!Fetches
<1>3. x9 \in [Lists!Keys -> Lists!Fetches \cup {None}]
  BY <1>2 DEF Lists!Init
<1>4. AnswersLackCleared
  BY DEF Lists!Init, AnswersLackCleared
<1>5. x1 \in Seq([dag : PageOf.dags, state : Lists!States]) /\ Len(x1) <= PageOf.maxRuns
  BY <1>0 DEF Lists!Init
<1>6. /\ x2 = {} /\ x7 = {} /\ x8 = {} /\ x10 = None /\ x5 = All /\ x4 = 0
      /\ x3 \in PageOf.pages \ PageOf.details
      /\ x6 = [k \in Lists!Keys |-> None] /\ x11 = [k \in Lists!Keys |-> {}]
  BY DEF Lists!Init
<1>7. Lists!TypeOK
  BY <1>3, <1>5, <1>6 DEF Lists!TypeOK
<1>. QED
  BY <1>4, <1>7 DEF ListsInv

(* What the server answers has a run once, and none that was cleared.      *)
LEMMA ListingFits ==
    ASSUME Lists!PagesAssumption, Lists!TypeOK, NEW scope, NEW limit
    PROVE  /\ Lists!Listing(scope, limit) \in SUBSET Lists!Listed
           /\ OncePerRun(Lists!Listing(scope, limit))
           /\ Lacks(Lists!Listing(scope, limit), x2)
<1>. DEFINE entry(i) == [id |-> i, dag |-> x1[i].dag, state |-> x1[i].state]
<1>1. PICK I \in SUBSET (DOMAIN x1 \ x2) : Lists!Listing(scope, limit) = {entry(i) : i \in I}
  BY DEF Lists!Listing
<1>2. \A i \in I : i \in Lists!Ids /\ x1[i] \in [dag : PageOf.dags, state : Lists!States]
  <2>1. /\ x1 \in Seq([dag : PageOf.dags, state : Lists!States])
        /\ Len(x1) <= PageOf.maxRuns /\ PageOf.maxRuns \in Nat
    BY DEF Lists!TypeOK, Lists!PagesAssumption
  <2>2. DOMAIN x1 = 1..Len(x1) /\ Len(x1) \in Nat
    BY <2>1
  <2>3. \A i \in 1..Len(x1) : i \in 1..PageOf.maxRuns
    BY <2>1, <2>2
  <2>4. \A i \in 1..Len(x1) : x1[i] \in [dag : PageOf.dags, state : Lists!States]
    BY <2>1, ElementOfSeq, Zenon
  <2>5. I \subseteq 1..Len(x1)
    BY <2>2
  <2>. QED
    BY <2>3, <2>4, <2>5 DEF Lists!Ids
<1>3. \A i \in I : entry(i) \in Lists!Listed
  BY <1>2 DEF Lists!Listed
<1>4. \A i \in I : entry(i).id = i
  OBVIOUS
<1>. QED
  BY <1>1, <1>3, <1>4 DEF OncePerRun, Lacks

(* What the server does leaves what was answered as it is, and only adds   *)
(* runs that no page was told are cleared.                                 *)
LEMMA ListsServer ==
    ASSUME Lists!PagesAssumption, ListsInv,
           \/ \E d \in PageOf.dags : Lists!Start(d)
           \/ \E i \in DOMAIN x1 : Lists!Finish(i)
           \/ Lists!ServerClears
    PROVE  ListsInv'
<1>. USE DEF ListsInv, Lists!client
<1>0. /\ x1 \in Seq([dag : PageOf.dags, state : Lists!States])
      /\ Len(x1) <= PageOf.maxRuns /\ PageOf.maxRuns \in Nat /\ Len(x1) \in Nat
      /\ DOMAIN x1 = 1..Len(x1)
  BY DEF Lists!TypeOK, Lists!PagesAssumption
<1>1. ASSUME UNCHANGED <<x3, x4, x5, x6, x7, x8, x9, x11>> PROVE AnswersLackCleared'
  BY <1>1 DEF AnswersLackCleared
<1>2. ASSUME UNCHANGED <<x3, x4, x5, x6, x7, x8, x9, x11>>,
             x1' \in Seq([dag : PageOf.dags, state : Lists!States]), Len(x1') <= PageOf.maxRuns,
             x2 \subseteq x2', x2' \subseteq DOMAIN x1',
             x10' \in [of : PageOf.dags \cup {All}, at : {"sent", "done", "refused"}] \cup {None}
      PROVE  Lists!TypeOK'
  <2>1. x11' \in [Lists!Keys -> SUBSET x2']
    BY <1>2 DEF Lists!TypeOK
  <2>. QED
    BY <1>2, <2>1 DEF Lists!TypeOK
<1>3. ASSUME NEW d \in PageOf.dags, Lists!Start(d) PROVE ListsInv'
  <2>1. [dag |-> d, state |-> "running"] \in [dag : PageOf.dags, state : Lists!States]
    BY DEF Lists!States
  <2>2. /\ x1' \in Seq([dag : PageOf.dags, state : Lists!States])
        /\ Len(x1') = Len(x1) + 1
    BY <1>0, <1>3, <2>1 DEF Lists!Start
  <2>3. Len(x1') <= PageOf.maxRuns /\ x2 \subseteq DOMAIN x1'
    BY <1>0, <1>3, <2>2 DEF Lists!Start, Lists!TypeOK
  <2>. QED
    BY <1>1, <1>2, <1>3, <2>2, <2>3 DEF Lists!Start, Lists!TypeOK
<1>4. ASSUME NEW i \in DOMAIN x1, Lists!Finish(i) PROVE ListsInv'
  <2>1. x1[i] \in [dag : PageOf.dags, state : Lists!States]
    BY <1>0, ElementOfSeq, Zenon
  <2>2. [x1[i] EXCEPT !.state = "ended"] \in [dag : PageOf.dags, state : Lists!States]
    BY <2>1 DEF Lists!States
  <2>3. x1' = [x1 EXCEPT ![i] = [x1[i] EXCEPT !.state = "ended"]]
    BY <1>4 DEF Lists!Finish
  <2>4. /\ x1' \in Seq([dag : PageOf.dags, state : Lists!States])
        /\ Len(x1') = Len(x1) /\ DOMAIN x1' = DOMAIN x1
    BY <1>0, <2>2, <2>3, ExceptSeq
  <2>. QED
    BY <1>0, <1>1, <1>2, <1>4, <2>4 DEF Lists!Finish, Lists!TypeOK
<1>5. CASE Lists!ServerClears
  <2>1. x10 \in [of : PageOf.dags \cup {All}, at : {"sent", "done", "refused"}]
    BY <1>5 DEF Lists!ServerClears, Lists!TypeOK
  <2>2. x10' \in [of : PageOf.dags \cup {All}, at : {"sent", "done", "refused"}]
    BY <1>5, <2>1 DEF Lists!ServerClears
  <2>3. x2 \subseteq x2' /\ x2' \subseteq DOMAIN x1
    BY <1>5 DEF Lists!ServerClears, Lists!TypeOK
  <2>4. x1' = x1 /\ UNCHANGED <<x3, x4, x5, x6, x7, x8, x9, x11>>
    BY <1>5 DEF Lists!ServerClears
  <2>. QED
    BY <1>0, <1>1, <1>2, <2>2, <2>3, <2>4
<1>. QED
  BY <1>3, <1>4, <1>5

(* A request is answered or fails.                                         *)
LEMMA ListsAnswers ==
    ASSUME Lists!PagesAssumption, ListsInv, NEW k \in Lists!Keys,
           Lists!Respond(k) \/ Lists!Receive(k) \/ Lists!FetchFails(k)
    PROVE  ListsInv'
<1>. USE DEF ListsInv, Lists!client, Lists!server
<1>0. x9[k] \in Lists!Fetches
  BY DEF Lists!TypeOK, Lists!Respond, Lists!Receive, Lists!FetchFails
<1>1. CASE Lists!Respond(k)
  <2>. DEFINE answer == Lists!Listing(PageOf.scopeOf[x9[k].by], PageOf.limitOf[x9[k].by])
  <2>1. /\ answer \in SUBSET Lists!Listed
        /\ OncePerRun(answer) /\ Lacks(answer, x2)
    BY ListingFits
  <2>. HIDE DEF answer
  <2>2. x9' = [x9 EXCEPT ![k].answer = answer]
    BY <1>1 DEF Lists!Respond, answer
  <2>3. [x9[k] EXCEPT !.answer = answer] \in Lists!Fetches
    BY <1>0, <2>1 DEF Lists!Fetches
  <2>4. x9' \in [Lists!Keys -> Lists!Fetches \cup {None}]
    BY <2>2, <2>3 DEF Lists!TypeOK
  <2>5. Lists!TypeOK'
    BY <1>1, <2>4 DEF Lists!Respond, Lists!TypeOK
  <2>6. x9'[k].answer = answer /\ \A j \in Lists!Keys \ {k} : x9'[j] = x9[j]
    BY <1>0, <2>2 DEF Lists!TypeOK, Lists!Fetches
  <2>7. Lacks(answer, x11[k])
    BY <2>1 DEF Lists!TypeOK, Lacks
  <2>8. AnswersLackCleared'
    BY <1>1, <2>1, <2>6, <2>7 DEF Lists!Respond, AnswersLackCleared
  <2>. QED
    BY <2>5, <2>8
<1>2. CASE Lists!Receive(k)
  <2>1. x9[k].answer \in SUBSET Lists!Listed /\ OncePerRun(x9[k].answer)
        /\ Lacks(x9[k].answer, x11[k])
    BY <1>0, <1>2 DEF Lists!Receive, Lists!Fetches, AnswersLackCleared
  <2>2. x6' \in [Lists!Keys -> (SUBSET Lists!Listed) \cup {None}]
    BY <1>2, <2>1 DEF Lists!Receive, Lists!TypeOK
  <2>3. x6'[k] = x9[k].answer /\ \A j \in Lists!Keys \ {k} : x6'[j] = x6[j]
    BY <1>2 DEF Lists!Receive, Lists!TypeOK
  <2>4. \A j \in Lists!Keys : x6'[j] # None => OncePerRun(x6'[j])
    BY <2>1, <2>3 DEF Lists!TypeOK, OncePerRun
  <2>5. x9' \in [Lists!Keys -> Lists!Fetches \cup {None}]
    BY <1>2 DEF Lists!Receive, Lists!TypeOK
  <2>6. Lists!TypeOK'
    BY <1>2, <2>2, <2>4, <2>5 DEF Lists!Receive, Lists!TypeOK, OncePerRun
  <2>7. x9'[k] = None /\ \A j \in Lists!Keys \ {k} : x9'[j] = x9[j]
    BY <1>2 DEF Lists!Receive, Lists!TypeOK
  <2>8. AnswersLackCleared'
    BY <1>2, <2>1, <2>3, <2>7 DEF Lists!Receive, AnswersLackCleared
  <2>. QED
    BY <2>6, <2>8
<1>3. CASE Lists!FetchFails(k)
  <2>1. x9' \in [Lists!Keys -> Lists!Fetches \cup {None}]
    BY <1>3 DEF Lists!FetchFails, Lists!TypeOK
  <2>2. Lists!TypeOK'
    BY <1>3, <2>1 DEF Lists!FetchFails, Lists!TypeOK
  <2>3. x9'[k] = None /\ \A j \in Lists!Keys \ {k} : x9'[j] = x9[j]
    BY <1>3 DEF Lists!FetchFails, Lists!TypeOK
  <2>4. AnswersLackCleared'
    BY <1>3, <2>3 DEF Lists!FetchFails, AnswersLackCleared
  <2>. QED
    BY <2>2, <2>4
<1>. QED
  BY <1>1, <1>2, <1>3

(* A request that is sent has no answer yet, and replaces none but its     *)
(* own.                                                                    *)
LEMMA ListsAsks ==
    ASSUME ListsInv, NEW k \in Lists!Keys, NEW p \in PageOf.pages,
           x9' = [x9 EXCEPT ![k] = Lists!Asked(p)]
    PROVE  /\ x9' \in [Lists!Keys -> Lists!Fetches \cup {None}]
           /\ x9'[k].answer = None
           /\ \A j \in Lists!Keys \ {k} : x9'[j] = x9[j]
<1>1. Lists!Asked(p) \in Lists!Fetches /\ Lists!Asked(p).answer = None
  BY DEF Lists!Asked, Lists!Fetches
<1>. QED
  BY <1>1 DEF ListsInv, Lists!TypeOK

LEMMA ListsPages ==
    ASSUME Lists!PagesAssumption, ListsInv,
           \/ Lists!Poll
           \/ \E p \in PageOf.pages : Lists!Navigate(p) \/ \E i \in DOMAIN x1 : Lists!Follow(p, i)
           \/ \E s \in Lists!States \cup {All} : Lists!SetFilter(s)
    PROVE  ListsInv'
<1>. USE DEF ListsInv, Lists!client, Lists!server
<1>0. \A p \in PageOf.pages : PageOf.keyOf[p] \in Lists!Keys
  BY DEF Lists!Keys
<1>1. CASE Lists!Poll
  <2>1. x3 \in PageOf.pages
    BY DEF Lists!TypeOK
  <2>2. PageOf.keyOf[x3] \in Lists!Keys
    BY <1>0, <2>1
  <2>3. x9' = [x9 EXCEPT ![PageOf.keyOf[x3]] = Lists!Asked(x3)]
    BY <1>1 DEF Lists!Poll
  <2>4. Lists!TypeOK'
    BY <1>1, <2>1, <2>2, <2>3, ListsAsks DEF Lists!Poll, Lists!TypeOK
  <2>5. AnswersLackCleared'
    BY <1>1, <2>1, <2>2, <2>3, ListsAsks DEF Lists!Poll, AnswersLackCleared
  <2>. QED
    BY <2>4, <2>5
<1>2. ASSUME NEW p \in PageOf.pages, NEW i \in Lists!Ids \cup {0}, i # 0 <=> p \in PageOf.details,
             Lists!Show(p, i)
      PROVE  ListsInv'
  <2>1. PageOf.keyOf[p] \in Lists!Keys
    BY <1>0
  <2>2. \/ x9' = [x9 EXCEPT ![PageOf.keyOf[p]] = Lists!Asked(p)]
        \/ x9' = x9
    BY <1>2 DEF Lists!Show
  <2>3. x9' \in [Lists!Keys -> Lists!Fetches \cup {None}]
    BY <2>1, <2>2, ListsAsks DEF Lists!TypeOK
  <2>4. Lists!TypeOK'
    BY <1>2, <2>3 DEF Lists!Show, Lists!TypeOK
  <2>5. AnswersLackCleared'
    BY <1>2, <2>1, <2>2, ListsAsks DEF Lists!Show, AnswersLackCleared
  <2>. QED
    BY <2>4, <2>5
<1>3. ASSUME NEW p \in PageOf.pages, Lists!Navigate(p) PROVE ListsInv'
  BY <1>2, <1>3 DEF Lists!Navigate
<1>4. ASSUME NEW p \in PageOf.pages, NEW i \in DOMAIN x1, Lists!Follow(p, i) PROVE ListsInv'
  <2>1. i \in 1..Len(x1) /\ Len(x1) \in Nat /\ Len(x1) <= PageOf.maxRuns /\ PageOf.maxRuns \in Nat
    BY DEF Lists!TypeOK, Lists!PagesAssumption
  <2>2. i \in Lists!Ids /\ i # 0
    BY <2>1 DEF Lists!Ids
  <2>. QED
    BY <1>2, <1>4, <2>2 DEF Lists!Follow
<1>5. ASSUME NEW s \in Lists!States \cup {All}, Lists!SetFilter(s) PROVE ListsInv'
  BY <1>5 DEF Lists!SetFilter, Lists!TypeOK, AnswersLackCleared
<1>. QED
  BY <1>1, <1>3, <1>4, <1>5

LEMMA ListsClearing ==
    ASSUME Lists!PagesAssumption, ListsInv,
           Lists!Clear \/ Lists!ClearSucceeds \/ Lists!ClearFails \/ UNCHANGED Lists!vars
    PROVE  ListsInv'
<1>. USE DEF ListsInv, Lists!client, Lists!server
<1>1. CASE Lists!Clear
  <2>1. PageOf.scopeOf[x3] \in PageOf.dags \cup {All}
    BY DEF Lists!TypeOK, Lists!PagesAssumption
  <2>2. [of |-> PageOf.scopeOf[x3], at |-> "sent"]
            \in [of : PageOf.dags \cup {All}, at : {"sent", "done", "refused"}]
    BY <2>1
  <2>. QED
    BY <1>1, <2>2 DEF Lists!Clear, Lists!TypeOK, AnswersLackCleared
<1>2. CASE Lists!ClearSucceeds
  <2>. DEFINE k == PageOf.keyOf[x3]
  <2>1. x3 \in PageOf.pages /\ k \in Lists!Keys
    BY DEF Lists!TypeOK, Lists!Keys
  <2>2. CASE Lists!Restarts
    <3>1. x9' = [x9 EXCEPT ![k] = Lists!Asked(x3)]
      BY <1>2, <2>2 DEF Lists!ClearSucceeds
    <3>2. x11' = [x11 EXCEPT ![k] = x2] /\ x8' = Lists!Keys /\ x2' = x2
      BY <1>2, <2>2 DEF Lists!ClearSucceeds, Lists!Told
    <3>3. x11' \in [Lists!Keys -> SUBSET x2]
      BY <3>2 DEF Lists!TypeOK
    <3>4. x9' \in [Lists!Keys -> Lists!Fetches \cup {None}]
      BY <2>1, <3>1, ListsAsks
    <3>5. Lists!TypeOK'
      BY <1>2, <3>3, <3>4 DEF Lists!ClearSucceeds, Lists!TypeOK
    <3>6. x9'[k].answer = None /\ \A j \in Lists!Keys \ {k} : x9'[j] = x9[j] /\ x11'[j] = x11[j]
      BY <2>1, <3>1, <3>2, ListsAsks DEF Lists!TypeOK
    <3>7. AnswersLackCleared'
      BY <3>2, <3>6 DEF AnswersLackCleared
    <3>. QED
      BY <3>5, <3>7
  <2>3. CASE ~Lists!Restarts
    <3>1. x9' = x9 /\ x11' = x11 /\ x8' = Lists!Keys
      BY <1>2, <2>1, <2>3 DEF Lists!ClearSucceeds, Lists!Told, Lists!TypeOK
    <3>2. Lists!TypeOK'
      BY <1>2, <3>1 DEF Lists!ClearSucceeds, Lists!TypeOK
    <3>3. AnswersLackCleared'
      BY <3>1 DEF AnswersLackCleared
    <3>. QED
      BY <3>2, <3>3
  <2>. QED
    BY <2>2, <2>3
<1>3. CASE Lists!ClearFails
  BY <1>3 DEF Lists!ClearFails, Lists!TypeOK, AnswersLackCleared
<1>4. CASE UNCHANGED Lists!vars
  BY <1>4 DEF Lists!vars, Lists!TypeOK, AnswersLackCleared
<1>. QED
  BY <1>1, <1>2, <1>3, <1>4

LEMMA ListsTypes ==
    ASSUME Lists!PagesAssumption, ListsInv, [Lists!Next]_(Lists!vars)
    PROVE  ListsInv'
BY ListsServer, ListsAnswers, ListsPages, ListsClearing DEF Lists!Next

LEMMA ListsLackCleared == ListsInv => Lists!ClearedAreGone
<1>. SUFFICES ASSUME ListsInv, PageOf.keyOf[x3] \notin x8,
                     NEW i \in x11[PageOf.keyOf[x3]], NEW x \in Lists!Rows, x.id = i
              PROVE  FALSE
  BY DEF Lists!ClearedAreGone, Lists!Contains
<1>1. PageOf.keyOf[x3] \in Lists!Keys
  BY DEF ListsInv, Lists!TypeOK, Lists!Keys
<1>2. x6[PageOf.keyOf[x3]] # None /\ x \in x6[PageOf.keyOf[x3]]
  BY DEF Lists!Rows, Lists!Cached
<1>. QED
  BY <1>1, <1>2 DEF ListsInv, AnswersLackCleared, Lacks

-----------------------------------------------------------------------------
(* Induction, for a set in the place of a predicate.                       *)
LEMMA UpToTheTop ==
    ASSUME NEW top \in Nat, NEW Good, 0 \in Good,
           \A n \in 1..top : n - 1 \in Good => n \in Good
    PROVE  \A n \in 0..top : n \in Good
<1>. DEFINE Bad == {n \in 0..top : n \notin Good}
            Less == {p \in Nat \X Nat : p[1] < p[2]}
<1>. SUFFICES ASSUME Bad # {} PROVE FALSE
  OBVIOUS
<1>1. PICK x \in Bad : \A y \in Bad : ~(<<y, x>> \in Less)
  <2>1. IsWellFoundedOn(Less, Nat)
    BY NatLessThanWellFounded DEF OpToRel
  <2>2. Bad \subseteq Nat
    OBVIOUS
  <2>. HIDE DEF Less, Bad
  <2>. QED  BY <2>1, <2>2, WFMin
<1>2. x \in 1..top /\ x - 1 \in 0..top /\ x - 1 < x
  OBVIOUS
<1>3. x - 1 \notin Bad
  <2>1. <<x - 1, x>> \in Less
    BY <1>2
  <2>. HIDE DEF Less, Bad
  <2>. QED  BY <1>1, <2>1
<1>. QED
  BY <1>2, <1>3

-----------------------------------------------------------------------------
(* The charts of the host                                                  *)

(* A product of the pointer's distance and the gaps, bounded.              *)
LEMMA Proportional ==
    ASSUME NEW g \in Nat, NEW d \in 0..900
    PROVE  d * g \in 0..(900 * g)
<1>1. d * g \in Nat
  OBVIOUS
<1>2. (900 - d) * g >= 0
  OBVIOUS
<1>3. (900 - d) * g = 900 * g - d * g
  OBVIOUS
<1>. QED
  BY <1>1, <1>2, <1>3

(* The sample nearest to a pointer inside the plot is a sample.            *)
LEMMA NearestIsASample ==
    ASSUME Len(x1) \in Nat, Len(x1) >= 1, NEW x \in Host!Left..(Host!Left + Host!Width)
    PROVE  Host!Nearest(x) \in 0..(Len(x1) - 1)
<1>. DEFINE g == Len(x1) - 1
            P == (x - 48) * g
<1>1. g \in Nat /\ x - 48 \in 0..900
  BY DEF Host!Left, Host!Width
<1>2. P \in 0..(900 * g)
  BY <1>1, Proportional
<1>3. 2 * (x - 48) * g = 2 * P
  BY <1>1
<1>4. Host!Nearest(x) = (2 * P + 900) \div 1800
  BY <1>3 DEF Host!Nearest, Host!n, Host!Left, Host!Width
<1>5. (2 * P + 900) \div 1800 \in 0..g
  <2>. HIDE DEF P, g
  <2>. QED  BY <1>1, <1>2
<1>. QED
  BY <1>4, <1>5

LEMMA HostInit == Host!MetricsAssumption /\ Host!Init => Host!TypeOK
<1>. SUFFICES ASSUME Host!MetricsAssumption, Host!Init PROVE Host!TypeOK
  OBVIOUS
<1>1. x1 \in Seq(HostOf.values) /\ Len(x1) <= HostOf.window
  BY DEF Host!MetricsAssumption, Host!Init
<1>2. x2 \in BOOLEAN /\ x3 = None
  BY DEF Host!Init
<1>. QED
  BY <1>1, <1>2 DEF Host!TypeOK

(* A sequence without its first elements.                                  *)
LEMMA Dropped ==
    ASSUME NEW S, NEW s \in Seq(S), NEW k \in 0..Len(s)
    PROVE  /\ SubSeq(s, k + 1, Len(s)) \in Seq(S)
           /\ Len(SubSeq(s, k + 1, Len(s))) = Len(s) - k
OBVIOUS

LEMMA ShortSequences ==
    ASSUME NEW S
    PROVE  <<>> \in Seq(S) /\ \A v \in S : <<v>> \in Seq(S)
<1>1. ASSUME NEW v \in S PROVE <<v>> \in Seq(S)
  <2>1. Append(<<>>, v) \in Seq(S) /\ Append(<<>>, v) = <<v>>
    OBVIOUS
  <2>. QED  BY <2>1
<1>. QED
  BY <1>1

LEMMA HostTypes ==
    ASSUME Host!MetricsAssumption, Host!TypeOK, [Host!Next]_(Host!vars)
    PROVE  Host!TypeOK'
<1>. USE DEF Host!TypeOK
<1>1. HostOf.window \in Nat /\ HostOf.window >= 1
  BY DEF Host!MetricsAssumption
<1>2. x1 \in Seq(HostOf.values) /\ Len(x1) \in Nat
  OBVIOUS
<1>3. ASSUME NEW k \in 0..Len(x1), NEW new \in Seq(HostOf.values), Host!Receive(k, new)
      PROVE  Host!TypeOK'
  <2>. DEFINE kept == SubSeq(x1, k + 1, Len(x1))
  <2>1. kept \in Seq(HostOf.values) /\ Len(kept) = Len(x1) - k
    BY <1>2, Dropped
  <2>2. /\ x1' = kept \o new /\ x2' = FALSE /\ x3' = x3
        /\ Len(x1) - k + Len(new) <= HostOf.window
    BY <1>3 DEF Host!Receive, Host!n
  <2>. HIDE DEF kept
  <2>3. x1' \in Seq(HostOf.values) /\ Len(x1') <= HostOf.window
    BY <1>1, <1>2, <2>1, <2>2, ConcatProperties
  <2>. QED
    BY <2>2, <2>3
<1>4. ASSUME NEW x \in HostOf.pointers, Host!Point(x) PROVE Host!TypeOK'
  <2>1. CASE x \in Host!Left..(Host!Left + Host!Width)
    <3>1. Len(x1) >= 1 /\ x3' = Host!Nearest(x)
      BY <1>2, <1>4, <2>1 DEF Host!Point, Host!Charted, Host!n
    <3>2. Host!Nearest(x) \in 0..(Len(x1) - 1)
      BY <1>2, <2>1, <3>1, NearestIsASample
    <3>3. x3' \in 0..(HostOf.window - 1)
      BY <1>1, <1>2, <3>1, <3>2
    <3>. QED
      BY <1>4, <3>3 DEF Host!Point
  <2>2. CASE x \notin Host!Left..(Host!Left + Host!Width)
    BY <1>4, <2>2 DEF Host!Point
  <2>. QED
    BY <2>1, <2>2
<1>5. ASSUME NEW k \in 0..Len(x1), Host!Receive(k, <<>>) \/ \E v \in HostOf.values : Host!Receive(k, <<v>>)
      PROVE  Host!TypeOK'
  <2>. QED
    BY <1>3, <1>5, ShortSequences
<1>6. CASE Host!Fail
  BY <1>6 DEF Host!Fail
<1>7. CASE Host!Leave
  BY <1>7 DEF Host!Leave
<1>8. CASE UNCHANGED Host!vars
  BY <1>8 DEF Host!vars
<1>. QED
  BY <1>4, <1>5, <1>6, <1>7, <1>8 DEF Host!Next, Host!n

LEMMA HostCrosshair == Host!MetricsAssumption /\ Host!TypeOK => Host!CrosshairIsOnASample
<1>. SUFFICES ASSUME Host!MetricsAssumption, Host!TypeOK, Host!Crosshair # None
     PROVE  LET i == Host!Crosshair
            IN  /\ i \in 0..(Len(x1) - 1)
                /\ Host!TipLeft(i) >= 48 * (Len(x1) - 1)
                /\ Host!TipLeft(i) + 170 * (Len(x1) - 1) <= 948 * (Len(x1) - 1)
  BY DEF Host!CrosshairIsOnASample, Host!Left, Host!Width, Host!TipWidth, Host!n
<1>. DEFINE g == Len(x1) - 1
            i == Host!Crosshair
<1>1. i = x3 /\ x3 # None /\ x3 < Len(x1) /\ Len(x1) >= 2
  BY DEF Host!Crosshair, Host!Charted, Host!n
<1>2. Len(x1) \in Nat /\ x3 \in Nat
  BY <1>1 DEF Host!TypeOK, Host!MetricsAssumption
<1>3. g \in Nat /\ i \in 0..g
  BY <1>1, <1>2
<1>4. /\ Host!ScaledX(i) = 48 * g + i * 900
      /\ Host!TipLeft(i) = IF Host!ScaledX(i) + 182 * g > 948 * g
                           THEN Host!ScaledX(i) - 182 * g
                           ELSE Host!ScaledX(i) + 12 * g
  BY DEF Host!ScaledX, Host!TipLeft, Host!Left, Host!Width, Host!TipGap, Host!TipWidth, Host!n
<1>. HIDE DEF g
<1>. DEFINE X == Host!ScaledX(i)
<1>5. X \in Int /\ X >= 48 * g /\ X <= 948 * g
  BY <1>3, <1>4
<1>. HIDE DEF X, i
<1>6. Host!TipLeft(i) >= 48 * g /\ Host!TipLeft(i) + 170 * g <= 948 * g
  <2>1. CASE X + 182 * g > 948 * g
    BY <1>3, <1>4, <1>5, <2>1 DEF X
  <2>2. CASE ~(X + 182 * g > 948 * g)
    BY <1>3, <1>4, <1>5, <2>2 DEF X
  <2>. QED  BY <2>1, <2>2
<1>. QED
  BY <1>3, <1>6 DEF i, g

(* The powers of ten, on the numbers of S.                                 *)
PowersOn(f, S) == f = [k \in S |-> IF k = 0 THEN 1 ELSE 10 * f[k - 1]]

LEMMA PowersUpTo ==
    ASSUME NEW top \in Nat
    PROVE  \E f : PowersOn(f, 0..top)
<1>. DEFINE Good == {n \in 0..top : \E f : PowersOn(f, 0..n)}
<1>1. 0 \in Good
  <2>1. PowersOn([k \in 0..0 |-> 1], 0..0)
    BY DEF PowersOn
  <2>. QED  BY <2>1
<1>2. ASSUME NEW n \in 1..top, n - 1 \in Good PROVE n \in Good
  <2>1. PICK f : PowersOn(f, 0..(n - 1))
    BY <1>2
  <2>. DEFINE g == [k \in 0..n |-> IF k < n THEN f[k] ELSE 10 * f[n - 1]]
  <2>2. \A k \in 0..(n - 1) : f[k] = IF k = 0 THEN 1 ELSE 10 * f[k - 1]
    BY <2>1 DEF PowersOn
  <2>3. ASSUME NEW k \in 0..n PROVE g[k] = IF k = 0 THEN 1 ELSE 10 * g[k - 1]
    <3>1. CASE k = n
      BY <3>1
    <3>2. CASE k # n
      BY <2>2, <3>2
    <3>. QED  BY <3>1, <3>2
  <2>4. g = [k \in 0..n |-> g[k]]
    OBVIOUS
  <2>. HIDE DEF g
  <2>5. PowersOn(g, 0..n)
    BY <2>3, <2>4 DEF PowersOn
  <2>. QED  BY <2>5
<1>. HIDE DEF Good
<1>3. top \in Good
  BY <1>1, <1>2, UpToTheTop
<1>. QED
  BY <1>3 DEF Good

LEMMA PowersAreOne ==
    ASSUME NEW n \in Nat, NEW m \in Nat, n <= m,
           NEW f, PowersOn(f, 0..n), NEW g, PowersOn(g, 0..m)
    PROVE  \A k \in 0..n : f[k] = g[k]
<1>. DEFINE Good == {k \in 0..n : f[k] = g[k]}
<1>1. \A k \in 0..n : f[k] = IF k = 0 THEN 1 ELSE 10 * f[k - 1]
  BY DEF PowersOn
<1>2. \A k \in 0..m : g[k] = IF k = 0 THEN 1 ELSE 10 * g[k - 1]
  BY DEF PowersOn
<1>3. 0 \in Good
  BY <1>1, <1>2
<1>4. ASSUME NEW k \in 1..n, k - 1 \in Good PROVE k \in Good
  <2>1. f[k - 1] = g[k - 1] /\ k \in 0..n /\ k \in 0..m /\ k # 0
    BY <1>4
  <2>2. f[k] = 10 * f[k - 1] /\ g[k] = 10 * g[k - 1]
    BY <1>1, <1>2, <2>1
  <2>. QED  BY <2>1, <2>2
<1>. HIDE DEF Good
<1>5. \A k \in 0..n : k \in Good
  BY <1>3, <1>4, UpToTheTop
<1>. QED
  BY <1>5 DEF Good

(* The recursive definition has the value its equation gives it.           *)
LEMMA PowersExist == PowersOn(Host!PowersOfTen, Nat)
<1>. DEFINE up(n) == CHOOSE f : PowersOn(f, 0..n)
            F == [k \in Nat |-> up(k)[k]]
<1>1. \A n \in Nat : PowersOn(up(n), 0..n)
  BY PowersUpTo
<1>. HIDE DEF up
<1>2. ASSUME NEW k \in Nat PROVE F[k] = IF k = 0 THEN 1 ELSE 10 * F[k - 1]
  <2>1. up(k)[k] = IF k = 0 THEN 1 ELSE 10 * up(k)[k - 1]
    BY <1>1 DEF PowersOn
  <2>2. CASE k = 0
    BY <2>1, <2>2
  <2>3. CASE k # 0
    <3>1. k - 1 \in Nat /\ k - 1 <= k /\ k - 1 \in 0..(k - 1)
      BY <2>3
    <3>2. PowersOn(up(k - 1), 0..(k - 1)) /\ PowersOn(up(k), 0..k)
      BY <1>1, <3>1
    <3>3. up(k - 1)[k - 1] = up(k)[k - 1]
      BY <3>1, <3>2, PowersAreOne
    <3>. QED  BY <2>1, <2>3, <3>1, <3>3
  <2>. QED  BY <2>2, <2>3
<1>3. F = [k \in Nat |-> F[k]]
  OBVIOUS
<1>. HIDE DEF F
<1>4. F = [k \in Nat |-> IF k = 0 THEN 1 ELSE 10 * F[k - 1]]
  BY <1>2, <1>3
<1>5. Host!PowersOfTen = [k \in Nat |-> IF k = 0 THEN 1 ELSE 10 * Host!PowersOfTen[k - 1]]
  BY <1>4 DEF Host!PowersOfTen
<1>. QED
  BY <1>5 DEF PowersOn

LEMMA PowersGrow ==
    /\ \A k \in Nat : Host!PowersOfTen[k] \in Nat /\ Host!PowersOfTen[k] > k
    /\ Host!PowersOfTen[0] = 1
    /\ \A k \in Nat : Host!PowersOfTen[k + 1] = 10 * Host!PowersOfTen[k]
<1>. DEFINE P == Host!PowersOfTen
<1>1. \A k \in Nat : P[k] = IF k = 0 THEN 1 ELSE 10 * P[k - 1]
  BY PowersExist DEF PowersOn
<1>. HIDE DEF P
<1>2. P[0] = 1 /\ \A k \in Nat : P[k + 1] = 10 * P[k]
  <2>1. ASSUME NEW k \in Nat PROVE P[k + 1] = 10 * P[k]
    <3>1. k + 1 \in Nat /\ k + 1 # 0 /\ k + 1 - 1 = k
      OBVIOUS
    <3>. QED  BY <1>1, <3>1
  <2>. QED  BY <1>1, <2>1
<1>3. ASSUME NEW top \in Nat PROVE P[top] \in Nat /\ P[top] > top
  <2>. DEFINE Good == {k \in 0..top : P[k] \in Nat /\ P[k] > k}
  <2>1. 0 \in Good
    BY <1>2
  <2>2. ASSUME NEW k \in 1..top, k - 1 \in Good PROVE k \in Good
    <3>1. P[k - 1] \in Nat /\ P[k - 1] > k - 1 /\ k - 1 \in Nat /\ k - 1 + 1 = k
      BY <2>2
    <3>2. P[k] = 10 * P[k - 1]
      BY <1>2, <3>1
    <3>. QED  BY <3>1, <3>2
  <2>. HIDE DEF Good
  <2>3. top \in Good
    BY <2>1, <2>2, UpToTheTop
  <2>. QED  BY <2>3 DEF Good
<1>. QED
  BY <1>2, <1>3 DEF P

(* A number is between a power of ten and the next.                        *)
LEMMA PowerBelowIt ==
    ASSUME NEW x \in Nat, x > 0
    PROVE  /\ Host!PowerBelow(x) \in Nat
           /\ Host!PowerBelow(x) <= x /\ x < 10 * Host!PowerBelow(x)
<1>. DEFINE P == Host!PowersOfTen
            Good == {k \in 0..x : P[k] <= x}
<1>1. \A k \in Nat : P[k] \in Nat /\ P[k] > k /\ P[k + 1] = 10 * P[k]
  BY PowersGrow
<1>2. P[0] = 1
  BY PowersGrow
<1>3. Host!PowerBelow(x) = P[CHOOSE k \in 0..x : P[k] <= x /\ x < P[k + 1]]
  BY DEF Host!PowerBelow
<1>. HIDE DEF P
<1>4. \E k \in 0..x : P[k] <= x /\ x < P[k + 1]
  <2>. SUFFICES ASSUME \A k \in 0..x : P[k] <= x => ~(x < P[k + 1]) PROVE FALSE
    OBVIOUS
  <2>1. 0 \in Good
    BY <1>2
  <2>2. ASSUME NEW k \in 1..x, k - 1 \in Good PROVE k \in Good
    <3>1. k - 1 \in 0..x /\ P[k - 1] <= x /\ k - 1 + 1 = k /\ k \in Nat
      BY <2>2
    <3>2. ~(x < P[k]) /\ P[k] \in Nat
      BY <1>1, <3>1
    <3>. QED  BY <3>2
  <2>. HIDE DEF Good
  <2>3. x \in Good
    BY <2>1, <2>2, UpToTheTop
  <2>4. P[x] <= x
    BY <2>3 DEF Good
  <2>. QED  BY <1>1, <2>4
<1>5. PICK k \in 0..x : Host!PowerBelow(x) = P[k] /\ P[k] <= x /\ x < P[k + 1]
  BY <1>3, <1>4
<1>. QED
  BY <1>1, <1>5

(* The next of 1, 2, 5, ... is not below a number, and at most two and a   *)
(* half times as large.                                                    *)
LEMMA NiceCeiling ==
    ASSUME NEW x \in Nat, x > 0
    PROVE  Host!NiceCeil(x) \in Nat /\ x <= Host!NiceCeil(x) /\ 2 * Host!NiceCeil(x) <= 5 * x
<1>. DEFINE power == Host!PowerBelow(x)
<1>3. power <= x /\ x < 10 * power
  BY PowerBelowIt
<1>4. power \in Nat /\ ~(x <= 0)
  BY PowerBelowIt
<1>. HIDE DEF power
<1>5. Host!NiceCeil(x) =
          CASE x <= power -> power
            [] x > power /\ x <= 2 * power -> 2 * power
            [] x > 2 * power /\ x <= 5 * power -> 5 * power
            [] OTHER -> 10 * power
  BY <1>4 DEF Host!NiceCeil, power
<1>6. CASE x <= power
  <2>1. Host!NiceCeil(x) = power
    BY <1>4, <1>5, <1>6
  <2>. QED  BY <1>3, <1>4, <1>6, <2>1
<1>7. CASE x > power /\ x <= 2 * power
  <2>1. Host!NiceCeil(x) = 2 * power
    BY <1>4, <1>5, <1>7
  <2>. QED  BY <1>3, <1>4, <1>7, <2>1
<1>8. CASE x > 2 * power /\ x <= 5 * power
  <2>1. Host!NiceCeil(x) = 5 * power
    BY <1>4, <1>5, <1>8
  <2>. QED  BY <1>3, <1>4, <1>8, <2>1
<1>9. CASE x > 5 * power
  <2>1. Host!NiceCeil(x) = 10 * power
    BY <1>4, <1>5, <1>9
  <2>. QED  BY <1>3, <1>4, <1>9, <2>1
<1>. QED
  BY <1>4, <1>6, <1>7, <1>8, <1>9

(* The greatest of the samples and nothing.                                *)
LEMMA GreatestHolds ==
    ASSUME NEW s \in Seq(Nat)
    PROVE  Host!Greatest(s) \in Nat /\ \A i \in DOMAIN s : s[i] <= Host!Greatest(s)
<1>. DEFINE held(n) == {s[i] : i \in 1..n} \cup {0}
            Good == {n \in 0..Len(s) : \E r \in held(n) : \A y \in held(n) : y <= r}
<1>1. Len(s) \in Nat /\ DOMAIN s = 1..Len(s) /\ \A i \in 1..Len(s) : s[i] \in Nat
  OBVIOUS
<1>2. 0 \in Good
  <2>1. held(0) = {0}
    OBVIOUS
  <2>2. \E r \in held(0) : \A y \in held(0) : y <= r
    BY <2>1
  <2>. HIDE DEF held
  <2>. QED  BY <1>1, <2>2
<1>3. ASSUME NEW n \in 1..Len(s), n - 1 \in Good PROVE n \in Good
  <2>1. PICK r \in held(n - 1) : \A y \in held(n - 1) : y <= r
    BY <1>3
  <2>2. held(n) = held(n - 1) \cup {s[n]}
    BY <1>1
  <2>3. s[n] \in Nat /\ r \in Nat /\ \A y \in held(n - 1) : y \in Nat
    BY <1>1
  <2>4. CASE s[n] <= r
    <3>. HIDE DEF held
    <3>1. r \in held(n) /\ \A y \in held(n) : y <= r
      BY <2>1, <2>2, <2>4
    <3>. QED  BY <3>1
  <2>5. CASE ~(s[n] <= r)
    <3>. HIDE DEF held
    <3>1. s[n] \in held(n) /\ \A y \in held(n) : y <= s[n]
      BY <2>1, <2>2, <2>3, <2>5
    <3>. QED  BY <3>1
  <2>. QED  BY <2>4, <2>5
<1>. HIDE DEF Good
<1>4. Len(s) \in Good
  <2>. DEFINE top == Len(s)
  <2>1. top \in Nat /\ \A n \in 1..top : n - 1 \in Good => n \in Good
    BY <1>1, <1>3
  <2>. HIDE DEF top
  <2>2. \A n \in 0..top : n \in Good
    BY <1>2, <2>1, UpToTheTop
  <2>. QED  BY <2>1, <2>2 DEF top
<1>. DEFINE all == held(Len(s))
<1>5. \E r \in all : \A y \in all : y <= r
  BY <1>4 DEF Good
<1>6. all = Host!ToSet(s) \cup {0}
  BY <1>1 DEF Host!ToSet
<1>7. all \subseteq Nat /\ \A i \in DOMAIN s : s[i] \in all
  BY <1>1
<1>. HIDE DEF all, held
<1>8. \E r \in all : \A y \in all : r >= y
  BY <1>5, <1>7
<1>9. Host!Max(all) \in all /\ \A y \in all : Host!Max(all) >= y
  BY <1>8 DEF Host!Max
<1>10. Host!Greatest(s) = Host!Max(all)
  BY <1>6 DEF Host!Greatest
<1>. QED
  BY <1>7, <1>9, <1>10

LEMMA HostAxis == Host!MetricsAssumption /\ Host!TypeOK => Host!AxisHoldsTheData
<1>. SUFFICES ASSUME Host!MetricsAssumption, Host!TypeOK PROVE Host!AxisHoldsTheData
  OBVIOUS
<1>. DEFINE g == Host!Greatest(x1)
<1>1. x1 \in Seq(Nat)
  <2>1. x1 \in Seq(HostOf.values) /\ HostOf.values \subseteq Nat
    BY DEF Host!MetricsAssumption, Host!TypeOK
  <2>. QED  BY <2>1
<1>2. g \in Nat /\ \A i \in DOMAIN x1 : x1[i] <= g /\ x1[i] \in Nat
  BY <1>1, GreatestHolds
<1>. HIDE DEF g
<1>3. HostOf.one \in Nat
  BY DEF Host!MetricsAssumption
<1>5. CASE x1 = <<>>
  BY <1>5 DEF Host!AxisHoldsTheData
<1>6. CASE x1 # <<>>
  <2>1. Host!Top = Host!NiceCeil(g)
    BY <1>6 DEF Host!Top, g
  <2>2. Host!Top \in Nat /\ g <= Host!Top /\ (g > 0 => 2 * Host!Top <= 5 * g)
    <3>1. CASE g = 0
      BY <1>3, <2>1, <3>1 DEF Host!NiceCeil
    <3>2. CASE g # 0
      <4>1. g \in Nat /\ g > 0
        BY <1>2, <3>2
      <4>. QED  BY <2>1, <4>1, NiceCeiling
    <3>. QED  BY <3>1, <3>2
  <2>3. ASSUME NEW i \in DOMAIN x1 PROVE Host!DrawnAt(x1[i]) = x1[i]
    <3>1. x1[i] \in Nat /\ x1[i] <= g /\ g \in Nat
      BY <1>2
    <3>2. ~(Host!Top < x1[i])
      BY <2>2, <3>1
    <3>. QED  BY <3>2 DEF Host!DrawnAt, Host!Least
  <2>. QED
    BY <2>2, <2>3 DEF Host!AxisHoldsTheData, g
<1>. QED
  BY <1>5, <1>6

LEMMA HostTicks == Host!MetricsAssumption /\ Host!TypeOK => Host!TicksSpanTheWindow
<1>. SUFFICES ASSUME Host!MetricsAssumption, Host!TypeOK, Len(x1) >= 2
     PROVE  /\ Host!XTicks[1] = 0 /\ Host!XTicks[Len(Host!XTicks)] = Len(x1) - 1
            /\ \A k \in 2..Len(Host!XTicks) : Host!XTicks[k - 1] < Host!XTicks[k]
  BY DEF Host!TicksSpanTheWindow, Host!n
<1>. DEFINE n == Len(x1)
            T == Host!XTicks
<1>1. n \in Nat /\ n >= 2
  BY DEF Host!TypeOK
<1>. HIDE DEF n
<1>2. CASE n >= 5
  <2>1. T = [k \in 1..5 |-> (2 * (k - 1) * (n - 1) + 4) \div 8]
    <3>1. Host!Least(5, n) = 5
      BY <1>1, <1>2 DEF Host!Least
    <3>2. T = LET ticks == 5 IN [k \in 1..ticks |-> (2 * (k - 1) * (n - 1) + ticks - 1) \div (2 * (ticks - 1))]
      BY <3>1 DEF Host!XTicks, Host!n, n
    <3>3. ASSUME NEW k \in 1..5 PROVE (2 * (k - 1) * (n - 1) + 5 - 1) \div (2 * (5 - 1)) = (2 * (k - 1) * (n - 1) + 4) \div 8
      <4>. DEFINE P == 2 * (k - 1) * (n - 1)
      <4>1. P \in Int
        BY <1>1
      <4>. HIDE DEF P
      <4>2. P + 5 - 1 = P + 4 /\ 2 * (5 - 1) = 8
        BY <4>1
      <4>. QED  BY <4>2 DEF P
    <3>. QED  BY <3>2, <3>3
  <2>. HIDE DEF T
  <2>2. Len(T) = 5
    BY <2>1
  <2>3. /\ T[1] = 4 \div 8 /\ T[2] = (2 * (n - 1) + 4) \div 8 /\ T[3] = (4 * (n - 1) + 4) \div 8
        /\ T[4] = (6 * (n - 1) + 4) \div 8 /\ T[5] = (8 * (n - 1) + 4) \div 8
    <3>1. \A k \in 1..5 : T[k] = (2 * (k - 1) * (n - 1) + 4) \div 8
      BY <2>1
    <3>2. /\ 2 * (1 - 1) * (n - 1) + 4 = 4 /\ 2 * (2 - 1) * (n - 1) = 2 * (n - 1)
          /\ 2 * (3 - 1) * (n - 1) = 4 * (n - 1) /\ 2 * (4 - 1) * (n - 1) = 6 * (n - 1)
          /\ 2 * (5 - 1) * (n - 1) = 8 * (n - 1)
      BY <1>1
    <3>. QED  BY <3>1, <3>2
  <2>4. /\ 4 \div 8 = 0 /\ (8 * (n - 1) + 4) \div 8 = n - 1
        /\ 4 \div 8 < (2 * (n - 1) + 4) \div 8
        /\ (2 * (n - 1) + 4) \div 8 < (4 * (n - 1) + 4) \div 8
        /\ (4 * (n - 1) + 4) \div 8 < (6 * (n - 1) + 4) \div 8
        /\ (6 * (n - 1) + 4) \div 8 < (8 * (n - 1) + 4) \div 8
    BY <1>1, <1>2
  <2>5. ASSUME NEW k \in 2..5 PROVE T[k - 1] < T[k]
    <3>1. k \in {2, 3, 4, 5}
      OBVIOUS
    <3>. QED  BY <2>3, <2>4, <3>1
  <2>. QED
    BY <2>2, <2>3, <2>4, <2>5 DEF T, n
<1>3. CASE n = 4
  <2>1. T = [k \in 1..4 |-> (6 * (k - 1) + 3) \div 6]
    BY <1>3 DEF Host!XTicks, Host!n, n, Host!Least
  <2>. QED
    BY <2>1, <1>3 DEF T, n
<1>4. CASE n = 3
  <2>1. T = [k \in 1..3 |-> (4 * (k - 1) + 2) \div 4]
    BY <1>4 DEF Host!XTicks, Host!n, n, Host!Least
  <2>. QED
    BY <2>1, <1>4 DEF T, n
<1>5. CASE n = 2
  <2>1. T = [k \in 1..2 |-> (2 * (k - 1) + 1) \div 2]
    BY <1>5 DEF Host!XTicks, Host!n, n, Host!Least
  <2>. QED
    BY <2>1, <1>5 DEF T, n
<1>6. n >= 5 \/ n = 4 \/ n = 3 \/ n = 2
  BY <1>1
<1>. QED
  BY <1>2, <1>3, <1>4, <1>5, <1>6

-----------------------------------------------------------------------------
(* Sorting                                                                 *)

(* How many elements of S are before x in R.                               *)
Preceding(S, R, x) == {y \in S : <<y, x>> \in R}

(* An element that is before another has fewer before it.                  *)
LEMMA FewerBefore ==
    ASSUME NEW S, IsFiniteSet(S), NEW R,
           \A x \in S : <<x, x>> \notin R,
           \A x, y, z \in S : <<x, y>> \in R /\ <<y, z>> \in R => <<x, z>> \in R,
           NEW x \in S, NEW y \in S, <<x, y>> \in R
    PROVE  Cardinality(Preceding(S, R, x)) < Cardinality(Preceding(S, R, y))
<1>. DEFINE X == Preceding(S, R, x)
            Y == Preceding(S, R, y)
<1>1. X \in SUBSET S /\ Y \in SUBSET S /\ X \in SUBSET Y
  BY DEF Preceding
<1>2. x \in Y /\ x \notin X
  BY DEF Preceding
<1>. HIDE DEF X, Y
<1>3. IsFiniteSet(Y)
  BY <1>1, FS_Subset
<1>4. IsFiniteSet(X) /\ Cardinality(X) <= Cardinality(Y) /\ Cardinality(X) # Cardinality(Y)
  BY <1>1, <1>2, <1>3, FS_Subset
<1>5. Cardinality(X) \in Nat /\ Cardinality(Y) \in Nat
  BY <1>3, <1>4, FS_CardinalityType
<1>. QED
  BY <1>4, <1>5 DEF X, Y

(* The elements of a finite set that are told apart, and ordered, by how   *)
(* many are before each.                                                   *)
LEMMA CountedLists ==
    ASSUME NEW S, NEW R, NEW N \in Nat, NEW C \in [S -> 0..(N - 1)],
           IsFiniteSet(S), Cardinality(S) = N,
           \A x \in S : Cardinality(Preceding(S, R, x)) = C[x],
           \A x, y \in S : C[x] = C[y] => x = y,
           \A x, y \in S : C[x] < C[y] => <<x, y>> \in R
    PROVE  /\ Ordered(S, R) \in [1..N -> S]
           /\ \A x \in S : \E k \in 1..N : Ordered(S, R)[k] = x
           /\ \A k, l \in 1..N : k < l => <<Ordered(S, R)[k], Ordered(S, R)[l]>> \in R
<1>. DEFINE f == [x \in S |-> C[x] + 1]
            p == Ordered(S, R)
<1>1. IsFiniteSet(1..N) /\ Cardinality(1..N) = N
  <2>1. IsFiniteSet(1..N) /\ Cardinality(1..N) = IF 1 > N THEN 0 ELSE N - 1 + 1
    BY FS_Interval
  <2>. QED  BY <2>1
<1>2. f \in Injection(S, 1..N)
  <2>1. f \in [S -> 1..N]
    OBVIOUS
  <2>2. \A x, y \in S : f[x] = f[y] => x = y
    OBVIOUS
  <2>. HIDE DEF f
  <2>. QED  BY <2>1, <2>2 DEF Injection, IsInjective
<1>3. f \in Surjection(S, 1..N)
  <2>. HIDE DEF f
  <2>. QED  BY <1>1, <1>2, FS_Injection
<1>4. \A k \in 1..N : \E x \in S : C[x] = k - 1
  <2>1. ASSUME NEW k \in 1..N PROVE \E x \in S : f[x] = k
    <3>. HIDE DEF f
    <3>. QED  BY <1>3 DEF Surjection
  <2>2. ASSUME NEW k \in 1..N PROVE \E x \in S : C[x] = k - 1
    <3>1. PICK x \in S : f[x] = k
      BY <2>1
    <3>2. C[x] + 1 = k /\ C[x] \in Int
      BY <3>1
    <3>. QED  BY <3>2
  <2>. QED  BY <2>2
<1>5. p = [k \in 1..N |-> CHOOSE x \in S : Cardinality(Preceding(S, R, x)) = k - 1]
  BY DEF Ordered, Preceding
<1>. HIDE DEF p
<1>6. ASSUME NEW k \in 1..N PROVE p[k] \in S /\ C[p[k]] = k - 1
  <2>1. \E x \in S : Cardinality(Preceding(S, R, x)) = k - 1
    BY <1>4
  <2>2. p[k] \in S /\ Cardinality(Preceding(S, R, p[k])) = k - 1
    BY <1>5, <2>1
  <2>. QED  BY <2>2
<1>7. p \in [1..N -> S]
  BY <1>5, <1>6
<1>8. ASSUME NEW x \in S PROVE \E k \in 1..N : p[k] = x
  <2>1. C[x] + 1 \in 1..N /\ C[x] + 1 - 1 = C[x]
    OBVIOUS
  <2>2. p[C[x] + 1] \in S /\ C[p[C[x] + 1]] = C[x]
    BY <1>6, <2>1
  <2>. QED  BY <2>1, <2>2
<1>9. ASSUME NEW k \in 1..N, NEW l \in 1..N, k < l PROVE <<p[k], p[l]>> \in R
  <2>1. p[k] \in S /\ p[l] \in S /\ C[p[k]] < C[p[l]]
    BY <1>6, <1>9
  <2>. QED  BY <2>1
<1>. QED
  BY <1>7, <1>8, <1>9 DEF p

(* The elements of a finite set in a strict total order are its own, all   *)
(* of them, each before the ones that follow.                              *)
LEMMA OrderedLists ==
    ASSUME NEW S, IsFiniteSet(S), NEW R,
           \A x \in S : <<x, x>> \notin R,
           \A x, y, z \in S : <<x, y>> \in R /\ <<y, z>> \in R => <<x, z>> \in R,
           \A x, y \in S : x = y \/ <<x, y>> \in R \/ <<y, x>> \in R
    PROVE  /\ Ordered(S, R) \in [1..Cardinality(S) -> S]
           /\ \A x \in S : \E k \in 1..Cardinality(S) : Ordered(S, R)[k] = x
           /\ \A k, l \in 1..Cardinality(S) :
                 k < l => <<Ordered(S, R)[k], Ordered(S, R)[l]>> \in R
<1>. DEFINE N == Cardinality(S)
            C == [x \in S |-> Cardinality(Preceding(S, R, x))]
<1>1. N \in Nat
  BY FS_CardinalityType, Zenon
<1>2. \A x, y \in S : <<x, y>> \in R => C[x] < C[y]
  BY FewerBefore
<1>. HIDE DEF N
<1>3. ASSUME NEW x \in S PROVE C[x] \in 0..(N - 1)
  <2>. DEFINE X == Preceding(S, R, x)
  <2>1. X \in SUBSET S /\ x \notin X
    BY DEF Preceding
  <2>. HIDE DEF X
  <2>2. IsFiniteSet(X) /\ Cardinality(X) <= N /\ Cardinality(X) # N
    BY <2>1, FS_Subset DEF N
  <2>3. Cardinality(X) \in Nat
    BY <2>2, FS_CardinalityType
  <2>4. C[x] = Cardinality(X)
    BY DEF X
  <2>. QED
    BY <1>1, <2>2, <2>3, <2>4
<1>4. /\ \A x \in S : Cardinality(Preceding(S, R, x)) = C[x]
      /\ C \in [S -> 0..(N - 1)]
  BY <1>3
<1>. HIDE DEF C
<1>5. \A x, y \in S : x = y \/ C[x] < C[y] \/ C[y] < C[x]
  BY <1>2, Zenon
<1>6. \A x, y \in S : C[x] \in Int /\ C[y] \in Int
  BY <1>1, <1>3
<1>7. \A x, y \in S : ~(C[x] < C[y] /\ C[y] < C[x]) /\ (C[x] = C[y] => ~(C[x] < C[y]))
  BY <1>6
<1>8. \A x, y \in S : C[x] = C[y] => x = y
  BY <1>5, <1>7, Zenon
<1>9. \A x, y \in S : C[x] < C[y] => <<x, y>> \in R
  BY <1>2, <1>7, Zenon
<1>. QED
  BY <1>1, <1>4, <1>8, <1>9, CountedLists DEF N

(* Places sorted by a number they have, and equal ones as they were.       *)
Lighter(I, w) ==
    {p \in I \X I : w[p[1]] < w[p[2]] \/ (~(w[p[2]] < w[p[1]]) /\ p[1] < p[2])}

LEMMA PlacesByWeight ==
    ASSUME NEW I \in SUBSET Nat, IsFiniteSet(I), NEW w \in [I -> Int]
    PROVE  LET p == Ordered(I, Lighter(I, w))
           IN  /\ p \in [1..Cardinality(I) -> I]
               /\ \A x \in I : \E k \in 1..Cardinality(I) : p[k] = x
               /\ \A k, l \in 1..Cardinality(I) :
                     k < l => /\ w[p[k]] <= w[p[l]]
                              /\ w[p[k]] = w[p[l]] => p[k] < p[l]
<1>. DEFINE R == Lighter(I, w)
            p == Ordered(I, R)
<1>1. \A x, y \in I : <<x, y>> \in R <=> w[x] < w[y] \/ (~(w[y] < w[x]) /\ x < y)
  BY DEF Lighter
<1>2. \A x \in I : w[x] \in Int /\ x \in Nat
  OBVIOUS
<1>. HIDE DEF p
<1>. HIDE DEF R
<1>3. \A x \in I : <<x, x>> \notin R
  BY <1>1, <1>2
<1>4. \A x, y, z \in I : <<x, y>> \in R /\ <<y, z>> \in R => <<x, z>> \in R
  BY <1>1, <1>2
<1>5. ASSUME NEW x \in I, NEW y \in I PROVE x = y \/ <<x, y>> \in R \/ <<y, x>> \in R
  <2>1. w[x] \in Int /\ w[y] \in Int /\ x \in Nat /\ y \in Nat
    BY <1>2
  <2>2. /\ <<x, y>> \in R <=> w[x] < w[y] \/ (~(w[y] < w[x]) /\ x < y)
        /\ <<y, x>> \in R <=> w[y] < w[x] \/ (~(w[x] < w[y]) /\ y < x)
    BY <1>1
  <2>3. x = y \/ x < y \/ y < x
    BY <2>1
  <2>4. w[x] < w[y] \/ w[y] < w[x] \/ (~(w[y] < w[x]) /\ ~(w[x] < w[y]))
    OBVIOUS
  <2>. QED  BY <2>2, <2>3, <2>4, Zenon
<1>6. /\ p \in [1..Cardinality(I) -> I]
      /\ \A x \in I : \E k \in 1..Cardinality(I) : p[k] = x
      /\ \A k, l \in 1..Cardinality(I) : k < l => <<p[k], p[l]>> \in R
  BY <1>3, <1>4, <1>5, OrderedLists, Zenon DEF p
<1>. HIDE DEF p
<1>7. ASSUME NEW k \in 1..Cardinality(I), NEW l \in 1..Cardinality(I), k < l
      PROVE  w[p[k]] <= w[p[l]] /\ (w[p[k]] = w[p[l]] => p[k] < p[l])
  <2>1. p[k] \in I /\ p[l] \in I /\ <<p[k], p[l]>> \in R
    BY <1>6, <1>7
  <2>2. w[p[k]] < w[p[l]] \/ (~(w[p[l]] < w[p[k]]) /\ p[k] < p[l])
    BY <1>1, <2>1, Zenon
  <2>3. w[p[k]] \in Int /\ w[p[l]] \in Int
    BY <2>1
  <2>. QED  BY <2>2, <2>3
<1>. QED
  BY <1>6, <1>7 DEF p, R

-----------------------------------------------------------------------------
(* The list of DAGs                                                        *)

(* The places of the DAGs that match, in the server's order.               *)
Matched == {i \in DOMAIN ListOf.dags : List!Matching(ListOf.dags[i])}

Weight == [i \in Matched |->
              IF x6.dir = "asc" THEN List!Value(ListOf.dags[i]) ELSE - List!Value(ListOf.dags[i])]

LEMMA ListOrders == \A S, R : List!Ordered(S, R) = Ordered(S, R)
BY DEF List!Ordered, Ordered, List!Cardinality, Cardinality

LEMMA ListLength ==
    ASSUME List!DagsAssumption
    PROVE  Len(ListOf.dags) \in Nat /\ DOMAIN ListOf.dags = 1..Len(ListOf.dags)
<1>1. ListOf.dags \in Seq(List!DagSet)
  BY Zenon DEF List!DagsAssumption
<1>. QED
  BY <1>1

(* No DAG is listed twice, so that a DAG tells its place.                  *)
LEMMA PlacesAreOnce ==
    ASSUME List!DagsAssumption, NEW i \in DOMAIN ListOf.dags
    PROVE  List!Place(ListOf.dags[i]) = i
BY DEF List!DagsAssumption, List!Place

LEMMA WeightsAreNumbers ==
    ASSUME List!DagsAssumption, List!TypeOK, x1 # None
    PROVE  /\ Weight \in [Matched -> Int]
           /\ \A i \in Matched : List!Value(ListOf.dags[i]) \in Int
<1>1. ASSUME NEW i \in Matched PROVE List!Value(ListOf.dags[i]) \in Int
  <2>1. i \in DOMAIN ListOf.dags /\ ListOf.dags[i] \in DOMAIN x1
    BY DEF Matched, List!Matching
  <2>2. x1 \in [DOMAIN x1 -> [is_running : BOOLEAN, total_runs : Nat]]
    BY DEF List!DagsAssumption, List!TypeOK
  <2>3. ListOf.nameRank[ListOf.dags[i]] \in Nat
    <3>1. ListOf.nameRank \in [List!DagSet -> Nat]
      BY Zenon DEF List!DagsAssumption
    <3>2. ListOf.dags[i] \in List!DagSet
      BY <2>1 DEF List!DagSet, List!ToSet
    <3>. QED  BY <3>1, <3>2
  <2>4. x1[ListOf.dags[i]].total_runs \in Nat
    BY <2>1, <2>2
  <2>. QED
    BY <2>3, <2>4 DEF List!Value
<1>2. ASSUME NEW i \in Matched PROVE Weight[i] \in Int
  BY <1>1 DEF Weight
<1>. QED
  BY <1>1, <1>2 DEF Weight

LEMMA MatchedIsFinite ==
    ASSUME List!DagsAssumption
    PROVE  /\ Matched \in SUBSET Nat /\ IsFiniteSet(Matched)
           /\ Cardinality(Matched) \in Nat
           /\ Cardinality(Matched) <= Len(ListOf.dags)
           /\ Len(ListOf.dags) \in Nat
<1>1. Len(ListOf.dags) \in Nat /\ DOMAIN ListOf.dags = 1..Len(ListOf.dags)
  BY ListLength
<1>2. Matched \in SUBSET (1..Len(ListOf.dags))
  BY <1>1 DEF Matched
<1>3. IsFiniteSet(1..Len(ListOf.dags)) /\ Cardinality(1..Len(ListOf.dags)) = Len(ListOf.dags)
  <2>1. /\ IsFiniteSet(1..Len(ListOf.dags))
        /\ Cardinality(1..Len(ListOf.dags)) =
              IF 1 > Len(ListOf.dags) THEN 0 ELSE Len(ListOf.dags) - 1 + 1
    BY <1>1, FS_Interval
  <2>. QED  BY <1>1, <2>1
<1>4. IsFiniteSet(Matched) /\ Cardinality(Matched) <= Len(ListOf.dags)
  BY <1>2, <1>3, FS_Subset
<1>. QED
  BY <1>1, <1>2, <1>4, FS_CardinalityType

MatchedOrder ==
    {p \in Matched \X Matched :
        \/ List!Precedes(ListOf.dags[p[1]], ListOf.dags[p[2]])
        \/ ~List!Precedes(ListOf.dags[p[2]], ListOf.dags[p[1]]) /\ p[1] < p[2]}

RowsInOrder(I, R) ==
    IF x1 = None THEN <<>>
    ELSE [k \in 1..Cardinality(I) |-> ListOf.dags[Ordered(I, R)[k]]]

LEMMA RowsAreInOrder == List!Rows = RowsInOrder(Matched, MatchedOrder)
<1>1. List!Rows = IF x1 = None THEN <<>>
                  ELSE [k \in 1..List!Cardinality(Matched) |->
                            ListOf.dags[List!Ordered(Matched, MatchedOrder)[k]]]
  BY DEF List!Rows, List!Ranked, Matched, MatchedOrder
<1>2. List!Cardinality(Matched) = Cardinality(Matched)
  BY DEF List!Cardinality, Cardinality
<1>3. List!Ordered(Matched, MatchedOrder) = Ordered(Matched, MatchedOrder)
  BY ListOrders
<1>. QED
  BY <1>1, <1>2, <1>3 DEF RowsInOrder

(* The rows are the DAGs at the places that match, by their weight.        *)
LEMMA RowsByWeight ==
    ASSUME List!DagsAssumption, List!TypeOK, x1 # None
    PROVE  List!Rows = [k \in 1..Cardinality(Matched) |->
                            ListOf.dags[Ordered(Matched, Lighter(Matched, Weight))[k]]]
<1>1. ASSUME NEW i \in Matched, NEW j \in Matched
      PROVE  List!Precedes(ListOf.dags[i], ListOf.dags[j]) <=> Weight[i] < Weight[j]
  <2>1. List!Value(ListOf.dags[i]) \in Int /\ List!Value(ListOf.dags[j]) \in Int
    BY WeightsAreNumbers
  <2>. QED
    BY <2>1 DEF List!Precedes, Weight
<1>2. MatchedOrder = Lighter(Matched, Weight)
  BY <1>1 DEF MatchedOrder, Lighter
<1>. QED
  BY <1>2, RowsAreInOrder DEF RowsInOrder

(* Every DAG that matches has one row, by name or by runs.                 *)
LEMMA RowsAreSorted == List!DagsAssumption /\ List!TypeOK => List!RowsAreTheMatches
<1>. SUFFICES ASSUME List!DagsAssumption, List!TypeOK, x1 # None
     PROVE  /\ List!ToSet(List!Rows) = {d \in List!DagSet : List!Matching(d)}
            /\ \A i, j \in DOMAIN List!Rows : i < j =>
                  LET x == List!Value(List!Rows[i])  y == List!Value(List!Rows[j])
                  IN  /\ x6.dir = "asc" => x <= y
                      /\ x6.dir = "desc" => x >= y
                      /\ x = y => List!Place(List!Rows[i]) < List!Place(List!Rows[j])
  BY DEF List!RowsAreTheMatches, List!Value
<1>. DEFINE p == Ordered(Matched, Lighter(Matched, Weight))
            N == Cardinality(Matched)
            rows == List!Rows
<1>1. /\ p \in [1..N -> Matched]
      /\ \A i \in Matched : \E k \in 1..N : p[k] = i
      /\ \A k, l \in 1..N :
            k < l => /\ Weight[p[k]] <= Weight[p[l]]
                     /\ Weight[p[k]] = Weight[p[l]] => p[k] < p[l]
  BY MatchedIsFinite, WeightsAreNumbers, PlacesByWeight
<1>2. rows = [k \in 1..N |-> ListOf.dags[p[k]]]
  BY RowsByWeight
<1>. HIDE DEF p, N, rows
<1>3. List!ToSet(rows) = {d \in List!DagSet : List!Matching(d)}
  <2>1. List!ToSet(rows) = {ListOf.dags[p[k]] : k \in 1..N}
    BY <1>2 DEF List!ToSet
  <2>2. List!DagSet = {ListOf.dags[i] : i \in DOMAIN ListOf.dags}
    BY DEF List!DagSet, List!ToSet
  <2>3. \A k \in 1..N : p[k] \in Matched
    BY <1>1
  <2>4. \A i \in Matched : i \in DOMAIN ListOf.dags /\ List!Matching(ListOf.dags[i])
    BY DEF Matched
  <2>5. \A i \in DOMAIN ListOf.dags : List!Matching(ListOf.dags[i]) => i \in Matched
    BY DEF Matched
  <2>6. ASSUME NEW d \in List!ToSet(rows) PROVE d \in List!DagSet /\ List!Matching(d)
    <3>1. PICK k \in 1..N : d = ListOf.dags[p[k]]
      BY <2>1, <2>6, Zenon
    <3>. QED  BY <2>2, <2>3, <2>4, <3>1, Zenon
  <2>7. ASSUME NEW d \in List!DagSet, List!Matching(d) PROVE d \in List!ToSet(rows)
    <3>1. PICK i \in DOMAIN ListOf.dags : d = ListOf.dags[i]
      BY <2>2, <2>7, Zenon
    <3>2. i \in Matched
      BY <2>5, <2>7, <3>1, Zenon
    <3>. QED  BY <1>1, <2>1, <3>1, <3>2, Zenon
  <2>. QED
    BY <2>6, <2>7, Zenon
<1>4. ASSUME NEW k \in DOMAIN rows, NEW l \in DOMAIN rows, k < l
      PROVE  LET x == List!Value(rows[k])  y == List!Value(rows[l])
             IN  /\ x6.dir = "asc" => x <= y
                 /\ x6.dir = "desc" => x >= y
                 /\ x = y => List!Place(rows[k]) < List!Place(rows[l])
  <2>. DEFINE i == p[k]
              j == p[l]
              a == List!Value(ListOf.dags[i])
              b == List!Value(ListOf.dags[j])
  <2>1. k \in 1..N /\ l \in 1..N /\ rows[k] = ListOf.dags[i] /\ rows[l] = ListOf.dags[j]
    BY <1>2
  <2>2. i \in Matched /\ j \in Matched
    BY <1>1, <2>1
  <2>3. a \in Int /\ b \in Int
    BY <2>2, WeightsAreNumbers
  <2>4. Weight[i] <= Weight[j] /\ (Weight[i] = Weight[j] => i < j)
    BY <1>1, <1>4, <2>1
  <2>5. /\ Weight[i] = (IF x6.dir = "asc" THEN a ELSE - a)
        /\ Weight[j] = (IF x6.dir = "asc" THEN b ELSE - b)
    BY <2>2 DEF Weight
  <2>6. List!Place(rows[k]) = i /\ List!Place(rows[l]) = j
    BY <2>1, <2>2, PlacesAreOnce DEF Matched
  <2>. HIDE DEF a, b, i, j
  <2>7. /\ x6.dir = "asc" => a <= b
        /\ x6.dir = "desc" => a >= b
        /\ a = b => i < j
    BY <2>3, <2>4, <2>5
  <2>. QED
    BY <2>1, <2>6, <2>7 DEF a, b
<1>. QED
  BY <1>3, <1>4 DEF rows

(* While there are rows, one of them is active, also behind an error.      *)
ListInv == List!TypeOK /\ (List!Rows # <<>> => x7 < Len(List!Rows))

FewRows ==
    /\ Len(List!Rows) \in Nat /\ Len(List!Rows) <= Len(ListOf.dags)
    /\ List!Rows # <<>> => Len(List!Rows) >= 1

LEMMA RowsAreFew == List!DagsAssumption /\ List!TypeOK => FewRows
<1>. SUFFICES ASSUME List!DagsAssumption, List!TypeOK PROVE FewRows
  OBVIOUS
<1>. USE DEF FewRows
<1>1. CASE x1 = None
  <2>1. List!Rows = <<>> /\ Len(<<>>) = 0
    BY <1>1 DEF List!Rows
  <2>. QED  BY <2>1, ListLength
<1>2. CASE x1 # None
  <2>. DEFINE N == Cardinality(Matched)
              row(k) == ListOf.dags[Ordered(Matched, Lighter(Matched, Weight))[k]]
  <2>1. List!Rows = [k \in 1..N |-> row(k)]
    BY <1>2, RowsByWeight
  <2>2. N \in Nat /\ N <= Len(ListOf.dags)
    BY MatchedIsFinite
  <2>. HIDE DEF N, row
  <2>3. Len(List!Rows) = N
    BY <2>1, <2>2
  <2>4. N = 0 => List!Rows = <<>>
    BY <2>1
  <2>. QED  BY <2>2, <2>3, <2>4
<1>. QED
  BY <1>1, <1>2

LEMMA ListInit == List!DagsAssumption /\ List!Init => ListInv
<1>. SUFFICES ASSUME List!DagsAssumption, List!Init PROVE ListInv
  OBVIOUS
<1>1. x7 \in 0..Len(ListOf.dags)
  BY ListLength DEF List!Init
<1>2. {x3, x5, x8} \subseteq BOOLEAN
  BY DEF List!Init
<1>3. x6 \in [key : List!SortKeys, dir : {"asc", "desc"}]
  BY DEF List!Init, List!SortKeys
<1>4. List!Rows = <<>>
  BY DEF List!Init, List!Rows
<1>. QED
  BY <1>1, <1>2, <1>3, <1>4 DEF List!Init, List!TypeOK, ListInv

(* The row that was active still is, or the first one is.                  *)
LEMMA ResetKeepsARow ==
    ASSUME List!DagsAssumption, ListInv,
           x1' \in ListOf.dagLists \cup {None}, x2' \in [ListOf.flows -> SUBSET List!DagSet],
           x4' \in ListOf.queries, x6' \in [key : List!SortKeys, dir : {"asc", "desc"}],
           {x3', x5', x8'} \subseteq BOOLEAN, List!ResetOnLength
    PROVE  ListInv'
<1>1. Len(ListOf.dags) \in Nat
  BY ListLength
<1>2. x7 \in 0..Len(ListOf.dags) /\ x7' \in {0, x7}
  BY DEF ListInv, List!TypeOK, List!ResetOnLength
<1>3. List!TypeOK'
  BY <1>1, <1>2 DEF List!TypeOK, List!DagSet, List!ToSet
<1>4. /\ Len(List!Rows) \in Nat
      /\ List!Rows # <<>> => Len(List!Rows) >= 1
  BY RowsAreFew DEF ListInv, FewRows
<1>5. FewRows'
  <2>1. (List!DagsAssumption /\ List!TypeOK => FewRows)'
    BY RowsAreFew, PTL
  <2>2. List!DagsAssumption'
    BY DEF List!DagsAssumption, List!DagSet, List!ToSet
  <2>. QED  BY <1>3, <2>1, <2>2
<1>. QED
  BY <1>2, <1>3, <1>4, <1>5 DEF ListInv, List!ResetOnLength, FewRows

(* Steps that change none of what the rows are made of change no row.      *)
LEMMA SameRows ==
    ASSUME UNCHANGED <<x1, x2, x4, x5, x6>>
    PROVE  List!Rows' = List!Rows
<1>1. (List!Rows = RowsInOrder(Matched, MatchedOrder))'
  BY RowsAreInOrder, PTL
<1>2. Matched' = Matched
  BY DEF Matched, List!Matching, List!MatchesFilter
<1>3. ASSUME NEW a, NEW b PROVE List!Precedes(a, b)' = List!Precedes(a, b)
  BY DEF List!Precedes, List!Value, List!Place
<1>4. MatchedOrder' = MatchedOrder
  BY <1>2, <1>3 DEF MatchedOrder
<1>5. RowsInOrder(Matched, MatchedOrder)' = RowsInOrder(Matched, MatchedOrder)
  BY <1>2, <1>4 DEF RowsInOrder
<1>. QED
  BY <1>1, <1>5, RowsAreInOrder

LEMMA ListSteps ==
    ASSUME List!DagsAssumption, ListInv, [List!Next]_(List!vars)
    PROVE  ListInv'
<1>. USE DEF List!TypeOK
<1>1. List!TypeOK /\ Len(ListOf.dags) \in Nat /\ FewRows
  BY ListLength, RowsAreFew DEF ListInv
<1>2. CASE List!Refetch
  BY <1>1, <1>2, ResetKeepsARow DEF List!Refetch
<1>3. CASE List!RefetchFails
  <2>1. List!Rows' = List!Rows
    BY <1>3, SameRows DEF List!RefetchFails
  <2>2. {x3', x5', x8'} \subseteq BOOLEAN
    BY <1>1, <1>3 DEF List!RefetchFails
  <2>. QED
    BY <1>3, <2>1, <2>2 DEF List!RefetchFails, ListInv, List!DagSet, List!ToSet
<1>4. CASE List!RefetchFlows
  <2>1. x2' \in [ListOf.flows -> SUBSET List!DagSet]
    BY <1>4 DEF List!RefetchFlows, List!DagsAssumption
  <2>. QED
    BY <1>1, <1>4, <2>1, ResetKeepsARow DEF List!RefetchFlows
<1>5. CASE List!SetOnlyRunning
  BY <1>1, <1>5, ResetKeepsARow DEF List!SetOnlyRunning
<1>6. ASSUME NEW text \in ListOf.queries, List!SetFilter(text) PROVE ListInv'
  BY <1>1, <1>6, ResetKeepsARow DEF List!SetFilter
<1>7. ASSUME NEW key \in List!SortKeys, List!ToggleSort(key) PROVE ListInv'
  <2>1. x6' \in [key : List!SortKeys, dir : {"asc", "desc"}]
    BY <1>1, <1>7 DEF List!ToggleSort, List!Opposite
  <2>. QED
    BY <1>1, <1>7, <2>1, ResetKeepsARow DEF List!ToggleSort
<1>8. ASSUME NEW to, List!Move(to),
             Len(List!Rows) >= 1 => to \in 0..(Len(List!Rows) - 1)
      PROVE  ListInv'
  <2>1. List!Rows' = List!Rows
    BY <1>8, SameRows DEF List!Move
  <2>2. List!Rows # <<>> /\ Len(List!Rows) >= 1
    BY <1>1, <1>8 DEF List!Move, List!Shown, FewRows
  <2>3. x7' \in 0..(Len(List!Rows) - 1) /\ x7' \in 0..Len(ListOf.dags)
    BY <1>1, <1>8, <2>2 DEF List!Move, FewRows
  <2>4. {x3', x5', x8'} \subseteq BOOLEAN
    BY <1>1, <1>8 DEF List!Move
  <2>5. List!TypeOK'
    BY <1>1, <1>8, <2>3, <2>4 DEF List!Move, List!DagSet, List!ToSet
  <2>6. x7' < Len(List!Rows)
    BY <1>1, <2>3 DEF FewRows
  <2>. QED
    BY <2>1, <2>5, <2>6 DEF ListInv
<1>9. x7 \in Nat /\ (Len(List!Rows) >= 1 => x7 < Len(List!Rows))
  <2>1. Len(List!Rows) >= 1 => List!Rows # <<>>
    OBVIOUS
  <2>. QED  BY <1>1, <2>1 DEF ListInv
<1>10. Len(List!Shown) = Len(List!Rows) \/ List!Shown = <<>>
  BY DEF List!Shown
<1>11. CASE List!Down
  <2>1. Len(List!Rows) >= 1 => List!Least(Len(List!Rows) - 1, x7 + 1) \in 0..(Len(List!Rows) - 1)
    BY <1>1, <1>9 DEF List!Least, FewRows
  <2>2. List!Move(List!Least(Len(List!Rows) - 1, x7 + 1))
    BY <1>10, <1>11 DEF List!Down, List!Move
  <2>. QED  BY <1>8, <2>1, <2>2
<1>12. CASE List!Up
  <2>1. Len(List!Rows) >= 1 => (IF x7 = 0 THEN 0 ELSE x7 - 1) \in 0..(Len(List!Rows) - 1)
    BY <1>1, <1>9 DEF FewRows
  <2>. QED  BY <1>8, <1>12, <2>1 DEF List!Up
<1>13. CASE List!Bottom
  <2>1. Len(List!Rows) >= 1 => Len(List!Rows) - 1 \in 0..(Len(List!Rows) - 1)
    BY <1>1 DEF FewRows
  <2>2. List!Move(Len(List!Rows) - 1)
    BY <1>10, <1>13 DEF List!Bottom, List!Move
  <2>. QED  BY <1>8, <2>1, <2>2
<1>14. CASE List!PressG
  <2>1. List!Rows' = List!Rows /\ x7' \in {0, x7}
    BY <1>14, SameRows DEF List!PressG
  <2>2. {x3', x5', x8'} \subseteq BOOLEAN
    BY <1>1, <1>14 DEF List!PressG
  <2>3. List!TypeOK'
    BY <1>1, <1>14, <2>1, <2>2 DEF List!PressG, List!DagSet, List!ToSet
  <2>4. List!Rows # <<>> => x7' < Len(List!Rows)
    BY <1>1, <2>1 DEF ListInv, FewRows
  <2>. QED
    BY <2>1, <2>3, <2>4 DEF ListInv
<1>15. CASE List!Disarm
  <2>1. List!Rows' = List!Rows
    BY <1>15, SameRows DEF List!Disarm
  <2>2. {x3', x5', x8'} \subseteq BOOLEAN
    BY <1>1, <1>15 DEF List!Disarm
  <2>. QED
    BY <1>15, <2>1, <2>2 DEF List!Disarm, ListInv, List!DagSet, List!ToSet
<1>16. CASE UNCHANGED List!vars
  <2>1. List!Rows' = List!Rows
    BY <1>16, SameRows DEF List!vars
  <2>. QED
    BY <1>16, <2>1 DEF List!vars, ListInv, List!DagSet, List!ToSet
<1>. QED
  BY <1>2, <1>3, <1>4, <1>5, <1>6, <1>7, <1>11, <1>12, <1>13, <1>14, <1>15, <1>16
  DEF List!Next

LEMMA ActiveIsARow ==
    ASSUME List!DagsAssumption, ListInv
    PROVE  List!ActiveIsARow
<1>1. FewRows /\ x7 \in Nat
  BY RowsAreFew, ListLength DEF ListInv, List!TypeOK
<1>2. List!Shown # <<>> => List!Shown = List!Rows
  BY DEF List!Shown
<1>. QED
  BY <1>1, <1>2 DEF ListInv, FewRows, List!ActiveIsARow

-----------------------------------------------------------------------------
(* The overview                                                            *)

LEMMA HomeInit == HomePage!OverviewAssumption /\ HomePage!Init => HomePage!TypeOK
<1>. SUFFICES ASSUME HomePage!OverviewAssumption, HomePage!Init PROVE HomePage!TypeOK
  OBVIOUS
<1>1. x1 \subseteq HomeOf.flows /\ x2 \subseteq HomeOf.dags /\ x6 \subseteq x2
  BY DEF HomePage!Init
<1>2. DOMAIN x4 \subseteq x1 /\ x4 \in [DOMAIN x4 -> BOOLEAN]
  BY DEF HomePage!Init
<1>. QED
  BY <1>1, <1>2 DEF HomePage!Init, HomePage!TypeOK

LEMMA HomeTypes ==
    ASSUME HomePage!TypeOK, [HomePage!Next]_(HomePage!vars)
    PROVE  HomePage!TypeOK'
<1>. USE DEF HomePage!TypeOK
<1>1. CASE HomePage!ReceiveFlows
  BY <1>1 DEF HomePage!ReceiveFlows, HomePage!Arrived
<1>2. CASE HomePage!ReceiveFlowRuns
  BY <1>2 DEF HomePage!ReceiveFlowRuns, HomePage!Arrived
<1>3. CASE HomePage!ReceiveDags
  BY <1>3 DEF HomePage!ReceiveDags, HomePage!Arrived
<1>4. CASE HomePage!ReceiveRuns
  BY <1>4 DEF HomePage!ReceiveRuns, HomePage!Arrived
<1>5. ASSUME NEW n \in HomePage!Names, HomePage!Fail(n) PROVE HomePage!TypeOK'
  BY <1>5 DEF HomePage!Fail
<1>6. ASSUME NEW text \in HomeOf.queries, HomePage!Typed(text) PROVE HomePage!TypeOK'
  BY <1>6 DEF HomePage!Typed
<1>7. CASE HomePage!ToggleRunning
  BY <1>7 DEF HomePage!ToggleRunning
<1>8. CASE UNCHANGED HomePage!vars
  BY <1>8 DEF HomePage!vars
<1>. QED
  BY <1>1, <1>2, <1>3, <1>4, <1>5, <1>6, <1>7, <1>8 DEF HomePage!Next

LEMMA HomeCounts == \A S : HomePage!Cardinality(S) = Cardinality(S)
BY DEF HomePage!Cardinality, Cardinality

LEMMA HomeOrders == \A S, R : HomePage!Ordered(S, R) = Ordered(S, R)
BY DEF HomePage!Ordered, Ordered, HomePage!Cardinality, Cardinality

LEMMA HomeRunning == HomePage!TypeOK => HomePage!FilteredAreShownRunning
<1>. SUFFICES ASSUME HomePage!TypeOK, x9, NEW f \in HomePage!Listed
     PROVE  HomePage!FlowState(f) = "running"
  BY DEF HomePage!FilteredAreShownRunning
<1>1. x4[f]
  BY DEF HomePage!Listed
<1>. QED
  BY <1>1 DEF HomePage!FlowState

LEMMA AttentionIsForFailures ==
    HomePage!Headline[1] = "need attention" => HomePage!FailedFlows > 0
BY DEF HomePage!Headline

LEMMA HomeAttention ==
    HomePage!OverviewAssumption /\ HomePage!TypeOK => HomePage!AttentionIsForRegistered
<1>. SUFFICES ASSUME HomePage!OverviewAssumption, HomePage!TypeOK,
                     HomePage!FailedFlows > 0
     PROVE  \E i \in DOMAIN x5 : x5[i].flow \in x1 /\ x5[i].state = "failed"
  BY AttentionIsForFailures DEF HomePage!AttentionIsForRegistered
<1>. DEFINE F == {i \in HomePage!CurrentFlowRuns : x5[i].state = "failed"}
<1>2. HomePage!FailedFlows = HomePage!Least(HomeOf.shown, Cardinality(F))
  BY HomeCounts DEF HomePage!FailedFlows
<1>3. F # {}
  <2>1. SUFFICES ASSUME F = {} PROVE FALSE
    OBVIOUS
  <2>2. Cardinality(F) = 0
    BY <2>1, FS_EmptySet
  <2>3. HomeOf.shown \in Nat \ {0}
    BY DEF HomePage!OverviewAssumption
  <2>. HIDE DEF F
  <2>4. HomePage!FailedFlows = 0
    BY <1>2, <2>2, <2>3 DEF HomePage!Least
  <2>. QED
    BY <2>4
<1>4. PICK i \in F : TRUE
  BY <1>3
<1>5. i \in DOMAIN x5 /\ x5[i].flow \in DOMAIN x4 /\ x5[i].state = "failed"
  BY <1>4 DEF HomePage!CurrentFlowRuns
<1>. QED
  BY <1>5 DEF HomePage!TypeOK

(* Nothing but the order of places is kept of what is not sorted.          *)
(* Filtering a sequence keeps its type.                                    *)
LEMMA KeptIsASequence ==
    ASSUME NEW S, NEW s \in Seq(S), NEW I \in SUBSET (DOMAIN s)
    PROVE  HomePage!Kept(s, I) \in Seq(S)
<1>. DEFINE w == [i \in I |-> 0]
            p == Ordered(I, Lighter(I, w))
            N == Cardinality(I)
<1>1. DOMAIN s = 1..Len(s) /\ Len(s) \in Nat /\ \A i \in DOMAIN s : s[i] \in S
  BY LenProperties, ElementOfSeq
<1>2. I \in SUBSET Nat /\ IsFiniteSet(I)
  <2>1. IsFiniteSet(1..Len(s))
    <3>1. 1 \in Int /\ Len(s) \in Int
      BY <1>1
    <3>. QED  BY <3>1, FS_Interval
  <2>2. I \in SUBSET (1..Len(s))
    BY <1>1
  <2>. QED  BY <1>1, <2>1, <2>2, FS_Subset
<1>3. N \in Nat
  BY <1>2, FS_CardinalityType
<1>4. p \in [1..N -> I]
  BY <1>2, PlacesByWeight
<1>5. {q \in I \X I : FALSE \/ (~FALSE /\ q[1] < q[2])} = Lighter(I, w)
  BY DEF Lighter
<1>6. HomePage!Kept(s, I) = [k \in 1..N |-> s[p[k]]]
  <2>1. HomePage!Kept(s, I) =
            [k \in 1..HomePage!Cardinality(I) |->
                s[HomePage!Ordered(I, {q \in I \X I : FALSE \/ (~FALSE /\ q[1] < q[2])})[k]]]
    BY DEF HomePage!Kept, HomePage!Ranked
  <2>2. HomePage!Ordered(I, Lighter(I, w)) = p
    BY HomeOrders
  <2>3. HomePage!Cardinality(I) = N
    BY HomeCounts
  <2>. HIDE DEF p, N, w
  <2>. QED  BY <1>5, <2>1, <2>2, <2>3
<1>. HIDE DEF p, N
<1>7. \A k \in 1..N : s[p[k]] \in S
  BY <1>1, <1>4
<1>8. [k \in 1..N |-> s[p[k]]] \in [1..N -> S]
  BY <1>7
<1>. QED
  BY <1>3, <1>6, <1>8, SeqDef

Entries == [flow : HomeOf.flows, state : HomePage!States, time : Nat]
           \cup [dag : HomeOf.dags, state : HomePage!States, time : Nat]

LEMMA ActivityIsASequence ==
    ASSUME HomePage!OverviewAssumption, HomePage!TypeOK
    PROVE  HomePage!Activity \in Seq(Entries)
<1>1. x5 \in Seq([flow : HomeOf.flows, state : HomePage!States, time : Nat])
  BY EmptySeq DEF HomePage!OverviewAssumption, HomePage!TypeOK
<1>2. x7 \in Seq([dag : HomeOf.dags, state : HomePage!States, time : Nat])
  BY EmptySeq DEF HomePage!OverviewAssumption, HomePage!TypeOK
<1>3. x5 \in Seq(Entries) /\ x7 \in Seq(Entries)
  BY <1>1, <1>2, SeqMonotonic DEF Entries
<1>4. HomePage!CurrentFlowRuns \in SUBSET (DOMAIN x5)
  BY DEF HomePage!CurrentFlowRuns
<1>5. HomePage!Kept(x5, HomePage!CurrentFlowRuns) \in Seq(Entries)
  BY <1>3, <1>4, KeptIsASequence
<1>. QED
  BY <1>3, <1>5, ConcatProperties DEF HomePage!Activity

LEMMA EntriesHaveTimes == \A e \in Entries : e.time \in Nat
BY DEF Entries

(* A list of m places, none of them twice, in a finite set.                *)
LEMMA AtLeastAsMany ==
    ASSUME NEW m \in Nat, NEW T, IsFiniteSet(T), NEW q \in [1..m -> T],
           \A k, l \in 1..m : k < l => q[k] # q[l]
    PROVE  Cardinality(T) \in Nat /\ m <= Cardinality(T)
<1>1. q \in Injection(1..m, T)
  <2>1. \A k, l \in 1..m : q[k] = q[l] => k = l
    <3>1. ASSUME NEW k \in 1..m, NEW l \in 1..m, q[k] = q[l], k # l PROVE FALSE
      <4>1. k < l \/ l < k
        BY <3>1
      <4>. QED  BY <3>1, <4>1
    <3>. QED  BY <3>1
  <2>. QED  BY <2>1 DEF Injection, IsInjective
<1>2. Cardinality(1..m) = m
  <2>1. Cardinality(1..m) = IF 1 > m THEN 0 ELSE m - 1 + 1
    BY FS_Interval
  <2>. QED  BY <2>1
<1>. QED
  BY <1>1, <1>2, FS_Injection, FS_CardinalityType

LEMMA HomeRecent ==
    HomePage!OverviewAssumption /\ HomePage!TypeOK => HomePage!RecentAreTheLatest
<1>. SUFFICES ASSUME HomePage!OverviewAssumption, HomePage!TypeOK
     PROVE  HomePage!RecentAreTheLatest
  OBVIOUS
<1>. DEFINE all == HomePage!Activity
            n == Len(all)
            w == [i \in 1..n |-> - all[i].time]
            p == Ordered(1..n, Lighter(1..n, w))
            items == [k \in 1..n |-> all[p[k]]]
            m == HomePage!Least(HomeOf.shown, n)
            shown == HomePage!RecentActivity
<1>1. /\ n \in Nat /\ DOMAIN all = 1..n
      /\ \A i \in 1..n : all[i] \in Entries /\ all[i].time \in Nat
  BY ActivityIsASequence, LenProperties, ElementOfSeq, EntriesHaveTimes
<1>2. HomeOf.shown \in Nat /\ HomeOf.shown >= 1
  <2>1. HomeOf.shown \in Nat \ {0}
    BY DEF HomePage!OverviewAssumption
  <2>. QED  BY <2>1
<1>3. m \in 0..n /\ m <= HomeOf.shown /\ (m < n => m = HomeOf.shown)
  BY <1>1, <1>2 DEF HomePage!Least
<1>4. IsFiniteSet(1..n) /\ Cardinality(1..n) = n
  <2>1. IsFiniteSet(1..n) /\ Cardinality(1..n) = IF 1 > n THEN 0 ELSE n - 1 + 1
    BY <1>1, FS_Interval
  <2>. QED  BY <1>1, <2>1
<1>5. HomePage!RecentActivity = SubSeq(items, 1, HomePage!Least(HomeOf.shown, Len(items)))
  <2>. DEFINE R == {q \in (1..n) \X (1..n) :
                       \/ all[q[1]].time > all[q[2]].time
                       \/ ~(all[q[2]].time > all[q[1]].time) /\ q[1] < q[2]}
  <2>1. R = Lighter(1..n, w)
    <3>1. \A i, j \in 1..n : w[i] < w[j] <=> all[i].time > all[j].time
      BY <1>1
    <3>. HIDE DEF all, n, w
    <3>. QED  BY <3>1 DEF Lighter
  <2>2. HomePage!Ranked(all, DOMAIN all, LAMBDA a, b : a.time > b.time) =
            [k \in 1..HomePage!Cardinality(1..n) |-> all[HomePage!Ordered(1..n, R)[k]]]
    BY <1>1 DEF HomePage!Ranked
  <2>3. HomePage!Ordered(1..n, R) = p
    BY <2>1, HomeOrders
  <2>4. HomePage!Cardinality(1..n) = n
    BY <1>4, HomeCounts
  <2>. HIDE DEF R, p, n, all
  <2>5. HomePage!Ranked(all, DOMAIN all, LAMBDA a, b : a.time > b.time) = items
    BY <2>2, <2>3, <2>4
  <2>. QED
    BY <2>5 DEF HomePage!RecentActivity, all
<1>. HIDE DEF all, n, w, p
<1>6. /\ p \in [1..n -> 1..n]
      /\ \A i \in 1..n : \E k \in 1..n : p[k] = i
      /\ \A k, l \in 1..n : k < l => /\ all[p[k]].time >= all[p[l]].time
                                     /\ p[k] # p[l]
  <2>1. 1..n \in SUBSET Nat /\ w \in [1..n -> Int]
    BY <1>1 DEF w
  <2>2. /\ p \in [1..n -> 1..n]
        /\ \A i \in 1..n : \E k \in 1..n : p[k] = i
        /\ \A k, l \in 1..n : k < l => /\ w[p[k]] <= w[p[l]]
                                       /\ w[p[k]] = w[p[l]] => p[k] < p[l]
    <3>1. /\ p \in [1..Cardinality(1..n) -> 1..n]
          /\ \A i \in 1..n : \E k \in 1..Cardinality(1..n) : p[k] = i
          /\ \A k, l \in 1..Cardinality(1..n) :
                k < l => /\ w[p[k]] <= w[p[l]]
                         /\ w[p[k]] = w[p[l]] => p[k] < p[l]
      BY <1>4, <2>1, PlacesByWeight, Zenon DEF p
    <3>. QED  BY <1>4, <3>1, Zenon
  <2>3. ASSUME NEW k \in 1..n, NEW l \in 1..n, k < l
        PROVE  all[p[k]].time >= all[p[l]].time /\ p[k] # p[l]
    <3>1. p[k] \in 1..n /\ p[l] \in 1..n
      BY <2>2
    <3>2. w[p[k]] = - all[p[k]].time /\ w[p[l]] = - all[p[l]].time
      BY <3>1 DEF w
    <3>3. all[p[k]].time \in Nat /\ all[p[l]].time \in Nat
      BY <1>1, <3>1
    <3>4. w[p[k]] <= w[p[l]] /\ (w[p[k]] = w[p[l]] => p[k] < p[l])
      BY <2>2, <2>3
    <3>5. p[k] # p[l]
      BY <3>1, <3>4
    <3>. QED  BY <3>2, <3>3, <3>4, <3>5
  <2>. QED
    BY <2>2, <2>3
<1>7. Len(items) = n
  BY <1>1
<1>8. DOMAIN shown = 1..m /\ \A k \in 1..m : shown[k] = all[p[k]]
  <2>1. shown = SubSeq(items, 1, m)
    BY <1>5, <1>7
  <2>2. \A k \in 1..m : items[k] \in Entries
    BY <1>1, <1>3, <1>6
  <2>. HIDE DEF items, shown
  <2>3. /\ shown \in Seq(Entries)
        /\ Len(shown) = IF 1 <= m THEN m - 1 + 1 ELSE 0
        /\ \A k \in 1..(m - 1 + 1) : shown[k] = items[1 + k - 1]
    <3>. HIDE DEF m
    <3>. QED  BY <1>3, <2>1, <2>2, SubSeqProperties
  <2>. HIDE DEF m
  <2>4. Len(shown) = m /\ DOMAIN shown = 1..m
    BY <1>3, <2>3, LenProperties
  <2>5. ASSUME NEW k \in 1..m PROVE shown[k] = items[k] /\ items[k] = all[p[k]]
    <3>1. k \in 1..n /\ k \in 1..(m - 1 + 1) /\ 1 + k - 1 = k
      BY <1>1, <1>3
    <3>. QED  BY <2>3, <3>1 DEF items
  <2>. QED  BY <2>4, <2>5
<1>. HIDE DEF items, shown, m
<1>9. ASSUME NEW k \in DOMAIN shown, NEW l \in DOMAIN shown, k < l
      PROVE  shown[k].time >= shown[l].time
  <2>1. k \in 1..n /\ l \in 1..n
    BY <1>1, <1>3, <1>8
  <2>. QED  BY <1>6, <1>8, <1>9, <2>1
<1>10. ASSUME NEW i \in DOMAIN all,
              HomePage!Cardinality({j \in DOMAIN all : all[j].time > all[i].time}) < HomeOf.shown
       PROVE  \E k \in DOMAIN shown : shown[k].time = all[i].time
  <2>. DEFINE Newer == {j \in 1..n : all[j].time > all[i].time}
  <2>1. Cardinality(Newer) < HomeOf.shown
    BY <1>1, <1>10, HomeCounts
  <2>2. PICK k \in 1..n : p[k] = i
    BY <1>1, <1>6
  <2>3. CASE k <= m
    <3>1. k \in 1..m
      BY <1>3, <2>2, <2>3
    <3>. QED  BY <1>8, <2>2, <3>1
  <2>4. CASE ~(k <= m)
    <3>1. m = HomeOf.shown /\ m \in 1..n /\ m < k /\ 1..m \subseteq 1..n
      BY <1>1, <1>2, <1>3, <2>2, <2>4
    <3>2. CASE all[p[m]].time = all[i].time
      <4>1. m \in 1..m
        BY <3>1
      <4>. QED  BY <1>8, <3>2, <4>1
    <3>3. CASE all[p[m]].time # all[i].time
      <4>1. all[p[m]].time > all[i].time
        <5>1. all[p[m]].time >= all[i].time /\ p[m] \in 1..n
          BY <1>6, <2>2, <3>1
        <5>. QED  BY <1>1, <3>3, <5>1
      <4>2. ASSUME NEW l \in 1..m PROVE p[l] \in Newer
        <5>1. l \in 1..n /\ (l < m \/ l = m)
          BY <1>1, <3>1
        <5>2. p[l] \in 1..n /\ p[m] \in 1..n /\ all[p[l]].time >= all[p[m]].time
          <6>1. p[l] \in 1..n /\ p[m] \in 1..n
            BY <1>6, <3>1, <5>1
          <6>2. CASE l < m
            BY <1>6, <3>1, <5>1, <6>1, <6>2
          <6>3. CASE l = m
            BY <1>1, <6>1, <6>3
          <6>. QED  BY <5>1, <6>1, <6>2, <6>3
        <5>3. all[p[l]].time \in Nat /\ all[p[m]].time \in Nat /\ all[i].time \in Nat
          BY <1>1, <5>2
        <5>4. all[p[l]].time > all[i].time
          BY <4>1, <5>2, <5>3
        <5>. QED  BY <5>2, <5>4
      <4>3. IsFiniteSet(Newer)
        <5>1. Newer \in SUBSET (1..n)
          OBVIOUS
        <5>. HIDE DEF Newer
        <5>. QED  BY <1>4, <5>1, FS_Subset
      <4>. DEFINE q == [l \in 1..m |-> p[l]]
      <4>4. q \in [1..m -> Newer]
        <5>. HIDE DEF Newer
        <5>. QED  BY <4>2
      <4>5. ASSUME NEW l \in 1..m, NEW h \in 1..m, l < h PROVE q[l] # q[h]
        <5>1. l \in 1..n /\ h \in 1..n
          BY <3>1
        <5>2. p[l] # p[h]
          BY <1>6, <4>5, <5>1
        <5>. QED  BY <5>2
      <4>. HIDE DEF Newer, q
      <4>6. Cardinality(Newer) \in Nat /\ m <= Cardinality(Newer)
        <5>1. m \in Nat
          BY <3>1
        <5>. QED  BY <4>3, <4>4, <4>5, <5>1, AtLeastAsMany
      <4>. QED  BY <2>1, <3>1, <4>6
    <3>. QED  BY <3>2, <3>3
  <2>. QED  BY <2>3, <2>4
<1>. QED
  BY <1>9, <1>10 DEF HomePage!RecentAreTheLatest, shown, all

-----------------------------------------------------------------------------
(* The palette                                                             *)

(* What an item is worth to what was typed, and the places of the items    *)
(* the palette offers.                                                     *)
Worth(i) == IF x3 = "" THEN 1 ELSE PaletteOf.score[x3][PaletteOf.items[i]]

Offered == {i \in Palette!Known : Worth(i) > 0}

Merit == [i \in Offered |-> - Worth(i)]

LEMMA PaletteOrders == \A S, R : Palette!Ordered(S, R) = Ordered(S, R)
BY DEF Palette!Ordered, Ordered, Palette!Cardinality, Cardinality

LEMMA ItemsAreASequence ==
    ASSUME Palette!ItemsAssumption
    PROVE  Len(PaletteOf.items) \in Nat /\ DOMAIN PaletteOf.items = 1..Len(PaletteOf.items)
<1>1. PaletteOf.items \in Seq(Palette!ItemSet)
  BY Zenon DEF Palette!ItemsAssumption
<1>. QED
  BY <1>1

LEMMA WorthsAreNumbers ==
    ASSUME Palette!ItemsAssumption, Palette!TypeOK
    PROVE  /\ \A i \in DOMAIN PaletteOf.items : Worth(i) \in Nat
           /\ Merit \in [Offered -> Int]
<1>1. ASSUME NEW i \in DOMAIN PaletteOf.items PROVE Worth(i) \in Nat
  <2>1. CASE x3 = ""
    BY <2>1 DEF Worth
  <2>2. CASE x3 # ""
    <3>1. PaletteOf.score \in [PaletteOf.queries \ {""} -> [Palette!ItemSet -> Nat]]
      BY Zenon DEF Palette!ItemsAssumption
    <3>2. x3 \in PaletteOf.queries \ {""}
      BY <2>2 DEF Palette!TypeOK
    <3>3. PaletteOf.items[i] \in Palette!ItemSet
      BY DEF Palette!ItemSet, Palette!ToSet
    <3>4. PaletteOf.score[x3] \in [Palette!ItemSet -> Nat]
      BY <3>1, <3>2
    <3>. QED  BY <2>2, <3>3, <3>4 DEF Worth
  <2>. QED  BY <2>1, <2>2
<1>2. \A i \in Offered : - Worth(i) \in Int
  BY <1>1 DEF Offered, Palette!Known
<1>. QED
  BY <1>1, <1>2 DEF Merit

LEMMA OfferedIsFinite ==
    ASSUME Palette!ItemsAssumption
    PROVE  /\ Offered \in SUBSET Nat /\ IsFiniteSet(Offered)
           /\ Offered \in SUBSET (DOMAIN PaletteOf.items)
           /\ Cardinality(Offered) \in Nat
           /\ Cardinality(Offered) <= Len(PaletteOf.items)
<1>. DEFINE n == Len(PaletteOf.items)
<1>1. n \in Nat /\ DOMAIN PaletteOf.items = 1..n
  BY ItemsAreASequence
<1>2. Offered \in SUBSET (DOMAIN PaletteOf.items)
  BY DEF Offered, Palette!Known
<1>. HIDE DEF n
<1>3. Offered \in SUBSET (1..n) /\ Offered \in SUBSET Nat
  BY <1>1, <1>2
<1>4. IsFiniteSet(1..n) /\ Cardinality(1..n) = n
  <2>1. IsFiniteSet(1..n) /\ Cardinality(1..n) = IF 1 > n THEN 0 ELSE n - 1 + 1
    BY <1>1, FS_Interval
  <2>. QED  BY <1>1, <2>1
<1>5. IsFiniteSet(Offered) /\ Cardinality(Offered) <= n
  BY <1>3, <1>4, FS_Subset
<1>6. Cardinality(Offered) \in Nat
  BY <1>5, FS_CardinalityType
<1>. QED
  BY <1>2, <1>3, <1>5, <1>6 DEF n

(* The results are the items at the places offered, by their merit.        *)
LEMMA ResultsByMerit ==
    ASSUME Palette!ItemsAssumption, Palette!TypeOK
    PROVE  Palette!Filtered = [k \in 1..Cardinality(Offered) |->
                PaletteOf.items[Ordered(Offered, Lighter(Offered, Merit))[k]]]
<1>1. \A I : Palette!Cardinality(I) = Cardinality(I)
  BY DEF Palette!Cardinality, Cardinality
<1>2. \A i \in Offered : Worth(i) \in Nat /\ Merit[i] = - Worth(i)
  BY WorthsAreNumbers DEF Offered, Palette!Known, Merit
<1>3. CASE x3 = ""
  <2>. DEFINE I == Palette!Known
              R == {p \in I \X I : FALSE \/ (~FALSE /\ p[1] < p[2])}
  <2>1. Palette!Filtered =
            [k \in 1..Palette!Cardinality(I) |-> PaletteOf.items[Palette!Ordered(I, R)[k]]]
    BY <1>3 DEF Palette!Filtered, Palette!Kept, Palette!Ranked
  <2>2. Offered = I
    <3>1. \A i : Worth(i) = 1
      BY <1>3 DEF Worth
    <3>. QED  BY <3>1 DEF Offered
  <2>3. R = Lighter(Offered, Merit)
    <3>1. \A i \in Offered : Merit[i] = -1
      BY <1>3 DEF Merit, Worth
    <3>2. R = {p \in Offered \X Offered : p[1] < p[2]}
      BY <2>2
    <3>. HIDE DEF R, I
    <3>3. Lighter(Offered, Merit) = {p \in Offered \X Offered : p[1] < p[2]}
      BY <3>1 DEF Lighter
    <3>. QED  BY <3>2, <3>3
  <2>. HIDE DEF I, R
  <2>. QED  BY <1>1, <2>1, <2>2, <2>3, PaletteOrders
<1>4. CASE x3 # ""
  <2>. DEFINE score(i) == PaletteOf.score[x3][PaletteOf.items[i]]
              I == {i \in Palette!Known : score(i) > 0}
              R == {p \in I \X I : score(p[1]) > score(p[2])
                                     \/ (~(score(p[2]) > score(p[1])) /\ p[1] < p[2])}
  <2>1. Palette!Filtered =
            [k \in 1..Palette!Cardinality(I) |-> PaletteOf.items[Palette!Ordered(I, R)[k]]]
    BY <1>4 DEF Palette!Filtered, Palette!Ranked
  <2>2. Offered = I
    BY <1>4 DEF Offered, Worth
  <2>3. \A i \in Offered : Worth(i) = score(i)
    BY <1>4 DEF Worth
  <2>4. R = {p \in Offered \X Offered : score(p[1]) > score(p[2])
                                     \/ (~(score(p[2]) > score(p[1])) /\ p[1] < p[2])}
    BY <2>2
  <2>. HIDE DEF score, I, R
  <2>5. R = Lighter(Offered, Merit)
    <3>1. ASSUME NEW i \in Offered, NEW j \in Offered
          PROVE  score(i) > score(j) <=> Merit[i] < Merit[j]
      BY <1>2, <2>3
    <3>. QED  BY <2>4, <3>1 DEF Lighter
  <2>. QED  BY <1>1, <2>1, <2>2, <2>5, PaletteOrders
<1>. QED
  BY <1>3, <1>4

LEMMA PaletteResults ==
    ASSUME Palette!ItemsAssumption, Palette!TypeOK
    PROVE  Palette!Results \in Nat /\ Palette!Results <= Len(PaletteOf.items)
<1>. DEFINE N == Cardinality(Offered)
            item(k) == PaletteOf.items[Ordered(Offered, Lighter(Offered, Merit))[k]]
<1>1. Palette!Filtered = [k \in 1..N |-> item(k)]
  BY ResultsByMerit
<1>2. N \in Nat /\ N <= Len(PaletteOf.items)
  BY OfferedIsFinite
<1>. HIDE DEF N, item
<1>3. Len(Palette!Filtered) = N
  BY <1>1, <1>2
<1>. QED
  BY <1>2, <1>3 DEF Palette!Results

(* Each match is offered once, the best first, and equal ones as listed.   *)
LEMMA ResultsAreMatches ==
    ASSUME Palette!ItemsAssumption, Palette!TypeOK
    PROVE  Palette!ResultsAreTheMatches
<1>. DEFINE items == PaletteOf.items
            worth(it) == IF x3 = "" THEN 1 ELSE PaletteOf.score[x3][it]
            place(it) == CHOOSE i \in DOMAIN items : items[i] = it
            results == Palette!Filtered
            p == Ordered(Offered, Lighter(Offered, Merit))
            N == Cardinality(Offered)
<1>1. /\ p \in [1..N -> Offered]
      /\ \A i \in Offered : \E k \in 1..N : p[k] = i
      /\ \A k, l \in 1..N :
            k < l => /\ Merit[p[k]] <= Merit[p[l]]
                     /\ Merit[p[k]] = Merit[p[l]] => p[k] < p[l]
  BY OfferedIsFinite, WorthsAreNumbers, PlacesByWeight
<1>2. results = [k \in 1..N |-> items[p[k]]]
  BY ResultsByMerit
<1>3. Offered = {j \in Palette!Known : worth(items[j]) > 0}
  BY DEF Offered, Worth
<1>4. \A i \in Offered : Worth(i) = worth(items[i])
  BY DEF Worth
<1>5. \A i \in DOMAIN items : place(items[i]) = i
  <2>1. \A i, j \in DOMAIN items : items[i] = items[j] => i = j
    BY Zenon DEF Palette!ItemsAssumption
  <2>. QED  BY <2>1
<1>. HIDE DEF p, N, results, items, worth, place
<1>6. Palette!ToSet(results) = {items[i] : i \in Offered}
  <2>1. Palette!ToSet(results) = {items[p[k]] : k \in 1..N}
    BY <1>2 DEF Palette!ToSet
  <2>2. ASSUME NEW k \in 1..N PROVE items[p[k]] \in {items[i] : i \in Offered}
    BY <1>1
  <2>3. ASSUME NEW i \in Offered PROVE items[i] \in {items[p[k]] : k \in 1..N}
    BY <1>1
  <2>. QED  BY <2>1, <2>2, <2>3
<1>7. ASSUME NEW k \in DOMAIN results, NEW l \in DOMAIN results, k < l
      PROVE  \/ worth(results[k]) > worth(results[l])
             \/ /\ worth(results[k]) = worth(results[l])
                /\ place(results[k]) < place(results[l])
  <2>1. k \in 1..N /\ l \in 1..N
    BY <1>2
  <2>2. results[k] = items[p[k]] /\ results[l] = items[p[l]]
    BY <1>2, <2>1
  <2>3. p[k] \in Offered /\ p[l] \in Offered
    BY <1>1, <2>1
  <2>4. /\ Merit[p[k]] <= Merit[p[l]]
        /\ Merit[p[k]] = Merit[p[l]] => p[k] < p[l]
    BY <1>1, <1>7, <2>1
  <2>5. \A i \in Offered : Worth(i) \in Nat /\ Merit[i] = - Worth(i) /\ i \in DOMAIN items
    BY OfferedIsFinite, WorthsAreNumbers DEF Merit, items
  <2>6. place(results[k]) = p[k] /\ place(results[l]) = p[l]
    BY <1>5, <2>2, <2>3, <2>5
  <2>7. worth(results[k]) = Worth(p[k]) /\ worth(results[l]) = Worth(p[l])
    BY <1>4, <2>2, <2>3
  <2>. QED
    <3>1. Worth(p[k]) > Worth(p[l]) \/ (Worth(p[k]) = Worth(p[l]) /\ p[k] < p[l])
      BY <2>3, <2>4, <2>5
    <3>. QED  BY <2>6, <2>7, <3>1
<1>8. Palette!ToSet(results) = {items[i] : i \in {j \in Palette!Known : worth(items[j]) > 0}}
  BY <1>3, <1>6
<1>. QED
  BY <1>7, <1>8 DEF Palette!ResultsAreTheMatches, results, worth, place, items

(* The palette has at least the items that are always known.               *)
LEMMA ThereAreItems == Palette!ItemsAssumption => Len(PaletteOf.items) \in Nat /\ Len(PaletteOf.items) >= 1
<1>. SUFFICES ASSUME Palette!ItemsAssumption
     PROVE  Len(PaletteOf.items) \in Nat /\ Len(PaletteOf.items) >= 1
  OBVIOUS
<1>1. PICK it \in Palette!ItemSet : TRUE
  BY Zenon DEF Palette!ItemsAssumption
<1>2. PaletteOf.items \in Seq(Palette!ItemSet)
  BY Zenon DEF Palette!ItemsAssumption
<1>3. PaletteOf.items # <<>>
  <2>1. PICK i \in DOMAIN PaletteOf.items : TRUE
    BY <1>1 DEF Palette!ItemSet, Palette!ToSet
  <2>2. DOMAIN <<>> = {}
    OBVIOUS
  <2>. QED  BY <2>1, <2>2
<1>. QED
  BY <1>2, <1>3, EmptySeq

LEMMA PaletteInit == Palette!ItemsAssumption /\ Palette!Init => Palette!TypeOK
<1>. SUFFICES ASSUME Palette!ItemsAssumption, Palette!Init PROVE Palette!TypeOK
  OBVIOUS
<1>1. x4 \in -1..(Len(PaletteOf.items) - 1)
  <2>1. x4 = 0
    BY DEF Palette!Init
  <2>. QED  BY <2>1, ThereAreItems
<1>2. x3 \in PaletteOf.queries
  BY Zenon DEF Palette!ItemsAssumption, Palette!Init
<1>. QED
  BY <1>1, <1>2 DEF Palette!Init, Palette!TypeOK

LEMMA PaletteTypes ==
    ASSUME Palette!ItemsAssumption, Palette!TypeOK, [Palette!Next]_(Palette!vars)
    PROVE  Palette!TypeOK'
<1>. DEFINE n == Len(PaletteOf.items)
<1>. USE DEF Palette!TypeOK
<1>1. n \in Nat /\ n >= 1 /\ Palette!Results \in Nat /\ Palette!Results <= n
  BY PaletteResults, ThereAreItems
<1>2. x4 \in -1..(n - 1)
  OBVIOUS
<1>3. "" \in PaletteOf.queries /\ 0 \in -1..(n - 1)
  <2>1. "" \in PaletteOf.queries
    BY Zenon DEF Palette!ItemsAssumption
  <2>. HIDE DEF n
  <2>2. 0 \in -1..(n - 1)
    BY <1>1
  <2>. QED  BY <2>1, <2>2
<1>. HIDE DEF n
<1>4. CASE Palette!Choose
  BY <1>3, <1>4 DEF Palette!Choose, Palette!Closed, n
<1>5. CASE Palette!Refetch
  BY <1>5 DEF Palette!Refetch
<1>6. CASE Palette!Toggle
  <2>1. x2' \in BOOLEAN
    BY <1>6 DEF Palette!Toggle
  <2>. QED  BY <1>6, <2>1 DEF Palette!Toggle
<1>7. CASE Palette!Escape
  BY <1>3, <1>7 DEF Palette!Escape, Palette!Closed, n
<1>8. CASE Palette!ArrowDown
  <2>1. Palette!Least(x4 + 1, Palette!Results - 1) \in -1..(n - 1)
    BY <1>1, <1>2 DEF Palette!Least
  <2>. QED  BY <1>8, <2>1 DEF Palette!ArrowDown, n
<1>9. CASE Palette!ArrowUp
  <2>1. (IF x4 < 1 THEN 0 ELSE x4 - 1) \in -1..(n - 1)
    BY <1>1, <1>2
  <2>. QED  BY <1>9, <2>1 DEF Palette!ArrowUp, n
<1>10. CASE Palette!Enter
  BY <1>4, <1>10 DEF Palette!Enter
<1>11. ASSUME NEW text \in PaletteOf.queries, Palette!Type(text) PROVE Palette!TypeOK'
  <2>1. x4' \in -1..(n - 1)
    BY <1>2, <1>3, <1>11 DEF Palette!Type
  <2>. QED  BY <1>11, <2>1 DEF Palette!Type, n
<1>12. ASSUME NEW i \in 0..(Palette!Results - 1), Palette!MouseEnter(i) PROVE Palette!TypeOK'
  <2>1. i \in -1..(n - 1)
    BY <1>1
  <2>. QED  BY <1>12, <2>1 DEF Palette!MouseEnter, n
<1>13. CASE Palette!Click
  BY <1>4, <1>13 DEF Palette!Click
<1>14. CASE UNCHANGED Palette!vars
  BY <1>14 DEF Palette!vars
<1>. QED
  BY <1>5, <1>6, <1>7, <1>8, <1>9, <1>10, <1>11, <1>12, <1>13, <1>14 DEF Palette!Next

-----------------------------------------------------------------------------
(* The charts of runs                                                      *)

(* No run is of a day to come, today or when the activity was computed; and*)
(* what TypeOK leaves out, the computation is a record of two things.      *)
ActivityInv ==
    /\ Activity!TypeOK /\ DOMAIN x3 = {"today", "runs"}
    /\ \A n \in DOMAIN x2 : x2[n].day <= x1
    /\ \A n \in DOMAIN x3.runs : x3.runs[n].day <= x3.today

LEMMA ActivityInit == Activity!ChartsAssumption /\ Activity!Init => ActivityInv
<1>. SUFFICES ASSUME Activity!ChartsAssumption, Activity!Init PROVE ActivityInv
  OBVIOUS
<1>1. x1 \in 1..ActivityOf.maxDay /\ x1 \in 1..x1
  BY DEF Activity!ChartsAssumption, Activity!Init
<1>2. x2 = <<>> /\ x3.runs = <<>> /\ x3.today = x1
  BY DEF Activity!Init
<1>3. 0 <= ActivityOf.maxRuns
  BY DEF Activity!ChartsAssumption
<1>4. DOMAIN x2 = {} /\ DOMAIN x3.runs = {}
  BY <1>2
<1>. QED
  BY <1>1, <1>2, <1>3, <1>4 DEF ActivityInv, Activity!Init, Activity!TypeOK

LEMMA ActivityTypes ==
    ASSUME Activity!ChartsAssumption, ActivityInv, [Activity!Next]_(Activity!vars)
    PROVE  ActivityInv'
<1>. USE DEF ActivityInv, Activity!TypeOK
<1>1. /\ x1 \in 1..ActivityOf.maxDay /\ x3.today \in 1..x1 /\ x3.runs \in Seq(Activity!Runs)
      /\ x2 \in Seq(Activity!Runs) /\ Len(x2) \in Nat /\ Len(x2) <= ActivityOf.maxRuns
      /\ ActivityOf.maxRuns \in Nat /\ ActivityOf.maxDay \in Nat
  BY DEF Activity!ChartsAssumption
<1>2. CASE Activity!StartRun
  <2>. DEFINE new == [day |-> x1, state |-> "running", duration |-> None]
  <2>1. new \in Activity!Runs /\ x2' = <<new>> \o x2
    BY <1>1, <1>2 DEF Activity!StartRun, Activity!Runs
  <2>2. new.duration = None /\ new.state = "running" /\ new.day = x1
    OBVIOUS
  <2>. HIDE DEF new
  <2>3. <<new>> \in Seq(Activity!Runs) /\ Len(<<new>>) = 1 /\ <<new>>[1] = new
    BY <2>1
  <2>4. /\ x2' \in Seq(Activity!Runs) /\ Len(x2') = 1 + Len(x2)
        /\ \A i \in 1..(1 + Len(x2)) : x2'[i] = IF i <= 1 THEN <<new>>[i] ELSE x2[i - 1]
    BY <1>1, <2>1, <2>3, ConcatProperties
  <2>5. Len(x2') <= ActivityOf.maxRuns
    BY <1>1, <1>2, <2>4 DEF Activity!StartRun
  <2>6. ASSUME NEW i \in DOMAIN x2'
        PROVE  (x2'[i].duration = None <=> x2'[i].state = "running") /\ x2'[i].day <= x1
    <3>1. i \in 1..(1 + Len(x2))
      BY <1>1, <2>4
    <3>2. CASE i = 1
      BY <1>1, <2>2, <2>3, <2>4, <3>1, <3>2
    <3>3. CASE i # 1
      <4>1. i - 1 \in DOMAIN x2 /\ x2'[i] = x2[i - 1]
        BY <1>1, <2>4, <3>1, <3>3
      <4>. QED  BY <4>1
    <3>. QED  BY <3>2, <3>3
  <2>. QED
    BY <1>2, <2>4, <2>5, <2>6 DEF Activity!StartRun
<1>3. CASE Activity!Midnight
  <2>1. x1' \in 1..ActivityOf.maxDay /\ x3.today \in 1..x1' /\ x1' = x1 + 1
    BY <1>1, <1>3 DEF Activity!Midnight
  <2>2. ASSUME NEW n \in DOMAIN x2 PROVE x2[n].day <= x1 + 1
    <3>1. n \in 1..Len(x2) /\ x2[n] \in Activity!Runs
      BY <1>1
    <3>. QED
      BY <1>1, <3>1 DEF Activity!Runs
  <2>. QED
    BY <1>3, <2>1, <2>2 DEF Activity!Midnight
<1>4. CASE Activity!Render
  <2>1. x3' = x3 \/ (x3'.today = x1 /\ x3'.runs = x2 /\ DOMAIN x3' = {"today", "runs"})
    BY <1>4 DEF Activity!Render
  <2>2. x1 \in 1..x1
    BY <1>1
  <2>. QED
    BY <1>4, <2>1, <2>2 DEF Activity!Render
<1>5. ASSUME NEW i \in DOMAIN x2, NEW s \in {"success", "failed"},
             NEW d \in 1..ActivityOf.maxSeconds, Activity!EndRun(i, s, d)
      PROVE  ActivityInv'
  <2>. DEFINE ended == [[x2[i] EXCEPT !.state = s] EXCEPT !.duration = d]
  <2>1. x2[i] \in Activity!Runs /\ i \in 1..Len(x2)
    BY <1>1
  <2>2. ended \in Activity!Runs /\ ended.state = s /\ ended.duration = d /\ ended.day = x2[i].day
    BY <2>1 DEF Activity!Runs
  <2>3. x2' = [x2 EXCEPT ![i] = ended]
    BY <1>1, <1>5, <2>1 DEF Activity!EndRun, Activity!Runs
  <2>4. d # None /\ s # "running"
    BY DEF Activity!ChartsAssumption
  <2>. HIDE DEF ended
  <2>5. x2' \in Seq(Activity!Runs) /\ Len(x2') = Len(x2) /\ DOMAIN x2' = DOMAIN x2
    BY <1>1, <2>1, <2>2, <2>3
  <2>6. \A j \in DOMAIN x2' :
           (x2'[j].duration = None <=> x2'[j].state = "running") /\ x2'[j].day <= x1
    BY <2>2, <2>3, <2>4, <2>5
  <2>. QED
    BY <1>1, <1>5, <2>5, <2>6 DEF Activity!EndRun
<1>6. CASE UNCHANGED Activity!vars
  BY <1>6 DEF Activity!vars
<1>. QED
  BY <1>2, <1>3, <1>4, <1>5, <1>6 DEF Activity!Next

LEMMA ActivityCounts == \A S : Activity!Cardinality(S) = Cardinality(S)
BY DEF Activity!Cardinality, Cardinality

LEMMA ActivityOrders == \A S, R : Activity!Ordered(S, R) = Ordered(S, R)
BY DEF Activity!Ordered, Ordered, Activity!Cardinality, Cardinality

(* The places of a list, and sets of them.                                 *)
LEMMA PlacesAreFinite ==
    ASSUME NEW n \in Nat
    PROVE  /\ IsFiniteSet(1..n) /\ Cardinality(1..n) = n
           /\ \A I \in SUBSET (1..n) :
                 IsFiniteSet(I) /\ Cardinality(I) \in Nat /\ Cardinality(I) <= n
<1>1. IsFiniteSet(1..n) /\ Cardinality(1..n) = n
  <2>1. IsFiniteSet(1..n) /\ Cardinality(1..n) = IF 1 > n THEN 0 ELSE n - 1 + 1
    BY FS_Interval
  <2>. QED  BY <2>1
<1>. QED
  BY <1>1, FS_Subset, FS_CardinalityType

LEMMA DrawnRuns ==
    ASSUME Activity!ChartsAssumption, ActivityInv
    PROVE  /\ Len(x3.runs) \in Nat /\ DOMAIN x3.runs = 1..Len(x3.runs)
           /\ x3.today \in Nat /\ ActivityOf.days \in Nat /\ ActivityOf.days >= 1
           /\ \A n \in DOMAIN x3.runs :
                 /\ x3.runs[n].day \in Nat /\ x3.runs[n].day <= x3.today
                 /\ x3.runs[n].duration \in (1..ActivityOf.maxSeconds) \cup {None}
<1>1. x3.runs \in Seq(Activity!Runs) /\ x1 \in 1..ActivityOf.maxDay /\ x3.today \in 1..x1
  BY DEF ActivityInv, Activity!TypeOK
<1>2. ActivityOf.maxDay \in Nat /\ ActivityOf.days \in Nat \ {0}
  BY DEF Activity!ChartsAssumption
<1>3. Len(x3.runs) \in Nat /\ DOMAIN x3.runs = 1..Len(x3.runs)
  BY <1>1, LenProperties
<1>4. ASSUME NEW n \in DOMAIN x3.runs
      PROVE  /\ x3.runs[n].day \in Nat /\ x3.runs[n].day <= x3.today
             /\ x3.runs[n].duration \in (1..ActivityOf.maxSeconds) \cup {None}
  <2>1. x3.runs[n] \in Activity!Runs
    BY <1>1, <1>3
  <2>2. x3.runs[n].day \in 1..ActivityOf.maxDay
    BY <2>1 DEF Activity!Runs
  <2>3. x3.runs[n].duration \in (1..ActivityOf.maxSeconds) \cup {None}
    BY <2>1 DEF Activity!Runs
  <2>. QED
    BY <1>2, <2>2, <2>3 DEF ActivityInv
<1>. QED
  BY <1>1, <1>2, <1>3, <1>4

LEMMA CountsAreNumbers ==
    ASSUME Activity!ChartsAssumption, ActivityInv, NEW i, NEW s
    PROVE  Activity!Count(i, s) \in Nat
<1>1. {n \in Activity!RunsOf(i) : x3.runs[n].state = s} \in SUBSET (1..Len(x3.runs))
  BY DrawnRuns DEF Activity!RunsOf
<1>. QED
  BY <1>1, DrawnRuns, PlacesAreFinite, ActivityCounts DEF Activity!Count

LEMMA RunsAreCounted ==
    ASSUME Activity!ChartsAssumption, ActivityInv
    PROVE  Activity!EveryRunIsCounted
<1>. DEFINE days == ActivityOf.days
<1>1. ASSUME NEW n \in DOMAIN x3.runs
      PROVE  x3.runs[n].day > x3.today - days
                 <=> \E i \in 1..days : n \in Activity!RunsOf(i)
  <2>. DEFINE d == x3.runs[n].day
  <2>1. d \in Nat /\ d <= x3.today /\ x3.today \in Nat /\ days \in Nat
    BY DrawnRuns
  <2>2. \A i : n \in Activity!RunsOf(i) <=> d = x3.today - days + i
    BY DEF Activity!RunsOf, Activity!DayOf
  <2>3. ASSUME d > x3.today - days PROVE \E i \in 1..days : n \in Activity!RunsOf(i)
    <3>. DEFINE i == d - x3.today + days
    <3>1. i \in 1..days /\ d = x3.today - days + i
      BY <2>1, <2>3
    <3>. QED  BY <2>2, <3>1
  <2>4. ASSUME NEW i \in 1..days, n \in Activity!RunsOf(i) PROVE d > x3.today - days
    BY <2>1, <2>2, <2>4
  <2>. QED  BY <2>3, <2>4
<1>2. ASSUME NEW i \in 1..days, NEW j \in 1..days, i # j
      PROVE  Activity!RunsOf(i) \cap Activity!RunsOf(j) = {}
  BY <1>2, DrawnRuns DEF Activity!RunsOf, Activity!DayOf
<1>3. ASSUME NEW i \in 1..days, Activity!Buckets[i].rate # None
      PROVE  Activity!Buckets[i].rate[2] - Activity!Buckets[i].rate[1] = Activity!Buckets[i].failures
  <2>. DEFINE s == Activity!Count(i, "success")
              f == Activity!Count(i, "failed")
  <2>1. s \in Nat /\ f \in Nat
    BY CountsAreNumbers
  <2>2. /\ Activity!Buckets[i].failures = f
        /\ Activity!Buckets[i].rate = IF s + f = 0 THEN None ELSE <<s, s + f>>
    BY DEF Activity!Buckets, Activity!Bucket
  <2>. HIDE DEF s, f
  <2>3. Activity!Buckets[i].rate = <<s, s + f>>
    BY <1>3, <2>2
  <2>. QED
    BY <2>1, <2>2, <2>3
<1>. QED
  BY <1>1, <1>2, <1>3 DEF Activity!EveryRunIsCounted

(* The percentage of a number is within it.                                *)
LEMMA Percentage ==
    ASSUME NEW n \in Nat, n >= 1, NEW percent \in Nat, percent <= 99
    PROVE  LET k == ((n * percent) \div 100) + 1
           IN  k \in 1..n /\ k * 100 >= percent * n
<1>. DEFINE m == n * percent
<1>1. m \in Nat /\ m = percent * n
  OBVIOUS
<1>2. m <= 99 * n
  <2>. DEFINE d == 99 - percent
  <2>1. d \in Nat /\ n * d >= 0 /\ n * d = n * 99 - n * percent
    OBVIOUS
  <2>. QED  BY <2>1
<1>. HIDE DEF m
<1>3. (m \div 100) + 1 \in 1..n /\ ((m \div 100) + 1) * 100 >= m
  BY <1>1, <1>2
<1>. QED
  BY <1>1, <1>3 DEF m

LEMMA DurationsAreSorted ==
    ASSUME Activity!ChartsAssumption, ActivityInv, NEW i
    PROVE  /\ Len(Activity!Durations(i)) \in Nat
           /\ Activity!Durations(i) \in [1..Len(Activity!Durations(i)) -> Nat]
           /\ \A k, l \in 1..Len(Activity!Durations(i)) :
                 k < l => Activity!Durations(i)[k] <= Activity!Durations(i)[l]
<1>. DEFINE n == Len(x3.runs)
            I == {r \in Activity!RunsOf(i) : x3.runs[r].duration # None}
            w == [r \in I |-> x3.runs[r].duration]
            s == [r \in 1..n |-> x3.runs[r].duration]
            p == Ordered(I, Lighter(I, w))
            N == Cardinality(I)
            durs == [k \in 1..N |-> s[p[k]]]
<1>1. /\ n \in Nat /\ DOMAIN x3.runs = 1..n
      /\ I \in SUBSET (1..n)
  BY DrawnRuns DEF Activity!RunsOf
<1>2. \A r \in I : x3.runs[r].duration \in Nat
  BY DrawnRuns DEF Activity!RunsOf
<1>3. IsFiniteSet(I) /\ N \in Nat /\ I \in SUBSET Nat
  BY <1>1, PlacesAreFinite
<1>4. w \in [I -> Int]
  BY <1>2
<1>5. /\ p \in [1..N -> I]
      /\ \A k, l \in 1..N : k < l => w[p[k]] <= w[p[l]]
  BY <1>3, <1>4, PlacesByWeight
<1>6. Activity!Durations(i) = durs
  <2>. DEFINE R == {q \in I \X I : s[q[1]] < s[q[2]] \/ (~(s[q[2]] < s[q[1]]) /\ q[1] < q[2])}
  <2>1. R = Lighter(I, w)
    <3>1. \A r \in I : w[r] = s[r]
      BY <1>1
    <3>. HIDE DEF I, w, s
    <3>. QED  BY <3>1 DEF Lighter
  <2>2. Activity!Durations(i) =
            [k \in 1..Activity!Cardinality(I) |-> s[Activity!Ordered(I, R)[k]]]
    BY <1>1 DEF Activity!Durations, Activity!Ranked
  <2>3. Activity!Ordered(I, R) = p
    BY <2>1, ActivityOrders
  <2>4. Activity!Cardinality(I) = N
    BY ActivityCounts
  <2>. HIDE DEF R, p, N, I, s
  <2>. QED
    BY <2>2, <2>3, <2>4
<1>7. \A k \in 1..N : s[p[k]] = w[p[k]] /\ w[p[k]] \in Nat
  BY <1>1, <1>2, <1>5
<1>. HIDE DEF p, N, I, s, w
<1>8. Len(durs) = N /\ DOMAIN durs = 1..N
  BY <1>3
<1>9. durs \in [1..N -> Nat] /\ \A k, l \in 1..N : k < l => durs[k] <= durs[l]
  BY <1>5, <1>7
<1>. QED
  BY <1>3, <1>6, <1>8, <1>9

LEMMA PercentileIsCovering ==
    ASSUME Activity!ChartsAssumption, ActivityInv
    PROVE  Activity!PercentileCovers
<1>. SUFFICES ASSUME NEW i \in 1..ActivityOf.days, Activity!Buckets[i].p95 # None
     PROVE  Activity!Cardinality({n \in DOMAIN Activity!Durations(i) :
                    Activity!Durations(i)[n] <= Activity!Buckets[i].p95}) * 100
                >= ActivityOf.percent * Len(Activity!Durations(i))
  BY DEF Activity!PercentileCovers
<1>. DEFINE durs == Activity!Durations(i)
            N == Len(durs)
            k == ((N * ActivityOf.percent) \div 100) + 1
            C == {n \in DOMAIN durs : durs[n] <= durs[k]}
<1>1. /\ N \in Nat /\ durs \in [1..N -> Nat]
      /\ \A a, b \in 1..N : a < b => durs[a] <= durs[b]
  BY DurationsAreSorted
<1>2. Activity!Buckets[i].p95 = IF durs = <<>> THEN None ELSE durs[k]
  BY DEF Activity!Buckets, Activity!Bucket, Activity!Percentile
<1>3. durs # <<>> /\ Activity!Buckets[i].p95 = durs[k]
  BY <1>2
<1>. HIDE DEF durs
<1>4. N >= 1
  <2>1. ASSUME N = 0 PROVE durs = <<>>
    BY <1>1, <2>1
  <2>. QED  BY <1>1, <1>3, <2>1
<1>5. ActivityOf.percent \in Nat /\ ActivityOf.percent <= 99
  BY DEF Activity!ChartsAssumption
<1>6. k \in 1..N /\ k * 100 >= ActivityOf.percent * N
  BY <1>1, <1>4, <1>5, Percentage
<1>. HIDE DEF k, N
<1>7. 1..k \in SUBSET C /\ C \in SUBSET (1..N)
  BY <1>1, <1>6
<1>. HIDE DEF C
<1>8. Cardinality(C) \in Nat /\ IsFiniteSet(C)
  BY <1>1, <1>7, PlacesAreFinite
<1>9. Cardinality(1..k) = k /\ k \in Nat
  BY <1>6, PlacesAreFinite
<1>10. k <= Cardinality(C)
  BY <1>7, <1>8, <1>9, FS_Subset
<1>11. Cardinality(C) * 100 >= ActivityOf.percent * N
  <2>. DEFINE m == ActivityOf.percent * N
  <2>1. k * 100 >= m /\ m \in Int
    BY <1>1, <1>5, <1>6
  <2>. HIDE DEF m
  <2>2. Cardinality(C) * 100 >= m
    BY <1>8, <1>9, <1>10, <2>1
  <2>. QED  BY <2>2 DEF m
<1>. QED
  BY <1>3, <1>11, ActivityCounts DEF C, N, durs

(* A list of which nothing is filtered out is the same list.               *)
LEMMA KeptWhole ==
    ASSUME NEW S, NEW s \in Seq(S)
    PROVE  Activity!Kept(s, DOMAIN s) = s
<1>. DEFINE n == Len(s)
            R == {q \in (1..n) \X (1..n) : FALSE \/ (~FALSE /\ q[1] < q[2])}
<1>1. n \in Nat /\ DOMAIN s = 1..n /\ s = [k \in 1..n |-> s[k]]
  BY LenProperties
<1>2. Cardinality(1..n) = n
  BY <1>1, PlacesAreFinite
<1>3. ASSUME NEW x \in 1..n
      PROVE  Cardinality({y \in 1..n : <<y, x>> \in R}) = x - 1
  <2>1. {y \in 1..n : <<y, x>> \in R} = 1..(x - 1)
    BY <1>1
  <2>2. x - 1 \in Nat
    BY <1>1
  <2>. QED
    BY <2>1, <2>2, PlacesAreFinite
<1>4. ASSUME NEW k \in 1..n PROVE Ordered(1..n, R)[k] = k
  <2>. HIDE DEF R
  <2>1. Ordered(1..n, R)[k] =
            CHOOSE x \in 1..n : Cardinality({y \in 1..n : <<y, x>> \in R}) = k - 1
    BY <1>2 DEF Ordered
  <2>2. \A x \in 1..n : Cardinality({y \in 1..n : <<y, x>> \in R}) = k - 1 <=> x = k
    BY <1>1, <1>3
  <2>. QED
    BY <2>1, <2>2
<1>5. Activity!Kept(s, DOMAIN s) =
          [k \in 1..Activity!Cardinality(1..n) |-> s[Activity!Ordered(1..n, R)[k]]]
  BY <1>1 DEF Activity!Kept, Activity!Ranked
<1>6. Activity!Ordered(1..n, R) = Ordered(1..n, R) /\ Activity!Cardinality(1..n) = n
  BY <1>2, ActivityOrders, ActivityCounts
<1>. HIDE DEF R, n
<1>. QED
  BY <1>1, <1>4, <1>5, <1>6

(* The latest runs in the strip: as many as it has cells, from the last    *)
(* cell backwards.                                                         *)
LEMMA StripHasTheLatest ==
    ASSUME NEW S, NEW s \in Seq(S), NEW c \in Nat, c >= 1
    PROVE  LET m == Activity!Least(c, Len(s))
               cells == Activity!Reverse(Activity!Latest(s, c))
           IN  /\ m \in Nat /\ m <= c /\ m <= Len(s) /\ (s # <<>> => m >= 1)
               /\ cells \in Seq(S) /\ Len(cells) = m /\ DOMAIN cells = 1..m
               /\ \A k \in 1..m : cells[k] = s[m - k + 1]
<1>. DEFINE m == Activity!Least(c, Len(s))
            t == Activity!Latest(s, c)
            cells == Activity!Reverse(t)
<1>1. Len(s) \in Nat /\ DOMAIN s = 1..Len(s) /\ \A i \in 1..Len(s) : s[i] \in S
  BY LenProperties
<1>2. m \in Nat /\ m <= c /\ m <= Len(s) /\ (Len(s) >= 1 => m >= 1)
  BY <1>1 DEF Activity!Least
<1>3. s # <<>> => Len(s) >= 1
  BY <1>1
<1>. HIDE DEF m
<1>4. t = SubSeq(s, 1, m)
  BY DEF Activity!Latest, m
<1>5. t \in Seq(S) /\ Len(t) = m /\ \A i \in 1..m : t[i] = s[i]
  <2>1. SubSeq(s, 1, m) \in Seq(S) /\ Len(SubSeq(s, 1, m)) = m
    BY <1>1, <1>2
  <2>2. \A i \in 1..m : SubSeq(s, 1, m)[i] = s[i]
    BY <1>1, <1>2
  <2>. QED  BY <1>4, <2>1, <2>2
<1>. HIDE DEF t
<1>6. cells = [i \in 1..m |-> t[m - i + 1]]
  BY <1>5 DEF Activity!Reverse
<1>7. cells \in Seq(S) /\ Len(cells) = m /\ DOMAIN cells = 1..m /\ \A k \in 1..m : cells[k] = s[m - k + 1]
  <2>1. \A k \in 1..m : m - k + 1 \in 1..m /\ t[m - k + 1] = s[m - k + 1] /\ t[m - k + 1] \in S
    BY <1>1, <1>2, <1>5
  <2>2. cells \in [1..m -> S]
    BY <1>6, <2>1
  <2>. HIDE DEF cells
  <2>. QED  BY <1>2, <1>6, <2>1, <2>2
<1>. QED
  BY <1>2, <1>3, <1>7 DEF m, t

LEMMA StripEnds ==
    ASSUME Activity!ChartsAssumption, ActivityInv
    PROVE  Activity!StripEndsWithTheLatest
<1>. DEFINE c == ActivityOf.cells
            m == Activity!Least(c, Len(x2))
            cells == Activity!Reverse(Activity!Latest(x2, c))
            empty == [i \in 1..(c - Len(cells)) |-> None]
            S == Activity!Runs \cup {None}
<1>1. x2 \in Seq(Activity!Runs) /\ c \in Nat /\ c >= 1
  BY DEF ActivityInv, Activity!TypeOK, Activity!ChartsAssumption
<1>2. /\ m \in Nat /\ m <= c /\ m <= Len(x2) /\ (x2 # <<>> => m >= 1)
      /\ cells \in Seq(Activity!Runs) /\ Len(cells) = m /\ DOMAIN cells = 1..m
      /\ \A k \in 1..m : cells[k] = x2[m - k + 1]
  BY <1>1, StripHasTheLatest
<1>3. Activity!Strip = empty \o cells
  BY DEF Activity!Strip
<1>4. \A r \in DOMAIN x2 : x2[r].state # "running" => x2[r].duration # None
  BY DEF ActivityInv, Activity!TypeOK
<1>5. DOMAIN x2 = {r \in DOMAIN x2 : x2[r].duration # None} => Activity!Sparks = <<>> \/ Activity!Sparks = cells
  <2>. SUFFICES ASSUME DOMAIN x2 = {r \in DOMAIN x2 : x2[r].duration # None}
       PROVE  Activity!Sparks = <<>> \/ Activity!Sparks = cells
    OBVIOUS
  <2>1. Activity!Kept(x2, {r \in DOMAIN x2 : x2[r].duration # None}) = x2
    BY <1>1, KeptWhole
  <2>. QED
    BY <2>1 DEF Activity!Sparks
<1>. HIDE DEF cells, m
<1>6. empty \in Seq(S) /\ Len(empty) = c - m /\ cells \in Seq(S)
  <2>1. empty = [i \in 1..(c - m) |-> None] /\ c - m \in Nat
    BY <1>1, <1>2
  <2>. HIDE DEF empty
  <2>2. empty \in [1..(c - m) -> S]
    BY <2>1
  <2>3. cells \in [1..m -> S]
    BY <1>2
  <2>. QED  BY <1>2, <2>1, <2>2, <2>3
<1>. HIDE DEF empty, S
<1>7. /\ Len(empty \o cells) = c
      /\ \A i \in 1..c : (empty \o cells)[i] = IF i <= c - m THEN empty[i] ELSE cells[i - (c - m)]
  <2>1. /\ Len(empty \o cells) = Len(empty) + Len(cells)
        /\ \A i \in 1..(Len(empty) + Len(cells)) :
              (empty \o cells)[i] = IF i <= Len(empty) THEN empty[i] ELSE cells[i - Len(empty)]
    BY <1>6, ConcatProperties
  <2>2. Len(empty) + Len(cells) = c
    BY <1>1, <1>2, <1>6
  <2>. QED  BY <1>6, <2>1, <2>2
<1>8. Len(Activity!Strip) = c
  BY <1>3, <1>7
<1>9. x2 # <<>> => Activity!Strip[c] = x2[1]
  <2>. SUFFICES ASSUME x2 # <<>> PROVE Activity!Strip[c] = x2[1]
    OBVIOUS
  <2>1. m >= 1 /\ c \in 1..c /\ ~(c <= c - m) /\ c - (c - m) = m
    BY <1>1, <1>2
  <2>2. cells[m] = x2[m - m + 1] /\ m - m + 1 = 1
    BY <1>2, <2>1
  <2>. QED  BY <1>3, <1>7, <2>1, <2>2
<1>10. ASSUME NEW k \in 1..m PROVE cells[k] \in Activity!ToSet(Activity!Strip)
  <2>. DEFINE i == c - m + k
  <2>1. i \in 1..c /\ ~(i <= c - m) /\ i - (c - m) = k
    BY <1>1, <1>2
  <2>2. (empty \o cells)[i] = cells[k]
    BY <1>7, <2>1
  <2>3. i \in DOMAIN Activity!Strip
    <3>1. empty \o cells \in Seq(S)
      BY <1>6, ConcatProperties
    <3>. QED  BY <1>3, <1>7, <2>1, <3>1, LenProperties
  <2>. QED  BY <1>3, <2>2, <2>3 DEF Activity!ToSet
<1>11. ASSUME NEW k \in DOMAIN Activity!Sparks
       PROVE  \/ Activity!Sparks[k] \in Activity!ToSet(Activity!Strip)
              \/ \E r \in DOMAIN x2 : x2[r].state = "running"
  <2>1. SUFFICES ASSUME \A r \in DOMAIN x2 : x2[r].state # "running"
        PROVE  Activity!Sparks[k] \in Activity!ToSet(Activity!Strip)
    OBVIOUS
  <2>2. DOMAIN x2 = {r \in DOMAIN x2 : x2[r].duration # None}
    BY <1>4, <2>1
  <2>3. CASE Activity!Sparks = <<>>
    BY <1>11, <2>3
  <2>4. CASE Activity!Sparks = cells
    BY <1>2, <1>10, <1>11, <2>4
  <2>. QED  BY <1>5, <2>2, <2>3, <2>4
<1>. QED
  BY <1>8, <1>9, <1>11 DEF Activity!StripEndsWithTheLatest

CollectedFrom(f, n, has) ==
    f = [i \in 0..n |-> IF i = 0 THEN [segs |-> {}, cur |-> {}]
                        ELSE Activity!Collect(f[i - 1], i, has)]

Collected(has) == CHOOSE f : CollectedFrom(f, ActivityOf.days, has)

LEMMA CollectedExists ==
    ASSUME ActivityOf.days \in Nat, NEW has
    PROVE  CollectedFrom(Collected(has), ActivityOf.days, has)
<1>. DEFINE d == ActivityOf.days
            Good == {n \in 0..d : \E f : CollectedFrom(f, n, has)}
<1>1. 0 \in Good
  <2>. DEFINE f == [i \in 0..0 |-> [segs |-> {}, cur |-> {}]]
  <2>1. CollectedFrom(f, 0, has)
    BY DEF CollectedFrom
  <2>. QED  BY <2>1
<1>2. ASSUME NEW n \in 1..d, n - 1 \in Good PROVE n \in Good
  <2>1. PICK f : CollectedFrom(f, n - 1, has)
    BY <1>2
  <2>. DEFINE g == [i \in 0..n |-> IF i < n THEN f[i] ELSE Activity!Collect(f[n - 1], n, has)]
  <2>2. CollectedFrom(g, n, has)
    <3>1. \A i \in 0..(n - 1) : f[i] = IF i = 0 THEN [segs |-> {}, cur |-> {}]
                                       ELSE Activity!Collect(f[i - 1], i, has)
      BY <2>1 DEF CollectedFrom
    <3>2. ASSUME NEW i \in 0..n
          PROVE  g[i] = IF i = 0 THEN [segs |-> {}, cur |-> {}]
                        ELSE Activity!Collect(g[i - 1], i, has)
      <4>1. CASE i = n
        BY <4>1
      <4>2. CASE i # n
        BY <3>1, <4>2
      <4>. QED  BY <4>1, <4>2
    <3>3. g = [i \in 0..n |-> g[i]]
      OBVIOUS
    <3>. HIDE DEF g
    <3>. QED  BY <3>2, <3>3 DEF CollectedFrom
  <2>. QED  BY <2>2
<1>. HIDE DEF Good
<1>3. d \in Good
  BY <1>1, <1>2, UpToTheTop
<1>4. \E f : CollectedFrom(f, d, has)
  BY <1>3 DEF Good
<1>. QED
  BY <1>4 DEF Collected

LEMMA SegmentsCollected ==
    ASSUME NEW has
    PROVE  Activity!Segments(has) =
               Collected(has)[ActivityOf.days].segs \cup ({Collected(has)[ActivityOf.days].cur} \ {{}})
BY DEF Activity!Segments, Collected, CollectedFrom

(* A segment from a to b that could not be longer, among the days up to n. *)
Segment(s, a, b, has) ==
    s = a..b /\ a <= b /\ (\A i \in a..b : has[i]) /\ (a = 1 \/ ~has[a - 1])

(* What has been collected after n days.                                   *)
Sound(c, n, has) ==
    /\ c = [segs |-> c.segs, cur |-> c.cur]
    /\ c.cur \cup (UNION c.segs) = {i \in 1..n : has[i]}
    /\ IF c.cur = {} THEN n = 0 \/ ~has[n] ELSE \E a \in 1..n : Segment(c.cur, a, n, has)
    /\ \A s \in c.segs : \E a \in 1..n, b \in 1..(n - 1) : Segment(s, a, b, has) /\ ~has[b + 1]

LEMMA CollectIsSound ==
    ASSUME NEW has, NEW n \in Nat, n >= 1, NEW c, Sound(c, n - 1, has)
    PROVE  Sound(Activity!Collect(c, n, has), n, has)
<1>. DEFINE e == Activity!Collect(c, n, has)
<1>1. /\ c = [segs |-> c.segs, cur |-> c.cur]
      /\ c.cur \cup (UNION c.segs) = {i \in 1..(n - 1) : has[i]}
      /\ c.cur = {} => n - 1 = 0 \/ ~has[n - 1]
      /\ c.cur # {} => \E a \in 1..(n - 1) : Segment(c.cur, a, n - 1, has)
      /\ \A s \in c.segs : \E a \in 1..(n - 1), b \in 1..(n - 2) : Segment(s, a, b, has) /\ ~has[b + 1]
  BY DEF Sound
<1>2. CASE has[n]
  <2>1. e.segs = c.segs /\ e.cur = c.cur \cup {n} /\ e = [segs |-> e.segs, cur |-> e.cur]
    BY <1>1, <1>2 DEF Activity!Collect
  <2>. HIDE DEF e
  <2>2. e.cur \cup (UNION e.segs) = {i \in 1..n : has[i]}
    <3>1. {i \in 1..n : has[i]} = {i \in 1..(n - 1) : has[i]} \cup {n}
      BY <1>2
    <3>. QED  BY <1>1, <2>1, <3>1
  <2>3. \E a \in 1..n : Segment(e.cur, a, n, has)
    <3>1. CASE c.cur = {}
      <4>1. e.cur = n..n
        BY <2>1, <3>1
      <4>. QED  BY <1>1, <1>2, <3>1, <4>1 DEF Segment
    <3>2. CASE c.cur # {}
      <4>1. PICK a \in 1..(n - 1) : Segment(c.cur, a, n - 1, has)
        BY <1>1, <3>2
      <4>2. e.cur = a..n
        BY <2>1, <4>1 DEF Segment
      <4>. QED  BY <1>2, <4>1, <4>2 DEF Segment
    <3>. QED  BY <3>1, <3>2
  <2>4. \A s \in e.segs : \E a \in 1..n, b \in 1..(n - 1) : Segment(s, a, b, has) /\ ~has[b + 1]
    BY <1>1, <2>1
  <2>5. e.cur # {}
    BY <2>1
  <2>. QED  BY <2>1, <2>2, <2>3, <2>4, <2>5 DEF Sound, e
<1>3. CASE ~has[n]
  <2>1. e.segs = c.segs \cup ({c.cur} \ {{}}) /\ e.cur = {} /\ e = [segs |-> e.segs, cur |-> e.cur]
    BY <1>3 DEF Activity!Collect
  <2>. HIDE DEF e
  <2>2. e.cur \cup (UNION e.segs) = {i \in 1..n : has[i]}
    <3>1. {i \in 1..n : has[i]} = {i \in 1..(n - 1) : has[i]}
      BY <1>3
    <3>2. UNION e.segs = c.cur \cup (UNION c.segs)
      BY <2>1
    <3>. QED  BY <1>1, <2>1, <3>1, <3>2
  <2>3. ASSUME NEW s \in e.segs
        PROVE  \E a \in 1..n, b \in 1..(n - 1) : Segment(s, a, b, has) /\ ~has[b + 1]
    <3>1. CASE s \in c.segs
      BY <1>1, <3>1
    <3>2. CASE s = c.cur /\ c.cur # {}
      <4>1. PICK a \in 1..(n - 1) : Segment(s, a, n - 1, has)
        BY <1>1, <3>2
      <4>2. n - 1 \in 1..(n - 1) /\ (n - 1) + 1 = n
        OBVIOUS
      <4>. QED  BY <1>3, <4>1, <4>2
    <3>. QED  BY <2>1, <3>1, <3>2
  <2>. QED  BY <1>3, <2>1, <2>2, <2>3 DEF Sound, e
<1>. QED
  BY <1>2, <1>3

LEMMA SegmentsAreSound ==
    ASSUME ActivityOf.days \in Nat, NEW has
    PROVE  \E c : /\ Sound(c, ActivityOf.days, has)
                  /\ Activity!Segments(has) = c.segs \cup ({c.cur} \ {{}})
<1>. DEFINE d == ActivityOf.days
            f == Collected(has)
            Good == {n \in 0..d : Sound(f[n], n, has)}
<1>1. \A i \in 0..d : f[i] = IF i = 0 THEN [segs |-> {}, cur |-> {}]
                             ELSE Activity!Collect(f[i - 1], i, has)
  BY CollectedExists DEF CollectedFrom
<1>. HIDE DEF f
<1>2. 0 \in Good
  <2>1. f[0] = [segs |-> {}, cur |-> {}]
    BY <1>1
  <2>. QED  BY <2>1 DEF Sound
<1>3. ASSUME NEW n \in 1..d, n - 1 \in Good PROVE n \in Good
  <2>1. Sound(f[n - 1], n - 1, has) /\ n \in Nat /\ n >= 1
    BY <1>3
  <2>2. f[n] = Activity!Collect(f[n - 1], n, has)
    BY <1>1
  <2>3. Sound(f[n], n, has)
    BY <2>1, <2>2, CollectIsSound
  <2>. QED  BY <2>3
<1>. HIDE DEF Good
<1>4. d \in Good
  BY <1>2, <1>3, UpToTheTop
<1>5. Sound(f[d], d, has)
  BY <1>4 DEF Good
<1>. QED
  BY <1>5, SegmentsCollected DEF f

LEMMA SegmentsAreMaximal ==
    ASSUME NEW d, d = ActivityOf.days, d \in Nat, NEW has
    PROVE  /\ UNION Activity!Segments(has) = {i \in 1..d : has[i]}
           /\ \A s \in Activity!Segments(has) : \E a, b \in 1..d :
                 Segment(s, a, b, has) /\ (b = d \/ ~has[b + 1])
<1>1. PICK c : /\ Sound(c, d, has)
               /\ Activity!Segments(has) = c.segs \cup ({c.cur} \ {{}})
  BY SegmentsAreSound
<1>2. /\ c.cur \cup (UNION c.segs) = {i \in 1..d : has[i]}
      /\ c.cur # {} => \E a \in 1..d : Segment(c.cur, a, d, has)
      /\ \A s \in c.segs : \E a \in 1..d, b \in 1..(d - 1) : Segment(s, a, b, has) /\ ~has[b + 1]
  BY <1>1 DEF Sound
<1>3. UNION Activity!Segments(has) = c.cur \cup (UNION c.segs)
  BY <1>1
<1>4. ASSUME NEW s \in Activity!Segments(has)
      PROVE  \E a, b \in 1..d : Segment(s, a, b, has) /\ (b = d \/ ~has[b + 1])
  <2>1. CASE s \in c.segs
    BY <1>2, <2>1
  <2>2. CASE s = c.cur /\ c.cur # {}
    <3>1. PICK a \in 1..d : Segment(s, a, d, has)
      BY <1>2, <2>2
    <3>2. d \in 1..d
      OBVIOUS
    <3>. QED  BY <3>1, <3>2
  <2>. QED  BY <1>1, <1>4, <2>1, <2>2
<1>. QED
  BY <1>2, <1>3, <1>4

LEMMA LinesAreGapless ==
    ASSUME Activity!ChartsAssumption, ActivityInv
    PROVE  Activity!LinesHaveNoGaps
<1>. DEFINE d == ActivityOf.days
            has == [i \in 1..d |-> Activity!Buckets[i].p95 # None]
            lines == Activity!LineSegments
<1>1. d \in Nat
  BY DrawnRuns
<1>2. /\ UNION Activity!Segments(has) = {i \in 1..d : has[i]}
      /\ \A s \in Activity!Segments(has) : \E a, b \in 1..d :
            Segment(s, a, b, has) /\ (b = d \/ ~has[b + 1])
  <2>. HIDE DEF has
  <2>. QED  BY <1>1, SegmentsAreMaximal
<1>3. \A i \in 1..d : has[i] <=> Activity!Buckets[i].p95 # None
  OBVIOUS
<1>4. lines = {s \in Activity!Segments(has) : Cardinality(s) >= 2}
  BY ActivityCounts DEF Activity!LineSegments
<1>. HIDE DEF has, lines, d
<1>5. ASSUME NEW a \in 1..d, NEW b \in 1..d, a <= b
      PROVE  Cardinality(a..b) >= 2 <=> a < b
  <2>1. Cardinality(a..b) = IF a > b THEN 0 ELSE b - a + 1
    BY <1>1, FS_Interval
  <2>. QED  BY <1>1, <1>5, <2>1
<1>6. ASSUME NEW i \in 1..d, NEW s \in lines, i \in s
      PROVE  has[i] /\ ((i - 1 \in 1..d /\ has[i - 1]) \/ (i + 1 \in 1..d /\ has[i + 1]))
  <2>1. PICK a \in 1..d, b \in 1..d : Segment(s, a, b, has)
    BY <1>2, <1>4
  <2>2. a < b /\ i \in a..b /\ \A j \in a..b : has[j]
    BY <1>4, <1>5, <1>6, <2>1 DEF Segment
  <2>3. \A j \in a..b : j \in 1..d /\ has[j]
    BY <1>1, <2>2
  <2>4. CASE i - 1 \in a..b
    BY <2>2, <2>3, <2>4
  <2>5. CASE i + 1 \in a..b
    BY <2>2, <2>3, <2>5
  <2>. QED  BY <1>1, <2>2, <2>4, <2>5
<1>7. ASSUME NEW i \in 1..d, has[i], (i - 1 \in 1..d /\ has[i - 1]) \/ (i + 1 \in 1..d /\ has[i + 1])
      PROVE  \E s \in lines : i \in s
  <2>1. PICK s \in Activity!Segments(has) : i \in s
    BY <1>2, <1>7
  <2>2. PICK a \in 1..d, b \in 1..d : Segment(s, a, b, has) /\ (b = d \/ ~has[b + 1])
    BY <1>2
  <2>3. s = a..b /\ a <= b /\ i \in a..b /\ (a = 1 \/ ~has[a - 1])
    BY <2>1, <2>2 DEF Segment
  <2>4. a < b
    <3>1. SUFFICES ASSUME a = b PROVE FALSE
      BY <1>1, <2>3
    <3>2. i = a /\ i = b
      BY <1>1, <2>3, <3>1
    <3>3. CASE i - 1 \in 1..d /\ has[i - 1]
      BY <1>1, <2>3, <3>2, <3>3
    <3>4. CASE i + 1 \in 1..d /\ has[i + 1]
      BY <1>1, <2>2, <3>2, <3>4
    <3>. QED  BY <1>7, <3>3, <3>4
  <2>5. s \in lines
    BY <1>4, <1>5, <2>3, <2>4
  <2>. QED  BY <2>1, <2>5
<1>8. ASSUME NEW i \in 1..d
      PROVE  (\E s \in lines : i \in s) <=>
                /\ i \in 1..d /\ Activity!Buckets[i].p95 # None
                /\ \/ i - 1 \in 1..d /\ Activity!Buckets[i - 1].p95 # None
                   \/ i + 1 \in 1..d /\ Activity!Buckets[i + 1].p95 # None
  <2>1. (\E s \in lines : i \in s) <=>
            has[i] /\ ((i - 1 \in 1..d /\ has[i - 1]) \/ (i + 1 \in 1..d /\ has[i + 1]))
    BY <1>6, <1>7
  <2>. QED  BY <1>3, <2>1
<1>9. ASSUME NEW s \in lines \cup Activity!AreaSegments
      PROVE  \E a, b \in 1..d : s = a..b
  <2>1. CASE s \in lines
    BY <1>2, <1>4, <2>1 DEF Segment
  <2>2. CASE s \in Activity!AreaSegments
    <3>. DEFINE rated == [i \in 1..d |-> Activity!Buckets[i].rate # None]
    <3>1. s \in Activity!Segments(rated)
      BY <2>2 DEF Activity!AreaSegments, d
    <3>. HIDE DEF rated
    <3>2. PICK a \in 1..d, b \in 1..d : Segment(s, a, b, rated)
      BY <1>1, <3>1, SegmentsAreMaximal DEF d
    <3>. QED  BY <3>2 DEF Segment
  <2>. QED  BY <1>9, <2>1, <2>2
<1>. QED
  BY <1>8, <1>9 DEF Activity!LinesHaveNoGaps, lines, d

-----------------------------------------------------------------------------
(* What the dialog of a Flow keeps                                         *)

FlowFormInv(p) == FlowForm(p)!TypeOK /\ FlowForm(p)!KeysAreManaged

LEMMA FlowFormInit ==
    ASSUME NEW p, FlowForm(p)!FlowsAssumption, FlowForm(p)!InputsAssumption, FlowForm(p)!Init
    PROVE  FlowFormInv(p)
<1>1. FlowForm(p)!TypeOK
  BY FlowInit
<1>2. x6 = <<>>
  BY DEF FlowForm!Init
<1>3. FlowForm(p)!KeysAreManaged
  <2>1. DOMAIN x6 = {}
    BY <1>2
  <2>. QED
    BY <2>1 DEF FlowForm!KeysAreManaged
<1>. QED
  BY <1>1, <1>3 DEF FlowFormInv

LEMMA FlowFormSteps ==
    ASSUME NEW p, FlowForm(p)!FlowsAssumption, FlowForm(p)!InputsAssumption,
           FlowFormInv(p), [FlowForm(p)!Next]_(FlowForm(p)!vars)
    PROVE  FlowForm(p)!TypeOK' /\ FlowForm(p)!KeysAreManaged'
<1>1. FlowForm(p)!TypeOK /\ FlowForm(p)!KeysAreManaged
  BY DEF FlowFormInv
<1>. QED
  BY <1>1, FlowTypes, FlowManaged

-----------------------------------------------------------------------------
(* All of them                                                             *)

(* A step of the pages is a step of the model that is running, or leaves it*)
(* as it is, and so it is for the keyboard whatever is running.            *)
LEMMA KeysMove == [PagesNext]_pages => [Next]_vars /\ model' = model
BY DEF PagesNext, pages, vars

LEMMA FieldsMove ==
    model = "flow fields" /\ [PagesNext]_pages => [FlowForm(FieldsOf)!Next]_(FlowForm(FieldsOf)!vars)
BY DEF PagesNext, pages, others, FlowForm!vars

LEMMA FlowsMove ==
    model = "flow pages" /\ [PagesNext]_pages => [FlowForm(FlowsOf)!Next]_(FlowForm(FlowsOf)!vars)
BY DEF PagesNext, pages, others, FlowForm!vars

LEMMA DagsMove ==
    model = "run pages" /\ [PagesNext]_pages => [RunPages!Next]_(RunPages!vars)
BY DEF PagesNext, pages, others, RunPages!vars

LEMMA PaletteMove ==
    model = "palette" /\ [PagesNext]_pages => [Palette!Next]_(Palette!vars)
BY DEF PagesNext, pages, others, Palette!vars

LEMMA ListMove ==
    model = "list" /\ [PagesNext]_pages => [List!Next]_(List!vars)
BY DEF PagesNext, pages, others, List!vars

LEMMA HomeMove ==
    model = "home" /\ [PagesNext]_pages => [HomePage!Next]_(HomePage!vars)
BY DEF PagesNext, pages, others, HomePage!vars

LEMMA ActivityMove ==
    model = "activity" /\ [PagesNext]_pages => [Activity!Next]_(Activity!vars)
BY DEF PagesNext, pages, others, Activity!vars

LEMMA HostMove ==
    model = "host" /\ [PagesNext]_pages => [Host!Next]_(Host!vars)
BY DEF PagesNext, pages, others, Host!vars

LEMMA LogMove ==
    model = "log" /\ [PagesNext]_pages => [Log!Next]_(Log!vars)
BY DEF PagesNext, pages, others, Log!vars

LEMMA RunsMove ==
    model = "runs" /\ [PagesNext]_pages => [Lists!Next]_(Lists!vars)
BY DEF PagesNext, pages, others, Lists!vars

LogInv == Log!TypeOK /\ AnswersFit

(* The inductive invariant: what each model keeps, while it is running.    *)
PagesInv ==
    /\ TypeOK
    /\ model = "flow fields" => FlowFormInv(FieldsOf)
    /\ model = "flow pages" => FlowFormInv(FlowsOf)
    /\ model = "run pages" => RunPages!TypeOK
    /\ model = "palette" => Palette!TypeOK
    /\ model = "list" => ListInv
    /\ model = "home" => HomePage!TypeOK
    /\ model = "activity" => ActivityInv
    /\ model = "host" => Host!TypeOK
    /\ model = "log" => LogInv
    /\ model = "runs" => ListsInv

(* What the models assume of their parameters, which Pages assumes for     *)
(* them.                                                                   *)
LEMMA Assumed ==
    /\ FlowForm(FieldsOf)!FlowsAssumption /\ FlowForm(FieldsOf)!InputsAssumption
    /\ FlowForm(FlowsOf)!FlowsAssumption /\ FlowForm(FlowsOf)!InputsAssumption
    /\ RunPages!DagsAssumption
    /\ Palette!ItemsAssumption
    /\ List!DagsAssumption
    /\ HomePage!OverviewAssumption
    /\ Activity!ChartsAssumption
    /\ Host!MetricsAssumption
    /\ Log!TasksAssumption
    /\ Lists!PagesAssumption
BY PagesAssumptions

LEMMA InvInit == PagesInit => PagesInv
<1>. SUFFICES ASSUME PagesInit PROVE PagesInv
  OBVIOUS
<1>0. TypeOK
  BY InitTypes DEF PagesInit
<1>1. CASE model = "keys"
  BY <1>0, <1>1 DEF PagesInv
<1>2. CASE model = "flow fields"
  <2>1. FlowFormInv(FieldsOf)
    BY <1>2, FlowFormInit, Assumed DEF PagesInit
  <2>. QED
    BY <1>0, <1>2, <2>1 DEF PagesInv
<1>3. CASE model = "flow pages"
  <2>1. FlowFormInv(FlowsOf)
    BY <1>3, FlowFormInit, Assumed DEF PagesInit
  <2>. QED
    BY <1>0, <1>3, <2>1 DEF PagesInv
<1>4. CASE model = "run pages"
  <2>1. RunPages!TypeOK
    BY <1>4, RunInit, Assumed DEF PagesInit
  <2>. QED
    BY <1>0, <1>4, <2>1 DEF PagesInv
<1>5. CASE model = "palette"
  <2>1. Palette!TypeOK
    BY <1>5, PaletteInit, Assumed DEF PagesInit
  <2>. QED
    BY <1>0, <1>5, <2>1 DEF PagesInv
<1>6. CASE model = "list"
  <2>1. ListInv
    BY <1>6, ListInit, Assumed DEF PagesInit
  <2>. QED
    BY <1>0, <1>6, <2>1 DEF PagesInv
<1>7. CASE model = "home"
  <2>1. HomePage!TypeOK
    BY <1>7, HomeInit, Assumed DEF PagesInit
  <2>. QED
    BY <1>0, <1>7, <2>1 DEF PagesInv
<1>8. CASE model = "activity"
  <2>1. ActivityInv
    BY <1>8, ActivityInit, Assumed DEF PagesInit
  <2>. QED
    BY <1>0, <1>8, <2>1 DEF PagesInv
<1>9. CASE model = "host"
  <2>1. Host!TypeOK
    BY <1>9, HostInit, Assumed DEF PagesInit
  <2>. QED
    BY <1>0, <1>9, <2>1 DEF PagesInv
<1>10. CASE model = "log"
  <2>1. LogInv
    BY <1>10, LogInit, Assumed DEF PagesInit, LogInv
  <2>. QED
    BY <1>0, <1>10, <2>1 DEF PagesInv
<1>11. CASE model = "runs"
  <2>1. ListsInv
    BY <1>11, ListsInit, Assumed DEF PagesInit
  <2>. QED
    BY <1>0, <1>11, <2>1 DEF PagesInv
<1>. QED
  BY <1>1, <1>2, <1>3, <1>4, <1>5, <1>6, <1>7, <1>8, <1>9, <1>10, <1>11 DEF PagesInit

LEMMA InvSteps == PagesInv /\ [PagesNext]_pages => PagesInv'
<1>. SUFFICES ASSUME PagesInv, [PagesNext]_pages PROVE PagesInv'
  OBVIOUS
<1>0. TypeOK' /\ model' = model
  BY NextTypes, KeysMove DEF PagesInv
<1>2. ASSUME model = "flow fields" PROVE FlowFormInv(FieldsOf)'
  BY <1>2, FieldsMove, FlowFormSteps, Assumed DEF PagesInv, FlowFormInv
<1>3. ASSUME model = "flow pages" PROVE FlowFormInv(FlowsOf)'
  BY <1>3, FlowsMove, FlowFormSteps, Assumed DEF PagesInv, FlowFormInv
<1>4. ASSUME model = "run pages" PROVE RunPages!TypeOK'
  BY <1>4, DagsMove, RunTypes, Assumed DEF PagesInv
<1>5. ASSUME model = "palette" PROVE Palette!TypeOK'
  BY <1>5, PaletteMove, PaletteTypes, Assumed DEF PagesInv
<1>6. ASSUME model = "list" PROVE ListInv'
  BY <1>6, ListMove, ListSteps, Assumed DEF PagesInv
<1>7. ASSUME model = "home" PROVE HomePage!TypeOK'
  BY <1>7, HomeMove, HomeTypes, Assumed DEF PagesInv
<1>8. ASSUME model = "activity" PROVE ActivityInv'
  BY <1>8, ActivityMove, ActivityTypes, Assumed DEF PagesInv
<1>9. ASSUME model = "host" PROVE Host!TypeOK'
  BY <1>9, HostMove, HostTypes, Assumed DEF PagesInv
<1>10. ASSUME model = "log" PROVE LogInv'
  BY <1>10, LogMove, LogTypes, Assumed DEF PagesInv, LogInv
<1>11. ASSUME model = "runs" PROVE ListsInv'
  BY <1>11, RunsMove, ListsTypes, Assumed DEF PagesInv
<1>. QED
  BY <1>0, <1>2, <1>3, <1>4, <1>5, <1>6, <1>7, <1>8, <1>9, <1>10, <1>11 DEF PagesInv

-----------------------------------------------------------------------------
(* The invariant holds: whatever model is running keeps its part of it.    *)
THEOREM PagesInvariant == PagesSpec => []PagesInv
BY InvInit, InvSteps, PTL DEF PagesSpec

(* The keyboard, the dialogs, the palette, the lists, the overview, the    *)
(* charts and the log keep their types, for all parameters.                *)
THEOREM TypesCorrect == PagesSpec => []TypesOK
<1>1. PagesInv => TypesOK
  BY DEF PagesInv, TypesOK, FlowFormInv, ListInv, ActivityInv, LogInv, ListsInv
<1>. QED
  BY <1>1, PagesInvariant, PTL

(* Every request for a Flow has the keys the form controls with the values *)
(* its fields showed, and without them where they do not apply.            *)
THEOREM KeysManaged == PagesSpec => []KeysAreManaged
<1>1. PagesInv => KeysAreManaged
  BY DEF PagesInv, KeysAreManaged, FlowFormInv
<1>. QED
  BY <1>1, PagesInvariant, PTL

(* Every DAG that matches has one row in the list of DAGs, by name or by   *)
(* runs and stable, and one of the rows is active; the palette offers each *)
(* match once, the best first: for every order of the server, of the names *)
(* and of the scores, and all that is answered, typed, sorted or toggled.  *)
THEOREM RowsAndCursor == PagesSpec => []RowsAndCursorAgree
<1>1. ASSUME PagesInv, model = "list" PROVE List!RowsAreTheMatches /\ List!ActiveIsARow
  <2>1. ListInv
    BY <1>1 DEF PagesInv
  <2>. QED
    BY <2>1, Assumed, RowsAreSorted, ActiveIsARow DEF ListInv
<1>2. ASSUME PagesInv, model = "palette" PROVE Palette!ResultsAreTheMatches
  BY <1>2, Assumed, ResultsAreMatches DEF PagesInv
<1>3. PagesInv => RowsAndCursorAgree
  BY <1>1, <1>2 DEF RowsAndCursorAgree
<1>. QED
  BY <1>3, PagesInvariant, PTL

(* The overview asks for attention only for a registered Flow that failed, *)
(* its recent activity leaves out nothing newer than what it shows, and    *)
(* what it lists as running it shows running, whichever of its four        *)
(* queries fail.                                                           *)
THEOREM Overviews == PagesSpec => []OverviewAgrees
<1>1. PagesInv => OverviewAgrees
  BY Assumed, HomeAttention, HomeRecent, HomeRunning DEF PagesInv, OverviewAgrees
<1>. QED
  BY <1>1, PagesInvariant, PTL

(* The activity chart has every run of its window on one day, the          *)
(* percentile drawn covers its percentage, lines run through all days that *)
(* follow each other and through no other, and the strip ends with the     *)
(* latest run: for every window, percentage and number of cells.           *)
THEOREM ActivityExact == PagesSpec => []ActivityIsExact
<1>1. PagesInv => ActivityIsExact
  BY Assumed, RunsAreCounted, PercentileIsCovering, LinesAreGapless, StripEnds
     DEF PagesInv, ActivityIsExact
<1>. QED
  BY <1>1, PagesInvariant, PTL

(* The log displayed is of the task and the levels selected, and the runs  *)
(* that were cleared when a list was asked for anew stay away from it,     *)
(* however late and in whatever order the answers come.                    *)
THEOREM LateAnswers == PagesSpec => []LateAnswersDoNoHarm
<1>1. PagesInv => LateAnswersDoNoHarm
  BY LogDisplays, ListsLackCleared DEF PagesInv, LogInv, LateAnswersDoNoHarm
<1>. QED
  BY <1>1, PagesInvariant, PTL

(* The crosshair is on a sample and its tip inside the plot, the axis      *)
(* holds every sample and is at most two and a half times as high, and the *)
(* ticks of time are on different samples, the first and the last among    *)
(* them: for every number of samples, and values of any magnitude.         *)
THEOREM Charts == PagesSpec => []ChartsFollowTheSamples
<1>1. PagesInv => ChartsFollowTheSamples
  BY Assumed, HostCrosshair, HostAxis, HostTicks DEF PagesInv, ChartsFollowTheSamples
<1>. QED
  BY <1>1, PagesInvariant, PTL

(* No sequence navigates but by its second key directly after its leader.  *)
THEOREM SequencesNavigate == PagesSpec => NavigatesAfterLeader
<1>1. PagesInit => TypeOK /\ ArmedByLeader
  BY InitTypes DEF PagesInit, Init, ArmedByLeader
<1>2. TypeOK /\ ArmedByLeader /\ [PagesNext]_pages =>
          /\ (TypeOK /\ ArmedByLeader)'
          /\ [page' # page => last = Leader]_vars
  BY KeysMove, NextTypes, NextArmed, NextNavigates
<1>. QED
  BY <1>1, <1>2, PTL DEF PagesSpec, NavigatesAfterLeader

(* Keys typed into a text field neither navigate nor fire a shortcut that  *)
(* skips text fields.                                                      *)
THEOREM TypingIsIgnored == PagesSpec => TypingDoesNothing
<1>1. [Next]_vars => [page' # page \/ (\E s \in fired' : s.skipInInput) =>
                          \A e \in Events : e.editable /\ ~e.mod => ~Press(e)]_vars
  BY TypingIsNoPress
<1>2. [PagesNext]_pages => [page' # page \/ (\E s \in fired' : s.skipInInput) =>
                          \A e \in Events : e.editable /\ ~e.mod => ~Press(e)]_vars
  BY <1>1, KeysMove
<1>. QED
  BY <1>2, PTL DEF PagesSpec, TypingDoesNothing

=============================================================================
