--------------------------- MODULE GraphRunProofs ---------------------------
(***************************************************************************)
(* What every run of a graph satisfies, for every set of nodes, every      *)
(* dependency relation (cyclic ones too) and every choice of rules.        *)
(***************************************************************************)
EXTENDS GraphRun, TLAPS

(* The states a run gives its nodes are task states, and the graph it      *)
(* runs never changes its shape.                                           *)
THEOREM TypeCorrect == Spec => []TypeOK
<1>1. Init => TypeOK
  BY DEF Init, TypeOK, TaskStates
<1>2. TypeOK /\ [Next]_vars => TypeOK'
  BY DEF TypeOK, Next, vars
<1>. QED
  BY <1>1, <1>2, PTL DEF Spec

(* A terminal state is final, so upstream states that are all terminal     *)
(* stay what they are.                                                     *)
LEMMA DecidedStable ==
    ASSUME TypeOK, [Next]_vars, NEW n \in Nodes, UpstreamsTerminal(n)
    PROVE  UpstreamStates(n)' = UpstreamStates(n)
<1>1. ASSUME NEW u \in up[n]
      PROVE  states'[u] = states[u]
  <2>1. u \in Nodes /\ states[u] \in Terminal
    BY <1>1 DEF TypeOK, UpstreamsTerminal, UpstreamStates
  <2>2. CASE UNCHANGED vars
    BY <2>2 DEF vars
  <2>3. CASE Next
    BY <2>1, <2>3 DEF Next, Starts, Ends, Blocks, Terminal
  <2>. QED
    BY <2>2, <2>3
<1>2. up'[n] = up[n]
  BY DEF Next, vars
<1>. QED
  BY <1>1, <1>2 DEF UpstreamStates

(* Every decision stays justified by the present states of the upstream    *)
(* nodes: no later step can take the justification away.                   *)
THEOREM DecisionsStayJustified == Spec => []Justified
<1>1. Init => Justified
  BY DEF Init, Justified
<1>2. TypeOK /\ Justified /\ [Next]_vars => Justified'
  <2>. SUFFICES ASSUME TypeOK, Justified, [Next]_vars, NEW n \in Nodes
                PROVE  /\ states'[n] \in {"running", "success", "failed"} =>
                              UpstreamsTerminal(n)' /\ RuleHolds(n)'
                       /\ states'[n] \in {"skipped", "upstream_failed"} =>
                              /\ UpstreamsTerminal(n)' /\ ~RuleHolds(n)'
                              /\ states'[n] = "upstream_failed" <=> UpstreamFailure(n)'
    BY DEF Justified
  <2>1. rule'[n] = rule[n]
    BY DEF Next, vars
  <2>2. UpstreamsTerminal(n) =>
            /\ UpstreamsTerminal(n)'
            /\ RuleHolds(n)' = RuleHolds(n)
            /\ UpstreamFailure(n)' = UpstreamFailure(n)
    <3>. SUFFICES ASSUME UpstreamsTerminal(n)
                  PROVE  /\ UpstreamsTerminal(n)'
                         /\ RuleHolds(n)' = RuleHolds(n)
                         /\ UpstreamFailure(n)' = UpstreamFailure(n)
      OBVIOUS
    <3>1. UpstreamStates(n)' = UpstreamStates(n)
      BY DecidedStable
    <3>. QED
      BY <3>1, <2>1 DEF UpstreamsTerminal, RuleHolds, UpstreamFailure
  <2>3. CASE states'[n] = states[n]
    BY <2>2, <2>3 DEF Justified
  <2>4. CASE Starts(n)
    BY <2>2, <2>4 DEF Starts
  <2>5. CASE Ends(n)
    BY <2>2, <2>5 DEF Ends, Justified
  <2>6. CASE Blocks(n)
    BY <2>2, <2>6 DEF Blocks
  <2>. QED
    BY <2>3, <2>4, <2>5, <2>6 DEF Next, vars
<1>. QED
  BY <1>1, <1>2, TypeCorrect, PTL DEF Spec

(* A run with an UPSTREAM_FAILED node also has a FAILED one.  Induction on *)
(* the steps, not on the graph: the first blocked node blames an upstream  *)
(* that failed itself, a later one an upstream that is FAILED or was       *)
(* blocked before.                                                         *)
THEOREM FailuresHaveCauses == Spec => []FailureHasCause
<1>. DEFINE NoTimeout == \A n \in Nodes : states[n] # "timeout"
            Inv == NoTimeout /\ FailureHasCause
<1>1. Init => Inv
  BY DEF Init, FailureHasCause
<1>2. TypeOK /\ Inv /\ [Next]_vars => Inv'
  <2>. SUFFICES ASSUME TypeOK, Inv, Next
                PROVE  Inv'
    BY DEF vars, FailureHasCause
  <2>1. NoTimeout'
    BY DEF Next, Starts, Ends, Blocks
  <2>2. ASSUME NEW n \in Nodes, states'[n] = "upstream_failed"
        PROVE  \E m \in Nodes : states[m] = "failed"
    <3>1. CASE states[n] = "upstream_failed"
      BY <3>1 DEF FailureHasCause
    <3>2. CASE states[n] # "upstream_failed"
      <4>1. UpstreamFailure(n)
        BY <2>2, <3>2 DEF Next, Starts, Ends, Blocks
      <4>2. PICK u \in Nodes : states[u] \in FailedStates
        BY <4>1 DEF UpstreamFailure, UpstreamStates, TypeOK
      <4>. QED
        BY <4>2 DEF FailedStates, FailureHasCause
    <3>. QED
      BY <3>1, <3>2
  <2>3. \A m \in Nodes : states[m] = "failed" => states'[m] = "failed"
    BY DEF Next, Starts, Ends, Blocks
  <2>. QED
    BY <2>1, <2>2, <2>3 DEF FailureHasCause
<1>3. Inv => FailureHasCause
  OBVIOUS
<1>. QED
  BY <1>1, <1>2, <1>3, TypeCorrect, PTL DEF Spec

=============================================================================
