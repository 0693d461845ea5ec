------------------------- MODULE LiveUpdatesProofs -------------------------
(***************************************************************************)
(* The page never shows a run further than the server is: for every set of *)
(* runs, DAGs, Flows and lists, and a socket of any length.                *)
(***************************************************************************)
EXTENDS LiveUpdates, SequenceTheorems, TLAPS

LEMMA QueryTypes == Flags \in Queries /\ Scopes \subseteq Queries /\ Flags \notin Scopes
BY FlagsAssumption DEF Queries

LEMMA InitTypes == Init => TypeOK
<1>. SUFFICES ASSUME Init PROVE TypeOK
  OBVIOUS
<1>1. {registered, greeting, connected} \subseteq BOOLEAN
  BY DEF Init
<1>2. answers \in [Queries -> Lists \cup FlagSets \cup {NoData}]
  BY DEF Init
<1>3. (\A s \in Scopes : answers[s] = NoData) /\ answers[Flags] = NoData
  BY QueryTypes DEF Init
<1>. QED
  BY <1>1, <1>2, <1>3 DEF Init, TypeOK, ServerStates, ListStates

(* What the server answers has the type of the query.                      *)
LEMMA AnswerTypes ==
    ASSUME TypeOK
    PROVE  /\ \A s \in Scopes : Answer(s) \in Lists
           /\ Answer(Flags) \in FlagSets
BY QueryTypes DEF TypeOK, Answer, HistoryOf, RunningFlags, Lists, FlagSets, ServerStates,
                  ListStates

LEMMA MessageTypes ==
    ASSUME TypeOK, NEW m \in Updates \cup {CurrentRuns}
    PROVE  Broadcast(m) => wire' \in Seq(Updates \cup {CurrentRuns})
BY DEF TypeOK, Broadcast

(* Asking again discards answers and adds no other.                        *)
LEMMA InvalidateTypes ==
    ASSUME TypeOK, NEW qs, Invalidate(qs)
    PROVE  /\ asked' \subseteq Queries
           /\ answers' \in [Queries -> Lists \cup FlagSets \cup {NoData}]
           /\ \A q \in Queries : answers'[q] \in {answers[q], NoData}
BY DEF TypeOK, Invalidate

LEMMA ServerTypes ==
    ASSUME TypeOK,
           \/ \E r \in Runs : Start(r) \/ Progress(r) \/ End(r) \/ Tell(r)
           \/ \E g \in Groups : Clear(g)
    PROVE  TypeOK'
<1>. USE DEF TypeOK, ServerStates, ListStates, socketVars, pageVars, serverVars
<1>0. ASSUME NEW r \in Runs, NEW s \in {"running", "done"}
      PROVE  Update(r, s) \in Updates
  BY DEF Update, Updates
<1>1. ASSUME NEW r \in Runs, Start(r) PROVE TypeOK'
  BY <1>0, <1>1, MessageTypes DEF Start
<1>2. ASSUME NEW r \in Runs, Progress(r) PROVE TypeOK'
  BY <1>0, <1>2, MessageTypes DEF Progress
<1>3. ASSUME NEW r \in Runs, End(r) PROVE TypeOK'
  BY <1>3 DEF End
<1>4. ASSUME NEW r \in Runs, Tell(r) PROVE TypeOK'
  BY <1>0, <1>4, MessageTypes DEF Tell
<1>5. ASSUME NEW g \in Groups, Clear(g) PROVE TypeOK'
  BY <1>5 DEF Clear
<1>. QED
  BY <1>1, <1>2, <1>3, <1>4, <1>5

LEMMA SocketTypes ==
    ASSUME TypeOK, Open \/ Greet \/ Close \/ DropSlowClient
    PROVE  TypeOK'
<1>. USE DEF TypeOK, pageVars, serverVars
<1>1. CASE Open
  <2>1. {registered', greeting', connected'} \subseteq BOOLEAN
    BY <1>1 DEF Open
  <2>. QED
    BY <1>1, <2>1 DEF Open
<1>2. CASE Greet
  <2>1. {registered', greeting', connected'} \subseteq BOOLEAN
    BY <1>2 DEF Greet
  <2>2. wire' \in Seq(Updates \cup {CurrentRuns})
    BY <1>2 DEF Greet
  <2>. QED
    BY <1>2, <2>1, <2>2 DEF Greet
<1>3. CASE Close
  <2>1. {registered', greeting', connected'} \subseteq BOOLEAN
    BY <1>3 DEF Close
  <2>. QED
    BY <1>3, <2>1 DEF Close
<1>4. CASE DropSlowClient
  <2>1. PICK n \in 0..Len(wire) : wire' = SubSeq(wire, 1, n)
    BY <1>4 DEF DropSlowClient
  <2>2. wire' \in Seq(Updates \cup {CurrentRuns})
    BY <2>1
  <2>. QED
    BY <1>4, <2>2 DEF DropSlowClient
<1>. QED
  BY <1>1, <1>2, <1>3, <1>4

(* The message the page handles is an update or current_runs.              *)
LEMMA DeliveredTypes ==
    ASSUME TypeOK, Deliver
    PROVE  /\ wire' \in Seq(Updates \cup {CurrentRuns})
           /\ \/ Head(wire) = CurrentRuns /\ HandleCurrentRuns
              \/ Head(wire) \in Updates /\ HandleUpdate(Head(wire))
           /\ UNCHANGED <<server, telling, registered, greeting, connected, mounted>>
<1>1. Head(wire) \in Updates \cup {CurrentRuns} /\ Tail(wire) \in Seq(Updates \cup {CurrentRuns})
  BY DEF TypeOK, Deliver
<1>. QED
  BY <1>1 DEF Deliver, serverVars

LEMMA DeliverTypes ==
    ASSUME TypeOK, Deliver
    PROVE  TypeOK'
<1>1. CASE HandleCurrentRuns
  <2>1. PICK qs : Invalidate(qs) /\ lists' = lists /\ flags' = flags
    BY <1>1 DEF HandleCurrentRuns
  <2>. QED
    BY <2>1, DeliveredTypes, InvalidateTypes, QueryTypes DEF TypeOK
<1>2. CASE Head(wire) \in Updates /\ HandleUpdate(Head(wire))
  <2>. DEFINE m == Head(wire)
  <2>1. m.run \in Runs /\ m.state \in ListStates
    BY <1>2 DEF Updates, ListStates
  <2>2. lists' \in [Scopes -> Lists \cup {NoData}]
    <3>1. ASSUME NEW s \in Scopes
          PROVE  Upsert(lists[s], m.run, m.state) \in Lists \cup {NoData}
      BY <2>1 DEF Upsert, TypeOK, Lists
    <3>. QED
      BY <1>2, <3>1 DEF HandleUpdate
  <2>3. flags' \in FlagSets \cup {NoData}
    BY <1>2 DEF HandleUpdate, TypeOK, FlagSets
  <2>4. /\ asked' \subseteq Queries
        /\ answers' \in [Queries -> Lists \cup FlagSets \cup {NoData}]
        /\ \A q \in Queries : answers'[q] \in {answers[q], NoData}
    BY <1>2, InvalidateTypes DEF HandleUpdate, TypeOK
  <2>. QED
    BY <2>2, <2>3, <2>4, DeliveredTypes, QueryTypes DEF TypeOK
<1>. QED
  BY <1>1, <1>2, DeliveredTypes

LEMMA PageTypes ==
    ASSUME TypeOK, NEW q \in Queries,
           Mount(q) \/ Unmount(q) \/ Poll(q) \/ Respond(q) \/ Receive(q) \/ Fail(q)
    PROVE  TypeOK'
<1>. USE DEF TypeOK, serverVars, socketVars
<1>1. CASE Mount(q) \/ Unmount(q) \/ Poll(q) \/ Fail(q)
  BY <1>1 DEF Mount, Unmount, Poll, Fail
<1>2. CASE Respond(q)
  <2>1. q = Flags \/ q \in Scopes
    BY DEF Queries
  <2>. QED
    BY <1>2, <2>1, AnswerTypes, QueryTypes DEF Respond
<1>3. CASE Receive(q)
  BY <1>3, QueryTypes DEF Receive
<1>. QED
  BY <1>1, <1>2, <1>3

LEMMA NextTypes == TypeOK /\ [Next]_vars => TypeOK'
<1>. SUFFICES ASSUME TypeOK, [Next]_vars PROVE TypeOK'
  OBVIOUS
<1>1. CASE UNCHANGED vars
  BY <1>1 DEF vars, TypeOK
<1>. QED
  BY <1>1, ServerTypes, SocketTypes, DeliverTypes, PageTypes DEF Next

(* Server, socket and page keep their types.                               *)
THEOREM TypeCorrect == Spec => []TypeOK
BY InitTypes, NextTypes, PTL DEF Spec

-----------------------------------------------------------------------------
(* Nothing that is on its way to the page is ahead of the server either.   *)

Told == \A r \in telling : server[r] \in {"done", "cleared"}

WireBehind ==
    \A i \in 1..Len(wire) :
        wire[i] # CurrentRuns => Behind(wire[i].state, server[wire[i].run])

AnswersBehind ==
    \A s \in Scopes, r \in Runs : answers[s] # NoData => Behind(answers[s][r], server[r])

IInv == TypeOK /\ Told /\ WireBehind /\ AnswersBehind /\ NeverAhead

LEMMA InitIInv == Init => IInv
BY InitTypes, QueryTypes DEF Init, IInv, Told, WireBehind, AnswersBehind, NeverAhead

(* A run only goes forward: what the server has reached it has reached.    *)
LEMMA Forward ==
    ASSUME TypeOK, [Next]_vars, NEW r \in Runs, NEW s \in ListStates, Behind(s, server[r])
    PROVE  Behind(s, server'[r])
<1>. USE DEF TypeOK, ServerStates, ListStates
<1>1. ASSUME NEW x \in Runs, Start(x) PROVE Behind(s, server'[r])
  BY <1>1 DEF Start, Behind
<1>2. ASSUME NEW x \in Runs, End(x) PROVE Behind(s, server'[r])
  BY <1>2 DEF End, Behind
<1>3. ASSUME NEW g \in Groups, Clear(g) PROVE Behind(s, server'[r])
  BY <1>3 DEF Clear, Behind
<1>4. ASSUME server' = server PROVE Behind(s, server'[r])
  BY <1>4 DEF Behind
<1>. QED
  BY <1>1, <1>2, <1>3, <1>4
     DEF Next, Progress, Tell, Open, Greet, Close, DropSlowClient, Deliver, Mount, Unmount,
         Poll, Respond, Receive, Fail, vars, serverVars

(* The server's steps: what they send they have done.                      *)
LEMMA ServerTold ==
    ASSUME IInv, Next
    PROVE  Told'
<1>. USE DEF IInv, Told, TypeOK, ServerStates, ListStates
<1>1. ASSUME NEW r \in Runs, Start(r) PROVE Told'
  BY <1>1 DEF Start
<1>2. ASSUME NEW r \in Runs, End(r) PROVE Told'
  BY <1>2 DEF End
<1>3. ASSUME NEW g \in Groups, Clear(g) PROVE Told'
  BY <1>3 DEF Clear
<1>4. ASSUME server' = server, telling' \subseteq telling PROVE Told'
  BY <1>4
<1>. QED
  BY <1>1, <1>2, <1>3, <1>4
     DEF Next, Progress, Tell, Open, Greet, Close, DropSlowClient, Deliver, Mount, Unmount,
         Poll, Respond, Receive, Fail, serverVars

(* A message that is sent now is behind the server, as those before it.    *)
LEMMA SentBehind ==
    ASSUME IInv, Next, NEW m \in Updates \cup {CurrentRuns},
           m # CurrentRuns => Behind(m.state, server'[m.run]),
           wire' = wire \/ wire' = Append(wire, m)
    PROVE  WireBehind'
<1>. SUFFICES ASSUME NEW i \in 1..Len(wire'), wire'[i] # CurrentRuns
              PROVE  Behind(wire'[i].state, server'[wire'[i].run])
  BY DEF WireBehind
<1>. USE DEF IInv, TypeOK
<1>1. CASE i \in 1..Len(wire) /\ wire'[i] = wire[i]
  <2>1. wire[i] \in Updates
    BY <1>1
  <2>2. wire[i].run \in Runs /\ wire[i].state \in ListStates
    BY <2>1 DEF Updates, ListStates
  <2>. QED
    BY <1>1, <2>2, Forward DEF WireBehind
<1>2. CASE wire'[i] = m
  BY <1>2
<1>3. (i \in 1..Len(wire) /\ wire'[i] = wire[i]) \/ wire'[i] = m
  BY DEF TypeOK
<1>. QED
  BY <1>1, <1>2, <1>3

(* Losing messages at either end of the wire does no harm.                 *)
LEMMA LostBehind ==
    ASSUME IInv, Next,
           NEW k \in Nat, NEW n \in Nat, n + k <= Len(wire), Len(wire') = n,
           \A i \in 1..n : wire'[i] = wire[i + k]
    PROVE  WireBehind'
<1>. SUFFICES ASSUME NEW i \in 1..n, wire'[i] # CurrentRuns
              PROVE  Behind(wire'[i].state, server'[wire'[i].run])
  BY DEF WireBehind
<1>1. i + k \in 1..Len(wire) /\ wire'[i] = wire[i + k]
  BY DEF IInv, TypeOK
<1>2. wire[i + k] \in Updates
  BY <1>1 DEF IInv, TypeOK
<1>3. wire[i + k].run \in Runs /\ wire[i + k].state \in ListStates
  BY <1>2 DEF Updates, ListStates
<1>. QED
  BY <1>1, <1>3, Forward DEF IInv, WireBehind

LEMMA WireStaysBehind == IInv /\ Next => WireBehind'
<1>. SUFFICES ASSUME IInv, Next PROVE WireBehind'
  OBVIOUS
<1>0. TypeOK /\ wire \in Seq(Updates \cup {CurrentRuns}) /\ Len(wire) \in Nat
  BY DEF IInv, TypeOK
<1>1. ASSUME NEW r \in Runs, Start(r) \/ Progress(r) \/ Tell(r) PROVE WireBehind'
  <2>1. wire' = wire \/ wire' = Append(wire, Update(r, "running"))
        \/ (Tell(r) /\ wire' = Append(wire, Update(r, "done")))
    BY <1>1 DEF Start, Progress, Tell, Broadcast
  <2>2. Update(r, "running") \in Updates /\ Update(r, "done") \in Updates
    BY DEF Update, Updates
  <2>3. server'[r] # "absent"
    <3>1. CASE Start(r)
      BY <1>0, <3>1 DEF Start, TypeOK
    <3>2. CASE Progress(r)
      BY <3>2 DEF Progress, serverVars
    <3>3. CASE Tell(r)
      BY <3>3 DEF Tell, IInv, Told
    <3>. QED
      BY <1>1, <3>1, <3>2, <3>3
  <2>3a. Tell(r) => server'[r] \in {"done", "cleared"}
    BY DEF Tell, IInv, Told
  <2>4. /\ Behind(Update(r, "running").state, server'[Update(r, "running").run])
        /\ Tell(r) => Behind(Update(r, "done").state, server'[Update(r, "done").run])
    BY <2>3, <2>3a DEF Update, Behind
  <2>. QED
    BY <2>1, <2>2, <2>4, SentBehind
<1>2. CASE Greet
  <2>1. wire' = wire \/ wire' = Append(wire, CurrentRuns)
    BY <1>2 DEF Greet
  <2>. QED
    BY <2>1, SentBehind
<1>3. CASE Open \/ Close
  <2>1. wire' = <<>>
    BY <1>3 DEF Open, Close
  <2>. QED
    BY <2>1 DEF WireBehind
<1>4. CASE DropSlowClient
  <2>1. PICK n \in 0..Len(wire) : wire' = SubSeq(wire, 1, n)
    BY <1>4 DEF DropSlowClient
  <2>2. Len(wire') = n /\ \A i \in 1..n : wire'[i] = wire[i + 0]
    BY <1>0, <2>1
  <2>. QED
    BY <1>0, <2>2, LostBehind
<1>5. CASE Deliver
  <2>1. wire # <<>> /\ wire' = Tail(wire)
    BY <1>5 DEF Deliver
  <2>2. Len(wire) > 0
    BY <1>0, <2>1, EmptySeq
  <2>3. Len(wire') = Len(wire) - 1 /\ \A i \in 1..Len(wire') : wire'[i] = wire[i + 1]
    BY <1>0, <2>1, HeadTailProperties
  <2>. QED
    <3>. DEFINE n == Len(wire')
    <3>1. n \in Nat /\ n + 1 <= Len(wire) /\ \A i \in 1..n : wire'[i] = wire[i + 1]
      BY <1>0, <2>2, <2>3
    <3>. HIDE DEF n
    <3>2. Len(wire') = n
      BY DEF n
    <3>. QED
      BY <3>1, <3>2, LostBehind
<1>6. ASSUME wire' = wire PROVE WireBehind'
  BY <1>6, SentBehind
<1>. QED
  BY <1>1, <1>2, <1>3, <1>4, <1>5, <1>6
     DEF Next, End, Clear, Mount, Unmount, Poll, Respond, Receive, Fail, socketVars

(* An answer is given now, or was given before and is kept or discarded.   *)
LEMMA AnswersStayBehind == IInv /\ Next => AnswersBehind'
<1>. SUFFICES ASSUME IInv, Next, NEW s \in Scopes, NEW r \in Runs, answers'[s] # NoData
              PROVE  Behind(answers'[s][r], server'[r])
  BY DEF AnswersBehind
<1>0. TypeOK /\ s \in Queries /\ s # Flags
  BY QueryTypes DEF IInv
<1>1. CASE answers'[s] = answers[s]
  <2>1. answers[s][r] \in ListStates
    BY <1>0, <1>1 DEF TypeOK, Lists
  <2>. QED
    BY <1>0, <1>1, <2>1, Forward DEF IInv, AnswersBehind
<1>2. CASE answers'[s] # answers[s]
  <2>1. Respond(s)
    <3>1. ASSUME Deliver PROVE answers'[s] \in {answers[s], NoData}
      <4>1. (\E qs : Invalidate(qs)) \/ answers' = answers
        BY <3>1, <1>0, DeliveredTypes DEF HandleCurrentRuns, HandleUpdate
      <4>. QED
        BY <1>0, <4>1, InvalidateTypes
    <3>2. ASSUME NEW q \in Queries, Respond(q), q # s PROVE answers'[s] = answers[s]
      BY <1>0, <3>2 DEF Respond, TypeOK
    <3>3. ASSUME NEW q \in Queries, Receive(q) PROVE answers'[s] \in {answers[s], NoData}
      BY <1>0, <3>3 DEF Receive, TypeOK
    <3>. QED
      BY <1>2, <3>1, <3>2, <3>3
         DEF Next, Start, Progress, End, Tell, Clear, Open, Greet, Close, DropSlowClient,
             Mount, Unmount, Poll, Fail, pageVars
  <2>2. answers'[s] = HistoryOf(s) /\ server' = server
    BY <1>0, <2>1 DEF Respond, Answer, TypeOK, serverVars
  <2>. QED
    BY <1>0, <2>2 DEF HistoryOf, Behind, TypeOK, ServerStates, ListStates
<1>. QED
  BY <1>1, <1>2

(* What is shown comes from a message, from an answer, or was shown before.*)
LEMMA ListsStayBehind == IInv /\ Next => NeverAhead'
<1>. SUFFICES ASSUME IInv, Next, NEW s \in Scopes, NEW r \in Runs, lists'[s] # NoData
              PROVE  Behind(lists'[s][r], server'[r])
  BY DEF NeverAhead
<1>0. TypeOK /\ s \in Queries /\ s # Flags
  BY QueryTypes DEF IInv
<1>1. ASSUME lists[s] # NoData, lists'[s][r] = lists[s][r] PROVE Behind(lists'[s][r], server'[r])
  <2>1. lists[s][r] \in ListStates
    BY <1>0, <1>1 DEF TypeOK, Lists
  <2>. QED
    BY <1>0, <1>1, <2>1, Forward DEF IInv, NeverAhead
<1>2. CASE Deliver
  <2>1. CASE HandleCurrentRuns
    BY <1>1, <2>1 DEF HandleCurrentRuns
  <2>2. CASE Head(wire) \in Updates /\ HandleUpdate(Head(wire))
    <3>. DEFINE m == Head(wire)
    <3>1. lists'[s] = Upsert(lists[s], m.run, m.state) /\ lists[s] # NoData
      BY <2>2 DEF HandleUpdate, Upsert
    <3>2. CASE lists'[s][r] = lists[s][r]
      BY <1>1, <3>1, <3>2
    <3>3. CASE lists'[s][r] # lists[s][r]
      <4>1. r = m.run /\ lists'[s][r] = m.state
        BY <1>0, <3>1, <3>3 DEF Upsert, TypeOK, Lists
      <4>2. wire # <<>> /\ m = wire[1] /\ 1 \in 1..Len(wire)
        BY <1>0, <1>2 DEF Deliver, TypeOK
      <4>3. m # CurrentRuns /\ m.state \in ListStates
        BY <2>2 DEF Updates, CurrentRuns, ListStates
      <4>4. Behind(m.state, server[r])
        BY <4>1, <4>2, <4>3 DEF IInv, WireBehind
      <4>. QED
        BY <1>0, <4>1, <4>3, <4>4, Forward
    <3>. QED
      BY <3>2, <3>3
  <2>. QED
    BY <1>0, <1>2, <2>1, <2>2, DeliveredTypes
<1>3. ASSUME NEW q \in Queries, Receive(q) PROVE Behind(lists'[s][r], server'[r])
  <2>1. CASE q = s
    <3>1. answers[s] # NoData /\ lists'[s] = answers[s] /\ answers[s][r] \in ListStates
      BY <1>0, <1>3, <2>1 DEF Receive, TypeOK, Lists
    <3>. QED
      BY <1>0, <3>1, Forward DEF IInv, AnswersBehind
  <2>2. CASE q # s
    BY <1>1, <1>3, <2>2 DEF Receive
  <2>. QED
    BY <2>1, <2>2
<1>4. ASSUME lists' = lists PROVE Behind(lists'[s][r], server'[r])
  BY <1>1, <1>4
<1>. QED
  BY <1>2, <1>3, <1>4
     DEF Next, Start, Progress, End, Tell, Clear, Open, Greet, Close, DropSlowClient, Mount,
         Unmount, Poll, Respond, Fail, pageVars

LEMMA NextIInv == IInv /\ [Next]_vars => IInv'
<1>. SUFFICES ASSUME IInv, [Next]_vars PROVE IInv'
  OBVIOUS
<1>1. CASE Next
  BY <1>1, NextTypes, ServerTold, WireStaysBehind, AnswersStayBehind, ListsStayBehind DEF IInv
<1>2. CASE UNCHANGED vars
  BY <1>2, NextTypes DEF IInv, vars, Told, WireBehind, AnswersBehind, NeverAhead, Behind
<1>. QED
  BY <1>1, <1>2

(* Whatever is lost, late or overtaken, the page shows no run in a state   *)
(* that the run has not reached.                                           *)
THEOREM PageIsNeverAhead == Spec => []NeverAhead
<1>1. IInv => NeverAhead
  BY DEF IInv
<1>. QED
  BY <1>1, InitIInv, NextIInv, PTL DEF Spec

=============================================================================
