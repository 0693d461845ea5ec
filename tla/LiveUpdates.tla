---------------------------- MODULE LiveUpdates ----------------------------
(***************************************************************************)
(* How a browser page follows the runs of the server.                      *)
(*                                                                         *)
(* The page keeps the answers of the REST API in the React Query cache: a  *)
(* history list per scope (all the runs, or those of one DAG or Flow) and  *)
(* the running flags of the DAGs or Flows.  Two channels write the cache,  *)
(* with no order between them: answers to requests (polls of a mounted     *)
(* page, and the refetch of an invalidated query), and updates pushed on a *)
(* WebSocket (useLiveUpdates).  The socket is first in, first out, loses   *)
(* what it carried when it closes, and is opened again after 3 s; the      *)
(* server drops a client that is too slow from its broadcasts.             *)
(*                                                                         *)
(* A cached list is the state it shows of each run: the order, the number  *)
(* and the other fields of its entries are left out.                       *)
(***************************************************************************)
EXTENDS Naturals, Sequences

CONSTANTS
    Groups,    \* the DAGs, or the Flows, whose runs are followed
    Runs,      \* the runs that may start
    GroupOf,   \* the DAG or Flow of each run
    AreFlows,  \* the groups are Flows and not DAGs
    Scopes,    \* the history lists the page may cache: groups, or All
    All,       \* the scope of the list of every run
    NoData,    \* a query that was never answered
    MaxWire    \* how many messages the socket may hold (bounds the state space)

ASSUME GroupsAssumption == GroupOf \in [Runs -> Groups] /\ AreFlows \in BOOLEAN
ASSUME ScopesAssumption == Scopes \subseteq Groups \cup {All} /\ All \notin Groups
ASSUME MaxWireAssumption == MaxWire \in Nat

(* The query of the running flags: ['dags'], or ['flows'].                 *)
Flags == <<"running flags">>

Queries == Scopes \cup {Flags}

ASSUME FlagsAssumption == Flags \notin Scopes

VARIABLES
    server,      \* the state of each run in the memory of the server
    telling,     \* ended runs whose last update callback has not been called
    registered,  \* the socket is in active_connections
    greeting,    \* the handler has not sent current_runs on the socket yet
    wire,        \* the messages sent on the socket and not handled yet
    connected,   \* the page's socket is open
    mounted,     \* the queries some mounted component observes
    lists,       \* the cached history lists
    flags,       \* the cached running flags
    asked,       \* the requests the server has not answered
    answers      \* the answers on their way

serverVars == <<server, telling>>
socketVars == <<registered, greeting, wire, connected>>
pageVars == <<mounted, lists, flags, asked, answers>>
vars == <<server, telling, registered, greeting, wire, connected,
          mounted, lists, flags, asked, answers>>

ListStates == {"absent", "running", "done"}
ServerStates == ListStates \cup {"cleared"}

Lists == [Runs -> ListStates]
FlagSets == [Groups -> BOOLEAN]

Updates == [type : {"update"}, run : Runs, state : {"running", "done"}]
CurrentRuns == [type |-> "current_runs"]

TypeOK ==
    /\ server \in [Runs -> ServerStates]
    /\ telling \subseteq Runs
    /\ {registered, greeting, connected} \subseteq BOOLEAN
    /\ wire \in Seq(Updates \cup {CurrentRuns})
    /\ mounted \subseteq Queries
    /\ lists \in [Scopes -> Lists \cup {NoData}]
    /\ flags \in FlagSets \cup {NoData}
    /\ asked \subseteq Queries
    /\ answers \in [Queries -> Lists \cup FlagSets \cup {NoData}]
    /\ \A s \in Scopes : answers[s] \in Lists \cup {NoData}
    /\ answers[Flags] \in FlagSets \cup {NoData}

Init ==
    /\ server = [r \in Runs |-> "absent"]
    /\ telling = {}
    /\ registered = FALSE
    /\ greeting = FALSE
    /\ wire = <<>>
    /\ connected = FALSE
    /\ mounted = {}
    /\ lists = [s \in Scopes |-> NoData]
    /\ flags = NoData
    /\ asked = {}
    /\ answers = [q \in Queries |-> NoData]

-----------------------------------------------------------------------------
(* What the server answers *)

InScope(r, s) == s = All \/ GroupOf[r] = s

HistoryOf(s) ==
    [r \in Runs |-> IF InScope(r, s) /\ server[r] # "cleared"
                    THEN server[r] ELSE "absent"]

RunningFlags == [g \in Groups |-> \E r \in Runs : GroupOf[r] = g /\ server[r] = "running"]

Answer(q) == IF q = Flags THEN RunningFlags ELSE HistoryOf(q)

-----------------------------------------------------------------------------
(* The server *)

(* broadcast: only the sockets in active_connections are sent a message.   *)
Broadcast(m) == wire' = IF registered THEN Append(wire, m) ELSE wire

Update(r, state) == [type |-> "update", run |-> r, state |-> state]

Start(r) ==
    /\ Len(wire) < MaxWire
    /\ server[r] = "absent"
    /\ server' = [server EXCEPT ![r] = "running"]
    /\ Broadcast(Update(r, "running"))
    /\ UNCHANGED <<telling, registered, greeting, connected, pageVars>>

(* A task of the run changes state: the record is broadcast, still running. *)
Progress(r) ==
    /\ Len(wire) < MaxWire
    /\ server[r] = "running"
    /\ Broadcast(Update(r, "running"))
    /\ UNCHANGED <<serverVars, registered, greeting, connected, pageVars>>

(* The run leaves the registry; it is broadcast after its row is saved.    *)
End(r) ==
    /\ server[r] = "running"
    /\ server' = [server EXCEPT ![r] = "done"]
    /\ telling' = telling \cup {r}
    /\ UNCHANGED <<socketVars, pageVars>>

Tell(r) ==
    /\ Len(wire) < MaxWire
    /\ r \in telling
    /\ telling' = telling \ {r}
    /\ Broadcast(Update(r, "done"))
    /\ UNCHANGED <<server, registered, greeting, connected, pageVars>>

(* clear_history and clear_flow_history, which send no update.             *)
Clear(g) ==
    /\ ~RunningFlags[g]
    /\ server' = [r \in Runs |-> IF GroupOf[r] = g /\ server[r] = "done"
                                 THEN "cleared" ELSE server[r]]
    /\ UNCHANGED <<telling, socketVars, pageVars>>

-----------------------------------------------------------------------------
(* The socket *)

(* The page's socket opens and the handler registers it.                   *)
Open ==
    /\ ~connected
    /\ connected' = TRUE
    /\ registered' = TRUE
    /\ greeting' = TRUE
    /\ wire' = <<>>
    /\ UNCHANGED <<serverVars, pageVars>>

(* The handler, between two awaits, sends current_runs if a run is active. *)
(* The page ignores the two messages before it.                            *)
Greet ==
    /\ Len(wire) < MaxWire
    /\ greeting
    /\ greeting' = FALSE
    /\ wire' = IF \E g \in Groups : RunningFlags[g] THEN Append(wire, CurrentRuns) ELSE wire
    /\ UNCHANGED <<serverVars, registered, connected, pageVars>>

(* The connection is lost, or the server restarts it.                      *)
Close ==
    /\ connected
    /\ connected' = FALSE
    /\ registered' = FALSE
    /\ greeting' = FALSE
    /\ wire' = <<>>
    /\ UNCHANGED <<serverVars, pageVars>>

(* A send takes more than 5 s: the client leaves the broadcasts, and the   *)
(* sends that were waiting are cancelled.  Nobody closes the socket.       *)
DropSlowClient ==
    /\ registered
    /\ registered' = FALSE
    /\ \E n \in 0..Len(wire) : wire' = SubSeq(wire, 1, n)
    /\ UNCHANGED <<serverVars, greeting, connected, pageVars>>

-----------------------------------------------------------------------------
(* The page handles a message *)

(* invalidateQueries: an observed query is asked again, and the answer to  *)
(* an earlier request is discarded once the query has data.                *)
HasData(q) == IF q = Flags THEN flags # NoData ELSE lists[q] # NoData

Invalidate(qs) ==
    LET again == {q \in qs \cap mounted : HasData(q)} IN
    /\ asked' = asked \cup {q \in qs \cap mounted : q \in again \/ answers[q] = NoData}
    /\ answers' = [q \in Queries |-> IF q \in again THEN NoData ELSE answers[q]]

(* The groups with a run in a cached list.                                 *)
GroupsIn(list) == {GroupOf[r] : r \in {s \in Runs : list[s] # "absent"}}

(* Lists of DAG runs that hold the runs of one other DAG are left alone;   *)
(* lists of Flow runs never are.                                           *)
LeftAlone(list, r) ==
    /\ ~AreFlows
    /\ \E g \in Groups \ {GroupOf[r]} : GroupsIn(list) = {g}

(* A variant of Upsert: the run is shown in the state after the update's.  *)
UpsertAhead(list, r, state) ==
    IF list = NoData THEN list ELSE [list EXCEPT ![r] = "done"]

Upsert(list, r, state) ==
    IF list = NoData \/ LeftAlone(list, r) THEN list ELSE [list EXCEPT ![r] = state]

HandleUpdate(m) ==
    /\ lists' = [s \in Scopes |-> Upsert(lists[s], m.run, m.state)]
    /\ flags' = IF flags = NoData THEN flags
                ELSE [flags EXCEPT ![GroupOf[m.run]] = (m.state = "running")]
    /\ IF m.state # "running" THEN Invalidate({Flags}) ELSE UNCHANGED <<asked, answers>>

(* Only the queries of DAGs are asked again.                               *)
HandleCurrentRuns ==
    /\ Invalidate(IF AreFlows THEN {} ELSE Queries)
    /\ UNCHANGED <<lists, flags>>

Deliver ==
    /\ wire # <<>>
    /\ wire' = Tail(wire)
    /\ LET m == Head(wire) IN
       IF m = CurrentRuns THEN HandleCurrentRuns ELSE HandleUpdate(m)
    /\ UNCHANGED <<serverVars, registered, greeting, connected, mounted>>

-----------------------------------------------------------------------------
(* The page asks *)

Mount(q) ==
    /\ q \notin mounted
    /\ mounted' = mounted \cup {q}
    /\ UNCHANGED <<serverVars, socketVars, lists, flags, asked, answers>>

Unmount(q) ==
    /\ q \in mounted
    /\ mounted' = mounted \ {q}
    /\ UNCHANGED <<serverVars, socketVars, lists, flags, asked, answers>>

(* A mounted query is fetched when it is stale and every refetchInterval.  *)
Poll(q) ==
    /\ q \in mounted
    /\ q \notin asked
    /\ answers[q] = NoData
    /\ asked' = asked \cup {q}
    /\ UNCHANGED <<serverVars, socketVars, mounted, lists, flags, answers>>

Respond(q) ==
    /\ q \in asked
    /\ asked' = asked \ {q}
    /\ answers' = [answers EXCEPT ![q] = Answer(q)]
    /\ UNCHANGED <<serverVars, socketVars, mounted, lists, flags>>

(* A variant of Receive: the answer is not written over cached data.       *)
ReceiveOnce(q) ==
    /\ answers[q] # NoData
    /\ answers' = [answers EXCEPT ![q] = NoData]
    /\ flags' = IF q = Flags /\ flags = NoData THEN answers[q] ELSE flags
    /\ lists' = [s \in Scopes |-> IF s = q /\ lists[s] = NoData THEN answers[q] ELSE lists[s]]
    /\ UNCHANGED <<serverVars, socketVars, mounted, asked>>

Receive(q) ==
    /\ answers[q] # NoData
    /\ answers' = [answers EXCEPT ![q] = NoData]
    /\ flags' = IF q = Flags THEN answers[q] ELSE flags
    /\ lists' = [s \in Scopes |-> IF s = q THEN answers[q] ELSE lists[s]]
    /\ UNCHANGED <<serverVars, socketVars, mounted, asked>>

(* The request fails, after its retry: the cached data stay.               *)
Fail(q) ==
    /\ q \in asked
    /\ asked' = asked \ {q}
    /\ UNCHANGED <<serverVars, socketVars, mounted, lists, flags, answers>>

-----------------------------------------------------------------------------
Next ==
    \/ \E r \in Runs : Start(r) \/ Progress(r) \/ End(r) \/ Tell(r)
    \/ \E g \in Groups : Clear(g)
    \/ Open \/ Greet \/ Close \/ DropSlowClient \/ Deliver
    \/ \E q \in Queries : Mount(q) \/ Unmount(q) \/ Poll(q)
                          \/ Respond(q) \/ Receive(q) \/ Fail(q)

Spec == Init /\ [][Next]_vars

(* What both the server and the page get done: an ended run is told, a     *)
(* closed socket is opened again, messages are handled, a mounted query    *)
(* polls, and of a request that is made again and again one is answered.   *)
Fairness ==
    /\ \A r \in Runs : WF_vars(Tell(r))
    /\ WF_vars(Open) /\ WF_vars(Greet) /\ WF_vars(Deliver)
    /\ \A q \in Queries : WF_vars(Poll(q)) /\ SF_vars(Respond(q)) /\ SF_vars(Receive(q))

FairSpec == Spec /\ Fairness

-----------------------------------------------------------------------------
(* The page is never ahead of the server: whatever it shows of a run, from *)
(* whichever channel and however late, the server has already been there.  *)
Behind(shown, actual) ==
    CASE shown = "absent"  -> TRUE
      [] shown = "running" -> actual # "absent"
      [] shown = "done"    -> actual \in {"done", "cleared"}

NeverAhead ==
    \A s \in Scopes, r \in Runs : lists[s] # NoData => Behind(lists[s][r], server[r])

(* Once nothing happens on the server any more, a page that stays mounted  *)
(* comes to show its state and keeps showing it, however many updates were *)
(* lost, late or overtaken by an answer.                                   *)
UpToDate(q) == IF q = Flags THEN flags = RunningFlags ELSE lists[q] = HistoryOf(q)

PageConverges ==
    \A q \in Queries : <>[](q \in mounted) => <>[]UpToDate(q)

=============================================================================
