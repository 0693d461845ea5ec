------------------------------ MODULE RunLists ------------------------------
(***************************************************************************)
(* The pages that list runs, and the pages that show one run by finding it *)
(* in such a list.  Every page reads one entry of the query cache and asks *)
(* for it with a limit of its own: pages share entries, though not limits, *)
(* and a page opens with what another left in the entry.  A list can be    *)
(* cleared from its page.  The updates of the WebSocket are LiveUpdates'.  *)
(* The order of a list is that of its runs' ids, and is left out.          *)
(***************************************************************************)
EXTENDS Naturals, Sequences, FiniteSets

CONSTANTS
    Dags,       \* the DAGs, or the Flows
    Pages,
    KeyOf,      \* the cache entry of each page
    ScopeOf,    \* the DAG it is about, or All
    LimitOf,    \* how many runs it asks for
    Details,    \* the pages that show one run
    Clearing,   \* the pages with a button to clear the list
    All,
    None,
    MaxRuns     \* runs that are started (bounds the state space)

Keys == {KeyOf[p] : p \in Pages}

PagesAssumption ==
    /\ ScopeOf \in [Pages -> Dags \cup {All}] /\ All \notin Dags
    /\ LimitOf \in [Pages -> Nat \ {0}]
    /\ Details \cup Clearing \subseteq Pages
    /\ MaxRuns \in Nat

VARIABLES
    made,       \* the runs that were ever started; a run's id is its place
    cleared,    \* the runs the server has cleared
    page,
    opened,     \* the run in the URL of a page that shows one; 0 on the others
    filter,     \* the state in the URL, or All
    cache,      \* the runs each entry holds, or None
    failed,     \* the entries whose last request, and its retry, failed
    stale,      \* the entries that were invalidated
    fetch,      \* the request under way for each entry, or None
    clear,      \* the request to clear a list: its DAG, and where it is
    told        \* the runs that were cleared when each entry was asked for anew

vars == <<made, cleared, page, opened, filter, cache, failed, stale, fetch, clear, told>>

States == {"running", "ended"}
Ids == 1..MaxRuns
Listed == [id : Ids, dag : Dags, state : States]
Fetches == [by : Pages, answer : (SUBSET Listed) \cup {None}]

(* Types; an entry never holds a run twice.                                *)
TypeOK ==
    /\ made \in Seq([dag : Dags, state : States]) /\ Len(made) <= MaxRuns
    /\ cleared \subseteq DOMAIN made
    /\ told \in [Keys -> SUBSET cleared]
    /\ page \in Pages
    /\ opened \in Ids \cup {0} /\ (opened # 0 <=> page \in Details)
    /\ filter \in States \cup {All}
    /\ cache \in [Keys -> (SUBSET Listed) \cup {None}]
    /\ \A k \in Keys : cache[k] # None => \A x, y \in cache[k] : x.id = y.id => x = y
    /\ failed \subseteq Keys /\ stale \subseteq Keys
    /\ fetch \in [Keys -> Fetches \cup {None}]
    /\ clear \in [of : Dags \cup {All}, at : {"sent", "done", "refused"}] \cup {None}

Init ==
    /\ made = <<>> /\ cleared = {} /\ told = [k \in Keys |-> {}]
    /\ page \in Pages \ Details
    /\ opened = 0
    /\ filter = All
    /\ cache = [k \in Keys |-> None]
    /\ failed = {} /\ stale = {}
    /\ fetch = [k \in Keys |-> IF k = KeyOf[page] THEN [by |-> page, answer |-> None] ELSE None]
    /\ clear = None

-----------------------------------------------------------------------------
(* The server *)

server == <<made, cleared>>
client == <<page, opened, filter, cache, failed, stale, told>>

(* get_history: the most recent runs that were not cleared.                *)
Listing(scope, limit) ==
    LET all == {i \in DOMAIN made \ cleared : scope \in {All, made[i].dag}}
        latest == {i \in all : Cardinality({j \in all : j > i}) < limit}
    IN  {[id |-> i, dag |-> made[i].dag, state |-> made[i].state] : i \in latest}

Start(d) ==
    /\ Len(made) < MaxRuns
    /\ made' = Append(made, [dag |-> d, state |-> "running"])
    /\ UNCHANGED <<cleared, client, fetch, clear>>

Finish(i) ==
    /\ made[i].state = "running"
    /\ made' = [made EXCEPT ![i].state = "ended"]
    /\ UNCHANGED <<cleared, client, fetch, clear>>

Respond(k) ==
    /\ fetch[k] # None
    /\ fetch[k].answer = None
    /\ LET p == fetch[k].by
       IN  fetch' = [fetch EXCEPT ![k].answer = Listing(ScopeOf[p], LimitOf[p])]
    /\ UNCHANGED <<server, client, clear>>

(* clear_history of a DAG; refused while a run of it is running.           *)
ServerClears ==
    /\ clear # None
    /\ clear.at = "sent"
    /\ LET runs == {i \in DOMAIN made : made[i].dag = clear.of} \ cleared
           active == \E i \in runs : made[i].state = "running"
       IN  \/ ~active /\ cleared' = cleared \cup runs /\ clear' = [clear EXCEPT !.at = "done"]
           \/ active /\ UNCHANGED cleared /\ clear' = [clear EXCEPT !.at = "refused"]
    /\ UNCHANGED <<made, client, fetch>>

-----------------------------------------------------------------------------
(* The query cache *)

Cached == cache[KeyOf[page]]

Asked(p) == [by |-> p, answer |-> None]

(* A variant of Poll: only until there is an answer.                       *)
PollOnce ==
    /\ Cached = None
    /\ fetch[KeyOf[page]] = None
    /\ fetch' = [fetch EXCEPT ![KeyOf[page]] = Asked(page)]
    /\ UNCHANGED <<server, client, clear>>

(* refetchInterval.                                                        *)
Poll ==
    /\ fetch[KeyOf[page]] = None
    /\ fetch' = [fetch EXCEPT ![KeyOf[page]] = Asked(page)]
    /\ UNCHANGED <<server, client, clear>>

Receive(k) ==
    /\ fetch[k] # None
    /\ fetch[k].answer # None
    /\ cache' = [cache EXCEPT ![k] = fetch[k].answer]
    /\ failed' = failed \ {k}
    /\ stale' = stale \ {k}
    /\ fetch' = [fetch EXCEPT ![k] = None]
    /\ UNCHANGED <<server, page, opened, filter, clear, told>>

(* What was cached stays cached.                                           *)
FetchFails(k) ==
    /\ fetch[k] # None
    /\ failed' = failed \cup {k}
    /\ fetch' = [fetch EXCEPT ![k] = None]
    /\ UNCHANGED <<server, page, opened, filter, cache, stale, clear, told>>

-----------------------------------------------------------------------------
(* The pages *)

(* What the page lists: nothing while it loads, or shows an error.         *)
Rows ==
    IF Cached = None \/ KeyOf[page] \in failed THEN {}
    ELSE {x \in Cached : filter \in {All, x.state}}

Contains(list, i) == \E x \in list : x.id = i

(* A page that is opened asks unless its entry is fresh (2 s) or being     *)
(* asked for, by whichever page asked.                                     *)
Show(p, i) ==
    /\ page' = p
    /\ opened' = i
    /\ filter' = All
    /\ LET k == KeyOf[p]
       IN  \/ fetch[k] = None /\ fetch' = [fetch EXCEPT ![k] = Asked(p)]
           \/ fetch[k] # None /\ UNCHANGED fetch
           \/ cache[k] # None /\ k \notin stale \cup failed /\ UNCHANGED fetch
    /\ UNCHANGED <<server, cache, failed, stale, clear, told>>

Navigate(p) == p \in Pages \ Details /\ p # page /\ Show(p, 0)

(* A link to a run that the page lists.                                    *)
Follow(p, i) == p \in Details /\ Contains(Rows, i) /\ page \notin Details /\ Show(p, i)

SetFilter(s) ==
    /\ page \in Clearing
    /\ filter' = s
    /\ UNCHANGED <<server, page, opened, cache, failed, stale, fetch, clear, told>>

(* The button is there while the entry has runs, and the user confirms.    *)
Clear ==
    /\ page \in Clearing
    /\ clear = None
    /\ Cached \notin {None, {}}
    /\ clear' = [of |-> ScopeOf[page], at |-> "sent"]
    /\ UNCHANGED <<server, client, fetch>>

(* Whether the page in sight asks anew once its entry is invalidated: a    *)
(* request under way is cancelled if the entry holds data, and is kept,    *)
(* with whatever it brings, while the page still loads.                    *)
Restarts == Cached # None \/ fetch[KeyOf[page]] = None

Told == [told EXCEPT ![KeyOf[page]] = IF Restarts THEN cleared ELSE @]

(* A variant of ClearSucceeds: the request under way is not cancelled.     *)
ClearSucceedsLeaving ==
    /\ clear # None
    /\ clear.at = "done"
    /\ clear' = None
    /\ told' = Told
    /\ stale' = Keys
    /\ fetch' = [fetch EXCEPT ![KeyOf[page]] = IF @ = None THEN Asked(page) ELSE @]
    /\ UNCHANGED <<server, page, opened, filter, cache, failed>>

(* Every list is invalidated, and that of the page in sight is asked for.  *)
ClearSucceeds ==
    /\ clear # None
    /\ clear.at = "done"
    /\ clear' = None
    /\ told' = Told
    /\ stale' = Keys
    /\ fetch' = [fetch EXCEPT ![KeyOf[page]] = IF Restarts THEN Asked(page) ELSE @]
    /\ UNCHANGED <<server, page, opened, filter, cache, failed>>

(* The server refused, or its answer was lost.                             *)
ClearFails ==
    /\ clear # None
    /\ clear.at \in {"refused", "done"}
    /\ clear' = None
    /\ UNCHANGED <<server, client, fetch>>

Next ==
    \/ \E d \in Dags : Start(d)
    \/ \E i \in DOMAIN made : Finish(i)
    \/ \E k \in Keys : Respond(k) \/ Receive(k) \/ FetchFails(k)
    \/ Poll \/ Clear \/ ServerClears \/ ClearSucceeds \/ ClearFails
    \/ \E p \in Pages : Navigate(p) \/ \E i \in DOMAIN made : Follow(p, i)
    \/ \E s \in States \cup {All} : SetFilter(s)

Spec == Init /\ [][Next]_vars

(* A page polls for ever; of the requests that are made again and again    *)
(* some are answered.                                                      *)
Fairness ==
    /\ WF_vars(Poll)
    /\ \A k \in Keys : SF_vars(Respond(k)) /\ SF_vars(Receive(k))

FairSpec == Spec /\ Fairness

-----------------------------------------------------------------------------
(* Once a list was asked for anew because it was cleared, and there is an  *)
(* answer, the page lists none of the runs that were cleared: an answer the*)
(* server gave before it cleared them does not bring them back.            *)
ClearedAreGone ==
    KeyOf[page] \notin stale => \A i \in told[KeyOf[page]] : ~Contains(Rows, i)

(* "Find the run in history": a page that was opened for a run, by a link  *)
(* of another page, comes to show it, unless it is left or the run cleared.*)
Opened(p, i) == page = p /\ opened = i

Shown(p, i) == Contains(Rows, i) \/ ~Opened(p, i) \/ i \in cleared

RunIsFound == \A p \in Details, i \in Ids : Opened(p, i) ~> Shown(p, i)

=============================================================================
