------------------------------ MODULE LogTail ------------------------------
(***************************************************************************)
(* The log of a run as the browser follows it: the page of the run         *)
(* (RunDetail) or the task panel of the graph (DAGGraph), the cached state *)
(* of the run, the requests for its log, and the viewer (LogViewer).       *)
(*                                                                         *)
(* The lines come out of the database in the order they were saved; a      *)
(* request is for one task or for all, its answer is cached under that     *)
(* selection, and it is repeated every 2 s while the page believes that the*)
(* run is running.  A line is its task and its level.                      *)
(***************************************************************************)
EXTENDS Naturals, Sequences

CONSTANTS
    Tasks,
    Levels,
    All,        \* no task is selected
    None,
    MaxLines    \* lines of the log (bounds the state space)

TasksAssumption == All \notin Tasks /\ None \notin Levels /\ MaxLines \in Nat

Selections == Tasks \cup {All}

Lines == [task : Tasks, level : Levels]

VARIABLES
    saved,      \* the lines in the database
    running,    \* the run is running, on the server
    believed,   \* the state of the run in the cached history
    selected,   \* the task in the URL
    cache,      \* the answer cached for each selection
    asked,      \* the selections whose request the server has not answered
    answers,    \* the answers on their way
    levels      \* levelFilter

vars == <<saved, running, believed, selected, cache, asked, answers, levels>>

(* An answer: the selection it was asked for, and the length of the log.   *)
Answers == [of : Selections, upTo : 0..MaxLines]

(* Types, and what is cached for a selection was asked for it.             *)
TypeOK ==
    /\ saved \in Seq(Lines) /\ Len(saved) <= MaxLines
    /\ believed \in {None, "running", "ended"}
    /\ selected \in Selections
    /\ cache \in [Selections -> Answers \cup {None}]
    /\ answers \in [Selections -> Answers \cup {None}]
    /\ \A s \in Selections : cache[s] # None => cache[s].of = s
    /\ asked \subseteq Selections
    /\ levels \subseteq Levels
    /\ running \in BOOLEAN

(* The page opens with any selection the URL holds, and asks at once.      *)
Init ==
    /\ saved = <<>>
    /\ running = TRUE
    /\ believed = None
    /\ selected \in Selections
    /\ cache = [s \in Selections |-> None]
    /\ asked = {selected}
    /\ answers = [s \in Selections |-> None]
    /\ levels = {}

-----------------------------------------------------------------------------
(* The server *)

SaveLine(line) ==
    /\ running
    /\ Len(saved) < MaxLines
    /\ saved' = Append(saved, line)
    /\ UNCHANGED <<running, believed, selected, cache, asked, answers, levels>>

(* Every record of the tasks was flushed before the run ends.              *)
End ==
    /\ running
    /\ running' = FALSE
    /\ UNCHANGED <<saved, believed, selected, cache, asked, answers, levels>>

Respond(s) ==
    /\ s \in asked
    /\ asked' = asked \ {s}
    /\ answers' = [answers EXCEPT ![s] = [of |-> s, upTo |-> Len(saved)]]
    /\ UNCHANGED <<saved, running, believed, selected, cache, levels>>

(* The request fails, and its retry: nothing is cached.                    *)
Fail(s) ==
    /\ s \in asked
    /\ asked' = asked \ {s}
    /\ UNCHANGED <<saved, running, believed, selected, cache, answers, levels>>

-----------------------------------------------------------------------------
(* The page *)

(* The cached history changes, by a poll or an update of the WebSocket.    *)
Learn ==
    /\ believed' = IF running THEN "running" ELSE "ended"
    /\ UNCHANGED <<saved, running, selected, cache, asked, answers, levels>>

Idle(s) == s \notin asked /\ answers[s] = None

(* setSelectedTask: what is not cached, or stale, is asked for.            *)
Select(s) ==
    /\ s # selected
    /\ selected' = s
    /\ \/ Idle(s) /\ asked' = asked \cup {s}
       \/ ~Idle(s) /\ UNCHANGED asked
    /\ UNCHANGED <<saved, running, believed, cache, answers, levels>>

(* refetchInterval: 2 s while the run is believed to run, else none.       *)
Poll ==
    /\ believed = "running"
    /\ Idle(selected)
    /\ asked' = asked \cup {selected}
    /\ UNCHANGED <<saved, running, believed, selected, cache, answers, levels>>

-----------------------------------------------------------------------------
Receive(s) ==
    /\ answers[s] # None
    /\ answers' = [answers EXCEPT ![s] = None]
    /\ cache' = [cache EXCEPT ![s] = answers[s]]
    /\ UNCHANGED <<saved, running, believed, selected, asked, levels>>

-----------------------------------------------------------------------------
(* The viewer *)

(* The lines of an answer, as their places in the log.                     *)
LinesOf(a) == {n \in 1..a.upTo : a.of \in {All, saved[n].task}}

(* The lines the level filter leaves; an empty filter leaves all.          *)
Filtered(lines) == {n \in lines : levels = {} \/ saved[n].level \in levels}

(* Nothing, while the log is loading.                                      *)
Displayed == IF cache[selected] = None THEN {} ELSE Filtered(LinesOf(cache[selected]))

(* There is a button for each level of the log, filtered or not.           *)
LevelButtons ==
    IF cache[selected] = None THEN {} ELSE {saved[n].level : n \in LinesOf(cache[selected])}

ToggleLevel(level) ==
    /\ level \in LevelButtons
    /\ levels' = IF level \in levels THEN levels \ {level} ELSE levels \cup {level}
    /\ UNCHANGED <<saved, running, believed, selected, cache, asked, answers>>

-----------------------------------------------------------------------------
Next ==
    \/ \E l \in Lines : SaveLine(l)
    \/ End \/ Learn \/ Poll
    \/ \E s \in Selections : Respond(s) \/ Fail(s) \/ Select(s) \/ Receive(s)
    \/ \E level \in Levels : ToggleLevel(level)

Spec == Init /\ [][Next]_vars

(* The page polls and learns of the run's state for ever; of a request that*)
(* is made again and again one is answered.                                *)
Fairness ==
    /\ WF_vars(Learn) /\ WF_vars(Poll)
    /\ \A s \in Selections : SF_vars(Respond(s)) /\ SF_vars(Receive(s))

FairSpec == Spec /\ Fairness

-----------------------------------------------------------------------------
(* What is displayed are the lines of the selected task and the selected   *)
(* levels among those that were fetched, whatever was selected when the    *)
(* answers that arrive were asked for.                                     *)
DisplayIsSelection ==
    cache[selected] # None =>
        /\ cache[selected].upTo <= Len(saved)
        /\ Displayed =
              {n \in 1..cache[selected].upTo :
                  /\ selected # All => saved[n].task = selected
                  /\ levels # {} => saved[n].level \in levels}

(* A line that was saved is fetched, for the filter to show, as long as the*)
(* page stays on its selection and believes that the run is running.       *)
IsSaved(n) == Len(saved) >= n

Followed(s, n) ==
    \/ cache[selected] # None /\ cache[selected].upTo >= n
    \/ selected # s
    \/ believed # "running"

LogFollowsRun == \A s \in Selections, n \in 1..MaxLines : IsSaved(n) ~> Followed(s, n)

=============================================================================
