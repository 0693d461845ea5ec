--------------------------- MODULE TriggerFlowForm ---------------------------
(***************************************************************************)
(* Triggering a Flow from its page: the dialog (TriggerFlowDialog), the    *)
(* page that shows it (FlowDetail), the request it sends (api.triggerFlow) *)
(* and the server's answer, while the server runs Flows of its own accord  *)
(* and the page's idea of what is running is stale.                        *)
(*                                                                         *)
(* The page stays mounted when the command palette or the browser's        *)
(* history leads to another Flow.  The dialog is open as long as the URL   *)
(* says trigger=1, and keeps its fields as long as it is rendered.  Leaving*)
(* the Flow pages ends the behaviour.                                      *)
(*                                                                         *)
(* The mutation's isPending is what the page rendered last: it hears of a  *)
(* change in a timer of its own, and follows the last request it made only.*)
(***************************************************************************)
EXTENDS Naturals, Sequences

CONSTANTS
    Flows,
    CustomModes,   \* what may be typed as a custom mode, trimmed; "" is nothing
    Dates,         \* 1..n, in order; NoDate is an empty field
    Extras,        \* kinds of text in the field of additional parameters
    MaxActive,     \* runs of a Flow at once, and
    MaxRequests,   \* requests on their way at once (both bound the state space)
    None

StandardModes == {"incremental", "backfill", "full_refresh"}
Modes == StandardModes \cup {"custom"}

NoDate == 0

(* Nothing or {}; an object without, or with, a key the form controls;     *)
(* text that is not JSON, or JSON that is not an object.                   *)
ExtraKinds == {"empty", "values", "reserved", "invalid"}

Errors == {"no_mode", "no_start", "dates", "parameters", "conflict"}

Forms ==
    [mode : Modes, custom : CustomModes, start : Dates \cup {NoDate},
     end : Dates \cup {NoDate}, force : BOOLEAN,
     advanced : BOOLEAN, extra : Extras, error : Errors \cup {None}]

FlowsAssumption == None \notin Flows \cup Errors \cup StandardModes \cup Forms
InputsAssumption ==
    /\ "" \in CustomModes
    /\ Dates \subseteq Nat \ {NoDate}
    /\ "empty" \in Extras /\ Extras \subseteq ExtraKinds
    /\ MaxActive \in Nat /\ MaxRequests \in Nat

VARIABLES
    flow,      \* the Flow of the page
    asked,     \* the URL says trigger=1
    form,      \* the fields of the dialog; None when it is not rendered
    running,   \* what the page knows of each Flow: is_running, or None
    failed,    \* the last fetch of the page's Flow failed
    requests,  \* the trigger requests that have not been answered
    active,    \* how many runs of each Flow the server executes
    busy       \* isPending, as the page was rendered

vars == <<flow, asked, form, running, failed, requests, active, busy>>

Requests ==
    [flow : Flows, trigger_mode : Modes \cup CustomModes, run_mode : StandardModes \cup {None},
     start : Dates \cup {NoDate}, end : Dates \cup {NoDate},
     extra : ExtraKinds, force : BOOLEAN,
     answer : {None, "started", "refused"}, followed : BOOLEAN]

TypeOK ==
    /\ flow \in Flows
    /\ asked \in BOOLEAN /\ failed \in BOOLEAN
    /\ form \in Forms \cup {None}
    /\ running \in [Flows -> BOOLEAN \cup {None}]
    /\ requests \in Seq(Requests) /\ Len(requests) <= MaxRequests
    /\ active \in [Flows -> 0..MaxActive]
    /\ busy \in BOOLEAN

Init ==
    /\ flow \in Flows
    /\ asked \in BOOLEAN
    /\ form = None
    /\ running = [f \in Flows |-> None]
    /\ failed = FALSE
    /\ requests = <<>>
    /\ active = [f \in Flows |-> 0]
    /\ busy = FALSE

(* isPending as the mutation has it: the last request has no answer.       *)
pending == \E i \in DOMAIN requests : requests[i].followed

Fresh(isRunning) ==
    [mode |-> "incremental", custom |-> "", start |-> NoDate, end |-> NoDate,
     force |-> FALSE, advanced |-> isRunning,
     extra |-> "empty", error |-> None]

(* What is rendered: no dialog while the Flow is loading or its fetch has  *)
(* failed, and the dialog that was there before when there was one.        *)
Rendered(wanted, isRunning, error) ==
    IF ~wanted \/ error \/ isRunning = None THEN None
    ELSE IF form = None THEN Fresh(isRunning) ELSE form

-----------------------------------------------------------------------------
(* The page *)

(* The palette, a link or the history leads to a Flow, with trigger=1 or   *)
(* without.                                                                *)
Show(f, trigger) ==
    /\ <<f, trigger>> # <<flow, asked>>
    /\ flow' = f
    /\ asked' = trigger
    /\ failed' = FALSE
    /\ form' = Rendered(trigger, running[f], FALSE)
    /\ busy' = pending
    /\ UNCHANGED <<running, requests, active>>

(* The answer of a fetch, or an update pushed on the WebSocket.            *)
Refresh(f) ==
    /\ running' = [running EXCEPT ![f] = active[f] > 0]
    /\ failed' = (failed /\ f # flow)
    /\ form' = Rendered(asked, running'[flow], failed')
    /\ busy' = IF f = flow THEN pending ELSE busy
    /\ UNCHANGED <<flow, asked, requests, active>>

(* A fetch fails: the page shows the error, whatever data it has.          *)
FetchFails ==
    /\ failed' = TRUE
    /\ form' = None
    /\ busy' = pending
    /\ UNCHANGED <<flow, asked, running, requests, active>>

(* The page renders for any other reason, the mutation's timer among them. *)
Render ==
    /\ busy' = pending
    /\ UNCHANGED <<flow, asked, form, running, failed, requests, active>>

Loaded == running[flow] # None /\ ~failed

(* openTrigger, by the button or the key t.                                *)
OpenTrigger ==
    /\ Loaded /\ ~busy
    /\ asked' = TRUE
    /\ form' = Rendered(TRUE, running[flow], FALSE)
    /\ busy' = pending
    /\ UNCHANGED <<flow, running, failed, requests, active>>

(* closeTrigger, by Escape, Cancel, Close or a click beside the dialog.    *)
CloseTrigger ==
    /\ form # None /\ ~busy
    /\ asked' = FALSE
    /\ form' = None
    /\ busy' = pending
    /\ UNCHANGED <<flow, running, failed, requests, active>>

-----------------------------------------------------------------------------
(* The fields; only those that are shown can be edited *)

Edit(shown, new) ==
    /\ form # None
    /\ shown
    /\ form' = new
    /\ UNCHANGED <<flow, asked, running, failed, requests, active, busy>>

SetMode(m) == Edit(TRUE, [form EXCEPT !.mode = m, !.error = None])

SetCustomMode(m) ==
    Edit(form.mode = "custom", [form EXCEPT !.custom = m, !.error = None])

SetRequestedStart(d) ==
    Edit(form.mode = "backfill", [form EXCEPT !.start = d, !.error = None])

SetRequestedEnd(d) ==
    Edit(form.mode = "backfill", [form EXCEPT !.end = d, !.error = None])

SetAdvancedOpen == Edit(TRUE, [form EXCEPT !.advanced = ~form.advanced])

SetParametersText(x) ==
    Edit(form.advanced, [form EXCEPT !.extra = x, !.error = None])

SetForce(b) == Edit(form.advanced, [form EXCEPT !.force = b])

-----------------------------------------------------------------------------
(* Submitting *)

EffectiveMode == IF form.mode = "custom" THEN form.custom ELSE form.mode

(* The submit button, without which the form cannot be submitted.          *)
SubmitEnabled == ~busy /\ EffectiveMode # "" /\ (running[flow] => form.force)

NoEndBeforeStart ==
    NoDate \notin {form.start, form.end} => form.end >= form.start

(* The end date is rendered with the start date as its min: the browser    *)
(* does not submit a form in which it is earlier.                          *)
BrowserAccepts == form.mode = "backfill" => NoEndBeforeStart

(* A variant of Problem: the custom mode may carry the reserved keys.      *)
ProblemStandard ==
    IF EffectiveMode = "" THEN "no_mode"
    ELSE IF form.mode = "backfill" /\ form.start = NoDate THEN "no_start"
    ELSE IF ~NoEndBeforeStart THEN "dates"
    ELSE IF form.extra = "invalid" THEN "parameters"
    ELSE IF form.extra = "reserved" /\ form.mode # "custom" THEN "conflict"
    ELSE None

(* The checks of submit, in the order they are made.                       *)
Problem ==
    IF EffectiveMode = "" THEN "no_mode"
    ELSE IF form.mode = "backfill" /\ form.start = NoDate THEN "no_start"
    ELSE IF ~NoEndBeforeStart THEN "dates"
    ELSE IF form.extra = "invalid" THEN "parameters"
    ELSE IF form.extra = "reserved" THEN "conflict"
    ELSE None

Payload ==
    [flow |-> flow, trigger_mode |-> EffectiveMode,
     run_mode |-> IF form.mode = "custom" THEN None ELSE form.mode,
     start |-> IF form.mode = "backfill" THEN form.start ELSE NoDate,
     end |-> IF form.mode = "backfill" THEN form.end ELSE NoDate,
     extra |-> form.extra, force |-> form.force,
     answer |-> None, followed |-> TRUE]

(* mutate: the mutation follows the new request instead of any before it.  *)
Mutate(payload) ==
    Append([i \in DOMAIN requests |-> [requests[i] EXCEPT !.followed = FALSE]], payload)

Submit ==
    /\ form # None
    /\ SubmitEnabled
    /\ BrowserAccepts
    /\ Problem = None => Len(requests) < MaxRequests
    /\ form' = [form EXCEPT !.error = Problem]
    /\ requests' = IF Problem = None THEN Mutate(Payload) ELSE requests
    /\ UNCHANGED <<flow, asked, running, failed, active, busy>>

-----------------------------------------------------------------------------
(* The server *)

(* trigger_flow: refused when a run is active, unless forced.              *)
Receive(i) ==
    LET r == requests[i]
        refused == active[r.flow] > 0 /\ ~r.force
    IN  /\ r.answer = None
        /\ active[r.flow] < MaxActive
        /\ requests' = [requests EXCEPT ![i].answer = IF refused THEN "refused" ELSE "started"]
        /\ active' = IF refused THEN active ELSE [active EXCEPT ![r.flow] = @ + 1]
        /\ UNCHANGED <<flow, asked, form, running, failed, busy>>

(* A schedule or another user triggers the Flow.                           *)
StartElsewhere(f) ==
    /\ active[f] = 0 /\ MaxActive > 0
    /\ active' = [active EXCEPT ![f] = 1]
    /\ UNCHANGED <<flow, asked, form, running, failed, requests, busy>>

End(f) ==
    /\ active[f] > 0
    /\ active' = [active EXCEPT ![f] = @ - 1]
    /\ UNCHANGED <<flow, asked, form, running, failed, requests, busy>>

-----------------------------------------------------------------------------
(* The answer *)

Answered(i) == requests' = SubSeq(requests, 1, i - 1) \o SubSeq(requests, i + 1, Len(requests))

(* onSuccess: trigger=1 goes, whichever Flow the page shows by now.        *)
Succeed(i) ==
    /\ requests[i].answer = "started"
    /\ Answered(i)
    /\ asked' = FALSE
    /\ form' = None
    /\ UNCHANGED <<flow, running, failed, active, busy>>

(* onError, for a refusal, an error of the server or of the network: the   *)
(* run may have been started all the same.                                 *)
Fail(i) ==
    /\ Answered(i)
    /\ UNCHANGED <<flow, asked, form, running, failed, active, busy>>

-----------------------------------------------------------------------------
User ==
    \/ OpenTrigger \/ CloseTrigger \/ SetAdvancedOpen \/ Submit
    \/ \E f \in Flows, t \in BOOLEAN : Show(f, t)
    \/ \E m \in Modes : SetMode(m)
    \/ \E m \in CustomModes : SetCustomMode(m)
    \/ \E d \in Dates \cup {NoDate} : SetRequestedStart(d) \/ SetRequestedEnd(d)
    \/ \E x \in Extras : SetParametersText(x)
    \/ \E b \in BOOLEAN : SetForce(b)

Rest ==
    \/ FetchFails \/ Render
    \/ \E f \in Flows : Refresh(f) \/ StartElsewhere(f) \/ End(f)
    \/ \E i \in DOMAIN requests : Receive(i) \/ Succeed(i) \/ Fail(i)

Next == User \/ Rest

Spec == Init /\ [][Next]_vars

-----------------------------------------------------------------------------
(* The keys the form controls (RESERVED_KEYS) have in every request the    *)
(* values the mode and date fields showed, and are absent where those      *)
(* fields do not apply: "Mode and date keys are managed above".            *)
KeysAreManaged ==
    \A i \in DOMAIN requests :
        LET r == requests[i] IN
        /\ r.extra \in {"empty", "values"}
        /\ r.run_mode # None => r.trigger_mode = r.run_mode
        /\ r.run_mode = "backfill" => r.start # NoDate
        /\ r.run_mode # "backfill" => {r.start, r.end} = {NoDate}
        /\ r.end # NoDate => r.end >= r.start

=============================================================================
