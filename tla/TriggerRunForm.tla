--------------------------- MODULE TriggerRunForm ---------------------------
(***************************************************************************)
(* Triggering a DAG from its page: the dialog (TriggerRunDialog), the page *)
(* that shows it (DAGDetail), the request (api.triggerDag) and the answer. *)
(*                                                                         *)
(* Unlike that of a Flow, this dialog is rendered with the page, open or   *)
(* closed: its fields outlive closing it, a trigger, and the way to another*)
(* DAG whose data are already cached.  The command palette, which is there *)
(* on every page, triggers DAGs past the page and its mutation.            *)
(***************************************************************************)
EXTENDS Naturals, Sequences

CONSTANTS
    Dags,
    RunModes,    \* the presets; "" is none
    Metadata,    \* kinds of text in the field of metadata
    MaxActive,   \* runs of a DAG at once, and
    MaxRequests, \* requests on their way at once (both bound the state space)
    None

(* Nothing or {}, an object without or with a run_mode, or no JSON object. *)
MetadataKinds == {"empty", "values", "run_mode", "invalid"}

Fields == [runMode : RunModes, metadata : Metadata, force : BOOLEAN, error : BOOLEAN]

DagsAssumption ==
    /\ None \notin Dags \cup Fields
    /\ "" \in RunModes
    /\ "empty" \in Metadata /\ Metadata \subseteq MetadataKinds
    /\ MaxActive \in Nat /\ MaxRequests \in Nat

VARIABLES
    dag,       \* the DAG of the page
    open,      \* triggerOpen
    fields,    \* what the dialog holds; None when the page is not rendered
    loaded,    \* the DAGs whose detail is cached
    failed,    \* the last fetch of the page's DAG failed
    requests,  \* the trigger requests that have not been answered
    active,    \* how many runs of each DAG the server executes
    busy       \* isPending, as the page was rendered

vars == <<dag, open, fields, loaded, failed, requests, active, busy>>

Requests ==
    [dag : Dags, run_mode : RunModes \cup {"typed"}, force : BOOLEAN,
     answer : {None, "started", "refused"},
     by : {"page", "palette"}, followed : BOOLEAN]

Blank == [runMode |-> "", metadata |-> "empty", force |-> FALSE, error |-> FALSE]

TypeOK ==
    /\ dag \in Dags
    /\ open \in BOOLEAN /\ failed \in BOOLEAN
    /\ fields \in Fields \cup {None}
    /\ fields # None <=> dag \in loaded /\ ~failed
    /\ loaded \subseteq Dags
    /\ requests \in Seq(Requests) /\ Len(requests) <= MaxRequests
    /\ active \in [Dags -> 0..MaxActive]
    /\ busy \in BOOLEAN

Init ==
    /\ dag \in Dags
    /\ open = FALSE
    /\ fields = None
    /\ loaded = {}
    /\ failed = FALSE
    /\ requests = <<>>
    /\ active = [d \in Dags |-> 0]
    /\ busy = FALSE

(* isPending as the page's mutation has it: its last request has no answer.*)
pending == \E i \in DOMAIN requests : requests[i].followed

(* The page shows a skeleton or an error instead of itself and its dialog. *)
Rendered(d, known, error) ==
    IF d \notin known \/ error THEN None ELSE IF fields = None THEN Blank ELSE fields

-----------------------------------------------------------------------------
(* The page *)

Show(d) ==
    /\ d # dag
    /\ dag' = d
    /\ failed' = FALSE
    /\ fields' = Rendered(d, loaded, FALSE)
    /\ busy' = pending
    /\ UNCHANGED <<open, loaded, requests, active>>

Fetched(d) ==
    /\ loaded' = loaded \cup {d}
    /\ failed' = (failed /\ d # dag)
    /\ fields' = Rendered(dag, loaded', failed')
    /\ busy' = IF d = dag THEN pending ELSE busy
    /\ UNCHANGED <<dag, open, requests, active>>

FetchFails ==
    /\ failed' = TRUE
    /\ fields' = Rendered(dag, loaded, TRUE)
    /\ busy' = pending
    /\ UNCHANGED <<dag, open, loaded, requests, active>>

(* The page renders for any other reason, the mutation's timer among them. *)
Render ==
    /\ busy' = pending
    /\ UNCHANGED <<dag, open, fields, loaded, failed, requests, active>>

(* By the button or the key t.                                             *)
OpenTrigger ==
    /\ fields # None /\ ~busy
    /\ open' = TRUE
    /\ busy' = pending
    /\ UNCHANGED <<dag, fields, loaded, failed, requests, active>>

(* By Escape, Cancel or a click beside the dialog.                         *)
Close ==
    /\ fields # None /\ open /\ ~busy
    /\ open' = FALSE
    /\ busy' = pending
    /\ UNCHANGED <<dag, fields, loaded, failed, requests, active>>

-----------------------------------------------------------------------------
(* The dialog *)

Edit(new) ==
    /\ fields # None /\ open
    /\ fields' = new
    /\ UNCHANGED <<dag, open, loaded, failed, requests, active, busy>>

SetRunMode(m) == Edit([fields EXCEPT !.runMode = m])
SetMetadataText(x) == Edit([fields EXCEPT !.metadata = x])
SetForce(b) == Edit([fields EXCEPT !.force = b])

Asks(d, mode, force, by) ==
    [dag |-> d, run_mode |-> mode, force |-> force, answer |-> None,
     by |-> by, followed |-> by = "page"]

(* A preset takes the place of a run_mode that was typed.                  *)
Payload ==
    LET typed == fields.runMode = "" /\ fields.metadata = "run_mode"
    IN  Asks(dag, IF typed THEN "typed" ELSE fields.runMode, fields.force, "page")

(* mutate: the mutation follows the new request instead of any before it.  *)
Mutate(payload) ==
    Append([i \in DOMAIN requests |-> [requests[i] EXCEPT !.followed = FALSE]], payload)

Submit ==
    /\ fields # None /\ open /\ ~busy
    /\ LET valid == fields.metadata # "invalid" IN
       /\ valid => Len(requests) < MaxRequests
       /\ fields' = [fields EXCEPT !.error = ~valid]
       /\ requests' = IF valid THEN Mutate(Payload) ELSE requests
    /\ UNCHANGED <<dag, open, loaded, failed, active, busy>>

(* "Trigger" in the palette, whatever the page and its dialog are doing.   *)
TriggerFromPalette(d) ==
    /\ Len(requests) < MaxRequests
    /\ requests' = Append(requests, Asks(d, "", FALSE, "palette"))
    /\ UNCHANGED <<dag, open, fields, loaded, failed, active, busy>>

-----------------------------------------------------------------------------
(* The server: refused when a run is active, unless forced *)

Receive(i) ==
    LET r == requests[i]
        refused == active[r.dag] > 0 /\ ~r.force
    IN  /\ r.answer = None
        /\ active[r.dag] < MaxActive
        /\ requests' = [requests EXCEPT ![i].answer = IF refused THEN "refused" ELSE "started"]
        /\ active' = IF refused THEN active ELSE [active EXCEPT ![r.dag] = @ + 1]
        /\ UNCHANGED <<dag, open, fields, loaded, failed, busy>>

StartElsewhere(d) ==
    /\ active[d] = 0 /\ MaxActive > 0
    /\ active' = [active EXCEPT ![d] = 1]
    /\ UNCHANGED <<dag, open, fields, loaded, failed, requests, busy>>

End(d) ==
    /\ active[d] > 0
    /\ active' = [active EXCEPT ![d] = @ - 1]
    /\ UNCHANGED <<dag, open, fields, loaded, failed, requests, busy>>

-----------------------------------------------------------------------------
(* The answer *)

Answered(i) == requests' = SubSeq(requests, 1, i - 1) \o SubSeq(requests, i + 1, Len(requests))

(* onSuccess of the page: the dialog closes, its fields stay as they are;  *)
(* the palette only tells the user.                                        *)
Succeed(i) ==
    /\ requests[i].answer = "started"
    /\ Answered(i)
    /\ open' = (open /\ requests[i].by = "palette")
    /\ UNCHANGED <<dag, fields, loaded, failed, active, busy>>

(* onError, for a refusal, an error of the server or of the network.       *)
Fail(i) ==
    /\ Answered(i)
    /\ UNCHANGED <<dag, open, fields, loaded, failed, active, busy>>

-----------------------------------------------------------------------------
Next ==
    \/ OpenTrigger \/ Close \/ Submit \/ FetchFails \/ Render
    \/ \E m \in RunModes : SetRunMode(m)
    \/ \E x \in Metadata : SetMetadataText(x)
    \/ \E b \in BOOLEAN : SetForce(b)
    \/ \E d \in Dags :
          \/ Show(d) \/ Fetched(d) \/ TriggerFromPalette(d)
          \/ StartElsewhere(d) \/ End(d)
    \/ \E i \in DOMAIN requests : Receive(i) \/ Succeed(i) \/ Fail(i)

Spec == Init /\ [][Next]_vars

=============================================================================
