---------------------------- MODULE KeySequences ----------------------------
(***************************************************************************)
(* The keyboard of the application: the two-key sequences of the Shell     *)
(* (useSequenceShortcut: g d, g f, ...) and the single keys the pages and  *)
(* the palette bind (useShortcut).                                         *)
(*                                                                         *)
(* Each hook has a listener of its own.  A sequence keeps its "armed" in a *)
(* ref and its reset in a timer; its effect runs again, with a new handler,*)
(* whenever the Shell renders.                                             *)
(***************************************************************************)
EXTENDS Naturals, FiniteSets

CONSTANTS
    Leader,       \* the first key of every sequence
    SecondKeys,   \* the second keys: one hook, and one page, for each
    Shortcuts,    \* single keys: [key, mod, skipInInput]
    OtherKeys,    \* keys nothing is bound to
    Home,         \* a page no sequence leads to
    None

Keys == {Leader} \cup SecondKeys \cup OtherKeys \cup {s.key : s \in Shortcuts}

ASSUME KeysAssumption == Leader \notin SecondKeys /\ Home \notin SecondKeys /\ None \notin Keys

VARIABLES
    page,    \* the second key of the page shown, or Home
    armed,   \* the sequences whose first key was pressed
    timers,  \* the sequences whose timer is running
    last,    \* the last key pressed outside a text field without modifier, or None
    quiet,   \* 800 ms have passed since then
    fired    \* the shortcuts the last key press fired

vars == <<page, armed, timers, last, quiet, fired>>

Events == [key : Keys, mod : BOOLEAN, editable : BOOLEAN]

TypeOK ==
    /\ page \in SecondKeys \cup {Home}
    /\ armed \subseteq SecondKeys
    /\ timers \subseteq armed
    /\ last \in Keys \cup {None}
    /\ quiet \in BOOLEAN
    /\ fired \subseteq Shortcuts

Init ==
    /\ page = Home
    /\ armed = {}
    /\ timers = {}
    /\ last = None
    /\ quiet = TRUE
    /\ fired = {}

-----------------------------------------------------------------------------
(* A variant of Fires: wherever the key is pressed.                        *)
FiresAnywhere(s, e) == e.mod = s.mod /\ e.key = s.key

(* useShortcut; mod stands for the modifier of the platform.               *)
Fires(s, e) ==
    /\ e.mod = s.mod
    /\ e.key = s.key
    /\ ~(s.skipInInput /\ ~s.mod /\ e.editable)

(* A sequence ignores keys with a modifier and keys typed into a field.    *)
Counts(e) == ~e.mod /\ ~e.editable

(* A variant of Consumed: another key leaves the sequence armed.           *)
ConsumedByItsKey(e) == armed \cap {e.key}

(* The sequences for which this is the second key: any key disarms them.   *)
Consumed(e) == armed

Press(e) ==
    LET arms == IF e.key = Leader THEN SecondKeys \ armed ELSE {}
    IN  /\ fired' = {s \in Shortcuts : Fires(s, e)}
        /\ page' = IF Counts(e) /\ e.key \in armed THEN e.key ELSE page
        /\ IF Counts(e)
           THEN /\ armed' = (armed \ Consumed(e)) \cup arms
                /\ timers' = (timers \ Consumed(e)) \cup arms
                /\ last' = e.key
                /\ quiet' = FALSE
           ELSE UNCHANGED <<armed, timers, last, quiet>>

(* 800 ms without a key that counts: the timers disarm their sequences.    *)
Wait ==
    /\ ~quiet
    /\ quiet' = TRUE
    /\ armed' = armed \ timers
    /\ timers' = {}
    /\ fired' = {}
    /\ UNCHANGED <<page, last>>

(* The Shell renders, for a navigation or for a change of the connection:  *)
(* every handler is new, the effects are cleaned up and run again.         *)
Render ==
    /\ timers' = {}
    /\ fired' = {}
    /\ UNCHANGED <<page, armed, last, quiet>>

Next == (\E e \in Events : Press(e)) \/ Wait \/ Render

Spec == Init /\ [][Next]_vars

-----------------------------------------------------------------------------
(* A key leads to another page only directly after the leader: whatever was*)
(* pressed, waited or rendered before, an armed sequence has seen nothing  *)
(* but its leader.                                                         *)
NavigatesAfterLeader == [][page' # page => last = Leader]_vars

(* What navigates or opens anything was not typed into a text field        *)
(* ("Skips inside text inputs"), but for shortcuts that ask to be heard    *)
(* there.                                                                  *)
TypingDoesNothing ==
    [][page' # page \/ (\E s \in fired' : s.skipInInput) =>
          \A e \in Events : e.editable /\ ~e.mod => ~Press(e)]_vars

=============================================================================
