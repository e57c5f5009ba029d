-------------------------- MODULE ProjectionBoxes --------------------------
(***************************************************************************)
(* What projection boxes promise the user, without saying how: the values  *)
(* on screen are those of some version of the text in the editor, of the   *)
(* model that is open, and they never go back to an older version.         *)
(***************************************************************************)
EXTENDS Naturals

VARIABLES
    text,    \* version of the text in the editor
    opened,  \* version at which its model was opened
    shown    \* version whose values are on screen, 0 for none

vars == <<text, opened, shown>>

Init == text = 1 /\ opened = 1 /\ shown = 0

(* The user changes the text; what is on screen stays. *)
Type ==
    /\ text' = text + 1
    /\ UNCHANGED <<opened, shown>>

(* Another model is opened: nothing of the old one may stay on screen. *)
Open ==
    /\ text' = text + 1
    /\ opened' = text'
    /\ shown' = 0

(* A run is shown; it may be of a text that has since changed. *)
Show ==
    /\ shown' \in opened..text
    /\ shown' >= shown
    /\ UNCHANGED <<text, opened>>

Next == Type \/ Open \/ Show

Spec == Init /\ [][Next]_vars
=============================================================================
