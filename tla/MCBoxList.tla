------------------------------ MODULE MCBoxList ------------------------------
(* BoxList for TLC: names for the boxes of all lines, for as many that are    *)
(* made for an event, and for as many that nothing lists any more.            *)
EXTENDS BoxList

MCBoxes == 1..(3 * MaxLines)
=============================================================================
