---------------------------- MODULE MCViewModes ----------------------------
(* ViewModes for TLC: with one editor and with two, a user who waits and one  *)
(* who does not.                                                              *)
EXTENDS ViewModes

MCUsers == {{"stealth", "flip", "edit", "merge"},
            {"stealth", "flip", "edit", "hurry"},
            {"two", "edit"},
            {"two", "stealth", "flip", "edit"},
            {"two", "edit", "hurry"}}
=============================================================================
