--------------------------- MODULE MCBoxVariables ---------------------------
(* BoxVariables for TLC: two boxes, which are interchangeable, and two        *)
(* variables, of which the second is not always there.                        *)
EXTENDS BoxVariables, TLC

CONSTANTS x, y

Says(at, sees_, writes) == [at |-> at, all |-> sees_, mod |-> writes]

MCVars == {x, y}
MCSees == {Says("none", {}, {}), Says("filtered", {x}, {x}), Says("rows", {x}, {x}), Says("rows", {x, y}, {y})}
Symmetry == Permutations(Boxes)
=============================================================================
