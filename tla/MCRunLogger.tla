---------------------------- MODULE MCRunLogger ----------------------------
(***************************************************************************)
(* RunLogger for TLC.  The programs of a run are all those of one shape: a *)
(* function at the top, if there is one, then the lines of the module.     *)
(***************************************************************************)
EXTENDS RunLogger

CONSTANTS
    FunctionLines, \* bound: numbers of lines of the function's body, with 0 for no function
    ModuleLines,   \* bound: numbers of lines below it
    FunctionDoes,  \* what lines of the function do
    ModuleDoes     \* what lines of the module do

Line(i, d) == [indent |-> i, does |-> d]
Headers    == {"loop", "if"}

(* All blocks of n lines, from indentation i: a line below a header is        *)
(* indented more, and others at most as much as the line above.  The last     *)
(* line is no header, and a break is in a loop.                               *)
Blocks(n, i, does) ==
    {b \in [1..n -> {Line(k, d) : k \in i..(i + 2), d \in does}] :
        /\ b[1].indent = i
        /\ b[n].does \notin Headers
        /\ \A k \in 1..(n - 1) :
            IF b[k].does \in Headers THEN b[k + 1].indent = b[k].indent + 1
            ELSE b[k + 1].indent <= b[k].indent
        /\ \A k \in 1..n : b[k].does = "break" =>
            \E h \in 1..(k - 1) :
                b[h].does = "loop" /\ \A j \in (h + 1)..k : b[j].indent > b[h].indent}

Functions == UNION {IF n = 0 THEN {<<>>}
                    ELSE {<<Line(0, "def")>> \o b : b \in Blocks(n, 1, FunctionDoes)} : n \in FunctionLines}
Modules   == UNION {Blocks(n, 0, ModuleDoes) : n \in ModuleLines}

MCPrograms == {f \o m : f \in Functions, m \in Modules}
=============================================================================
