----------------------------- MODULE SynthTable -----------------------------
(***************************************************************************)
(* The table of examples of a synthesis session (RTVSynthModel and its     *)
(* callers in RTVSynthController).  A row of the table is one execution of *)
(* the line with the hole.  The user overwrites values of the variable     *)
(* that the line assigns; a row in which he did is an example: its value   *)
(* replaces the program's when the program is run again, and the           *)
(* synthesizer is asked for code that computes it.  Rows are told apart by *)
(* the time at which run.py recorded them.                                 *)
(*                                                                         *)
(* Handlers are atomic here, but for the synthesizer's answer: what they   *)
(* do to each other while they wait is the subject of SynthSession.  The   *)
(* line is not inside of a conditional, so no rows are missing.            *)
(***************************************************************************)
EXTENDS Naturals, FiniteSets

CONSTANTS
    N,         \* bound: executions of the line, at least one
    Values,    \* what the variable may be
    Bad,       \* those of them that validate() does not accept
    Undefined  \* JavaScript's undefined

Rows == 1..N

VARIABLES
    looped,   \* the rows are the iterations of one loop, or calls of a function
    program,  \* the value that the line as it now is computes in each row
    boxEnvs,  \* RTVSynthModel._boxEnvs
    included, \* RTVSynthModel._includedTimes
    cell,     \* the content of each cell in the table
    editable, \* the cells that can be edited
    bold,     \* the rows that are highlighted
    given,    \* the examples the user has given: rows and the value of each
    problem,  \* the last SynthProblem
    asking    \* the synthesizer works on it

vars == <<looped, program, boxEnvs, included, cell, editable, bold, given, problem, asking>>
-----------------------------------------------------------------------------
(* Environments.  run.py names the time of an environment by one key, the     *)
(* model of the table asks for it by another.                                 *)
TIME     == "_projection_boxes_time"
AskedKey == "time"

Read(env, key) == IF key \in DOMAIN env THEN env[key] ELSE Undefined
TimeOf(env)    == Read(env, AskedKey)

Env(r, v) == [key \in {TIME, "out"} |-> IF key = TIME THEN 2 * r ELSE v]

(* What run.py records for the line with the program p, given the values of   *)
(* some environments: it replaces what the line computed at that time.        *)
Replaced(values, r)  == {env \in values : TimeOf(env) = 2 * r}
RunResult(p, values) ==
    [r \in Rows |-> IF Replaced(values, r) = {} THEN Env(r, p[r])
                    ELSE Env(r, (CHOOSE env \in Replaced(values, r) : TRUE)["out"])]

(* RTVSynthModel.getValues: one environment for each time. *)
GetValues(envs, times) ==
    {envs[r] : r \in {k \in Rows : /\ TimeOf(envs[k]) \in times
                                   /\ \A j \in (k + 1)..N : TimeOf(envs[j]) # TimeOf(envs[k])}}

(* rowsValid: in a loop, rows whose iterations before them are examples. *)
RowsValid(envs, times) ==
    {r \in Rows : looped => \A j \in 1..(r - 1) : TimeOf(envs[j]) \in times}

(* RTVSynthController.updateBoxContent, when the run succeeds and the table is *)
(* to be updated: environments, valid rows and the highlights.                *)
UpdateBoxContent(p, envs, times) ==
    LET new   == RunResult(p, GetValues(envs, times))
        valid == RowsValid(new, times)
        kept  == times \ {TimeOf(new[r]) : r \in Rows \ valid}
    IN  /\ boxEnvs' = new
        /\ included' = kept
        /\ cell' = [r \in Rows |-> new[r]["out"]]
        /\ editable' = editable \cup valid
        /\ bold' = bold \cup {r \in valid : TimeOf(new[r]) \in kept}

Init ==
    /\ looped \in BOOLEAN
    /\ program \in [Rows -> Values \ Bad]
    /\ boxEnvs = RunResult(program, {})
    /\ included = {}
    /\ cell = program
    /\ editable = RowsValid(boxEnvs, {})
    /\ bold = {}
    /\ given = {}
    /\ problem = [envs |-> {}, optEnvs |-> {}]
    /\ asking = FALSE
-----------------------------------------------------------------------------
Type(r, v) ==
    /\ r \in editable
    /\ cell' = [cell EXCEPT ![r] = v]
    /\ UNCHANGED <<looped, program, boxEnvs, included, editable, bold, given, problem, asking>>

(* toggleElement of a value that validate() accepts, up to its run. *)
Toggled(r)     == [boxEnvs EXCEPT ![r]["out"] = cell[r]]
WithTime(r)    == included \cup {TimeOf(boxEnvs[r])}
GivenAlso(r)   == {e \in given : e[1] # r} \cup {<<r, cell[r]>>}
ValueChanged(r) == boxEnvs[r]["out"] # cell[r]

(* toggleElement with force, and then synthesizeFragment, unless the run      *)
(* fails.  A new request takes the place of one the synthesizer works on.     *)
Request(r) ==
    /\ cell[r] \notin Bad
    /\ boxEnvs' = Toggled(r)
    /\ included' = WithTime(r)
    /\ given' = GivenAlso(r)
    /\ \/ /\ bold' = bold \cup {r}
          /\ asking' = TRUE
          /\ problem' = [envs    |-> {<<k, boxEnvs'[k]["out"]>> : k \in {j \in Rows : TimeOf(boxEnvs[j]) \in included'}},
                         optEnvs |-> {k \in Rows : TimeOf(boxEnvs[k]) \notin included'}]
       \/ UNCHANGED <<bold, asking, problem>>
    /\ UNCHANGED <<looped, program, cell, editable>>

(* A second after a key: the value must have changed. *)
KeyRequest(r) == r \in editable /\ ValueChanged(r) /\ Request(r)

(* Shift-Enter: the row is an example as it is. *)
RowRequest(r) == r \in editable /\ Request(r)

(* Tab or blur: toggleIfChanged, which updates the table if the run succeeds. *)
Leave(r) ==
    /\ r \in editable
    /\ ValueChanged(r)
    /\ cell[r] \notin Bad
    /\ given' = GivenAlso(r)
    /\ \/ UpdateBoxContent(program, Toggled(r), WithTime(r))
       \/ boxEnvs' = Toggled(r) /\ included' = WithTime(r) /\ UNCHANGED <<cell, editable, bold>>
    /\ UNCHANGED <<looped, program, problem, asking>>

(* The synthesizer answers with code that computes the examples, which is     *)
(* written into the line, or without.                                         *)
Answer ==
    /\ asking
    /\ asking' = FALSE
    /\ \/ /\ program' \in {p \in [Rows -> Values \ Bad] : \A e \in problem.envs : p[e[1]] = e[2]}
          /\ UpdateBoxContent(program', boxEnvs, included)
       \/ UNCHANGED <<program, boxEnvs, included, cell, editable, bold>>
    /\ UNCHANGED <<looped, given, problem>>

Next ==
    \/ \E r \in Rows, v \in Values : Type(r, v)
    \/ \E r \in Rows : KeyRequest(r) \/ RowRequest(r) \/ Leave(r)
    \/ Answer

Spec == Init /\ [][Next]_vars
-----------------------------------------------------------------------------
(* "These MUST match for Projection Boxes to work": the times that run.py     *)
(* records are those by which the table tells its rows apart, so a problem    *)
(* holds the examples the user has given and no others.                       *)
ExamplesAreSent == [][problem' # problem => problem'.envs = given']_vars
=============================================================================
