---------------------------- MODULE BoxVariables ----------------------------
(***************************************************************************)
(* Which variables the projection boxes show (RTVDisplay.ts).  A run of    *)
(* the program says which variables a line sees and which of them it       *)
(* writes; the view starts from all of them or from those it writes; and   *)
(* the user removes and adds variables in one box or in all.  A box keeps  *)
(* what the user changed as a DeltaVarSet, apart from what it starts from, *)
(* so that the changes outlast the next runs; the controller keeps one     *)
(* more, which every box made later begins with.                           *)
(***************************************************************************)
EXTENDS Naturals, FiniteSets

CONSTANTS
    Vars,  \* names of variables
    Boxes, \* the boxes there may be
    Sees,  \* what a run may say of a line: whether its box has rows, what it sees, what it writes
    Users  \* sets of habits a user may have

(* What a user does: change one box, change all boxes, add all variables to   *)
(* all boxes, switch between all variables and modified ones, change boxes    *)
(* whose lines have no rows now.                                              *)
Habits == {"one", "all", "every", "modified", "blind"}

ASSUME BoxAssumption ==
    /\ \A s \in Sees : s.at \in {"none", "filtered", "rows"} /\ s.mod \subseteq s.all /\ s.all \subseteq Vars
    /\ Users \subseteq SUBSET Habits

VARIABLES
    born,         \* boxes in _boxes
    sees,         \* what the last run says of each box's line
    delta,        \* RTVDisplayBox._deltaVarSet
    all,          \* RTVDisplayBox._allVars
    displayed,    \* RTVDisplayBox._displayedVars
    content,      \* RTVDisplayBox._hasContent
    global,       \* _globalDeltaVarSet
    onlyModified, \* displayOnlyModifiedVars
    newVisible,   \* _makeNewBoxesVisible
    choice,       \* (history) the user's last choice about a variable in a box
    allChoice,    \* (history) the user's last choice about a variable in all boxes
    habits        \* the user's habits, which do not change

made     == <<born, sees, newVisible>>
history  == <<choice, allChoice>>
vars     == <<made, delta, all, displayed, content, global, onlyModified, history, habits>>

Choices == {"none", "shown", "hidden"}
Deltas  == [plus : SUBSET Vars, minus : SUBSET Vars]
NoDelta == [plus |-> {}, minus |-> {}]
-----------------------------------------------------------------------------
(* DeltaVarSet, for a set of variables at a time. *)

(* Mutants: a variable that is deleted only leaves plus; one that is added    *)
(* stays in minus.                                                            *)
DeletePlus(d, S) == [plus |-> d.plus \ S, minus |-> d.minus]
AddPlus(d, S)    == [plus |-> d.plus \cup S, minus |-> d.minus]

Delete(d, S) == [plus |-> d.plus \ S, minus |-> d.minus \cup (S \ d.plus)]
Add(d, S)    == [plus |-> d.plus \cup (S \ d.minus), minus |-> d.minus \ S]

(* What is shown of what a box sees, from what it starts with. *)
ApplyTo(d, start, seen) == (start \cup (d.plus \cap seen)) \ (d.minus \cap seen)

(* The variables a box starts with. *)
Start(s, modified) == IF modified THEN s.mod ELSE s.all

(* updateContent of every box, with changed deltas and, for the boxes that    *)
(* varKeepOnly has cleared, changed _displayedVars.  A box without rows keeps *)
(* its _displayedVars, one without environments also its _allVars.            *)
UpdateContent(said, modified, deltas, shown) ==
    /\ sees' = said
    /\ onlyModified' = modified
    /\ delta' = deltas
    /\ all' = [b \in Boxes |-> IF b \in born /\ said[b].at # "none" THEN said[b].all ELSE all[b]]
    /\ displayed' = [b \in Boxes |->
                        IF b \in born /\ said[b].at = "rows"
                          THEN ApplyTo(deltas[b], Start(said[b], modified), said[b].all)
                          ELSE shown[b]]
    /\ content' = [b \in Boxes |-> b \in born /\ said[b].at = "rows" /\ displayed'[b] # {}]

Changed(deltas, shown) == UpdateContent(sees, onlyModified, deltas, shown)

(* What varRemove and varAdd change for a regular expression that W matches.  *)
Removed(b, W) == all[b] \cap W \cap displayed[b]
Added(b, W)   == (all[b] \cap W) \ displayed[b]
Kept(b, W)    == all[b] \cap W

(* The choices that follow; what is removed and added again stays as it was.  *)
Chosen(old, removed, added) ==
    [v \in Vars |-> IF v \in added \ removed THEN "shown" ELSE IF v \in removed \ added THEN "hidden" ELSE old[v]]

NoChoice == [v \in Vars |-> "none"]

(* The boxes that something is done to. *)
In(S, change(_)) == [b \in Boxes |-> IF b \in born \cap S THEN change(b) ELSE delta[b]]
-----------------------------------------------------------------------------
Init ==
    /\ born = {}
    /\ sees = [b \in Boxes |-> [at |-> "none", all |-> {}, mod |-> {}]]
    /\ delta = [b \in Boxes |-> NoDelta]
    /\ all = [b \in Boxes |-> {}]
    /\ displayed = [b \in Boxes |-> {}]
    /\ content = [b \in Boxes |-> FALSE]
    /\ global = NoDelta
    /\ onlyModified = FALSE
    /\ newVisible = TRUE
    /\ choice = [b \in Boxes |-> NoChoice]
    /\ allChoice = NoChoice
    /\ habits \in Users

(* A line is added: its box begins with the global delta, and with no         *)
(* variables, so that removing all of them when new boxes are to be hidden    *)
(* removes none.                                                              *)
NewBox(b) ==
    /\ b \notin born
    /\ born' = born \cup {b}
    /\ delta' = [delta EXCEPT ![b] = IF newVisible THEN global ELSE Delete(global, Removed(b, Vars))]
    /\ UNCHANGED <<sees, newVisible, all, displayed, content, global, onlyModified, history>>

(* The editor gets another text: all boxes go, the global delta stays. *)
OnDidChangeModel ==
    /\ born # {}
    /\ born' = {}
    /\ sees' = [b \in Boxes |-> [at |-> "none", all |-> {}, mod |-> {}]]
    /\ delta' = [b \in Boxes |-> NoDelta]
    /\ all' = [b \in Boxes |-> {}]
    /\ displayed' = [b \in Boxes |-> {}]
    /\ content' = [b \in Boxes |-> FALSE]
    /\ choice' = [b \in Boxes |-> NoChoice]
    /\ UNCHANGED <<newVisible, global, onlyModified, allChoice>>

(* A run ends, or a loop is focused on. *)
Run ==
    /\ \E said \in [born -> Sees] :
          UpdateContent([b \in Boxes |-> IF b \in born THEN said[b] ELSE sees[b]], onlyModified, delta, displayed)
    /\ UNCHANGED <<born, newVisible, global, history>>

(* flipModVars keeps what the user changed. *)
FlipModVars ==
    /\ "modified" \in habits
    /\ UpdateContent(sees, ~onlyModified, delta, displayed)
    /\ UNCHANGED <<born, newVisible, global, history>>
-----------------------------------------------------------------------------
(* One box *)

(* What a box says of its variables is what the last run said. *)
Current(b) == sees[b].at = "rows" \/ all[b] = {}

MayChange(b) == b \in born /\ "one" \in habits /\ (Current(b) \/ "blind" \in habits)

Chooses(b, removed, added) == choice' = [choice EXCEPT ![b] = Chosen(@, removed, added)]

VarRemoveInThisBox(b, W) ==
    /\ MayChange(b)
    /\ Changed(In({b}, LAMBDA c : Delete(delta[c], Removed(c, W))), displayed)
    /\ Chooses(b, Removed(b, W), {})
    /\ UNCHANGED <<born, newVisible, global, allChoice>>

VarAddInThisBox(b, W) ==
    /\ MayChange(b)
    /\ Changed(In({b}, LAMBDA c : Add(delta[c], Added(c, W))), displayed)
    /\ Chooses(b, {}, Added(b, W))
    /\ UNCHANGED <<born, newVisible, global, allChoice>>

(* varKeepOnly removes all that is displayed, forgets that it was, and adds. *)
VarKeepOnlyInThisBox(b, W) ==
    /\ MayChange(b)
    /\ Changed(In({b}, LAMBDA c : Add(Delete(delta[c], Removed(c, Vars)), Kept(c, W))), [displayed EXCEPT ![b] = {}])
    /\ Chooses(b, Removed(b, Vars), Kept(b, W))
    /\ UNCHANGED <<born, newVisible, global, allChoice>>

HideBox(b) ==
    /\ MayChange(b)
    /\ newVisible' = FALSE
    /\ Changed(In({b}, LAMBDA c : Delete(delta[c], Removed(c, Vars))), displayed)
    /\ Chooses(b, Removed(b, Vars), {})
    /\ UNCHANGED <<born, global, allChoice>>

HideAllOtherBoxes(b) ==
    /\ MayChange(b)
    /\ newVisible' = FALSE
    /\ Changed(In(Boxes \ {b}, LAMBDA c : Delete(delta[c], Removed(c, Vars))), displayed)
    /\ choice' = [c \in Boxes |-> IF c \in born \ {b} THEN Chosen(choice[c], Removed(c, Vars), {}) ELSE choice[c]]
    /\ UNCHANGED <<born, global, allChoice>>

(* Restore This Box to Default; or showBoxAtCurrLine, which only restores a   *)
(* box that displays nothing.                                                 *)
RestoreBoxToDefault(b) ==
    /\ b \in born
    /\ "one" \in habits
    /\ content[b] \/ displayed[b] = {}
    /\ Changed(In({b}, LAMBDA c : NoDelta), displayed)
    /\ choice' = [choice EXCEPT ![b] = NoChoice]
    /\ UNCHANGED <<born, newVisible, global, allChoice>>
-----------------------------------------------------------------------------
(* All boxes *)

MayChangeAll == born # {} /\ "all" \in habits /\ ((\A b \in born : Current(b)) \/ "blind" \in habits)

ChoosesAll(removed(_), added(_)) ==
    /\ choice' = [b \in Boxes |-> IF b \in born THEN Chosen(choice[b], removed(b), added(b)) ELSE choice[b]]
    /\ allChoice' = [v \in Vars |-> IF \E b \in born : v \in added(b) THEN "shown"
                                    ELSE IF \E b \in born : v \in removed(b) THEN "hidden"
                                    ELSE allChoice[v]]

None(b) == {}

VarRemoveInAllBoxes(W) ==
    LET removed(b) == Removed(b, W)
    IN  /\ MayChangeAll
        /\ Changed(In(Boxes, LAMBDA b : Delete(delta[b], removed(b))), displayed)
        /\ global' = Delete(global, UNION {removed(b) : b \in born})
        /\ ChoosesAll(removed, None)
        /\ UNCHANGED <<born, newVisible>>

VarKeepOnlyInAllBoxes(W) ==
    LET removed(b) == Removed(b, Vars)
        added(b)   == Kept(b, W)
    IN  /\ MayChangeAll
        /\ Changed(In(Boxes, LAMBDA b : Add(Delete(delta[b], removed(b)), added(b))), [b \in Boxes |-> {}])
        /\ global' = Add(Delete(global, UNION {removed(b) : b \in born}), UNION {added(b) : b \in born})
        /\ ChoosesAll(removed, added)
        /\ UNCHANGED <<born, newVisible>>

VarAddInAllBoxes(W) ==
    LET added(b) == Added(b, W)
    IN  /\ MayChangeAll
        /\ Changed(In(Boxes, LAMBDA b : Add(delta[b], added(b))), displayed)
        /\ global' = Add(global, UNION {added(b) : b \in born})
        /\ ChoosesAll(None, added)
        /\ UNCHANGED <<born, newVisible>>

(* A * that adds all variables to all boxes clears the global delta, but only *)
(* in the view that shows all of them.                                        *)
VarAddStarInAllBoxes ==
    LET added(b) == Added(b, Vars)
    IN  /\ MayChangeAll
        /\ "every" \in habits
        /\ Changed(In(Boxes, LAMBDA b : Add(delta[b], added(b))), displayed)
        /\ global' = IF onlyModified THEN Add(global, UNION {added(b) : b \in born}) ELSE NoDelta
        /\ ChoosesAll(None, added)
        /\ UNCHANGED <<born, newVisible>>

(* Add All Vars, to All Boxes, leaves the global delta alone. *)
VarAddAllInAllBoxes ==
    LET added(b) == Added(b, Vars)
    IN  /\ MayChangeAll
        /\ "every" \in habits
        /\ Changed(In(Boxes, LAMBDA b : Add(delta[b], added(b))), displayed)
        /\ ChoosesAll(None, added)
        /\ UNCHANGED <<born, newVisible, global>>

(* Mutant of RestoreAllBoxesToDefault: the global delta is not cleared. *)
RestoreAllKeepsGlobal ==
    /\ born # {}
    /\ newVisible' = TRUE
    /\ \E modified \in BOOLEAN :
          /\ modified = onlyModified \/ "modified" \in habits
          /\ UpdateContent(sees, modified, In(Boxes, LAMBDA b : NoDelta), displayed)
    /\ choice' = [b \in Boxes |-> NoChoice]
    /\ allChoice' = NoChoice
    /\ UNCHANGED <<born, global>>

(* Restore All Boxes to Default; also the end of a change of the view mode,   *)
(* which chooses between all and modified variables.                          *)
RestoreAllBoxesToDefault ==
    /\ born # {}
    /\ newVisible' = TRUE
    /\ global' = NoDelta
    /\ \E modified \in BOOLEAN :
          /\ modified = onlyModified \/ "modified" \in habits
          /\ UpdateContent(sees, modified, In(Boxes, LAMBDA b : NoDelta), displayed)
    /\ choice' = [b \in Boxes |-> NoChoice]
    /\ allChoice' = NoChoice
    /\ UNCHANGED born

ThisBox(b) ==
    \/ NewBox(b) \/ HideBox(b) \/ HideAllOtherBoxes(b) \/ RestoreBoxToDefault(b)
    \/ \E W \in SUBSET Vars \ {{}} : VarRemoveInThisBox(b, W) \/ VarAddInThisBox(b, W) \/ VarKeepOnlyInThisBox(b, W)

AllBoxes ==
    \/ VarAddStarInAllBoxes \/ VarAddAllInAllBoxes \/ RestoreAllBoxesToDefault
    \/ \E W \in SUBSET Vars \ {{}} : VarRemoveInAllBoxes(W) \/ VarAddInAllBoxes(W) \/ VarKeepOnlyInAllBoxes(W)

Next ==
    /\ \/ OnDidChangeModel \/ Run \/ FlipModVars \/ AllBoxes
       \/ \E b \in Boxes : ThisBox(b)
    /\ UNCHANGED habits

Spec == Init /\ [][Next]_vars
-----------------------------------------------------------------------------
(* Properties *)

(* Every variable keeps its type, and a DeltaVarSet is a difference: nothing  *)
(* is both added and removed.                                                 *)
TypeOK ==
    /\ born \subseteq Boxes
    /\ \A b \in Boxes : sees[b] \in Sees \cup {[at |-> "none", all |-> {}, mod |-> {}]}
    /\ delta \in [Boxes -> Deltas]
    /\ all \in [Boxes -> SUBSET Vars]
    /\ displayed \in [Boxes -> SUBSET Vars]
    /\ content \in [Boxes -> BOOLEAN]
    /\ global \in Deltas
    /\ {onlyModified, newVisible} \subseteq BOOLEAN
    /\ choice \in [Boxes -> [Vars -> Choices]]
    /\ allChoice \in [Vars -> Choices]
    /\ \A d \in {delta[b] : b \in Boxes} \cup {global} : d.plus \cap d.minus = {}

(* What the user chose last for a variable in a box is what the box shows,    *)
(* whatever the runs since then have changed.  This is so for a user who only *)
(* changes single boxes that are up to date, in the view of all variables.    *)
ChoiceKept ==
    habits \subseteq {"one"} =>
        \A b \in born, v \in Vars :
            sees[b].at = "rows" /\ v \in all[b] =>
                /\ choice[b][v] = "hidden" => v \notin displayed[b]
                /\ choice[b][v] = "shown" => v \in displayed[b]

(* As long as the user has chosen nothing since all boxes were restored, or   *)
(* since this one was, every box shows what the view starts with, the boxes   *)
(* made later as well.                                                        *)
DefaultShown ==
    \A b \in born :
        sees[b].at = "rows" /\ choice[b] = NoChoice /\ (allChoice = NoChoice \/ delta[b] = NoDelta) =>
            displayed[b] = Start(sees[b], onlyModified)
=============================================================================
