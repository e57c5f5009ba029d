------------------------- MODULE BoxVariablesProofs -------------------------
(***************************************************************************)
(* Theorems about BoxVariables, for every value of its constants.          *)
(***************************************************************************)
EXTENDS BoxVariables, TLAPS

-----------------------------------------------------------------------------
(* The algebra of DeltaVarSet *)

Difference(d) == d \in Deltas /\ d.plus \cap d.minus = {}

LEMMA NoDeltaType == Difference(NoDelta)
  BY DEF Difference, Deltas, NoDelta

LEMMA DeleteAdd ==
    ASSUME NEW d, Difference(d), NEW R \in SUBSET Vars, NEW A \in SUBSET Vars
    PROVE  /\ Difference(Delete(d, R)) /\ Difference(Add(d, A))
           /\ Difference(Add(Delete(d, R), A))
<1>1. ASSUME NEW c, Difference(c) PROVE Difference(Delete(c, R)) /\ Difference(Add(c, A))
  BY <1>1 DEF Difference, Deltas, Delete, Add
<1>2. QED
  BY <1>1

(* Without variables nothing changes. *)
LEMMA NothingChanges ==
    ASSUME NEW d, Difference(d)
    PROVE  Delete(d, {}) = d /\ Add(d, {}) = d
  BY DEF Difference, Deltas, Delete, Add

LEMMA ChosenType ==
    ASSUME NEW old \in [Vars -> Choices], NEW R, NEW A
    PROVE  Chosen(old, R, A) \in [Vars -> Choices]
  BY DEF Chosen, Choices

LEMMA NothingChosen ==
    ASSUME NEW old \in [Vars -> Choices]
    PROVE  Chosen(old, {}, {}) = old
  BY DEF Chosen

-----------------------------------------------------------------------------
(***************************************************************************)
(* The shape of the steps: a change of variables removes R[b] from each    *)
(* box b, then adds A[b] to it, and updates the content of all boxes.      *)
(***************************************************************************)

Sets == [Boxes -> SUBSET Vars]

Changes(R, A) ==
    /\ delta' = [b \in Boxes |-> Add(Delete(delta[b], R[b]), A[b])]
    /\ choice' = [b \in Boxes |-> Chosen(choice[b], R[b], A[b])]
    /\ \A b \in Boxes \ born : R[b] = {} /\ A[b] = {}

(* What is removed was displayed.  What is added was seen by the last run,    *)
(* and was not displayed unless it has just been removed.                     *)
UpToDate(R, A) ==
    \A b \in Boxes :
        /\ R[b] \subseteq all[b] \cap displayed[b]
        /\ A[b] \subseteq all[b]
        /\ A[b] \cap displayed[b] \subseteq R[b]
        /\ A[b] # {} => Current(b)

(* updateContent was called, with cleared _displayedVars for some boxes. *)
Updated ==
    \E cleared \in Sets :
        /\ UpdateContent(sees', onlyModified', delta', cleared)
        /\ \A b \in Boxes : cleared[b] \in {displayed[b], {}}

Blank == [at |-> "none", all |-> {}, mod |-> {}]

LEMMA TypeFacts ==
    ASSUME TypeOK
    PROVE  /\ \A b \in Boxes : Difference(delta[b]) /\ choice[b] \in [Vars -> Choices]
           /\ Difference(global) /\ displayed \in Sets /\ all \in Sets
  BY DEF TypeOK, Difference, Sets

Nothing         == [b \in Boxes |-> {}]
RemovedIn(S, W) == [b \in Boxes |-> IF b \in born \cap S THEN Removed(b, W) ELSE {}]
AddedIn(S, W)   == [b \in Boxes |-> IF b \in born \cap S THEN Added(b, W) ELSE {}]
KeptIn(S, W)    == [b \in Boxes |-> IF b \in born \cap S THEN Kept(b, W) ELSE {}]

LEMMA SetsType ==
    ASSUME NEW S, NEW W \in SUBSET Vars
    PROVE  /\ Nothing \in Sets /\ RemovedIn(S, W) \in Sets
           /\ AddedIn(S, W) \in Sets /\ KeptIn(S, W) \in Sets
  BY DEF Sets, Nothing, RemovedIn, AddedIn, KeptIn, Removed, Added, Kept

LEMMA RemoveShape ==
    ASSUME TypeOK, NEW S, NEW W \in SUBSET Vars,
           delta' = [b \in Boxes |-> IF b \in born \cap S
                                       THEN Delete(delta[b], Removed(b, W)) ELSE delta[b]],
           choice' = [b \in Boxes |-> IF b \in born \cap S
                                        THEN Chosen(choice[b], Removed(b, W), {}) ELSE choice[b]]
    PROVE  Changes(RemovedIn(S, W), Nothing) /\ UpToDate(RemovedIn(S, W), Nothing)
<1> DEFINE R == RemovedIn(S, W)
<1>1. ASSUME NEW b \in Boxes PROVE Difference(Delete(delta[b], R[b]))
  <2>1. R[b] \in SUBSET Vars
    BY SetsType DEF Sets
  <2>2. QED
    BY <2>1, TypeFacts, DeleteAdd
<1>2. \A b \in Boxes : delta'[b] = Delete(delta[b], R[b])
  BY TypeFacts, NothingChanges DEF RemovedIn
<1>3. \A b \in Boxes : Delete(delta[b], R[b]) = Add(Delete(delta[b], R[b]), Nothing[b])
  BY <1>1, NothingChanges DEF Nothing
<1>4. \A b \in Boxes : choice'[b] = Chosen(choice[b], R[b], Nothing[b])
  BY TypeFacts, NothingChosen DEF RemovedIn, Nothing
<1>5. Changes(R, Nothing)
  BY <1>2, <1>3, <1>4 DEF Changes, RemovedIn, Nothing
<1>6. UpToDate(R, Nothing)
  BY DEF UpToDate, Removed, RemovedIn, Nothing
<1>7. QED
  BY <1>5, <1>6

LEMMA AddShape ==
    ASSUME TypeOK, NEW S, NEW W \in SUBSET Vars,
           delta' = [b \in Boxes |-> IF b \in born \cap S
                                       THEN Add(delta[b], Added(b, W)) ELSE delta[b]],
           choice' = [b \in Boxes |-> IF b \in born \cap S
                                        THEN Chosen(choice[b], {}, Added(b, W)) ELSE choice[b]]
    PROVE  /\ Changes(Nothing, AddedIn(S, W))
           /\ (\A b \in born \cap S : Current(b)) => UpToDate(Nothing, AddedIn(S, W))
<1> DEFINE A == AddedIn(S, W)
<1>1. \A b \in Boxes : delta'[b] = Add(delta[b], A[b])
  BY TypeFacts, NothingChanges DEF AddedIn
<1>2. \A b \in Boxes : Delete(delta[b], Nothing[b]) = delta[b]
  BY TypeFacts, NothingChanges DEF Nothing
<1>3. \A b \in Boxes : choice'[b] = Chosen(choice[b], Nothing[b], A[b])
  BY TypeFacts, NothingChosen DEF AddedIn, Nothing
<1>4. Changes(Nothing, A)
  BY <1>1, <1>2, <1>3 DEF Changes, AddedIn, Nothing
<1>5. (\A b \in born \cap S : Current(b)) => UpToDate(Nothing, A)
  BY DEF UpToDate, Added, AddedIn, Nothing
<1>6. QED
  BY <1>4, <1>5

LEMMA KeepShape ==
    ASSUME TypeOK, NEW S, NEW W \in SUBSET Vars,
           delta' = [b \in Boxes |-> IF b \in born \cap S
                                       THEN Add(Delete(delta[b], Removed(b, Vars)), Kept(b, W))
                                       ELSE delta[b]],
           choice' = [b \in Boxes |-> IF b \in born \cap S
                                        THEN Chosen(choice[b], Removed(b, Vars), Kept(b, W))
                                        ELSE choice[b]]
    PROVE  /\ Changes(RemovedIn(S, Vars), KeptIn(S, W))
           /\ (\A b \in born \cap S : Current(b)) => UpToDate(RemovedIn(S, Vars), KeptIn(S, W))
<1> DEFINE R == RemovedIn(S, Vars)
           A == KeptIn(S, W)
<1>1. \A b \in Boxes : delta'[b] = Add(Delete(delta[b], R[b]), A[b])
  BY TypeFacts, NothingChanges DEF RemovedIn, KeptIn
<1>2. \A b \in Boxes : choice'[b] = Chosen(choice[b], R[b], A[b])
  BY TypeFacts, NothingChosen DEF RemovedIn, KeptIn
<1>3. Changes(R, A)
  BY <1>1, <1>2 DEF Changes, RemovedIn, KeptIn
<1>4. (\A b \in born \cap S : Current(b)) => UpToDate(R, A)
  BY TypeFacts DEF UpToDate, Removed, Kept, RemovedIn, KeptIn, Sets
<1>5. QED
  BY <1>3, <1>4

(* A change of the variables of some boxes. *)
BoxChange(R, A) ==
    /\ R \in Sets /\ A \in Sets
    /\ Changes(R, A)
    /\ Updated
    /\ UNCHANGED <<born, sees, onlyModified>>
    /\ newVisible' \in BOOLEAN

LEMMA ThisBoxChanges ==
    ASSUME TypeOK, NEW b \in Boxes, NEW W \in SUBSET Vars,
           \/ VarRemoveInThisBox(b, W) \/ VarAddInThisBox(b, W) \/ VarKeepOnlyInThisBox(b, W)
           \/ HideBox(b) \/ HideAllOtherBoxes(b)
    PROVE  /\ UNCHANGED <<global, allChoice>>
           /\ \E R, A \in Sets : BoxChange(R, A) /\ ("blind" \notin habits => UpToDate(R, A))
<1>1. b \in born /\ ("blind" \notin habits => Current(b))
  BY DEF VarRemoveInThisBox, VarAddInThisBox, VarKeepOnlyInThisBox, HideBox, HideAllOtherBoxes,
         MayChange
<1>2. /\ UNCHANGED <<born, sees, onlyModified, global, allChoice>>
      /\ newVisible' \in BOOLEAN
  BY DEF VarRemoveInThisBox, VarAddInThisBox, VarKeepOnlyInThisBox, HideBox, HideAllOtherBoxes,
         Changed, UpdateContent, TypeOK
<1>3. choice = [c \in Boxes |-> choice[c]] /\ displayed \in Sets /\ Vars \in SUBSET Vars
  BY TypeFacts DEF TypeOK
<1>4. CASE VarRemoveInThisBox(b, W) \/ HideBox(b) \/ HideAllOtherBoxes(b)
  <2>1. UpdateContent(sees', onlyModified', delta', displayed)
    BY <1>4 DEF VarRemoveInThisBox, HideBox, HideAllOtherBoxes, Changed, UpdateContent
  <2>5. Updated
    BY <1>3, <2>1 DEF Updated
  <2>2. CASE VarRemoveInThisBox(b, W)
    <3>1. delta' = [c \in Boxes |-> IF c \in born \cap {b}
                                      THEN Delete(delta[c], Removed(c, W)) ELSE delta[c]]
      BY <2>2 DEF VarRemoveInThisBox, Changed, UpdateContent, In
    <3>2. choice' = [c \in Boxes |-> IF c \in born \cap {b}
                                       THEN Chosen(choice[c], Removed(c, W), {}) ELSE choice[c]]
      BY <1>1, <1>3, <2>2 DEF VarRemoveInThisBox, Chooses
    <3>3. QED
      BY <1>2, <2>5, <3>1, <3>2, RemoveShape, SetsType DEF BoxChange
  <2>3. CASE HideBox(b)
    <3>1. delta' = [c \in Boxes |-> IF c \in born \cap {b}
                                      THEN Delete(delta[c], Removed(c, Vars)) ELSE delta[c]]
      BY <2>3 DEF HideBox, Changed, UpdateContent, In
    <3>2. choice' = [c \in Boxes |-> IF c \in born \cap {b}
                                       THEN Chosen(choice[c], Removed(c, Vars), {}) ELSE choice[c]]
      BY <1>1, <1>3, <2>3 DEF HideBox, Chooses
    <3>3. QED
      BY <1>2, <1>3, <2>5, <3>1, <3>2, RemoveShape, SetsType DEF BoxChange
  <2>4. CASE HideAllOtherBoxes(b)
    <3>1. delta' = [c \in Boxes |-> IF c \in born \cap (Boxes \ {b})
                                      THEN Delete(delta[c], Removed(c, Vars)) ELSE delta[c]]
      BY <2>4 DEF HideAllOtherBoxes, Changed, UpdateContent, In
    <3>2. choice' = [c \in Boxes |-> IF c \in born \cap (Boxes \ {b})
                                       THEN Chosen(choice[c], Removed(c, Vars), {}) ELSE choice[c]]
      BY <1>1, <1>3, <2>4 DEF HideAllOtherBoxes
    <3>3. QED
      BY <1>2, <1>3, <2>5, <3>1, <3>2, RemoveShape, SetsType DEF BoxChange
  <2>6. QED
    BY <1>4, <2>2, <2>3, <2>4
<1>5. CASE VarAddInThisBox(b, W)
  <2>1. Updated
    <3>1. UpdateContent(sees', onlyModified', delta', displayed)
      BY <1>5 DEF VarAddInThisBox, Changed, UpdateContent
    <3>2. QED
      BY <1>3, <3>1 DEF Updated
  <2>2. delta' = [c \in Boxes |-> IF c \in born \cap {b}
                                    THEN Add(delta[c], Added(c, W)) ELSE delta[c]]
    BY <1>5 DEF VarAddInThisBox, Changed, UpdateContent, In
  <2>3. choice' = [c \in Boxes |-> IF c \in born \cap {b}
                                     THEN Chosen(choice[c], {}, Added(c, W)) ELSE choice[c]]
    BY <1>1, <1>3, <1>5 DEF VarAddInThisBox, Chooses
  <2>4. /\ Changes(Nothing, AddedIn({b}, W))
        /\ "blind" \notin habits => UpToDate(Nothing, AddedIn({b}, W))
    BY <1>1, <2>2, <2>3, AddShape
  <2>5. QED
    BY <1>2, <2>1, <2>4, SetsType DEF BoxChange
<1>6. CASE VarKeepOnlyInThisBox(b, W)
  <2>1. Updated
    <3>1. [displayed EXCEPT ![b] = {}] \in Sets
      BY <1>3 DEF Sets
    <3>2. \A c \in Boxes : [displayed EXCEPT ![b] = {}][c] \in {displayed[c], {}}
      BY <1>3 DEF Sets
    <3>3. UpdateContent(sees', onlyModified', delta', [displayed EXCEPT ![b] = {}])
      BY <1>6 DEF VarKeepOnlyInThisBox, Changed, UpdateContent
    <3>4. QED
      BY <3>1, <3>2, <3>3 DEF Updated
  <2>2. delta' = [c \in Boxes |-> IF c \in born \cap {b}
                                    THEN Add(Delete(delta[c], Removed(c, Vars)), Kept(c, W))
                                    ELSE delta[c]]
    BY <1>6 DEF VarKeepOnlyInThisBox, Changed, UpdateContent, In
  <2>3. choice' = [c \in Boxes |-> IF c \in born \cap {b}
                                     THEN Chosen(choice[c], Removed(c, Vars), Kept(c, W))
                                     ELSE choice[c]]
    BY <1>1, <1>3, <1>6 DEF VarKeepOnlyInThisBox, Chooses
  <2>4. /\ Changes(RemovedIn({b}, Vars), KeptIn({b}, W))
        /\ "blind" \notin habits => UpToDate(RemovedIn({b}, Vars), KeptIn({b}, W))
    BY <1>1, <2>2, <2>3, KeepShape
  <2>5. RemovedIn({b}, Vars) \in Sets /\ KeptIn({b}, W) \in Sets
    BY <1>3, SetsType
  <2>6. QED
    BY <1>2, <2>1, <2>4, <2>5 DEF BoxChange
<1>7. QED
  BY <1>2, <1>4, <1>5, <1>6

(* A change of the variables of all boxes that are there.  The global delta   *)
(* takes what was removed or added somewhere, or is left alone, or cleared.   *)
Somewhere(F) == UNION {F[b] : b \in born}

ChosenForAll(removed, added) ==
    [v \in Vars |-> IF v \in added THEN "shown" ELSE IF v \in removed THEN "hidden" ELSE allChoice[v]]

AllChange(R, A) ==
    /\ BoxChange(R, A)
    /\ allChoice' = ChosenForAll(Somewhere(R), Somewhere(A))
    /\ global' \in {global, NoDelta, Add(Delete(global, Somewhere(R)), Somewhere(A))}

LEMMA SomewhereIs ==
    ASSUME TypeOK, NEW W \in SUBSET Vars
    PROVE  /\ Somewhere(Nothing) = {}
           /\ Somewhere(RemovedIn(Boxes, W)) = UNION {Removed(b, W) : b \in born}
           /\ Somewhere(AddedIn(Boxes, W)) = UNION {Added(b, W) : b \in born}
           /\ Somewhere(KeptIn(Boxes, W)) = UNION {Kept(b, W) : b \in born}
  BY DEF Somewhere, Nothing, RemovedIn, AddedIn, KeptIn, TypeOK

LEMMA AllBoxesChange ==
    ASSUME TypeOK, NEW W \in SUBSET Vars,
           \/ VarRemoveInAllBoxes(W) \/ VarAddInAllBoxes(W) \/ VarKeepOnlyInAllBoxes(W)
           \/ VarAddStarInAllBoxes \/ VarAddAllInAllBoxes
    PROVE  "all" \in habits /\ \E R, A \in Sets : AllChange(R, A)
<1>1. displayed \in Sets /\ Vars \in SUBSET Vars /\ born \cap Boxes = born
      /\ allChoice \in [Vars -> Choices]
  BY TypeFacts DEF TypeOK
<1>2. ASSUME NEW V \in SUBSET Vars,
             delta' = In(Boxes, LAMBDA b : Add(delta[b], Added(b, V))),
             UpdateContent(sees, onlyModified, delta', displayed),
             ChoosesAll(None, LAMBDA b : Added(b, V)),
             UNCHANGED <<born, newVisible>>,
             global' \in {global, NoDelta, Add(global, UNION {Added(b, V) : b \in born})}
      PROVE  AllChange(Nothing, AddedIn(Boxes, V))
  <2>1. Changes(Nothing, AddedIn(Boxes, V))
    BY <1>1, <1>2, AddShape DEF In, ChoosesAll, None
  <2>2. Updated
    BY <1>1, <1>2 DEF Updated, UpdateContent
  <2>3. allChoice' = ChosenForAll(Somewhere(Nothing), Somewhere(AddedIn(Boxes, V)))
    BY <1>1, <1>2, SomewhereIs DEF ChoosesAll, None, ChosenForAll
  <2>4. Add(Delete(global, Somewhere(Nothing)), Somewhere(AddedIn(Boxes, V)))
          = Add(global, UNION {Added(b, V) : b \in born})
    BY SomewhereIs, NothingChanges, TypeFacts
  <2>5. QED
    BY <1>1, <1>2, <2>1, <2>2, <2>3, <2>4, SetsType DEF AllChange, BoxChange, UpdateContent, TypeOK
<1>3. CASE VarRemoveInAllBoxes(W)
  <2> DEFINE R == RemovedIn(Boxes, W)
  <2>1. Changes(R, Nothing)
    BY <1>1, <1>3, RemoveShape
       DEF VarRemoveInAllBoxes, Changed, UpdateContent, In, ChoosesAll, None
  <2>2. Updated
    <3>1. UpdateContent(sees', onlyModified', delta', displayed)
      BY <1>3 DEF VarRemoveInAllBoxes, Changed, UpdateContent
    <3>2. QED
      BY <1>1, <3>1 DEF Updated
  <2>3. allChoice' = ChosenForAll(Somewhere(R), Somewhere(Nothing))
    BY <1>1, <1>3, SomewhereIs DEF VarRemoveInAllBoxes, ChoosesAll, None, ChosenForAll
  <2>4. global' = Add(Delete(global, Somewhere(R)), Somewhere(Nothing))
    <3>1. Somewhere(R) \in SUBSET Vars
      BY SetsType, <1>1 DEF Somewhere, Sets, TypeOK
    <3>2. Difference(Delete(global, Somewhere(R)))
      BY <3>1, TypeFacts, DeleteAdd
    <3>3. QED
      BY <1>3, <3>2, SomewhereIs, NothingChanges DEF VarRemoveInAllBoxes
  <2>5. QED
    BY <1>3, <2>1, <2>2, <2>3, <2>4, SetsType
       DEF VarRemoveInAllBoxes, MayChangeAll, AllChange, BoxChange, Changed, UpdateContent, TypeOK
<1>4. CASE VarKeepOnlyInAllBoxes(W)
  <2> DEFINE R == RemovedIn(Boxes, Vars)
             A == KeptIn(Boxes, W)
  <2>1. Changes(R, A)
    BY <1>1, <1>4, KeepShape
       DEF VarKeepOnlyInAllBoxes, Changed, UpdateContent, In, ChoosesAll, None
  <2>2. Updated
    <3>1. UpdateContent(sees', onlyModified', delta', [b \in Boxes |-> {}])
      BY <1>4 DEF VarKeepOnlyInAllBoxes, Changed, UpdateContent
    <3>2. QED
      BY <3>1 DEF Updated, Sets
  <2>3. allChoice' = ChosenForAll(Somewhere(R), Somewhere(A))
    BY <1>1, <1>4, SomewhereIs DEF VarKeepOnlyInAllBoxes, ChoosesAll, ChosenForAll
  <2>4. global' = Add(Delete(global, Somewhere(R)), Somewhere(A))
    BY <1>1, <1>4, SomewhereIs DEF VarKeepOnlyInAllBoxes
  <2>5. R \in Sets /\ A \in Sets
    BY <1>1, SetsType
  <2>6. QED
    BY <1>4, <2>1, <2>2, <2>3, <2>4, <2>5
       DEF VarKeepOnlyInAllBoxes, MayChangeAll, AllChange, BoxChange, Changed, UpdateContent, TypeOK
<1>5. CASE VarAddInAllBoxes(W)
  <2>1. AllChange(Nothing, AddedIn(Boxes, W))
    BY <1>2, <1>5 DEF VarAddInAllBoxes, Changed, UpdateContent
  <2>2. QED
    BY <1>5, <2>1, SetsType DEF VarAddInAllBoxes, MayChangeAll
<1>6. CASE VarAddStarInAllBoxes
  <2>1. AllChange(Nothing, AddedIn(Boxes, Vars))
    BY <1>1, <1>2, <1>6 DEF VarAddStarInAllBoxes, Changed, UpdateContent
  <2>2. QED
    BY <1>1, <1>6, <2>1, SetsType DEF VarAddStarInAllBoxes, MayChangeAll
<1>7. CASE VarAddAllInAllBoxes
  <2>1. AllChange(Nothing, AddedIn(Boxes, Vars))
    BY <1>1, <1>2, <1>7 DEF VarAddAllInAllBoxes, Changed, UpdateContent
  <2>2. QED
    BY <1>1, <1>7, <2>1, SetsType DEF VarAddAllInAllBoxes, MayChangeAll
<1>8. QED
  BY <1>3, <1>4, <1>5, <1>6, <1>7

-----------------------------------------------------------------------------
(* Type correctness *)

LEMMA SeesType ==
    ASSUME NEW s \in Sees \cup {Blank}
    PROVE  s.mod \subseteq s.all /\ s.all \in SUBSET Vars
  BY BoxAssumption DEF Blank

(* What updateContent leaves has the right type, and shows what the run and   *)
(* the delta of each box say.                                                 *)
Applied ==
    \A b \in born : sees[b].at = "rows" =>
        /\ all[b] = sees[b].all
        /\ displayed[b] = ApplyTo(delta[b], Start(sees[b], onlyModified), sees[b].all)

LEMMA ContentUpdated ==
    ASSUME TypeOK, Updated, UNCHANGED born,
           \A b \in Boxes : sees'[b] \in Sees \cup {Blank} /\ Difference(delta'[b])
    PROVE  /\ all' \in [Boxes -> SUBSET Vars]
           /\ displayed' \in [Boxes -> SUBSET Vars]
           /\ content' \in [Boxes -> BOOLEAN]
           /\ Applied'
<1>1. PICK cleared \in Sets : UpdateContent(sees', onlyModified', delta', cleared)
  BY DEF Updated
<1>2. \A b \in Boxes : sees'[b].mod \subseteq sees'[b].all /\ sees'[b].all \in SUBSET Vars
  BY SeesType
<1>3. all' \in [Boxes -> SUBSET Vars]
  BY <1>1, <1>2 DEF UpdateContent, TypeOK
<1>4. \A b \in Boxes : ApplyTo(delta'[b], Start(sees'[b], onlyModified'), sees'[b].all) \in SUBSET Vars
  BY <1>2 DEF ApplyTo, Start
<1>5. displayed' \in [Boxes -> SUBSET Vars]
  BY <1>1, <1>4 DEF UpdateContent, Sets
<1>6. content' \in [Boxes -> BOOLEAN]
  BY <1>1 DEF UpdateContent
<1>7. Applied'
  BY <1>1 DEF Applied, UpdateContent, TypeOK
<1>8. QED
  BY <1>3, <1>5, <1>6, <1>7

(* TypeOK without what changes of all boxes change beside the boxes. *)
BoxTypes ==
    /\ born \subseteq Boxes
    /\ \A b \in Boxes : sees[b] \in Sees \cup {Blank}
    /\ delta \in [Boxes -> Deltas]
    /\ all \in [Boxes -> SUBSET Vars]
    /\ displayed \in [Boxes -> SUBSET Vars]
    /\ content \in [Boxes -> BOOLEAN]
    /\ {onlyModified, newVisible} \subseteq BOOLEAN
    /\ choice \in [Boxes -> [Vars -> Choices]]
    /\ \A b \in Boxes : delta[b].plus \cap delta[b].minus = {}

LEMMA TypeParts ==
    TypeOK <=> /\ BoxTypes
               /\ Difference(global)
               /\ allChoice \in [Vars -> Choices]
  BY DEF TypeOK, BoxTypes, Difference, Blank

LEMMA TypeParts2 ==
    TypeOK' <=> /\ BoxTypes'
                /\ Difference(global')
                /\ allChoice' \in [Vars -> Choices]
  BY DEF TypeOK, BoxTypes, Difference, Blank

(* A change of variables. *)
LEMMA ChangeTypes ==
    ASSUME TypeOK, NEW R, NEW A, BoxChange(R, A)
    PROVE  BoxTypes' /\ Applied'
<1>1. \A b \in Boxes : R[b] \in SUBSET Vars /\ A[b] \in SUBSET Vars
  BY DEF BoxChange, Sets
<1>2. \A b \in Boxes : Difference(Add(Delete(delta[b], R[b]), A[b]))
  BY <1>1, TypeFacts, DeleteAdd
<1>3. \A b \in Boxes : Difference(delta'[b])
  BY <1>2 DEF BoxChange, Changes
<1>4. delta' \in [Boxes -> Deltas]
  BY <1>2 DEF BoxChange, Changes, Difference
<1>5. choice' \in [Boxes -> [Vars -> Choices]]
  BY TypeFacts, ChosenType DEF BoxChange, Changes
<1>6. \A b \in Boxes : sees'[b] \in Sees \cup {Blank}
  BY TypeParts DEF BoxTypes, BoxChange
<1>7. QED
  BY <1>3, <1>4, <1>5, <1>6, ContentUpdated DEF BoxTypes, BoxChange, TypeOK, Difference

LEMMA AllTypes ==
    ASSUME TypeOK, NEW R \in Sets, NEW A \in Sets, AllChange(R, A)
    PROVE  TypeOK' /\ Applied'
<1>1. Somewhere(R) \in SUBSET Vars /\ Somewhere(A) \in SUBSET Vars
  BY DEF Somewhere, Sets, TypeOK
<1>2. Difference(global')
  BY <1>1, TypeFacts, NoDeltaType, DeleteAdd DEF AllChange
<1>3. allChoice' \in [Vars -> Choices]
  BY DEF AllChange, ChosenForAll, TypeOK, Choices
<1>4. QED
  BY <1>2, <1>3, ChangeTypes, TypeParts2 DEF AllChange

(* A run, or a change of what the view starts from. *)
LEMMA RefreshTypes ==
    ASSUME TypeOK, Run \/ FlipModVars
    PROVE  TypeOK' /\ Applied'
<1>1. \A b \in Boxes : sees'[b] \in Sees \cup {Blank}
  <2>1. CASE Run
    BY <2>1, TypeParts DEF Run, UpdateContent, BoxTypes
  <2>2. CASE FlipModVars
    BY <2>2, TypeParts DEF FlipModVars, UpdateContent, BoxTypes
  <2>3. QED
    BY <2>1, <2>2
<1>2. UNCHANGED <<born, delta, newVisible, global, choice, allChoice>>
  BY DEF Run, FlipModVars, UpdateContent, history
<1>3. onlyModified' \in BOOLEAN
  BY DEF Run, FlipModVars, UpdateContent, TypeOK
<1>4. Updated
  <2>1. displayed \in Sets /\ \A b \in Boxes : displayed[b] \in {displayed[b], {}}
    BY TypeFacts
  <2>2. UpdateContent(sees', onlyModified', delta', displayed)
    BY DEF Run, FlipModVars, UpdateContent
  <2>3. QED
    BY <2>1, <2>2 DEF Updated
<1>5. \A b \in Boxes : Difference(delta'[b])
  BY <1>2, TypeFacts
<1>6. QED
  BY <1>1, <1>2, <1>3, <1>4, <1>5, ContentUpdated, TypeParts, TypeParts2 DEF BoxTypes

(* What was changed is forgotten, in one box or in all of them. *)
LEMMA RestoreTypes ==
    ASSUME TypeOK,
           RestoreAllBoxesToDefault \/ \E b \in Boxes : RestoreBoxToDefault(b)
    PROVE  TypeOK' /\ Applied'
<1>1. UNCHANGED <<born, sees>> /\ {onlyModified', newVisible'} \subseteq BOOLEAN
  BY DEF RestoreAllBoxesToDefault, RestoreBoxToDefault, Changed, UpdateContent, TypeOK
<1>2. \A b \in Boxes : sees'[b] \in Sees \cup {Blank}
  BY <1>1, TypeParts DEF BoxTypes
<1>3. delta' \in [Boxes -> Deltas] /\ \A b \in Boxes : Difference(delta'[b])
  <2>1. CASE RestoreAllBoxesToDefault
    BY <2>1, TypeFacts, NoDeltaType
       DEF RestoreAllBoxesToDefault, UpdateContent, In, Difference
  <2>2. CASE \E b \in Boxes : RestoreBoxToDefault(b)
    BY <2>2, TypeFacts, NoDeltaType
       DEF RestoreBoxToDefault, Changed, UpdateContent, In, Difference
  <2>3. QED
    BY <2>1, <2>2
<1>4. Updated
  <2>1. displayed \in Sets /\ \A b \in Boxes : displayed[b] \in {displayed[b], {}}
    BY TypeFacts
  <2>2. UpdateContent(sees', onlyModified', delta', displayed)
    <3>1. CASE RestoreAllBoxesToDefault
      BY <3>1 DEF RestoreAllBoxesToDefault, UpdateContent
    <3>2. CASE \E b \in Boxes : RestoreBoxToDefault(b)
      BY <3>2 DEF RestoreBoxToDefault, Changed, UpdateContent
    <3>3. QED
      BY <3>1, <3>2
  <2>3. QED
    BY <2>1, <2>2 DEF Updated
<1>5. NoChoice \in [Vars -> Choices]
  BY DEF NoChoice, Choices
<1>6. choice' \in [Boxes -> [Vars -> Choices]] /\ allChoice' \in [Vars -> Choices]
  BY <1>5 DEF RestoreAllBoxesToDefault, RestoreBoxToDefault, TypeOK
<1>7. Difference(global')
  BY TypeFacts, NoDeltaType DEF RestoreAllBoxesToDefault, RestoreBoxToDefault
<1>8. QED
  BY <1>1, <1>2, <1>3, <1>4, <1>6, <1>7, ContentUpdated, TypeParts2 DEF BoxTypes, TypeOK, Difference

(* Boxes come and go. *)
LEMMA ComeAndGoTypes ==
    ASSUME TypeOK, OnDidChangeModel \/ \E b \in Boxes : NewBox(b)
    PROVE  TypeOK'
<1>1. CASE OnDidChangeModel
  <2>1. NoChoice \in [Vars -> Choices]
    BY DEF NoChoice, Choices
  <2>2. QED
    BY <1>1, <2>1 DEF OnDidChangeModel, TypeOK, NoDelta, Deltas
<1>2. CASE \E b \in Boxes : NewBox(b)
  <2>1. PICK b \in Boxes : NewBox(b)
    BY <1>2
  <2>2. Removed(b, Vars) \in SUBSET Vars
    BY DEF Removed
  <2>3. Difference(delta'[b]) /\ delta' = [delta EXCEPT ![b] = delta'[b]]
    BY <2>1, <2>2, TypeFacts, DeleteAdd DEF NewBox, TypeOK
  <2>4. \A c \in Boxes : Difference(delta'[c])
    BY <2>3, TypeFacts DEF TypeOK
  <2>5. delta' \in [Boxes -> Deltas]
    BY <2>3, <2>4 DEF TypeOK, Difference
  <2>6. BoxTypes'
    BY <2>1, <2>4, <2>5, TypeParts DEF BoxTypes, NewBox, history, Difference
  <2>7. QED
    BY <2>1, <2>6, TypeFacts, TypeParts, TypeParts2 DEF NewBox, history
<1>3. QED
  BY <1>1, <1>2

-----------------------------------------------------------------------------
(***************************************************************************)
(* The steps, by what they do to the boxes.                                *)
(***************************************************************************)

LEMMA Steps ==
    ASSUME TypeOK, Next
    PROVE  \/ OnDidChangeModel \/ Run \/ FlipModVars \/ RestoreAllBoxesToDefault
           \/ \E b \in Boxes : NewBox(b) \/ RestoreBoxToDefault(b)
           \/ \E R, A \in Sets :
                 /\ BoxChange(R, A) /\ UNCHANGED <<global, allChoice>>
                 /\ "blind" \notin habits => UpToDate(R, A)
           \/ "all" \in habits /\ \E R, A \in Sets : AllChange(R, A)
<1>1. CASE OnDidChangeModel \/ Run \/ FlipModVars
  BY <1>1
<1>2. CASE AllBoxes
  <2>1. Vars \in SUBSET Vars
    OBVIOUS
  <2>2. QED
    BY <1>2, <2>1, AllBoxesChange DEF AllBoxes
<1>3. CASE \E b \in Boxes : ThisBox(b)
  <2>1. PICK b \in Boxes : ThisBox(b)
    BY <1>3
  <2>2. Vars \in SUBSET Vars
    OBVIOUS
  <2>3. QED
    BY <2>1, <2>2, ThisBoxChanges DEF ThisBox
<1>4. QED
  BY <1>1, <1>2, <1>3 DEF Next

LEMMA TypeNext ==
    ASSUME TypeOK, [Next]_vars
    PROVE  TypeOK'
<1>1. CASE UNCHANGED vars
  BY <1>1 DEF vars, made, history, TypeOK
<1>2. CASE Next
  <2>1. ASSUME NEW R \in Sets, NEW A \in Sets, BoxChange(R, A), UNCHANGED <<global, allChoice>>
        PROVE  TypeOK'
    BY <2>1, ChangeTypes, TypeParts, TypeParts2
  <2>2. QED
    BY <1>2, <2>1, Steps, AllTypes, RefreshTypes, RestoreTypes, ComeAndGoTypes
<1>3. QED
  BY <1>1, <1>2

(* Every variable of the boxes keeps its type, and no step makes a            *)
(* DeltaVarSet that both adds and removes a variable (RTVDisplay.ts,          *)
(* DeltaVarSet.add and delete, under every command of the boxes).             *)
THEOREM TypeCorrect == Spec => []TypeOK
<1>1. ASSUME Init PROVE TypeOK
  <2>1. NoChoice \in [Vars -> Choices]
    BY DEF NoChoice, Choices
  <2>2. NoDelta \in Deltas /\ NoDelta.plus \cap NoDelta.minus = {}
    BY DEF NoDelta, Deltas
  <2>3. BoxTypes
    BY <1>1, <2>1, <2>2 DEF Init, BoxTypes, Blank
  <2>4. QED
    BY <1>1, <2>1, <2>2, <2>3, TypeParts DEF Init, Difference
<1>2. TypeOK /\ [Next]_vars => TypeOK'
  BY TypeNext
<1>3. QED
  BY <1>1, <1>2, PTL DEF Spec

-----------------------------------------------------------------------------
(***************************************************************************)
(* What the boxes show.  TypeOK says too little of what a box shows: the   *)
(* inductive invariant adds that a box not yet made is as the first ones   *)
(* were, that what is displayed is what the delta makes of what the run    *)
(* said, and what the user's choices say of the deltas.                    *)
(***************************************************************************)

Fresh ==
    \A b \in Boxes \ born :
        sees[b].at = "none" /\ all[b] = {} /\ delta[b] = NoDelta /\ choice[b] = NoChoice

Untouched(d, v) == v \notin d.plus /\ v \notin d.minus

(* A variable that was never chosen for all boxes is in no delta but of a box *)
(* it was chosen for.                                                         *)
NotChosen ==
    \A v \in Vars : allChoice[v] = "none" =>
        /\ Untouched(global, v)
        /\ \A b \in Boxes : choice[b][v] = "none" => Untouched(delta[b], v)

(* One who changes single boxes only, and sees all variables, never has       *)
(* anything in plus; and minus is what is hidden.                             *)
OneBoxAtATime ==
    habits \subseteq {"one"} =>
        /\ ~onlyModified
        /\ global = NoDelta
        /\ \A b \in Boxes :
             /\ delta[b].plus = {}
             /\ \A v \in Vars : /\ choice[b][v] = "hidden" => v \in delta[b].minus
                                /\ choice[b][v] = "shown" => v \notin delta[b].minus

BoxInv == TypeOK /\ Fresh /\ Applied /\ NotChosen /\ OneBoxAtATime

LEMMA NothingToChange ==
    ASSUME TypeOK, NEW R, NEW A, BoxChange(R, A), NEW b \in Boxes \ born
    PROVE  delta'[b] = delta[b] /\ choice'[b] = choice[b] /\ all'[b] = all[b]
<1>1. R[b] = {} /\ A[b] = {}
  BY DEF BoxChange, Changes
<1>2. delta'[b] = delta[b]
  <2>1. delta'[b] = Add(Delete(delta[b], {}), {})
    BY <1>1 DEF BoxChange, Changes
  <2>2. QED
    BY <2>1, TypeFacts, NothingChanges
<1>3. choice'[b] = choice[b]
  BY <1>1, TypeFacts, NothingChosen DEF BoxChange, Changes
<1>4. all'[b] = all[b]
  BY DEF BoxChange, Updated, UpdateContent
<1>5. QED
  BY <1>2, <1>3, <1>4

LEMMA FreshNext ==
    ASSUME TypeOK, Fresh, [Next]_vars
    PROVE  Fresh'
<1>1. CASE UNCHANGED vars
  BY <1>1 DEF vars, made, history, Fresh
<1>2. ASSUME NEW R, NEW A, BoxChange(R, A)
      PROVE  Fresh'
  BY <1>2, NothingToChange DEF Fresh, BoxChange
<1>3. CASE OnDidChangeModel
  BY <1>3 DEF OnDidChangeModel, Fresh
<1>4. CASE Run
  BY <1>4 DEF Run, UpdateContent, Fresh, history
<1>5. CASE FlipModVars
  BY <1>5 DEF FlipModVars, UpdateContent, Fresh, history
<1>6. CASE RestoreAllBoxesToDefault
  BY <1>6 DEF RestoreAllBoxesToDefault, UpdateContent, In, Fresh
<1>7. CASE \E b \in Boxes : NewBox(b)
  BY <1>7 DEF NewBox, Fresh, history, TypeOK
<1>8. CASE \E b \in Boxes : RestoreBoxToDefault(b)
  BY <1>8 DEF RestoreBoxToDefault, Changed, UpdateContent, In, Fresh, TypeOK
<1>9. QED
  BY <1>1, <1>2, <1>3, <1>4, <1>5, <1>6, <1>7, <1>8, Steps DEF AllChange

LEMMA AppliedNext ==
    ASSUME TypeOK, Fresh, Applied, [Next]_vars
    PROVE  Applied'
<1>1. CASE UNCHANGED vars
  BY <1>1 DEF vars, made, history, Applied
<1>2. CASE OnDidChangeModel
  BY <1>2 DEF OnDidChangeModel, Applied
<1>3. CASE \E b \in Boxes : NewBox(b)
  BY <1>3 DEF NewBox, Fresh, Applied, TypeOK
<1>4. QED
  BY <1>1, <1>2, <1>3, Steps, ChangeTypes, AllTypes, RefreshTypes, RestoreTypes

-----------------------------------------------------------------------------
(* What was not chosen *)

LEMMA UntouchedStays ==
    ASSUME NEW d, NEW v \in Vars, Untouched(d, v), NEW R, NEW A, v \in A => v \in R
    PROVE  /\ v \notin A => Untouched(Delete(d, {}), v)
           /\ (v \in R => v \in A) => Untouched(Add(Delete(d, R), A), v)
  BY DEF Untouched, Delete, Add

LEMMA NotChosenInBoxes ==
    ASSUME TypeOK, NEW R, NEW A, BoxChange(R, A), NEW v \in Vars, NEW b \in Boxes,
           choice[b][v] = "none" => Untouched(delta[b], v), choice'[b][v] = "none"
    PROVE  Untouched(delta'[b], v)
<1>1. (v \in A[b] <=> v \in R[b]) /\ choice[b][v] = "none"
  BY DEF BoxChange, Changes, Chosen
<1>2. delta'[b] = Add(Delete(delta[b], R[b]), A[b])
  BY DEF BoxChange, Changes
<1>3. QED
  BY <1>1, <1>2, UntouchedStays

LEMMA NotChosenNext ==
    ASSUME TypeOK, Fresh, NotChosen, [Next]_vars
    PROVE  NotChosen'
<1> SUFFICES ASSUME NEW v \in Vars, allChoice'[v] = "none"
             PROVE  /\ Untouched(global', v)
                    /\ \A b \in Boxes : choice'[b][v] = "none" => Untouched(delta'[b], v)
  BY DEF NotChosen
<1>0. Untouched(NoDelta, v)
  BY DEF Untouched, NoDelta
<1>1. CASE UNCHANGED vars
  BY <1>1 DEF vars, made, history, NotChosen
<1>2. ASSUME NEW R, NEW A, BoxChange(R, A), UNCHANGED <<global, allChoice>>
      PROVE  /\ Untouched(global', v)
             /\ \A b \in Boxes : choice'[b][v] = "none" => Untouched(delta'[b], v)
  BY <1>2, NotChosenInBoxes DEF NotChosen
<1>3. ASSUME NEW R, NEW A, AllChange(R, A)
      PROVE  /\ Untouched(global', v)
             /\ \A b \in Boxes : choice'[b][v] = "none" => Untouched(delta'[b], v)
  <2>1. v \notin Somewhere(R) /\ v \notin Somewhere(A) /\ allChoice[v] = "none"
    BY <1>3 DEF AllChange, ChosenForAll
  <2>2. Untouched(Add(Delete(global, Somewhere(R)), Somewhere(A)), v)
    BY <2>1, UntouchedStays DEF NotChosen
  <2>3. QED
    BY <1>0, <1>3, <2>1, <2>2, NotChosenInBoxes DEF AllChange, NotChosen
<1>4. CASE OnDidChangeModel
  BY <1>0, <1>4 DEF OnDidChangeModel, NotChosen
<1>5. CASE Run \/ FlipModVars
  BY <1>5 DEF Run, FlipModVars, UpdateContent, history, NotChosen
<1>6. CASE RestoreAllBoxesToDefault
  <2>1. \A b \in Boxes : delta'[b] = NoDelta
    BY <1>6 DEF RestoreAllBoxesToDefault, UpdateContent, In, Fresh
  <2>2. QED
    BY <1>0, <1>6, <2>1 DEF RestoreAllBoxesToDefault, NotChosen
<1>7. CASE \E b \in Boxes : NewBox(b)
  <2>1. PICK b \in Boxes : NewBox(b)
    BY <1>7
  <2>2. Removed(b, Vars) = {}
    BY <2>1 DEF NewBox, Fresh, Removed
  <2>3. delta' = [delta EXCEPT ![b] = global]
    BY <2>1, <2>2, TypeFacts, NothingChanges DEF NewBox
  <2>4. QED
    BY <2>1, <2>3 DEF NewBox, NotChosen, history, TypeOK
<1>8. CASE \E b \in Boxes : RestoreBoxToDefault(b)
  BY <1>0, <1>8 DEF RestoreBoxToDefault, Changed, UpdateContent, In, NotChosen, TypeOK
<1>9. QED
  BY <1>1, <1>2, <1>3, <1>4, <1>5, <1>6, <1>7, <1>8, Steps

-----------------------------------------------------------------------------
(* One who changes single boxes that are up to date *)

LEMMA MinusIsHidden ==
    ASSUME NEW d, d.plus = {}, NEW R, NEW A, \A v \in A : v \in R \/ v \in d.minus
    PROVE  /\ Add(Delete(d, R), A).plus = {}
           /\ Add(Delete(d, R), A).minus = (d.minus \cup R) \ A
  BY DEF Add, Delete

LEMMA OneBoxKeeps ==
    ASSUME BoxInv, NEW R \in Sets, NEW A \in Sets, BoxChange(R, A), UpToDate(R, A),
           habits \subseteq {"one"}, NEW b \in Boxes
    PROVE  /\ delta'[b].plus = {}
           /\ \A v \in Vars : /\ choice'[b][v] = "hidden" => v \in delta'[b].minus
                              /\ choice'[b][v] = "shown" => v \notin delta'[b].minus
<1>1. /\ ~onlyModified /\ delta[b].plus = {}
      /\ \A v \in Vars : /\ choice[b][v] = "hidden" => v \in delta[b].minus
                         /\ choice[b][v] = "shown" => v \notin delta[b].minus
  BY DEF BoxInv, OneBoxAtATime
<1>2. A[b] # {} => \A v \in all[b] : v \in displayed[b] <=> v \notin delta[b].minus
  <2> HAVE A[b] # {}
  <2>1. b \in born /\ sees[b].at = "rows"
    BY DEF BoxChange, Changes, UpToDate, Current
  <2>2. all[b] = sees[b].all /\ displayed[b] = ApplyTo(delta[b], sees[b].all, sees[b].all)
    BY <1>1, <2>1 DEF BoxInv, Applied, Start
  <2>3. QED
    BY <1>1, <2>2 DEF ApplyTo
<1>3. \A v \in A[b] : v \in R[b] \/ v \in delta[b].minus
  BY <1>2 DEF UpToDate
<1>4. delta'[b].plus = {} /\ delta'[b].minus = (delta[b].minus \cup R[b]) \ A[b]
  <2>1. delta'[b] = Add(Delete(delta[b], R[b]), A[b])
    BY DEF BoxChange, Changes
  <2>2. QED
    BY <1>1, <1>3, <2>1, MinusIsHidden
<1>5. ASSUME NEW v \in Vars
      PROVE  /\ choice'[b][v] = "hidden" => v \in delta'[b].minus
             /\ choice'[b][v] = "shown" => v \notin delta'[b].minus
  <2>1. choice'[b][v] = IF v \in A[b] \ R[b] THEN "shown"
                        ELSE IF v \in R[b] \ A[b] THEN "hidden" ELSE choice[b][v]
    BY DEF BoxChange, Changes, Chosen
  <2>2. v \in R[b] \cap A[b] => v \notin delta[b].minus
    BY <1>2 DEF UpToDate
  <2>3. QED
    BY <1>1, <1>4, <2>1, <2>2
<1>6. QED
  BY <1>4, <1>5

LEMMA OneNext ==
    ASSUME BoxInv, [Next]_vars
    PROVE  OneBoxAtATime'
<1>1. UNCHANGED habits
  BY DEF Next, vars
<1> SUFFICES ASSUME habits \subseteq {"one"}
             PROVE  /\ ~onlyModified'
                    /\ global' = NoDelta
                    /\ \A b \in Boxes :
                         /\ delta'[b].plus = {}
                         /\ \A v \in Vars : /\ choice'[b][v] = "hidden" => v \in delta'[b].minus
                                            /\ choice'[b][v] = "shown" => v \notin delta'[b].minus
  BY <1>1 DEF OneBoxAtATime
<1> DEFINE One == /\ ~onlyModified'
                  /\ global' = NoDelta
                  /\ \A b \in Boxes :
                       /\ delta'[b].plus = {}
                       /\ \A v \in Vars : /\ choice'[b][v] = "hidden" => v \in delta'[b].minus
                                          /\ choice'[b][v] = "shown" => v \notin delta'[b].minus
<1>2. /\ ~onlyModified /\ global = NoDelta
      /\ \A b \in Boxes :
           /\ delta[b].plus = {}
           /\ \A v \in Vars : /\ choice[b][v] = "hidden" => v \in delta[b].minus
                              /\ choice[b][v] = "shown" => v \notin delta[b].minus
  BY DEF BoxInv, OneBoxAtATime
<1>3. TypeOK /\ Fresh
  BY DEF BoxInv
<1>4. NoDelta.plus = {} /\ NoDelta.minus = {} /\ \A v \in Vars : NoChoice[v] = "none"
  BY DEF NoDelta, NoChoice
<1>5. CASE UNCHANGED vars
  BY <1>2, <1>5 DEF vars, made, history
<1>6. ASSUME NEW R \in Sets, NEW A \in Sets, BoxChange(R, A), UNCHANGED <<global, allChoice>>,
             UpToDate(R, A)
      PROVE  One
  BY <1>2, <1>6, OneBoxKeeps DEF BoxChange
<1>7. CASE OnDidChangeModel
  BY <1>2, <1>4, <1>7 DEF OnDidChangeModel
<1>8. CASE Run
  BY <1>2, <1>8 DEF Run, UpdateContent, history
<1>9. CASE RestoreAllBoxesToDefault
  <2>1. /\ ~onlyModified' /\ global' = NoDelta /\ choice' = [b \in Boxes |-> NoChoice]
        /\ \A b \in Boxes : delta'[b] = NoDelta
    BY <1>2, <1>3, <1>9 DEF RestoreAllBoxesToDefault, UpdateContent, In, Fresh
  <2>2. QED
    BY <1>4, <2>1
<1>10. CASE \E b \in Boxes : NewBox(b)
  <2>1. PICK b \in Boxes : NewBox(b)
    BY <1>10
  <2>2. Removed(b, Vars) = {} /\ choice[b] = NoChoice
    BY <1>3, <2>1 DEF NewBox, Fresh, Removed
  <2>3. delta' = [delta EXCEPT ![b] = NoDelta]
    BY <1>2, <1>3, <2>1, <2>2, TypeFacts, NothingChanges DEF NewBox
  <2>4. QED
    BY <1>2, <1>3, <1>4, <2>1, <2>2, <2>3 DEF NewBox, history, TypeOK
<1>11. CASE \E b \in Boxes : RestoreBoxToDefault(b)
  BY <1>2, <1>3, <1>4, <1>11 DEF RestoreBoxToDefault, Changed, UpdateContent, In, TypeOK
<1>12. ~FlipModVars
  BY DEF FlipModVars
<1>13. QED
  BY <1>3, <1>5, <1>6, <1>7, <1>8, <1>9, <1>10, <1>11, <1>12, Steps

LEMMA BoxInvariant == Spec => []BoxInv
<1>1. ASSUME Init PROVE Fresh /\ Applied /\ NotChosen /\ OneBoxAtATime
  <2>1. NoDelta.plus = {} /\ NoDelta.minus = {} /\ \A v \in Vars : NoChoice[v] = "none"
    BY DEF NoDelta, NoChoice
  <2>2. QED
    BY <1>1, <2>1 DEF Init, Fresh, Applied, NotChosen, Untouched, OneBoxAtATime
<1>2. BoxInv /\ [Next]_vars => BoxInv'
  BY TypeNext, FreshNext, AppliedNext, NotChosenNext, OneNext DEF BoxInv
<1>3. Spec => [](Fresh /\ Applied /\ NotChosen /\ OneBoxAtATime /\ TypeOK)
  <2>1. Init /\ TypeOK => BoxInv
    BY <1>1 DEF BoxInv
  <2>2. BoxInv => Fresh /\ Applied /\ NotChosen /\ OneBoxAtATime /\ TypeOK
    BY DEF BoxInv
  <2>3. QED
    BY <1>2, <2>1, <2>2, TypeCorrect, PTL DEF Spec
<1>4. QED
  BY <1>3, PTL DEF BoxInv

(* As long as the user has chosen nothing, or nothing since this box was      *)
(* restored, every box shows what the view starts with; so do the boxes made  *)
(* later (RTVDisplay.ts, updateContent, varRemove, varAdd, varKeepOnly and    *)
(* restoreAllBoxesToDefault, and the global delta that a new box begins       *)
(* with).  This is so for every user.                                         *)
THEOREM ShownDefault == Spec => []DefaultShown
<1>1. ASSUME BoxInv PROVE DefaultShown
  <2> SUFFICES ASSUME NEW b \in born, sees[b].at = "rows", choice[b] = NoChoice,
                      allChoice = NoChoice \/ delta[b] = NoDelta
               PROVE  displayed[b] = Start(sees[b], onlyModified)
    BY DEF DefaultShown
  <2>1. TypeOK /\ b \in Boxes /\ delta[b] \in Deltas
    BY <1>1 DEF BoxInv, TypeOK
  <2>2. delta[b].plus = {} /\ delta[b].minus = {}
    <3>1. CASE delta[b] = NoDelta
      BY <3>1 DEF NoDelta
    <3>2. CASE allChoice = NoChoice
      <4>1. \A v \in Vars : Untouched(delta[b], v)
        BY <1>1, <2>1, <3>2 DEF BoxInv, NotChosen, NoChoice
      <4>2. QED
        BY <2>1, <4>1 DEF Untouched, Deltas
    <3>3. QED
      BY <3>1, <3>2
  <2>3. displayed[b] = ApplyTo(delta[b], Start(sees[b], onlyModified), sees[b].all)
    BY <1>1 DEF BoxInv, Applied
  <2>4. QED
    BY <2>2, <2>3 DEF ApplyTo
<1>2. QED
  BY <1>1, BoxInvariant, PTL

(* What a user who changes single boxes chose last for a variable is what the *)
(* box shows, after any number of runs that see and write other variables     *)
(* (RTVDisplay.ts, varRemove, varAdd and varKeepOnly against updateContent).  *)
THEOREM KeptChoice == Spec => []ChoiceKept
<1>1. ASSUME BoxInv PROVE ChoiceKept
  <2> SUFFICES ASSUME habits \subseteq {"one"}, NEW b \in born, NEW v \in Vars,
                      sees[b].at = "rows", v \in all[b]
               PROVE  /\ choice[b][v] = "hidden" => v \notin displayed[b]
                      /\ choice[b][v] = "shown" => v \in displayed[b]
    BY DEF ChoiceKept
  <2>1. b \in Boxes
    BY <1>1 DEF BoxInv, TypeOK
  <2>2. /\ ~onlyModified
        /\ choice[b][v] = "hidden" => v \in delta[b].minus
        /\ choice[b][v] = "shown" => v \notin delta[b].minus
    BY <1>1, <2>1 DEF BoxInv, OneBoxAtATime
  <2>3. all[b] = sees[b].all /\ displayed[b] = ApplyTo(delta[b], sees[b].all, sees[b].all)
    BY <1>1, <2>2 DEF BoxInv, Applied, Start
  <2>4. QED
    BY <2>2, <2>3 DEF ApplyTo
<1>2. QED
  BY <1>1, BoxInvariant, PTL
=============================================================================
