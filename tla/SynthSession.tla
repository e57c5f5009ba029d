---------------------------- MODULE SynthSession ----------------------------
(***************************************************************************)
(* The synthesis session of RTVSynthController.ts.  A line that ends in ?? *)
(* starts it: the line gets a default value, the boxes are run once more   *)
(* and then disabled, and the box of the line becomes a table whose cells  *)
(* the user fills in with examples.  Each example is validated, the        *)
(* program is run with it and a synthesizer is asked for a fragment, which *)
(* is written into the line.  Every one of these steps is awaited, and the *)
(* fields of the controller are read again after each await.               *)
(*                                                                         *)
(* updateBoxes, runProgram, validate and the synthesizer are other parts:  *)
(* here they end in any way their code allows, at any time.                *)
(***************************************************************************)
EXTENDS Naturals, FiniteSets

CONSTANTS
    MaxStarts,   \* bound: synthesis sessions that are started
    MaxRequests, \* bound: examples that are requested
    MaxEdits,    \* bound: edits of the user
    MaxHandlers  \* bound: handlers of content changes that wait at once

ASSUME SynthAssumption ==
    /\ MaxStarts \in Nat \ {0}
    /\ MaxRequests \in Nat
    /\ MaxEdits \in Nat \ {0}
    /\ MaxHandlers \in Nat \ {0}

(* What a user does not wait with: leaving a session or typing until its      *)
(* table is there, starting one until the last is over, and until all that    *)
(* was requested in it is over.                                               *)
Habits == {"leave", "type", "start", "request"}

Starts   == 1..MaxStarts
Requests == 1..MaxRequests

VARIABLES
    enabled,  \* RTVSynthController.enabled
    boxes,    \* RTVController.enabled
    session,  \* the start that set lineno and editorState, 0 for undefined
    model,    \* the start that made _synthModel, 0 for undefined
    view,     \* the start that made _synthView, 0 for undefined
    shown,    \* the starts whose view is in the editor
    progress, \* editorState.state
    line,     \* what the line says
    start,    \* where each start is
    request,  \* where each request is, and the view its cell is in
    asked,    \* the request the synthesizer works for, 0 for none
    handlers, \* handlers of content changes that await updateBoxes
    edits,    \* edits of the user so far
    habits    \* the user's habits, which do not change

fields  == <<session, model, view, shown, progress>>
vars    == <<enabled, boxes, fields, line, start, request, asked, handlers, edits, habits>>

StartPhases   == {"unused", "value", "refused", "update", "init", "over"}
RequestPhases == {"unused", "delay", "validate", "run", "synth", "show", "over"}

(* A start that has not come to its end, with or without success. *)
Starting == {s \in Starts : start[s] \in {"value", "refused", "update", "init"}}

(* Requests under way. *)
Pending == {r \in Requests : request[r].at \notin {"unused", "over"}}

(* An edit of the line is noticed by onDidChangeModelContent, which returns   *)
(* while the boxes are disabled.                                              *)
Noticed(on) == handlers' = IF on /\ handlers < MaxHandlers THEN handlers + 1 ELSE handlers
-----------------------------------------------------------------------------
Init ==
    /\ enabled = FALSE
    /\ boxes = TRUE
    /\ session = 0
    /\ model = 0
    /\ view = 0
    /\ shown = {}
    /\ progress = "HasProgram"
    /\ line = "user"
    /\ start = [s \in Starts |-> "unused"]
    /\ request = [r \in Requests |-> [at |-> "unused", view |-> 0]]
    /\ asked = 0
    /\ handlers = 0
    /\ edits = 0
    /\ habits \in SUBSET Habits

(* stopSynthesis, which does nothing unless enabled.  The update it asks for  *)
(* is not awaited.                                                            *)

(* Mutants of StopSynthesis: the view stays; the editor state stays; the      *)
(* boxes stay disabled.                                                       *)
StopKeepsView ==
    IF enabled
      THEN /\ enabled' = FALSE /\ boxes' = TRUE
           /\ session' = 0 /\ model' = 0 /\ view' = 0 /\ asked' = 0
           /\ UNCHANGED <<shown, progress>>
      ELSE UNCHANGED <<enabled, boxes, fields, asked>>

StopKeepsState ==
    IF enabled
      THEN /\ enabled' = FALSE /\ boxes' = TRUE
           /\ model' = 0 /\ view' = 0 /\ shown' = shown \ {view}
           /\ UNCHANGED <<session, progress, asked>>
      ELSE UNCHANGED <<enabled, boxes, fields, asked>>

StopKeepsDisabled ==
    IF enabled
      THEN /\ enabled' = FALSE
           /\ session' = 0 /\ model' = 0 /\ view' = 0 /\ shown' = shown \ {view} /\ asked' = 0
           /\ UNCHANGED <<boxes, progress>>
      ELSE UNCHANGED <<enabled, boxes, fields, asked>>

StopSynthesis ==
    IF enabled
      THEN /\ enabled' = FALSE
           /\ boxes' = TRUE
           /\ session' = 0
           /\ model' = 0
           /\ view' = 0
           /\ shown' = shown \ {view}
           /\ asked' = 0
           /\ UNCHANGED progress
      ELSE UNCHANGED <<enabled, boxes, fields, asked>>
-----------------------------------------------------------------------------
(* The user *)

(* A line in the editor is typed: one with ?? or any other.  Whoever types    *)
(* has focused the editor, which ends a session, unless it is only starting   *)
(* and the editor still has the focus.                                        *)
Edit ==
    /\ edits < MaxEdits
    /\ IF Starting = {} THEN ~enabled ELSE "type" \in habits
    /\ edits' = edits + 1
    /\ line' \in {"seed", "tuple", "user"}
    /\ Noticed(boxes)
    /\ UNCHANGED <<enabled, boxes, fields, start, request, asked>>

(* Escape, a click into the editor, or the return key in a cell, which is     *)
(* refused while there is no program.                                         *)
Leave ==
    /\ enabled
    /\ Starting # {} => "leave" \in habits
    /\ StopSynthesis
    /\ UNCHANGED <<line, start, request, handlers, edits>>

(* A key in a cell of a table that is shown. *)
Key(r) ==
    /\ request[r].at = "unused"
    /\ \E v \in shown : request' = [request EXCEPT ![r] = [at |-> "delay", view |-> v]]
    /\ UNCHANGED <<enabled, boxes, fields, line, start, asked, handlers, edits>>
-----------------------------------------------------------------------------
(* startSynthesis, from the handler of a content change whose update is over: *)
(* finished, cancelled or refused.  One that is rejected only ends.           *)

HandlerEnds ==
    /\ handlers > 0
    /\ handlers' = handlers - 1
    /\ UNCHANGED <<enabled, boxes, fields, line, start, request, asked, edits>>

Begins(s) ==
    /\ handlers > 0
    /\ handlers' = handlers - 1
    /\ start[s] = "unused"
    /\ \A q \in 1..(s - 1) : start[q] # "unused"
    /\ enabled \/ Starting # {} => "start" \in habits
    /\ Pending # {} => "request" \in habits

(* Mutant of StartSynthesis: the last session's editor state is used again.  *)
StartKeepsProgress(s) ==
    /\ Begins(s)
    /\ line = "seed"
    /\ enabled' = TRUE
    /\ session' = s
    /\ start' = [start EXCEPT ![s] = "value"]
    /\ UNCHANGED <<boxes, model, view, shown, progress, line, request, asked, edits>>

StartSynthesis(s) ==
    /\ Begins(s)
    /\ line = "seed"
    /\ enabled' = TRUE
    /\ session' = s
    /\ progress' = "HasProgram"
    /\ start' = [start EXCEPT ![s] = "value"]
    /\ UNCHANGED <<boxes, model, view, shown, line, request, asked, edits>>

(* More than one variable: enabled is set first, so stopSynthesis runs. *)
StartRefused(s) ==
    /\ Begins(s)
    /\ line = "tuple"
    /\ enabled' = FALSE
    /\ boxes' = TRUE
    /\ session' = 0 /\ model' = 0 /\ view' = 0 /\ shown' = shown \ {view} /\ asked' = 0
    /\ start' = [start EXCEPT ![s] = "over"]
    /\ UNCHANGED <<progress, line, request, edits>>

(* The start is given up, by an early return or by what it throws, which its  *)
(* caller catches: stopSynthesis in both cases.                               *)
GivesUp(s) ==
    /\ start' = [start EXCEPT ![s] = "over"]
    /\ StopSynthesis

(* defaultValue ends.  It reads the box of the current lineno; without one,   *)
(* or when the process it awaits is killed, it throws.                        *)
ValueEnds(s) ==
    /\ start[s] = "value"
    /\ \/ /\ GivesUp(s)
          /\ UNCHANGED <<line, handlers>>
       \/ /\ session # 0
          /\ line' = "default"
          /\ Noticed(boxes)
          /\ start' = [start EXCEPT ![s] = IF boxes THEN "update" ELSE "refused"]
          /\ UNCHANGED <<enabled, boxes, fields, asked>>
    /\ UNCHANGED <<request, edits>>

(* updateBoxes ends with a result, with an error in the program or rejected. *)
UpdateEnds(s) ==
    /\ start[s] = "update"
    /\ \/ GivesUp(s)
       \/ /\ boxes' = FALSE
          /\ model' = s
          /\ view' = s
          /\ start' = [start EXCEPT ![s] = "init"]
          /\ UNCHANGED <<enabled, session, shown, progress, asked>>
    /\ UNCHANGED <<line, request, handlers, edits>>

(* It ends without a result, for it was cancelled or refused: the boxes are   *)
(* disabled and the view is made all the same, before updateAllEnvs throws.   *)
UpdateEndsEmpty(s) ==
    /\ start[s] \in {"refused", "update"}
    /\ start' = [start EXCEPT ![s] = "over"]
    /\ IF enabled
         THEN /\ enabled' = FALSE /\ boxes' = TRUE
              /\ session' = 0 /\ model' = 0 /\ view' = 0 /\ asked' = 0
         ELSE /\ boxes' = FALSE /\ model' = s /\ view' = s
              /\ UNCHANGED <<enabled, session, asked>>
    /\ UNCHANGED <<shown, progress, line, request, handlers, edits>>

(* updateBoxContent of the start ends: the table is shown and its first cell  *)
(* selected, or there is an error, no cell, no synthesizer or no model left.  *)
InitEnds(s) ==
    /\ start[s] = "init"
    /\ \/ GivesUp(s)
       \/ /\ model # 0
          /\ shown' = shown \cup {view}
          /\ start' = [start EXCEPT ![s] = "over"]
          /\ UNCHANGED <<enabled, boxes, session, model, view, progress, asked>>
    /\ UNCHANGED <<line, request, handlers, edits>>
-----------------------------------------------------------------------------
(* A request: toggleElement, then synthesizeFragment *)

At(r, phase)   == request[r].at = phase
Goes(r, phase) == request' = [request EXCEPT ![r].at = phase]

(* Mutant of Writes: the fragment and the state are swapped. *)
WritesSwapped(state, words) ==
    /\ progress' = words
    /\ line' = state
    /\ Noticed(boxes)

(* insertFragment, when the state changes.  *)
Writes(state, words) ==
    /\ progress' = state
    /\ line' = words
    /\ Noticed(boxes)

(* handleRequestSynth, when no other key has come for a while.  The view may  *)
(* be gone by then, and without a model it throws.                            *)
DelayEnds(r) ==
    /\ At(r, "delay")
    /\ \/ Goes(r, "over")
       \/ model # 0 /\ Goes(r, "validate")
    /\ UNCHANGED <<enabled, boxes, fields, line, start, asked, handlers, edits>>

(* Validated: refused, or the example goes into the model that is there now. *)
ValidateEnds(r) ==
    /\ At(r, "validate")
    /\ \/ Goes(r, "over")
       \/ model # 0 /\ Goes(r, "run")
    /\ UNCHANGED <<enabled, boxes, fields, line, start, asked, handlers, edits>>

(* The program has run with the example.  The request that is asked now takes *)
(* the synthesizer from an earlier one.                                       *)
RunEnds(r) ==
    /\ At(r, "run")
    /\ \/ Goes(r, "over") /\ UNCHANGED <<progress, line, handlers, asked>>
       \/ /\ model # 0
          /\ session # 0
          /\ Goes(r, "synth")
          /\ asked' = r
          /\ IF progress = "Synthesizing"
               THEN UNCHANGED <<progress, line, handlers>>
               ELSE Writes("Synthesizing", "busy")
    /\ UNCHANGED <<enabled, boxes, session, model, view, shown, start, edits>>

(* Mutant of SynthEnds: the answer to a request that was cancelled is used.  *)
SynthEndsCancelled(r) ==
    /\ At(r, "synth")
    /\ asked' = IF asked = r THEN 0 ELSE asked
    /\ \/ Goes(r, "show") /\ Writes("HasProgram", "program")
       \/ Goes(r, "over") /\ Writes("Failed", "failed")
    /\ UNCHANGED <<enabled, boxes, session, model, view, shown, start, edits>>

(* The synthesizer has answered, with a program or without, or with nothing,  *)
(* as it does when the request was cancelled by stop or by a later one.       *)
SynthEnds(r) ==
    /\ At(r, "synth")
    /\ asked' = IF asked = r THEN 0 ELSE asked
    /\ \/ /\ asked = r /\ session # 0
          /\ \/ Goes(r, "show") /\ Writes("HasProgram", "program")
             \/ Goes(r, "over") /\ Writes("Failed", "failed")
       \/ Goes(r, "over") /\ UNCHANGED <<progress, line, handlers>>
    /\ UNCHANGED <<enabled, boxes, session, model, view, shown, start, edits>>

ShowEnds(r) ==
    /\ At(r, "show")
    /\ Goes(r, "over")
    /\ UNCHANGED <<enabled, boxes, fields, line, start, asked, handlers, edits>>

StartStep(s)   == StartSynthesis(s) \/ StartRefused(s) \/ ValueEnds(s) \/ UpdateEnds(s) \/ UpdateEndsEmpty(s) \/ InitEnds(s)
RequestStep(r) == Key(r) \/ DelayEnds(r) \/ ValidateEnds(r) \/ RunEnds(r) \/ SynthEnds(r) \/ ShowEnds(r)

Next ==
    /\ \/ Edit \/ Leave \/ HandlerEnds
       \/ \E s \in Starts : StartStep(s)
       \/ \E r \in Requests : RequestStep(r)
    /\ UNCHANGED habits

Spec == Init /\ [][Next]_vars
-----------------------------------------------------------------------------
(* Properties *)

(* Every variable keeps its type. *)
TypeOK ==
    /\ enabled \in BOOLEAN
    /\ boxes \in BOOLEAN
    /\ {session, model, view, 0} \subseteq {0} \cup Starts
    /\ shown \subseteq Starts
    /\ progress \in {"HasProgram", "Synthesizing", "Failed"}
    /\ line \in {"seed", "tuple", "user", "default", "busy", "failed", "program"}
    /\ start \in [Starts -> StartPhases]
    /\ request \in [Requests -> [at : RequestPhases, view : {0} \cup Starts]]
    /\ asked \in {0} \cup Requests
    /\ handlers \in 0..MaxHandlers
    /\ edits \in 0..MaxEdits
    /\ habits \subseteq Habits

(* "Then reset the Projection Boxes": they are disabled only while there is a *)
(* session that Escape ends, so a user who neither leaves nor starts a        *)
(* session while another one starts always gets them back.                    *)
BoxesReturn == habits \cap {"leave", "start"} = {} => (~boxes => enabled)

(* For this user, a table that is shown is the only one, the one that         *)
(* stopSynthesis destroys; its cells work on its own model and its own line,  *)
(* and nothing updates the box behind it.                                     *)
TableIsWhole ==
    habits \cap {"leave", "start"} = {} /\ shown # {} =>
        /\ shown = {view}
        /\ model = view
        /\ session = view
        /\ enabled
        /\ ~boxes

(* While a table is shown and editorState says so, the line says that the     *)
(* synthesizer is at work or has failed, and the return key is refused;       *)
(* otherwise it has a program in it.  A request of an earlier session that    *)
(* goes on into the next one does no harm, unless the user types as well.     *)
LineSaysProgress ==
    habits \cap {"leave", "start"} = {} /\ habits # {"type", "request"} /\ shown # {} =>
        /\ progress = "Synthesizing" <=> line = "busy"
        /\ progress = "Failed" <=> line = "failed"

(* A fragment that is written into the line answers the last request made,    *)
(* none that was cancelled.                                                   *)
LastRequestAnswers ==
    [][line' = "program" /\ line # "program" => asked # 0 /\ asked' = 0]_vars

(* When no session is going on only the user changes the line, whatever was   *)
(* awaited when it ended.                                                     *)
QuietWhenOver == [][~enabled /\ line' # line => edits' # edits]_vars
=============================================================================
