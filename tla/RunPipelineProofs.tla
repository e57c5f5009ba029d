------------------------- MODULE RunPipelineProofs -------------------------
(***************************************************************************)
(* Theorems about RunPipeline, for every value of its constants.           *)
(***************************************************************************)
EXTENDS RunPipeline, SequenceTheorems, TLAPS

-----------------------------------------------------------------------------
(* Types of the helpers of the call steps. *)

LEMMA UpdateBoxesType ==
    ASSUME TypeOK, NEW e \in 0..MaxVersion, NEW immediate \in BOOLEAN,
           MayCall, UpdateBoxes(e, immediate)
    PROVE  /\ upc' \in [Updates -> Phases]
           /\ edit' \in [Updates -> 0..MaxVersion]
           /\ prog' \in [Updates -> Programs]
           /\ timer' \in Updates \cup {None}
           /\ micro' \in Seq(Updates)
           /\ calls' \in 0..TurnCalls
<1>1. PICK u \in Updates :
        /\ upc' = [RejectPending EXCEPT ![u] = IF immediate THEN "ready" ELSE "delay"]
        /\ timer' = IF immediate THEN None ELSE u
        /\ micro' = IF immediate THEN Append(micro, u) ELSE micro
        /\ calls' = IF LoopIdle THEN 1 ELSE calls + 1
        /\ edit' = [edit EXCEPT ![u] = e]
        /\ UNCHANGED prog
  BY DEF UpdateBoxes
<1>2. RejectPending \in [Updates -> Phases]
  BY DEF TypeOK, RejectPending, Phases
<1>3. upc' \in [Updates -> Phases]
  BY <1>1, <1>2 DEF Phases
<1>4. calls' \in 0..TurnCalls
  BY <1>1, PipelineAssumption DEF TypeOK, MayCall
<1>5. QED
  BY <1>1, <1>3, <1>4 DEF TypeOK

LEMMA UpdateBoxesNoEventType ==
    ASSUME TypeOK, MayCall, UpdateBoxes(0, TRUE)
    PROVE  /\ upc' \in [Updates -> Phases]
           /\ edit' \in [Updates -> 0..MaxVersion]
           /\ prog' \in [Updates -> Programs]
           /\ timer' \in Updates \cup {None}
           /\ micro' \in Seq(Updates)
           /\ calls' \in 0..TurnCalls
<1>1. 0 \in 0..MaxVersion
  BY PipelineAssumption
<1>2. TRUE \in BOOLEAN
  OBVIOUS
<1>3. QED
  BY <1>1, <1>2, UpdateBoxesType

LEMMA NewTextType ==
    ASSUME TypeOK, NEW k \in Kinds, NewText(k)
    PROVE  /\ doc' \in [ver : 1..MaxVersion, kind : Kinds]
           /\ doc.ver + 1 \in 1..MaxVersion
  BY PipelineAssumption DEF TypeOK, NewText

-----------------------------------------------------------------------------
LEMMA InitType == Init => TypeOK
  BY PipelineAssumption
  DEF Init, TypeOK, Updates, None, Programs, NoProgram, Contents, Missing, Empty,
      AllKinds, Phases, ProcPhases

LEMMA UserType == TypeOK /\ UserStep => TypeOK'
<1> SUFFICES ASSUME TypeOK, UserStep PROVE TypeOK'
  OBVIOUS
<1>1. ASSUME NEW k \in Kinds, NEW spansLines \in BOOLEAN, Edit(k, spansLines)
      PROVE  TypeOK'
  <2>1. doc' \in [ver : 1..MaxVersion, kind : Kinds] /\ doc.ver + 1 \in 0..MaxVersion
    BY <1>1, NewTextType, PipelineAssumption DEF Edit
  <2>2. CASE enabled
    BY <1>1, <2>1, <2>2, UpdateBoxesType DEF Edit, TypeOK, procVars, viewVars
  <2>3. CASE ~enabled
    BY <1>1, <2>1, <2>3 DEF Edit, TypeOK, procVars, viewVars, callVars
  <2>4. QED
    BY <2>2, <2>3
<1>2. ASSUME NEW k \in Kinds, SwitchModel(k)
      PROVE  TypeOK'
  <2>1. doc' \in [ver : 1..MaxVersion, kind : Kinds] /\ doc.ver + 1 \in 1..MaxVersion
    BY <1>2, NewTextType DEF SwitchModel
  <2>2. CASE enabled
    BY <1>2, <2>1, <2>2, UpdateBoxesNoEventType, PipelineAssumption
    DEF SwitchModel, TypeOK, procVars, viewVars
  <2>3. CASE ~enabled
    BY <1>2, <2>1, <2>3, PipelineAssumption
    DEF SwitchModel, TypeOK, procVars, viewVars, callVars
  <2>4. QED
    BY <2>2, <2>3
<1>3. CASE Refresh
  BY <1>3, UpdateBoxesNoEventType, PipelineAssumption
  DEF Refresh, TypeOK, editorVars, procVars, viewVars
<1>4. CASE Disable
  BY <1>4 DEF Disable, TypeOK, callVars, procVars, viewVars
<1>5. CASE Resume
  BY <1>5, UpdateBoxesNoEventType, PipelineAssumption
  DEF Resume, TypeOK, procVars
<1>6. QED
  BY <1>1, <1>2, <1>3, <1>4, <1>5 DEF UserStep

LEMMA HostType ==
    ASSUME TypeOK, NEW u \in Updates, HostStep(u)
    PROVE  TypeOK'
<1>1. CASE TimerFires(u)
  BY <1>1, PipelineAssumption
  DEF TimerFires, TypeOK, Phases, editorVars, procVars, viewVars
<1>2. CASE RunProgram(u)
  <2>1. doc \in Programs
    BY PipelineAssumption DEF TypeOK, Programs
  <2>2. Tail(micro) \in Seq(Updates)
    BY <1>2 DEF RunProgram, TypeOK
  <2>3. CASE python = None
    <3>1. /\ upc' = [upc EXCEPT ![u] = "running"]
          /\ micro' = Tail(micro)
          /\ Spawn(u, doc)
      BY <1>2, <2>3 DEF RunProgram
    <3>2. phase' \in [Updates -> ProcPhases] /\ upc' \in [Updates -> Phases]
      BY <3>1 DEF Spawn, TypeOK, Phases, ProcPhases
    <3>3. prog' \in [Updates -> Programs] /\ calls' \in 0..TurnCalls
      BY <1>2, <2>1, PipelineAssumption DEF RunProgram, TypeOK
    <3>4. QED
      BY <1>2, <2>1, <2>2, <3>1, <3>2, <3>3
      DEF RunProgram, Spawn, TypeOK, editorVars, viewVars
  <2>4. CASE python # None
    <3>1. phase' \in [Updates -> ProcPhases]
      BY <1>2, <2>4 DEF RunProgram, Killed, TypeOK, ProcPhases
    <3>2. upc' \in [Updates -> Phases]
      BY <1>2, <2>4 DEF RunProgram, RejectAwaiting, TypeOK, Phases
    <3>3. prog' \in [Updates -> Programs] /\ calls' \in 0..TurnCalls
      BY <1>2, <2>1, PipelineAssumption DEF RunProgram, TypeOK
    <3>4. micro' \in Seq(Updates)
      BY <1>2, <2>2, <2>4 DEF RunProgram
    <3>5. UNCHANGED <<python, loaded, tmp, out, timer, edit, doc, opened, enabled,
                      shown, errPending, errShown, stale>>
      BY <1>2, <2>4 DEF RunProgram, editorVars, viewVars
    <3>6. QED
      BY <3>1, <3>2, <3>3, <3>4, <3>5 DEF TypeOK
  <2>5. QED
    BY <2>3, <2>4
<1>3. CASE SpawnAfterKill(u)
  <2>1. Tail(micro) \in Seq(Updates)
    BY <1>3 DEF SpawnAfterKill, TypeOK
  <2>2. QED
    BY <1>3, <2>1, PipelineAssumption
    DEF SpawnAfterKill, Spawn, TypeOK, Phases, ProcPhases, editorVars, viewVars
<1>4. CASE ExitEvent(u)
  <2>1. phase' \in [Updates -> ProcPhases]
    BY <1>4 DEF ExitEvent, TypeOK, ProcPhases
  <2>2. upc' \in [Updates -> Phases] /\ python' \in Updates \cup {None}
    BY <1>4 DEF ExitEvent, TypeOK, Phases
  <2>3. /\ shown' \in 0..MaxVersion
        /\ errPending' \in 0..MaxVersion
        /\ errShown' \in 0..MaxVersion
        /\ stale' \subseteq 1..MaxVersion
    <3>1. CASE UNCHANGED viewVars
      BY <3>1 DEF TypeOK, viewVars
    <3>2. CASE out \in Programs /\ Apply(u, out)
      <4>1. stale' \subseteq 1..MaxVersion
        <5>1. edit[u] \in 0..MaxVersion
          BY DEF TypeOK
        <5>2. edit[u] # 0 => edit[u] \in 1..MaxVersion
          BY <5>1, PipelineAssumption
        <5>3. StaleAfter(u, out) \subseteq 1..MaxVersion
          BY <5>2 DEF StaleAfter, TypeOK
        <5>4. QED
          BY <3>2, <5>3 DEF Apply
      <4>2. QED
        BY <3>2, <4>1, PipelineAssumption DEF Apply, TypeOK, Programs
    <3>3. QED
      BY <1>4, <3>1, <3>2 DEF ExitEvent
  <2>4. QED
    BY <1>4, <2>1, <2>2, <2>3 DEF ExitEvent, TypeOK, editorVars
<1>5. CASE Layout(u)
  BY <1>5 DEF Layout, TypeOK, Phases, editorVars, procVars, viewVars
<1>6. QED
  BY <1>1, <1>2, <1>3, <1>4, <1>5 DEF HostStep

LEMMA PythonType ==
    ASSUME TypeOK, NEW u \in Updates, PythonStep(u)
    PROVE  TypeOK'
<1>1. CASE Load(u)
  BY <1>1 DEF Load, TypeOK, ProcPhases, editorVars, callVars, viewVars
<1>2. CASE Truncate(u)
  BY <1>2 DEF Truncate, TypeOK, ProcPhases, Contents, editorVars, callVars, viewVars
<1>3. CASE Write(u)
  BY <1>3 DEF Write, TypeOK, ProcPhases, Contents, editorVars, callVars, viewVars
<1>4. CASE Exit(u)
  BY <1>4 DEF Exit, TypeOK, ProcPhases, editorVars, callVars, viewVars
<1>5. QED
  BY <1>1, <1>2, <1>3, <1>4 DEF PythonStep

LEMMA NextType == TypeOK /\ [Next]_vars => TypeOK'
<1> SUFFICES ASSUME TypeOK, [Next]_vars PROVE TypeOK'
  OBVIOUS
<1>1. CASE UserStep
  BY <1>1, UserType
<1>2. ASSUME NEW u \in Updates, HostStep(u) \/ PythonStep(u) PROVE TypeOK'
  BY <1>2, HostType, PythonType
<1>3. CASE ShowError
  BY <1>3, PipelineAssumption DEF ShowError, TypeOK, editorVars, callVars, procVars
<1>4. CASE UNCHANGED vars
  BY <1>4 DEF vars, editorVars, callVars, procVars, viewVars, TypeOK
<1>5. QED
  BY <1>1, <1>2, <1>3, <1>4 DEF Next

(* Every variable of the pipeline keeps its type, whatever the bounds, the    *)
(* kinds of programs and the number of calls of one turn.                     *)
THEOREM TypeCorrect == Spec => []TypeOK
  BY InitType, NextType, PTL DEF Spec

-----------------------------------------------------------------------------
(***************************************************************************)
(* One process at a time.  OneAtATime is inductive when a turn makes one   *)
(* call: the call that runs from the queue is then alone there, so between *)
(* its kill and its spawn no other call can spawn.                         *)
(***************************************************************************)

LEMMA SingletonQueue ==
    ASSUME micro \in Seq(Updates), Len(micro) <= 1, NEW u \in Updates,
           micro # <<>>, u = Head(micro)
    PROVE  micro = <<u>> /\ Tail(micro) = <<>> /\ Append(Tail(micro), u) = <<u>>
<1>1. Len(micro) = 1
  <2>1. Len(micro) \in Nat \ {0}
    BY EmptySeq
  <2>2. QED
    BY <2>1
<1>2. micro[1] = u
  BY <1>1
<1>3. micro = <<u>>
  BY <1>1, <1>2
<1>4. Tail(micro) \in Seq(Updates) /\ Len(Tail(micro)) = 0
  BY <1>1
<1>5. Tail(micro) = <<>>
  BY <1>4, EmptySeq
<1>6. QED
  BY <1>3, <1>5

LEMMA ShortQueue == \A u \in Updates : Len(<<>>) <= 1 /\ Len(<<u>>) <= 1
<1>1. Len(<<>>) = 0
  BY LenProperties
<1>2. QED
  BY <1>1

LEMMA CallAlone ==
    ASSUME TypeOK, OneAtATime, TurnCalls = 1, MayCall,
           NEW e \in 0..MaxVersion, NEW immediate \in BOOLEAN,
           UpdateBoxes(e, immediate), UNCHANGED <<python, phase>>
    PROVE  OneAtATime'
<1>1. PICK u \in Updates :
        /\ upc[u] = "unused"
        /\ upc' = [RejectPending EXCEPT ![u] = IF immediate THEN "ready" ELSE "delay"]
        /\ micro' = IF immediate THEN Append(micro, u) ELSE micro
  BY DEF UpdateBoxes
<1>2. micro = <<>>
  BY DEF MayCall, LoopIdle, TypeOK
<1>3. \A v \in Updates : upc[v] \notin {"ready", "killing"}
  BY <1>2 DEF OneAtATime
<1>4. \A v \in Updates : upc'[v] = IF v = u THEN (IF immediate THEN "ready" ELSE "delay")
                                  ELSE RejectPending[v]
  BY <1>1 DEF TypeOK, RejectPending
<1>5. \A v \in Updates : v # u => upc'[v] = upc[v] \/ (upc[v] = "delay" /\ upc'[v] = "cancelled")
  BY <1>4 DEF RejectPending
<1>6. micro' = <<>> \/ micro' = <<u>>
  BY <1>1, <1>2
<1>7. Len(micro') <= 1
  BY <1>6, ShortQueue
<1>8. \A v \in Updates : upc'[v] \in {"ready", "killing"} => micro' = <<v>>
  BY <1>1, <1>2, <1>3, <1>4, <1>5
<1>9. \A v \in Updates : upc'[v] = "running" <=> upc[v] = "running"
  BY <1>1, <1>4, <1>5
<1>10. \A v \in Updates : Alive(v)' = Alive(v)
  BY DEF Alive
<1>11. \A v \in Updates : upc'[v] # "killing"
  BY <1>3, <1>4, <1>5
<1>12. QED
  BY <1>7, <1>8, <1>9, <1>10, <1>11 DEF OneAtATime

LEMMA CallAloneNoEvent ==
    ASSUME TypeOK, OneAtATime, TurnCalls = 1, MayCall, UpdateBoxes(0, TRUE),
           UNCHANGED <<python, phase>>
    PROVE  OneAtATime'
<1>1. 0 \in 0..MaxVersion /\ TRUE \in BOOLEAN
  BY PipelineAssumption
<1>2. QED
  BY <1>1, CallAlone

LEMMA SameCalls ==
    ASSUME OneAtATime, UNCHANGED <<upc, micro, python, phase>>
    PROVE  OneAtATime'
  BY DEF OneAtATime, Alive

LEMMA UserAlone ==
    ASSUME TypeOK, OneAtATime, TurnCalls = 1, UserStep
    PROVE  OneAtATime'
<1>1. ASSUME NEW k \in Kinds, NEW spansLines \in BOOLEAN, Edit(k, spansLines)
      PROVE  OneAtATime'
  <2>1. doc.ver + 1 \in 0..MaxVersion
    BY <1>1, NewTextType, PipelineAssumption DEF Edit
  <2>2. CASE enabled
    BY <1>1, <2>1, <2>2, CallAlone DEF Edit, procVars
  <2>3. CASE ~enabled
    BY <1>1, <2>3, SameCalls DEF Edit, procVars, callVars
  <2>4. QED
    BY <2>2, <2>3
<1>2. ASSUME NEW k \in Kinds, SwitchModel(k)
      PROVE  OneAtATime'
  <2>1. CASE enabled
    BY <1>2, <2>1, CallAloneNoEvent DEF SwitchModel, procVars
  <2>2. CASE ~enabled
    BY <1>2, <2>2, SameCalls DEF SwitchModel, procVars, callVars
  <2>3. QED
    BY <2>1, <2>2
<1>3. CASE Refresh
  BY <1>3, CallAloneNoEvent DEF Refresh, procVars
<1>4. CASE Disable
  BY <1>4, SameCalls DEF Disable, procVars, callVars
<1>5. CASE Resume
  BY <1>5, CallAloneNoEvent DEF Resume, procVars
<1>6. QED
  BY <1>1, <1>2, <1>3, <1>4, <1>5 DEF UserStep

LEMMA HostAlone ==
    ASSUME TypeOK, OneAtATime, NEW u \in Updates, HostStep(u)
    PROVE  OneAtATime'
<1> USE DEF TypeOK
<1>1. CASE TimerFires(u)
  <2>1. micro = <<>> /\ micro' = <<u>>
    BY <1>1 DEF TimerFires, LoopIdle
  <2>2. \A v \in Updates : upc[v] \notin {"ready", "killing"}
    BY <2>1 DEF OneAtATime
  <2>3. \A v \in Updates : upc'[v] = IF v = u THEN "ready" ELSE upc[v]
    BY <1>1 DEF TimerFires
  <2>4. UNCHANGED <<python, phase>> /\ upc[u] = "delay"
    BY <1>1 DEF TimerFires, procVars
  <2>5. QED
    BY <2>1, <2>2, <2>3, <2>4 DEF OneAtATime, Alive
<1>2. CASE RunProgram(u)
  <2>1. micro = <<u>> /\ Tail(micro) = <<>> /\ Append(Tail(micro), u) = <<u>>
    BY <1>2, SingletonQueue DEF RunProgram, OneAtATime
  <2>2. \A v \in Updates : v # u => upc[v] \notin {"ready", "killing"}
    BY <2>1 DEF OneAtATime
  <2>3. upc[u] = "ready"
    BY <1>2 DEF RunProgram
  <2>4. CASE python = None
    <3>1. /\ micro' = <<>>
          /\ python' = u
          /\ \A v \in Updates : upc'[v] = IF v = u THEN "running" ELSE upc[v]
          /\ \A v \in Updates : phase'[v] = IF v = u THEN "starting" ELSE phase[v]
      BY <1>2, <2>1, <2>4 DEF RunProgram, Spawn
    <3>2. \A v \in Updates : upc[v] # "running"
      BY <2>4 DEF OneAtATime, Updates, None
    <3>3. \A v \in Updates : ~Alive(v)
      BY <3>2 DEF OneAtATime
    <3>4. QED
      BY <2>2, <3>1, <3>2, <3>3, ShortQueue DEF OneAtATime, Alive
  <2>5. CASE python # None
    <3>1. python \in Updates
      BY <2>5
    <3>2. /\ micro' = <<u>>
          /\ python' = python
          /\ \A v \in Updates : upc'[v] = IF v = u THEN "killing"
                                          ELSE RejectAwaiting(python)[v]
          /\ phase' = Killed(python)
      BY <1>2, <2>1, <2>5 DEF RunProgram, RejectAwaiting
    <3>3. \A v \in Updates : upc'[v] # "running"
      <4>1. \A v \in Updates : upc[v] = "running" => v = python
        BY DEF OneAtATime
      <4>2. QED
        BY <3>1, <3>2, <4>1 DEF RejectAwaiting
    <3>4. \A v \in Updates : ~Alive(v)'
      <4>1. \A v \in Updates : Alive(v) => v = python
        BY DEF OneAtATime
      <4>2. QED
        BY <3>1, <3>2, <4>1 DEF Killed, Alive
    <3>5. \A v \in Updates : v # u => upc'[v] \notin {"ready", "killing"}
      BY <2>2, <3>1, <3>2 DEF RejectAwaiting
    <3>6. QED
      BY <3>2, <3>3, <3>4, <3>5 DEF OneAtATime
  <2>6. QED
    BY <2>4, <2>5
<1>3. CASE SpawnAfterKill(u)
  <2>1. micro = <<u>> /\ Tail(micro) = <<>>
    BY <1>3, SingletonQueue DEF SpawnAfterKill, OneAtATime
  <2>2. \A v \in Updates : v # u => upc[v] \notin {"ready", "killing"}
    BY <2>1 DEF OneAtATime
  <2>3. \A v \in Updates : upc[v] # "running" /\ ~Alive(v)
    BY <1>3 DEF SpawnAfterKill, OneAtATime
  <2>4. /\ micro' = <<>>
        /\ python' = u
        /\ \A v \in Updates : upc'[v] = IF v = u THEN "running" ELSE upc[v]
        /\ \A v \in Updates : phase'[v] = IF v = u THEN "starting" ELSE phase[v]
    BY <1>3, <2>1 DEF SpawnAfterKill, Spawn
  <2>5. QED
    BY <2>2, <2>3, <2>4, ShortQueue DEF OneAtATime, Alive
<1>4. CASE ExitEvent(u)
  <2>1. \A v \in Updates : phase'[v] = IF v = u THEN "reaped" ELSE phase[v]
    BY <1>4 DEF ExitEvent
  <2>2. micro' = micro /\ phase[u] = "exited"
    BY <1>4 DEF ExitEvent
  <2>3. CASE UNCHANGED <<upc, python>>
    BY <2>1, <2>2, <2>3 DEF OneAtATime, Alive
  <2>4. CASE /\ upc[u] = "running"
             /\ \E s \in {"rejected", "layout"} : upc' = [upc EXCEPT ![u] = s]
    <3>1. \A v \in Updates : upc[v] = "running" => v = u
      BY <2>4 DEF OneAtATime
    <3>2. \A v \in Updates : upc'[v] = "running" => FALSE
      BY <2>4, <3>1
    <3>3. \A v \in Updates : ~Alive(v)'
      BY <2>1, <2>2, <3>1 DEF OneAtATime, Alive
    <3>4. \A v \in Updates : upc'[v] \in {"ready", "killing"} => upc[v] = upc'[v]
      BY <2>4
    <3>5. QED
      BY <2>2, <3>2, <3>3, <3>4 DEF OneAtATime
  <2>5. QED
    BY <1>4, <2>3, <2>4 DEF ExitEvent
<1>5. CASE Layout(u)
  <2>1. \A v \in Updates : upc'[v] = IF v = u THEN "done" ELSE upc[v]
    BY <1>5 DEF Layout
  <2>2. UNCHANGED <<micro, python, phase>> /\ upc[u] = "layout"
    BY <1>5 DEF Layout, procVars
  <2>3. QED
    BY <2>1, <2>2 DEF OneAtATime, Alive
<1>6. QED
  BY <1>1, <1>2, <1>3, <1>4, <1>5 DEF HostStep

LEMMA PythonAlone ==
    ASSUME TypeOK, OneAtATime, NEW u \in Updates, PythonStep(u)
    PROVE  OneAtATime'
<1>1. UNCHANGED <<upc, micro, python>>
  BY DEF PythonStep, Load, Truncate, Write, Exit, callVars
<1>2. \A v \in Updates : Alive(v)' => Alive(v)
  BY DEF PythonStep, Load, Truncate, Write, Exit, Alive, TypeOK
<1>3. QED
  BY <1>1, <1>2 DEF OneAtATime

LEMMA NextAlone ==
    ASSUME TurnCalls = 1
    PROVE  TypeOK /\ OneAtATime /\ [Next]_vars => OneAtATime'
<1> SUFFICES ASSUME TypeOK, OneAtATime, [Next]_vars PROVE OneAtATime'
  OBVIOUS
<1>1. CASE UserStep
  BY <1>1, UserAlone
<1>2. ASSUME NEW u \in Updates, HostStep(u) \/ PythonStep(u) PROVE OneAtATime'
  BY <1>2, HostAlone, PythonAlone
<1>3. CASE ShowError
  BY <1>3, SameCalls DEF ShowError, callVars, procVars
<1>4. CASE UNCHANGED vars
  BY <1>4, SameCalls DEF vars, callVars, procVars
<1>5. QED
  BY <1>1, <1>2, <1>3, <1>4 DEF Next

LEMMA InitAlone == Init => OneAtATime
<1> SUFFICES ASSUME Init PROVE OneAtATime
  OBVIOUS
<1>1. Len(micro) <= 1
  BY DEF Init
<1>2. \A u \in Updates : upc[u] \in {"ready", "killing"} => micro = <<u>>
  BY DEF Init
<1>3. \A u \in Updates : upc[u] # "running" /\ upc[u] # "killing" /\ ~Alive(u)
  BY DEF Init, Alive
<1>4. QED
  BY <1>1, <1>2, <1>3 DEF OneAtATime

(* While a turn makes one call of updateBoxes, the process that pythonProcess *)
(* names is the only one alive: the kill in runProgram misses none.           *)
THEOREM OneProcess ==
    ASSUME TurnCalls = 1
    PROVE  Spec => []AtMostOneAlive
<1>1. OneAtATime => AtMostOneAlive
  BY DEF OneAtATime, AtMostOneAlive
<1>2. TypeOK /\ OneAtATime /\ [Next]_vars => TypeOK' /\ OneAtATime'
  BY NextType, NextAlone
<1>3. Init => TypeOK /\ OneAtATime
  BY InitType, InitAlone
<1>4. QED
  BY <1>1, <1>2, <1>3, PTL DEF Spec

-----------------------------------------------------------------------------
(***************************************************************************)
(* The shared files.  A call that awaits its process is the only one, and  *)
(* a process that is alive belongs to it, so nobody else writes tmp.py or  *)
(* tmp.py.out from its spawn until its exit is handled.                    *)
(***************************************************************************)

LEMMA SameFiles ==
    ASSUME OwnFiles, UNCHANGED <<phase, loaded, tmp, out, prog>>,
           \A v \in Updates : upc'[v] = "running" => upc[v] = "running"
    PROVE  OwnFiles'
  BY DEF OwnFiles

LEMMA CallKeepsFiles ==
    ASSUME TypeOK, OwnFiles, NEW e \in 0..MaxVersion, NEW immediate \in BOOLEAN,
           UpdateBoxes(e, immediate), UNCHANGED procVars
    PROVE  OwnFiles'
<1>1. PICK u \in Updates :
        upc' = [RejectPending EXCEPT ![u] = IF immediate THEN "ready" ELSE "delay"]
  BY DEF UpdateBoxes
<1>2. \A v \in Updates : upc'[v] = "running" => upc[v] = "running"
  BY <1>1 DEF RejectPending
<1>3. UNCHANGED prog
  BY DEF UpdateBoxes
<1>4. QED
  BY <1>2, <1>3, SameFiles DEF procVars

LEMMA UserKeepsFiles ==
    ASSUME TypeOK, OwnFiles, UserStep
    PROVE  OwnFiles'
<1> 0 \in 0..MaxVersion /\ TRUE \in BOOLEAN
  BY PipelineAssumption
<1>1. ASSUME NEW k \in Kinds, NEW spansLines \in BOOLEAN, Edit(k, spansLines)
      PROVE  OwnFiles'
  <2>1. doc.ver + 1 \in 0..MaxVersion
    BY <1>1, NewTextType, PipelineAssumption DEF Edit
  <2>2. CASE enabled
    BY <1>1, <2>1, <2>2, CallKeepsFiles DEF Edit
  <2>3. CASE ~enabled
    BY <1>1, <2>3, SameFiles DEF Edit, procVars, callVars
  <2>4. QED
    BY <2>2, <2>3
<1>2. ASSUME NEW k \in Kinds, SwitchModel(k)
      PROVE  OwnFiles'
  <2>1. CASE enabled
    BY <1>2, <2>1, CallKeepsFiles DEF SwitchModel
  <2>2. CASE ~enabled
    BY <1>2, <2>2, SameFiles DEF SwitchModel, procVars, callVars
  <2>3. QED
    BY <2>1, <2>2
<1>3. CASE Refresh
  BY <1>3, CallKeepsFiles DEF Refresh
<1>4. CASE Disable
  BY <1>4, SameFiles DEF Disable, procVars, callVars
<1>5. CASE Resume
  BY <1>5, CallKeepsFiles DEF Resume
<1>6. QED
  BY <1>1, <1>2, <1>3, <1>4, <1>5 DEF UserStep

(* A spawn makes u the only call that awaits a process, with its text in tmp. *)
LEMMA SpawnOwnsFiles ==
    ASSUME TypeOK, OneAtATime', NEW u \in Updates,
           tmp' = prog'[u], phase'[u] = "starting", python' = u
    PROVE  OwnFiles'
<1>1. \A v \in Updates : upc'[v] = "running" => v = u
  BY DEF OneAtATime
<1>2. QED
  BY <1>1 DEF OwnFiles

LEMMA HostKeepsFiles ==
    ASSUME TypeOK, OneAtATime, OneAtATime', OwnFiles, NEW u \in Updates, HostStep(u)
    PROVE  OwnFiles'
<1> USE DEF TypeOK
<1>1. CASE TimerFires(u)
  BY <1>1, SameFiles DEF TimerFires, procVars
<1>2. CASE RunProgram(u)
  <2>1. prog'[u] = doc
    BY <1>2 DEF RunProgram
  <2>2. CASE python = None
    <3>1. tmp' = doc /\ phase'[u] = "starting" /\ python' = u
      BY <1>2, <2>2 DEF RunProgram, Spawn
    <3>2. QED
      BY <2>1, <3>1, SpawnOwnsFiles
  <2>3. CASE python # None
    <3>1. upc'[u] = "killing"
      BY <1>2, <2>3 DEF RunProgram, RejectAwaiting
    <3>2. \A v \in Updates : upc'[v] # "running"
      BY <3>1 DEF OneAtATime
    <3>3. QED
      BY <3>2 DEF OwnFiles
  <2>4. QED
    BY <2>2, <2>3
<1>3. CASE SpawnAfterKill(u)
  <2>1. tmp' = prog'[u] /\ phase'[u] = "starting" /\ python' = u
    BY <1>3 DEF SpawnAfterKill, Spawn
  <2>2. QED
    BY <2>1, SpawnOwnsFiles
<1>4. CASE ExitEvent(u)
  <2>1. \A v \in Updates : phase'[v] = IF v = u THEN "reaped" ELSE phase[v]
    BY <1>4 DEF ExitEvent
  <2>2. \A v \in Updates : upc'[v] = "running" => upc[v] = "running"
    BY <1>4 DEF ExitEvent
  <2>3. UNCHANGED <<loaded, tmp, out, prog>>
    BY <1>4 DEF ExitEvent
  <2>4. QED
    BY <2>1, <2>2, <2>3 DEF OwnFiles
<1>5. CASE Layout(u)
  BY <1>5, SameFiles DEF Layout, procVars
<1>6. QED
  BY <1>1, <1>2, <1>3, <1>4, <1>5 DEF HostStep

LEMMA PythonKeepsFiles ==
    ASSUME TypeOK, OneAtATime, OwnFiles, NEW u \in Updates, PythonStep(u)
    PROVE  OwnFiles'
<1> USE DEF TypeOK
<1>1. UNCHANGED <<upc, prog>>
  BY DEF PythonStep, Load, Truncate, Write, Exit, callVars
<1>2. CASE Load(u)
  <2>1. upc[u] = "running"
    BY <1>2 DEF Load, OneAtATime, Alive
  <2>2. /\ \A v \in Updates : phase'[v] = IF v = u THEN "executing" ELSE phase[v]
        /\ \A v \in Updates : loaded'[v] = IF v = u THEN tmp ELSE loaded[v]
        /\ UNCHANGED <<tmp, out>>
    BY <1>2 DEF Load
  <2>3. tmp = prog[u]
    BY <1>2, <2>1 DEF Load, OwnFiles
  <2>4. QED
    BY <1>1, <2>2, <2>3 DEF OwnFiles
<1>3. CASE Truncate(u)
  <2>1. \A v \in Updates : upc[v] = "running" => v = u
    BY <1>3 DEF Truncate, OneAtATime, Alive
  <2>2. phase[u] = "executing" /\ phase'[u] = "truncated" /\ UNCHANGED <<loaded, tmp>>
    BY <1>3 DEF Truncate
  <2>3. QED
    BY <1>1, <2>1, <2>2 DEF OwnFiles
<1>4. CASE Write(u)
  <2>1. \A v \in Updates : upc[v] = "running" => v = u
    BY <1>4 DEF Write, OneAtATime, Alive
  <2>2. /\ phase[u] = "truncated" /\ phase'[u] = "written"
        /\ out' = loaded[u] /\ UNCHANGED <<loaded, tmp>>
    BY <1>4 DEF Write
  <2>3. QED
    BY <1>1, <2>1, <2>2 DEF OwnFiles
<1>5. CASE Exit(u)
  <2>1. \A v \in Updates : upc[v] = "running" => v = u
    BY <1>5 DEF Exit, OneAtATime, Alive
  <2>2. /\ phase'[u] = "exited" /\ UNCHANGED <<loaded, tmp, out>>
        /\ phase[u] = "written" \/ (phase[u] = "executing" /\ loaded[u].kind = "silent")
    BY <1>5 DEF Exit
  <2>3. QED
    BY <1>1, <2>1, <2>2 DEF OwnFiles
<1>6. QED
  BY <1>2, <1>3, <1>4, <1>5 DEF PythonStep

(* While a turn makes one call of updateBoxes, a run that is awaited finds    *)
(* its own program in tmp.py and its own result in tmp.py.out.                *)
THEOREM FilesAreOwn ==
    ASSUME TurnCalls = 1
    PROVE  Spec => []OwnFiles
<1>1. Init => OwnFiles
  BY DEF Init, OwnFiles
<1>2. TypeOK /\ OneAtATime /\ OneAtATime' /\ OwnFiles /\ [Next]_vars => OwnFiles'
  <2> SUFFICES ASSUME TypeOK, OneAtATime, OneAtATime', OwnFiles, [Next]_vars
               PROVE  OwnFiles'
    OBVIOUS
  <2>1. CASE UserStep
    BY <2>1, UserKeepsFiles
  <2>2. ASSUME NEW u \in Updates, HostStep(u) \/ PythonStep(u) PROVE OwnFiles'
    BY <2>2, HostKeepsFiles, PythonKeepsFiles
  <2>3. CASE ShowError
    BY <2>3, SameFiles DEF ShowError, callVars, procVars
  <2>4. CASE UNCHANGED vars
    BY <2>4, SameFiles DEF vars, callVars, procVars
  <2>5. QED
    BY <2>1, <2>2, <2>3, <2>4 DEF Next
<1>3. TypeOK /\ OneAtATime /\ [Next]_vars => TypeOK' /\ OneAtATime'
  BY NextType, NextAlone
<1>4. Init => TypeOK /\ OneAtATime
  BY InitType, InitAlone
<1>5. QED
  BY <1>1, <1>2, <1>3, <1>4, PTL DEF Spec

-----------------------------------------------------------------------------
(***************************************************************************)
(* What the boxes show while TurnCalls is 1: errors are newer than values, *)
(* the boxes never go back to an older text, and once all has settled they *)
(* show the text in the editor.                                            *)
(***************************************************************************)

(* Every program text that is kept somewhere. *)
Texts == {doc, tmp, out} \cup {prog[u] : u \in Updates} \cup {loaded[u] : u \in Updates}

Waiting(u) == upc[u] \in {"delay", "ready"}
Awaits(u)  == upc[u] \in {"killing", "running"}

(* Nothing is newer than the text in the editor. *)
Past ==
    /\ \A t \in Texts : t.ver <= doc.ver
    /\ opened <= doc.ver
    /\ shown <= doc.ver
    /\ errPending <= doc.ver
    /\ errShown <= doc.ver

(* A version is one text, and the version on screen one that ran well. *)
OneTextPerVersion ==
    /\ \A s, t \in Texts : s.ver = t.ver /\ s.ver # 0 => s = t
    /\ \A t \in Texts : t.ver = shown /\ shown # 0 => t.kind = "ok"

(* A run under way and the result on disk are not older than the screen. *)
RunsAreNewer ==
    /\ \A u \in Updates : Awaits(u) => 1 <= prog[u].ver /\ shown <= prog[u].ver
    /\ out \in Programs => 1 <= out.ver /\ shown <= out.ver

Versions == Past /\ OneTextPerVersion /\ RunsAreNewer /\ ErrorsAreNewer

(* A call that awaits its process is rejected when the process is killed, and *)
(* settled when it exits, unless its program wrote no result.                 *)
ResultsArrive ==
    \A u \in Updates : upc[u] = "running" =>
        /\ phase[u] \in {"starting", "executing", "truncated", "written", "exited", "reaped"}
        /\ prog[u].kind \in {"ok", "error"} => phase[u] # "reaped"

(* A text that runs is on screen, or a call that will show it is under way.   *)
TextIsUnderWay ==
    enabled /\ doc.kind = "ok" =>
        \/ shown = doc.ver
        \/ \E u \in Updates : Waiting(u)
        \/ \E u \in Updates : Awaits(u) /\ prog[u] = doc

-----------------------------------------------------------------------------
(* The shapes that the steps share. *)

LEMMA TextsType ==
    ASSUME TypeOK
    PROVE  /\ doc \in Programs /\ Texts \subseteq Contents
           /\ Empty \notin Programs /\ Missing \notin Programs
           /\ \A t \in Contents : t.ver \in Nat
           /\ \A t \in Programs : t.kind \in AllKinds
<1>1. doc \in Programs
  BY PipelineAssumption DEF TypeOK, Programs
<1>2. Texts \subseteq Contents
  BY <1>1 DEF TypeOK, Texts, Contents
<1>3. Empty \notin Programs /\ Missing \notin Programs
  BY DEF Empty, Missing, Programs, AllKinds
<1>4. \A t \in Contents : t.ver \in Nat
  BY PipelineAssumption DEF Contents, Programs, Empty, Missing
<1>5. \A t \in Programs : t.kind \in AllKinds
  BY DEF Programs
<1>6. QED
  BY <1>1, <1>2, <1>3, <1>4, <1>5

(* A call of updateBoxes adds one waiting call and rejects the delayed one.   *)
LEMMA NewCall ==
    ASSUME TypeOK, NEW e \in 0..MaxVersion, NEW immediate \in BOOLEAN,
           UpdateBoxes(e, immediate)
    PROVE  \E u \in Updates :
             /\ upc[u] = "unused"
             /\ upc'[u] = IF immediate THEN "ready" ELSE "delay"
             /\ \A v \in Updates \ {u} :
                  upc'[v] = IF v = timer /\ upc[v] = "delay" THEN "cancelled" ELSE upc[v]
             /\ edit'[u] = e
             /\ \A v \in Updates \ {u} : edit'[v] = edit[v]
             /\ timer' = IF immediate THEN None ELSE u
             /\ micro' = IF immediate THEN Append(micro, u) ELSE micro
             /\ prog' = prog
<1>1. PICK u \in Updates :
        /\ upc[u] = "unused"
        /\ upc' = [RejectPending EXCEPT ![u] = IF immediate THEN "ready" ELSE "delay"]
        /\ timer' = IF immediate THEN None ELSE u
        /\ micro' = IF immediate THEN Append(micro, u) ELSE micro
        /\ edit' = [edit EXCEPT ![u] = e]
        /\ UNCHANGED prog
  BY DEF UpdateBoxes
<1>2. /\ upc'[u] = IF immediate THEN "ready" ELSE "delay"
      /\ \A v \in Updates \ {u} :
           upc'[v] = IF v = timer /\ upc[v] = "delay" THEN "cancelled" ELSE upc[v]
  BY <1>1 DEF RejectPending
<1>3. edit'[u] = e /\ \A v \in Updates \ {u} : edit'[v] = edit[v]
  BY <1>1 DEF TypeOK
<1>4. QED
  BY <1>1, <1>2, <1>3

(* What every call of updateBoxes leaves alone. *)
LEMMA CallAwaits ==
    ASSUME TypeOK, NEW e \in 0..MaxVersion, NEW immediate \in BOOLEAN,
           UpdateBoxes(e, immediate)
    PROVE  /\ prog' = prog
           /\ \A v \in Updates : Awaits(v)' <=> Awaits(v)
           /\ \A v \in Updates : upc'[v] = "running" <=> upc[v] = "running"
           /\ \A v \in Updates : upc'[v] = "killing" <=> upc[v] = "killing"
           /\ \E v \in Updates : Waiting(v)'
  BY NewCall DEF Awaits, Waiting

(* A process that is alive runs the program of a call that awaits it. *)
LEMMA AliveRunsOwn ==
    ASSUME TypeOK, OneAtATime, OwnFiles, NEW u \in Updates, Alive(u)
    PROVE  /\ upc[u] = "running" /\ Awaits(u)
           /\ phase[u] = "starting" => tmp = prog[u]
           /\ phase[u] # "starting" => loaded[u] = prog[u]
  BY DEF OneAtATime, OwnFiles, Alive, Awaits

(* No text is typed, no result applied. *)
LEMMA SameVersions ==
    ASSUME TypeOK, Versions,
           UNCHANGED <<doc, opened, shown>>,
           {errPending', errShown'} \subseteq {errPending, errShown, 0},
           Texts' \subseteq Texts \cup {Empty},
           \A u \in Updates : Awaits(u)' => \/ Awaits(u) /\ prog'[u] = prog[u]
                                            \/ prog'[u] = doc,
           out' \in {out, Empty} \/ \E u \in Updates : Awaits(u) /\ out' = prog[u]
    PROVE  Versions'
<1>1. Empty.ver = 0 /\ Empty \notin Programs /\ doc.ver \in Nat \ {0}
  BY DEF Empty, Programs, AllKinds, TypeOK
<1>2. Past'
  BY <1>1 DEF TypeOK, Versions, Past
<1>3. OneTextPerVersion'
  BY <1>1 DEF Versions, OneTextPerVersion
<1>4. RunsAreNewer'
  <2>1. \A u \in Updates : Awaits(u)' => 1 <= prog'[u].ver /\ shown' <= prog'[u].ver
    BY <1>1 DEF Versions, RunsAreNewer, Past
  <2>2. out' \in Programs => 1 <= out'.ver /\ shown' <= out'.ver
    BY <1>1 DEF Versions, RunsAreNewer
  <2>3. QED
    BY <2>1, <2>2 DEF RunsAreNewer
<1>5. ErrorsAreNewer'
  BY DEF Versions, ErrorsAreNewer
<1>6. QED
  BY <1>2, <1>3, <1>4, <1>5 DEF Versions

(* A text is typed, or another model opened: its version is a new one. *)
LEMMA NewVersion ==
    ASSUME TypeOK, Versions, NEW k \in Kinds, NewText(k),
           UNCHANGED <<tmp, out, prog, loaded, errPending, errShown>>,
           shown' \in {shown, 0}, opened' \in {opened, doc.ver + 1},
           \A u \in Updates : Awaits(u)' => Awaits(u)
    PROVE  Versions'
<1>1. doc' = [ver |-> doc.ver + 1, kind |-> k] /\ doc.ver \in Nat
  BY DEF NewText, TypeOK
<1>2. Texts' \subseteq Texts \cup {doc'}
  BY DEF Texts
<1>3. \A t \in Texts : t.ver \in Nat /\ t.ver <= doc.ver
  BY TextsType DEF Versions, Past
<1>4. /\ doc'.ver = doc.ver + 1 /\ opened \in Nat /\ shown \in Nat
      /\ errPending \in Nat /\ errShown \in Nat
  BY <1>1 DEF TypeOK
<1>5. /\ opened <= doc.ver /\ shown <= doc.ver
      /\ errPending <= doc.ver /\ errShown <= doc.ver
  BY DEF Versions, Past
<1>6. Past'
  BY <1>1, <1>2, <1>3, <1>4, <1>5 DEF Past
<1>7. OneTextPerVersion'
  <2>1. \A s, t \in Texts : s.ver = t.ver /\ s.ver # 0 => s = t
    BY DEF Versions, OneTextPerVersion
  <2>2. \A s, t \in Texts' : s.ver = t.ver /\ s.ver # 0 => s = t
    BY <1>1, <1>2, <1>3, <1>4, <2>1
  <2>3. \A t \in Texts' : t.ver = shown' /\ shown' # 0 => t.kind = "ok"
    BY <1>1, <1>2, <1>3, <1>4, <1>5 DEF Versions, OneTextPerVersion
  <2>4. QED
    BY <2>2, <2>3 DEF OneTextPerVersion
<1>8. RunsAreNewer'
  <2>1. \A u \in Updates : prog[u].ver \in Nat
    BY PipelineAssumption DEF TypeOK, Programs
  <2>2. out \in Programs => out.ver \in Nat
    BY TextsType DEF Contents
  <2>3. QED
    BY <1>4, <2>1, <2>2 DEF Versions, RunsAreNewer
<1>9. ErrorsAreNewer'
  BY <1>4 DEF Versions, ErrorsAreNewer
<1>10. QED
  BY <1>6, <1>7, <1>8, <1>9 DEF Versions

-----------------------------------------------------------------------------
(* Errors are newer than values. *)

LEMMA InitVersions == Init => Versions
<1> SUFFICES ASSUME Init PROVE Versions
  OBVIOUS
<1>1. PICK k \in Kinds : doc = [ver |-> 1, kind |-> k]
  BY DEF Init
<1>2. \A t \in Texts : t = doc \/ t.ver = 0
  BY DEF Init, Texts, NoProgram, Missing
<1>3. opened = 1 /\ shown = 0 /\ errPending = 0 /\ errShown = 0 /\ doc.ver = 1
  BY <1>1 DEF Init
<1>4. Past
  BY <1>2, <1>3 DEF Past
<1>5. OneTextPerVersion
  BY <1>2, <1>3 DEF OneTextPerVersion
<1>6. RunsAreNewer
  BY DEF Init, RunsAreNewer, Awaits, Missing, Programs, AllKinds
<1>7. ErrorsAreNewer
  BY <1>3 DEF ErrorsAreNewer
<1>8. QED
  BY <1>4, <1>5, <1>6, <1>7 DEF Versions

LEMMA UserVersions ==
    ASSUME TypeOK, Versions, UserStep
    PROVE  Versions'
<1> 0 \in 0..MaxVersion /\ TRUE \in BOOLEAN
  BY PipelineAssumption
<1>1. ASSUME NEW k \in Kinds, NEW spansLines \in BOOLEAN, Edit(k, spansLines)
      PROVE  Versions'
  <2>1. doc.ver + 1 \in 0..MaxVersion
    BY <1>1, NewTextType, PipelineAssumption DEF Edit
  <2>2. prog' = prog /\ \A u \in Updates : Awaits(u)' => Awaits(u)
    BY <1>1, <2>1, CallAwaits DEF Edit, callVars, Awaits
  <2>3. QED
    BY <1>1, <2>2, NewVersion DEF Edit, procVars, viewVars
<1>2. ASSUME NEW k \in Kinds, SwitchModel(k)
      PROVE  Versions'
  <2>1. prog' = prog /\ \A u \in Updates : Awaits(u)' => Awaits(u)
    BY <1>2, CallAwaits DEF SwitchModel, callVars, Awaits
  <2>2. QED
    BY <1>2, <2>1, NewVersion DEF SwitchModel, procVars
<1>3. ASSUME Refresh \/ Disable \/ Resume
      PROVE  Versions'
  <2>1. prog' = prog /\ \A u \in Updates : Awaits(u)' => Awaits(u)
    BY <1>3, CallAwaits DEF Refresh, Disable, Resume, callVars, Awaits
  <2>2. UNCHANGED <<doc, opened, shown, errPending, errShown, tmp, out, loaded>>
    BY <1>3 DEF Refresh, Disable, Resume, editorVars, procVars, viewVars
  <2>3. Texts' = Texts
    BY <2>1, <2>2 DEF Texts
  <2>4. QED
    BY <2>1, <2>2, <2>3, SameVersions
<1>4. QED
  BY <1>1, <1>2, <1>3 DEF UserStep

(* The result an awaited run leaves is its own, unless it is silent, and then *)
(* what lies there is older than its program.                                 *)
LEMMA ApplyVersions ==
    ASSUME TypeOK, OneAtATime, OwnFiles, Versions, NEW u \in Updates,
           upc[u] = "running", phase[u] = "exited", out \in Programs, Apply(u, out),
           UNCHANGED <<doc, opened, tmp, out, prog, loaded>>,
           upc' = [upc EXCEPT ![u] = "layout"]
    PROVE  Versions'
<1>1. \A v \in Updates : ~Awaits(v)'
  BY DEF OneAtATime, Awaits, TypeOK
<1>2. Texts' = Texts /\ out \in Texts /\ loaded[u] \in Texts /\ prog[u] \in Texts
  BY DEF Texts
<1>3. loaded[u] = prog[u] /\ (loaded[u].kind # "silent" => out = loaded[u])
  BY DEF OwnFiles
<1>4. /\ 1 <= out.ver /\ shown <= out.ver /\ out.ver <= doc.ver /\ out.ver \in Nat
      /\ loaded[u].ver \in Nat /\ shown <= loaded[u].ver /\ 1 <= loaded[u].ver
      /\ loaded[u].ver <= doc.ver
  BY <1>2, <1>3, TextsType DEF Versions, Past, RunsAreNewer, Awaits
<1>5. /\ shown \in Nat /\ errPending \in Nat /\ errShown \in Nat
      /\ opened \in Nat /\ doc.ver \in Nat
  BY DEF TypeOK
<1>6. CASE out.kind = "ok"
  <2>1. shown' = out.ver /\ errPending' = 0 /\ errShown' = 0
    BY <1>6 DEF Apply
  <2>2. Past'
    BY <1>2, <1>4, <1>5, <2>1 DEF Versions, Past
  <2>3. OneTextPerVersion'
    BY <1>2, <1>4, <1>6, <2>1 DEF Versions, OneTextPerVersion
  <2>4. RunsAreNewer'
    BY <1>1, <1>4, <2>1 DEF RunsAreNewer
  <2>5. ErrorsAreNewer'
    BY <2>1 DEF ErrorsAreNewer
  <2>6. QED
    BY <2>2, <2>3, <2>4, <2>5 DEF Versions
<1>7. CASE out.kind # "ok"
  <2>1. shown' = shown /\ errShown' = errShown /\ errPending' = loaded[u].ver
    BY <1>7 DEF Apply
  <2>2. loaded[u].kind # "ok"
    BY <1>3, <1>7
  <2>3. loaded[u].ver > shown
    BY <1>2, <1>4, <1>5, <2>2 DEF Versions, OneTextPerVersion
  <2>4. Past'
    BY <1>2, <1>4, <2>1 DEF Versions, Past
  <2>5. OneTextPerVersion' /\ RunsAreNewer'
    BY <1>1, <1>2, <1>4, <2>1 DEF Versions, OneTextPerVersion, RunsAreNewer
  <2>6. ErrorsAreNewer'
    BY <2>1, <2>3 DEF Versions, ErrorsAreNewer
  <2>7. QED
    BY <2>4, <2>5, <2>6 DEF Versions
<1>8. QED
  BY <1>6, <1>7

LEMMA HostVersions ==
    ASSUME TypeOK, OneAtATime, OwnFiles, Versions, NEW u \in Updates, HostStep(u)
    PROVE  Versions'
<1>1. CASE TimerFires(u) \/ Layout(u)
  <2>1. \A v \in Updates : Awaits(v)' => Awaits(v)
    BY <1>1 DEF TimerFires, Layout, Awaits, TypeOK
  <2>2. UNCHANGED <<doc, opened, shown, errPending, errShown, tmp, out, loaded, prog>>
    BY <1>1 DEF TimerFires, Layout, editorVars, procVars, viewVars
  <2>3. Texts' = Texts
    BY <2>2 DEF Texts
  <2>4. QED
    BY <2>1, <2>2, <2>3, SameVersions
<1>2. CASE RunProgram(u)
  <2>1. \A v \in Updates : prog'[v] = IF v = u THEN doc ELSE prog[v]
    BY <1>2 DEF RunProgram, TypeOK
  <2>2. UNCHANGED <<doc, opened, shown, errPending, errShown, out, loaded>>
    BY <1>2 DEF RunProgram, Spawn, editorVars, viewVars
  <2>3. tmp' \in {tmp, doc}
    BY <1>2 DEF RunProgram, Spawn
  <2>4. \A v \in Updates \ {u} : Awaits(v)' => Awaits(v)
    BY <1>2 DEF RunProgram, RejectAwaiting, Awaits, TypeOK
  <2>5. Texts' \subseteq Texts
    BY <2>1, <2>2, <2>3 DEF Texts
  <2>6. QED
    BY <2>1, <2>2, <2>4, <2>5, SameVersions
<1>3. CASE SpawnAfterKill(u)
  <2>1. UNCHANGED <<doc, opened, shown, errPending, errShown, out, loaded, prog>>
    BY <1>3 DEF SpawnAfterKill, Spawn, editorVars, viewVars
  <2>2. tmp' = prog[u] /\ \A v \in Updates : Awaits(v)' => Awaits(v)
    BY <1>3 DEF SpawnAfterKill, Spawn, Awaits, TypeOK
  <2>3. Texts' \subseteq Texts
    BY <2>1, <2>2 DEF Texts
  <2>4. QED
    BY <2>1, <2>2, <2>3, SameVersions
<1>4. CASE ExitEvent(u)
  <2>1. UNCHANGED <<doc, opened, tmp, out, prog, loaded>>
    BY <1>4 DEF ExitEvent, editorVars
  <2>2. CASE UNCHANGED viewVars
    <3>1. \A v \in Updates : Awaits(v)' => Awaits(v)
      BY <1>4 DEF ExitEvent, Awaits, TypeOK
    <3>2. Texts' = Texts
      BY <2>1 DEF Texts
    <3>3. QED
      BY <2>1, <2>2, <3>1, <3>2, SameVersions DEF viewVars
  <2>3. CASE /\ upc[u] = "running" /\ out \in Programs /\ Apply(u, out)
             /\ upc' = [upc EXCEPT ![u] = "layout"]
    BY <1>4, <2>1, <2>3, ApplyVersions DEF ExitEvent
  <2>4. QED
    BY <1>4, <2>2, <2>3 DEF ExitEvent
<1>5. QED
  BY <1>1, <1>2, <1>3, <1>4 DEF HostStep

LEMMA PythonVersions ==
    ASSUME TypeOK, OneAtATime, OwnFiles, Versions, NEW u \in Updates, PythonStep(u)
    PROVE  Versions'
<1>1. UNCHANGED <<doc, opened, shown, errPending, errShown, prog, upc, tmp>>
  BY DEF PythonStep, Load, Truncate, Write, Exit, editorVars, callVars, viewVars
<1>2. \A v \in Updates : loaded'[v] \in {loaded[v], tmp}
  BY DEF PythonStep, Load, Truncate, Write, Exit, TypeOK
<1>3. out' \in {out, Empty} \/ (Awaits(u) /\ out' = prog[u])
  <2>1. CASE Write(u)
    BY <2>1, AliveRunsOwn DEF Write, Alive
  <2>2. CASE ~Write(u)
    BY <2>2 DEF PythonStep, Load, Truncate, Exit
  <2>3. QED
    BY <2>1, <2>2
<1>4. Texts' \subseteq Texts \cup {Empty}
  BY <1>1, <1>2, <1>3 DEF Texts
<1>5. QED
  BY <1>1, <1>3, <1>4, SameVersions DEF Awaits

LEMMA NextVersions == TypeOK /\ OneAtATime /\ OwnFiles /\ Versions /\ [Next]_vars => Versions'
<1> SUFFICES ASSUME TypeOK, OneAtATime, OwnFiles, Versions, [Next]_vars PROVE Versions'
  OBVIOUS
<1>1. CASE UserStep
  BY <1>1, UserVersions
<1>2. ASSUME NEW u \in Updates, HostStep(u) \/ PythonStep(u) PROVE Versions'
  BY <1>2, HostVersions, PythonVersions
<1>3. CASE ShowError \/ UNCHANGED vars
  <2>1. /\ UNCHANGED <<doc, opened, shown, tmp, out, prog, loaded, upc>>
        /\ {errPending', errShown'} \subseteq {errPending, errShown, 0}
    BY <1>3 DEF ShowError, vars, editorVars, callVars, procVars, viewVars
  <2>2. Texts' = Texts
    BY <2>1 DEF Texts
  <2>3. QED
    BY <2>1, <2>2, SameVersions DEF Awaits
<1>4. QED
  BY <1>1, <1>2, <1>3 DEF Next

(* While a turn makes one call, all of these hold in every reachable state.   *)
LEMMA CoreInvariant ==
    ASSUME TurnCalls = 1
    PROVE  Spec => [](TypeOK /\ OneAtATime /\ OwnFiles /\ Versions)
<1>1. TypeOK /\ OneAtATime /\ [Next]_vars => TypeOK' /\ OneAtATime'
  BY NextType, NextAlone
<1>2. Init => TypeOK /\ OneAtATime /\ Versions
  BY InitType, InitAlone, InitVersions
<1>3. Spec => []OwnFiles
  BY FilesAreOwn
<1>4. QED
  BY <1>1, <1>2, <1>3, NextVersions, PTL DEF Spec

(* While a turn makes one call of updateBoxes, an error that is underlined or *)
(* waits in _showErrorDelay is of a newer text than the values on screen.     *)
THEOREM NewerErrors ==
    ASSUME TurnCalls = 1
    PROVE  Spec => []ErrorsAreNewer
<1>1. Versions => ErrorsAreNewer
  BY DEF Versions
<1>2. QED
  BY <1>1, CoreInvariant, PTL

-----------------------------------------------------------------------------
(***************************************************************************)
(* Once all has settled the boxes show the text.  A call that reads the    *)
(* text in the editor is settled by the result of that text: its process   *)
(* is killed only by a call that has read the same or a newer text.        *)
(***************************************************************************)

LEMMA UserArrives ==
    ASSUME TypeOK, ResultsArrive, UserStep
    PROVE  ResultsArrive'
<1> 0 \in 0..MaxVersion /\ TRUE \in BOOLEAN
  BY PipelineAssumption
<1>1. \A k \in Kinds : NewText(k) => doc.ver + 1 \in 0..MaxVersion
  BY NewTextType, PipelineAssumption
<1>2. prog' = prog /\ \A u \in Updates : upc'[u] = "running" => upc[u] = "running"
  BY <1>1, CallAwaits DEF UserStep, Edit, SwitchModel, Refresh, Disable, Resume, callVars
<1>3. phase' = phase
  BY DEF UserStep, Edit, SwitchModel, Refresh, Disable, Resume, procVars
<1>4. QED
  BY <1>2, <1>3 DEF ResultsArrive

(* The result of an awaited run that can write one is that of its program.    *)
LEMMA OwnResult ==
    ASSUME TypeOK, OwnFiles, NEW u \in Updates, upc[u] = "running", phase[u] = "exited",
           prog[u].kind \in {"ok", "error"}
    PROVE  out = prog[u] /\ loaded[u] = prog[u] /\ out \in Programs
  BY DEF OwnFiles, TypeOK

LEMMA HostArrives ==
    ASSUME TypeOK, OneAtATime, OneAtATime', OwnFiles, ResultsArrive,
           NEW u \in Updates, HostStep(u)
    PROVE  ResultsArrive'
<1> USE DEF TypeOK
<1>1. CASE TimerFires(u) \/ Layout(u)
  <2>1. UNCHANGED <<phase, prog>> /\ \A v \in Updates : upc'[v] = "running" => upc[v] = "running"
    BY <1>1 DEF TimerFires, Layout, procVars
  <2>2. QED
    BY <2>1 DEF ResultsArrive
<1>2. CASE upc'[u] = "killing"
  BY <1>2 DEF OneAtATime, ResultsArrive
<1>3. CASE phase'[u] = "starting" /\ python' = u
  <2>1. \A v \in Updates : upc'[v] = "running" => v = u
    BY <1>3 DEF OneAtATime
  <2>2. QED
    BY <1>3, <2>1 DEF ResultsArrive
<1>4. CASE ExitEvent(u)
  <2>1. /\ UNCHANGED <<prog, loaded, out>> /\ phase[u] = "exited"
        /\ \A v \in Updates : upc'[v] = "running" => upc[v] = "running"
        /\ \A v \in Updates : phase'[v] = IF v = u THEN "reaped" ELSE phase[v]
    BY <1>4 DEF ExitEvent
  <2>2. upc'[u] = "running" => out = Missing
    BY <1>4 DEF ExitEvent
  <2>3. upc'[u] = "running" => prog[u].kind \notin {"ok", "error"}
    BY <2>1, <2>2, OwnResult, TextsType
  <2>4. QED
    BY <2>1, <2>3 DEF ResultsArrive
<1>5. QED
  <2>1. RunProgram(u) => upc'[u] = "killing" \/ (phase'[u] = "starting" /\ python' = u)
    BY DEF RunProgram, Spawn, RejectAwaiting
  <2>2. SpawnAfterKill(u) => phase'[u] = "starting" /\ python' = u
    BY DEF SpawnAfterKill, Spawn
  <2>3. QED
    BY <1>1, <1>2, <1>3, <1>4, <2>1, <2>2 DEF HostStep

LEMMA NextArrives ==
    TypeOK /\ OneAtATime /\ OneAtATime' /\ OwnFiles /\ ResultsArrive /\ [Next]_vars
        => ResultsArrive'
<1> SUFFICES ASSUME TypeOK, OneAtATime, OneAtATime', OwnFiles, ResultsArrive, [Next]_vars
             PROVE  ResultsArrive'
  OBVIOUS
<1>1. CASE UserStep
  BY <1>1, UserArrives
<1>2. ASSUME NEW u \in Updates, HostStep(u) PROVE ResultsArrive'
  BY <1>2, HostArrives
<1>3. ASSUME NEW u \in Updates, PythonStep(u) PROVE ResultsArrive'
  <2>1. UNCHANGED <<upc, prog>>
    BY <1>3 DEF PythonStep, Load, Truncate, Write, Exit, callVars
  <2>2. /\ \A v \in Updates \ {u} : phase'[v] = phase[v]
        /\ phase'[u] \in {"executing", "truncated", "written", "exited"}
    BY <1>3 DEF PythonStep, Load, Truncate, Write, Exit, TypeOK
  <2>3. QED
    BY <2>1, <2>2 DEF ResultsArrive
<1>4. CASE ShowError \/ UNCHANGED vars
  BY <1>4 DEF ShowError, vars, callVars, procVars, ResultsArrive
<1>5. QED
  BY <1>1, <1>2, <1>3, <1>4 DEF Next

LEMMA UserUnderWay ==
    ASSUME TypeOK, TextIsUnderWay, UserStep
    PROVE  TextIsUnderWay'
<1> 0 \in 0..MaxVersion /\ TRUE \in BOOLEAN
  BY PipelineAssumption
<1>1. \A k \in Kinds : NewText(k) => doc.ver + 1 \in 0..MaxVersion
  BY NewTextType, PipelineAssumption
<1>2. (\E u \in Updates : Waiting(u)') \/ ~enabled'
  BY <1>1, CallAwaits DEF UserStep, Edit, SwitchModel, Refresh, Disable, Resume, editorVars
<1>3. QED
  BY <1>2 DEF TextIsUnderWay

LEMMA HostUnderWay ==
    ASSUME TypeOK, OneAtATime, OwnFiles, Versions, TextIsUnderWay,
           NEW u \in Updates, HostStep(u)
    PROVE  TextIsUnderWay'
<1> USE DEF TypeOK
<1>1. CASE TimerFires(u)
  BY <1>1 DEF TimerFires, TextIsUnderWay, Waiting
<1>2. CASE RunProgram(u)
  <2>1. Awaits(u)' /\ prog'[u] = doc /\ doc' = doc
    BY <1>2 DEF RunProgram, RejectAwaiting, Awaits, editorVars
  <2>2. QED
    BY <2>1 DEF TextIsUnderWay
<1>3. CASE SpawnAfterKill(u) \/ Layout(u)
  <2>1. UNCHANGED <<doc, enabled, shown, prog>>
    BY <1>3 DEF SpawnAfterKill, Layout, editorVars, viewVars
  <2>2. \A v \in Updates : (Waiting(v)' <=> Waiting(v)) /\ (Awaits(v)' <=> Awaits(v))
    BY <1>3 DEF SpawnAfterKill, Layout, Waiting, Awaits
  <2>3. QED
    BY <2>1, <2>2 DEF TextIsUnderWay
<1>4. CASE ExitEvent(u)
  <2>1. UNCHANGED <<doc, enabled, prog>> /\ phase[u] = "exited"
    BY <1>4 DEF ExitEvent, editorVars
  <2>2. CASE UNCHANGED <<upc, viewVars>>
    BY <2>1, <2>2 DEF TextIsUnderWay, Waiting, Awaits, viewVars
  <2>3. CASE upc[u] = "running" /\ upc' # upc
    <3> SUFFICES ASSUME enabled, doc.kind = "ok",
                        \A v \in Updates : ~Waiting(v)'
                 PROVE  shown' = doc.ver
      BY <2>1 DEF TextIsUnderWay
    <3>1. \A v \in Updates : ~Waiting(v)
      BY <1>4, <2>3 DEF ExitEvent, Waiting
    <3>2. \A v \in Updates : Awaits(v) => v = u
      BY <2>3 DEF OneAtATime, Awaits
    <3>3. prog[u] = doc => out = doc /\ out \in Programs
      BY <2>1, <2>3, OwnResult
    <3>4. out \in Programs => shown <= out.ver /\ out.ver <= doc.ver /\ out.ver \in Nat
      BY TextsType DEF Versions, Past, RunsAreNewer, Texts
    <3>5. CASE out = Empty
      BY <1>4, <2>3, <3>1, <3>2, <3>3, <3>5, TextsType
      DEF ExitEvent, TextIsUnderWay, viewVars
    <3>6. CASE out \in Programs /\ Apply(u, out)
      <4>1. CASE prog[u] = doc
        BY <3>3, <3>6, <4>1 DEF Apply
      <4>2. CASE prog[u] # doc
        <5>1. shown = doc.ver
          BY <3>1, <3>2, <4>2 DEF TextIsUnderWay
        <5>2. shown' \in {shown, out.ver}
          BY <3>6 DEF Apply
        <5>3. QED
          BY <3>4, <3>6, <5>1, <5>2
      <4>3. QED
        BY <4>1, <4>2
    <3>7. QED
      BY <1>4, <2>3, <3>5, <3>6 DEF ExitEvent
  <2>4. QED
    BY <1>4, <2>2, <2>3 DEF ExitEvent
<1>5. QED
  BY <1>1, <1>2, <1>3, <1>4 DEF HostStep

LEMMA NextUnderWay ==
    TypeOK /\ OneAtATime /\ OwnFiles /\ Versions /\ TextIsUnderWay /\ [Next]_vars
        => TextIsUnderWay'
<1> SUFFICES ASSUME TypeOK, OneAtATime, OwnFiles, Versions, TextIsUnderWay, [Next]_vars
             PROVE  TextIsUnderWay'
  OBVIOUS
<1>1. CASE UserStep
  BY <1>1, UserUnderWay
<1>2. ASSUME NEW u \in Updates, HostStep(u) PROVE TextIsUnderWay'
  BY <1>2, HostUnderWay
<1>3. ASSUME NEW u \in Updates, PythonStep(u) \/ ShowError \/ UNCHANGED vars
      PROVE  TextIsUnderWay'
  <2>1. UNCHANGED <<doc, enabled, shown, prog, upc>>
    BY <1>3 DEF PythonStep, Load, Truncate, Write, Exit, ShowError, vars, editorVars,
                callVars, viewVars
  <2>2. QED
    BY <2>1 DEF TextIsUnderWay, Waiting, Awaits
<1>4. 1 \in Updates
  BY PipelineAssumption DEF Updates
<1>5. QED
  BY <1>1, <1>2, <1>3, <1>4 DEF Next

(* While a turn makes one call of updateBoxes, once no call is under way the  *)
(* boxes of an enabled controller show the text in the editor if it runs, and *)
(* no error is underlined or waits to be.                                     *)
THEOREM TextIsShown ==
    ASSUME TurnCalls = 1
    PROVE  Spec => []SettledShowsText
<1>1. Init => ResultsArrive /\ TextIsUnderWay
  <2>1. 1 \in Updates
    BY PipelineAssumption DEF Updates
  <2>2. QED
    BY <2>1 DEF Init, ResultsArrive, TextIsUnderWay, Waiting
<1>2. TypeOK /\ Versions /\ ResultsArrive /\ TextIsUnderWay => SettledShowsText
  <2> SUFFICES ASSUME TypeOK, Versions, ResultsArrive, TextIsUnderWay,
                      Settled, enabled, doc.kind = "ok"
               PROVE  shown = doc.ver /\ errPending = 0 /\ errShown = 0
    BY DEF SettledShowsText
  <2>1. \A u \in Updates : ~Waiting(u) /\ upc[u] # "killing"
    BY DEF Settled, Over, Waiting
  <2>2. \A u \in Updates : ~(Awaits(u) /\ prog[u] = doc)
    BY DEF Settled, Over, Awaits, ResultsArrive
  <2>3. shown = doc.ver
    BY <2>1, <2>2 DEF TextIsUnderWay
  <2>4. errPending = 0 /\ errShown = 0
    BY <2>3 DEF TypeOK, Versions, Past, ErrorsAreNewer
  <2>5. QED
    BY <2>3, <2>4
<1>3. QED
  BY <1>1, <1>2, CoreInvariant, NextArrives, NextUnderWay, PTL DEF Spec

-----------------------------------------------------------------------------
(***************************************************************************)
(* The pipeline implements ProjectionBoxes.  A run that is applied is of   *)
(* the model that is open: opening a model queues a call that kills the    *)
(* run under way before its exit can be handled.  That takes an enabled    *)
(* controller, and programs that write a result, since the result of an    *)
(* older text stays on disk otherwise: a user who opens other models is    *)
(* assumed to do neither of the other two things of Habits.                *)
(***************************************************************************)

SwitchersOnlySwitch == \A h \in Users : "switch" \in h => h = {"switch"}

(* What is applied next is of the model that is open. *)
OpenedText ==
    /\ user \in Users
    /\ "switch" \notin user => opened = 1
    /\ "switch" \in user =>
         /\ enabled
         /\ \A t \in Texts : t.kind # "silent"
         /\ \A u \in Updates : upc[u] = "killing" => opened <= prog[u].ver
         /\ \A u \in Updates : upc[u] = "running" /\ micro = <<>> => opened <= prog[u].ver

(* No step makes a text up: it is kept from before, or typed. *)
LEMMA NextTexts == TypeOK /\ [Next]_vars => Texts' \subseteq Texts \cup {doc', Empty}
<1> SUFFICES ASSUME TypeOK, [Next]_vars PROVE Texts' \subseteq Texts \cup {doc', Empty}
  OBVIOUS
<1> 0 \in 0..MaxVersion /\ TRUE \in BOOLEAN
  BY PipelineAssumption
<1>1. CASE UserStep
  <2>1. \A k \in Kinds : NewText(k) => doc.ver + 1 \in 0..MaxVersion
    BY NewTextType, PipelineAssumption
  <2>2. prog' = prog
    BY <1>1, <2>1, CallAwaits
    DEF UserStep, Edit, SwitchModel, Refresh, Disable, Resume, callVars
  <2>3. UNCHANGED <<tmp, out, loaded>>
    BY <1>1 DEF UserStep, Edit, SwitchModel, Refresh, Disable, Resume, procVars
  <2>4. QED
    BY <2>2, <2>3 DEF Texts
<1>2. ASSUME NEW u \in Updates, HostStep(u)
      PROVE  Texts' \subseteq Texts \cup {doc', Empty}
  <2>1. /\ UNCHANGED <<doc, out, loaded>> /\ tmp' \in {tmp, doc, prog[u]}
        /\ \A v \in Updates : prog'[v] \in {prog[v], doc}
    BY <1>2 DEF HostStep, TimerFires, RunProgram, SpawnAfterKill, Spawn, ExitEvent, Layout,
                editorVars, procVars, TypeOK
  <2>2. QED
    BY <2>1 DEF Texts
<1>3. ASSUME NEW u \in Updates, PythonStep(u)
      PROVE  Texts' \subseteq Texts \cup {doc', Empty}
  <2>1. /\ UNCHANGED <<doc, tmp, prog>> /\ out' \in {out, loaded[u], Empty}
        /\ \A v \in Updates : loaded'[v] \in {loaded[v], tmp}
    BY <1>3 DEF PythonStep, Load, Truncate, Write, Exit, editorVars, callVars, TypeOK
  <2>2. QED
    BY <2>1 DEF Texts
<1>4. CASE ShowError \/ UNCHANGED vars
  BY <1>4 DEF ShowError, vars, editorVars, callVars, procVars, Texts
<1>5. QED
  BY <1>1, <1>2, <1>3, <1>4 DEF Next

(* The user's steps while a turn makes one call: the loop was idle before. *)
LEMMA OneCallATurn ==
    ASSUME TurnCalls = 1, TypeOK, OneAtATime, UserStep
    PROVE  micro = <<>> /\ \A u \in Updates : upc[u] # "killing"
<1>1. MayCall
  BY DEF UserStep, Edit, SwitchModel, Refresh, Disable, Resume, MayCall
<1>2. micro = <<>>
  BY <1>1 DEF MayCall, LoopIdle, TypeOK
<1>3. QED
  BY <1>2 DEF OneAtATime

LEMMA UserOpened ==
    ASSUME TurnCalls = 1, SwitchersOnlySwitch,
           TypeOK, OneAtATime, Versions, OpenedText, UserStep, UNCHANGED user
    PROVE  OpenedText'
<1> 0 \in 0..MaxVersion /\ TRUE \in BOOLEAN
  BY PipelineAssumption
<1>1. \A k \in Kinds : NewText(k) => doc.ver + 1 \in 0..MaxVersion
  BY NewTextType, PipelineAssumption
<1>2. /\ prog' = prog
      /\ \A v \in Updates : upc'[v] = "running" => upc[v] = "running"
      /\ \A v \in Updates : upc'[v] = "killing" => upc[v] = "killing"
  BY <1>1, CallAwaits DEF UserStep, Edit, SwitchModel, Refresh, Disable, Resume, callVars
<1>3. micro = <<>> /\ \A v \in Updates : upc'[v] # "killing"
  BY <1>2, OneCallATurn
<1>4. CASE "switch" \notin user
  BY <1>4 DEF OpenedText, UserStep, Edit, SwitchModel, Refresh, Disable, Resume, editorVars
<1>5. CASE "switch" \in user
  <2>1. user = {"switch"} /\ enabled /\ ~Disable
    BY <1>5 DEF SwitchersOnlySwitch, OpenedText, Disable
  <2>2. enabled' /\ ~Resume
    BY <2>1 DEF UserStep, Edit, SwitchModel, Refresh, Resume, editorVars
  <2>3. \A t \in Texts' : t.kind # "silent"
    <3>1. Texts' \subseteq Texts \cup {doc', Empty}
      BY NextTexts DEF Next
    <3>2. doc'.kind # "silent" \/ doc' = doc
      <4>1. doc' = doc \/ \E k \in Kinds : NewText(k)
        BY DEF UserStep, Edit, SwitchModel, Refresh, Disable, Resume, editorVars
      <4>2. ASSUME NEW k \in Kinds, NewText(k) PROVE doc'.kind # "silent"
        BY <2>1, <4>2 DEF NewText, Writes
      <4>3. QED
        BY <4>1, <4>2
    <3>3. doc \in Texts /\ Empty.kind # "silent"
      BY DEF Texts, Empty
    <3>4. QED
      BY <1>5, <3>1, <3>2, <3>3 DEF OpenedText
  <2>4. \A v \in Updates : upc'[v] = "running" /\ micro' = <<>> => opened' <= prog'[v].ver
    <3>1. CASE opened' = opened
      BY <1>2, <1>3, <1>5, <3>1 DEF OpenedText
    <3>2. CASE \E k \in Kinds : SwitchModel(k)
      <4>1. UpdateBoxes(0, TRUE)
        BY <2>1, <3>2 DEF SwitchModel
      <4>2. micro' # <<>>
        <5>1. PICK v \in Updates : micro' = Append(micro, v)
          BY <4>1, NewCall
        <5>2. QED
          BY <1>3, <5>1
      <4>3. QED
        BY <4>2
    <3>3. QED
      BY <3>1, <3>2 DEF UserStep, Edit, Refresh, Disable, Resume, editorVars
  <2>5. QED
    BY <1>3, <1>5, <2>2, <2>3, <2>4 DEF OpenedText
<1>6. QED
  BY <1>4, <1>5

LEMMA HostOpened ==
    ASSUME TypeOK, OneAtATime, OneAtATime', Versions, OpenedText,
           NEW u \in Updates, HostStep(u), UNCHANGED user
    PROVE  OpenedText'
<1> USE DEF TypeOK
<1>1. UNCHANGED <<doc, opened, enabled>>
  BY DEF HostStep, TimerFires, RunProgram, SpawnAfterKill, ExitEvent, Layout, editorVars
<1>2. SUFFICES ASSUME "switch" \in user
               PROVE  /\ \A t \in Texts' : t.kind # "silent"
                      /\ \A v \in Updates : upc'[v] = "killing" => opened <= prog'[v].ver
                      /\ \A v \in Updates :
                           upc'[v] = "running" /\ micro' = <<>> => opened <= prog'[v].ver
  BY <1>1 DEF OpenedText
<1>3. \A t \in Texts' : t.kind # "silent"
  <2>1. Texts' \subseteq Texts \cup {doc', Empty}
    BY NextTexts DEF Next
  <2>2. doc \in Texts /\ Empty.kind # "silent"
    BY DEF Texts, Empty
  <2>3. QED
    BY <1>1, <1>2, <2>1, <2>2 DEF OpenedText
<1>4. opened <= doc.ver
  BY DEF Versions, Past
<1>5. CASE TimerFires(u)
  <2>1. micro' # <<>> /\ prog' = prog /\ \A v \in Updates : upc'[v] = "killing" => upc[v] = "killing"
    BY <1>5 DEF TimerFires, LoopIdle
  <2>2. QED
    BY <1>2, <1>3, <2>1 DEF OpenedText
<1>6. CASE RunProgram(u)
  <2>1. \A v \in Updates : prog'[v] = IF v = u THEN doc ELSE prog[v]
    BY <1>6 DEF RunProgram
  <2>2. CASE python = None
    <3>1. \A v \in Updates : upc[v] # "running"
      BY <2>2 DEF OneAtATime, Updates, None
    <3>2. \A v \in Updates : upc'[v] = IF v = u THEN "running" ELSE upc[v]
      BY <1>6, <2>2 DEF RunProgram
    <3>3. QED
      BY <1>2, <1>3, <1>4, <2>1, <3>1, <3>2 DEF OpenedText
  <2>3. CASE python # None
    <3>1. upc'[u] = "killing" /\ \A v \in Updates \ {u} : upc'[v] = "killing" => upc[v] = "killing"
      BY <1>6, <2>3 DEF RunProgram, RejectAwaiting
    <3>2. \A v \in Updates : upc'[v] # "running"
      BY <3>1 DEF OneAtATime
    <3>3. QED
      BY <1>2, <1>3, <1>4, <2>1, <3>1, <3>2 DEF OpenedText
  <2>4. QED
    BY <2>2, <2>3
<1>7. CASE SpawnAfterKill(u)
  <2>1. /\ upc[u] = "killing" /\ prog' = prog
        /\ \A v \in Updates : upc'[v] = IF v = u THEN "running" ELSE upc[v]
    BY <1>7 DEF SpawnAfterKill
  <2>2. \A v \in Updates : upc[v] # "running"
    BY <2>1 DEF OneAtATime
  <2>3. QED
    BY <1>2, <1>3, <2>1, <2>2 DEF OpenedText
<1>8. CASE ExitEvent(u) \/ Layout(u)
  <2>1. /\ prog' = prog /\ micro' = micro
        /\ \A v \in Updates : upc'[v] = upc[v] \/ upc'[v] \notin {"running", "killing"}
    BY <1>8 DEF ExitEvent, Layout
  <2>2. QED
    BY <1>2, <1>3, <2>1 DEF OpenedText
<1>9. QED
  BY <1>5, <1>6, <1>7, <1>8 DEF HostStep

LEMMA NextOpened ==
    ASSUME TurnCalls = 1, SwitchersOnlySwitch
    PROVE  TypeOK /\ OneAtATime /\ OneAtATime' /\ Versions /\ OpenedText /\ [Next]_vars
               => OpenedText'
<1> SUFFICES ASSUME TypeOK, OneAtATime, OneAtATime', Versions, OpenedText, [Next]_vars
             PROVE  OpenedText'
  OBVIOUS
<1>1. UNCHANGED user
  BY DEF Next, vars
<1>2. CASE UserStep
  BY <1>1, <1>2, UserOpened
<1>3. ASSUME NEW u \in Updates, HostStep(u) PROVE OpenedText'
  BY <1>1, <1>3, HostOpened
<1>4. ASSUME NEW u \in Updates, PythonStep(u) \/ ShowError \/ UNCHANGED vars
      PROVE  OpenedText'
  <2>1. UNCHANGED <<doc, opened, enabled, upc, prog, micro>>
    BY <1>4 DEF PythonStep, Load, Truncate, Write, Exit, ShowError, vars, editorVars, callVars
  <2>2. Texts' \subseteq Texts \cup {doc, Empty} /\ doc \in Texts /\ Empty.kind # "silent"
    BY <2>1, NextTexts DEF Texts, Empty
  <2>3. QED
    BY <1>1, <2>1, <2>2 DEF OpenedText
<1>5. 1 \in Updates
  BY PipelineAssumption DEF Updates
<1>6. QED
  BY <1>2, <1>3, <1>4, <1>5 DEF Next

LEMMA InitOpened == SwitchersOnlySwitch /\ Init => OpenedText
<1> SUFFICES ASSUME SwitchersOnlySwitch, Init PROVE OpenedText
  OBVIOUS
<1>1. PICK k \in Kinds : Writes(k) /\ doc = [ver |-> 1, kind |-> k]
  BY DEF Init
<1>2. user \in Users /\ opened = 1 /\ enabled = TRUE
  BY DEF Init
<1>3. \A u \in Updates : upc[u] \notin {"killing", "running"}
  BY DEF Init
<1>4. ASSUME "switch" \in user PROVE \A t \in Texts : t.kind # "silent"
  <2>1. user = {"switch"}
    BY <1>2, <1>4 DEF SwitchersOnlySwitch
  <2>2. doc.kind # "silent"
    BY <1>1, <2>1 DEF Writes
  <2>3. \A t \in Texts : t = doc \/ t.kind # "silent"
    BY DEF Init, Texts, NoProgram, Missing
  <2>4. QED
    BY <2>2, <2>3
<1>5. QED
  BY <1>2, <1>3, <1>4 DEF OpenedText

(* Every step of the pipeline types a text, opens a model, shows a run of a   *)
(* text of that model that is not older than the screen, or changes nothing   *)
(* that ProjectionBoxes speaks of.                                            *)
LEMMA StepsImplement ==
    ASSUME TypeOK, OneAtATime, OwnFiles, Versions, OpenedText, [Next]_vars
    PROVE  [Boxes!Next]_Boxes!vars
<1> USE DEF Boxes!Next, Boxes!vars
<1>1. ASSUME NEW k \in Kinds, NEW spansLines \in BOOLEAN, Edit(k, spansLines)
      PROVE  Boxes!Type
  BY <1>1 DEF Edit, NewText, viewVars, Boxes!Type
<1>2. ASSUME NEW k \in Kinds, SwitchModel(k)
      PROVE  Boxes!Open
  BY <1>2 DEF SwitchModel, NewText, Boxes!Open
<1>3. CASE Refresh \/ Disable \/ Resume
  BY <1>3 DEF Refresh, Disable, Resume, editorVars, viewVars
<1>4. ASSUME NEW u \in Updates, HostStep(u)
      PROVE  Boxes!Show \/ UNCHANGED <<doc, opened, shown>>
  <2>1. UNCHANGED <<doc, opened>>
    BY <1>4 DEF HostStep, TimerFires, RunProgram, SpawnAfterKill, ExitEvent, Layout, editorVars
  <2>2. CASE shown' = shown
    BY <2>1, <2>2
  <2>3. CASE shown' # shown
    <3>1. /\ upc[u] = "running" /\ phase[u] = "exited" /\ micro = <<>>
          /\ out \in Programs /\ shown' = out.ver
      BY <1>4, <2>3 DEF HostStep, TimerFires, RunProgram, SpawnAfterKill, ExitEvent, Layout,
                        Apply, LoopIdle, viewVars
    <3>2. 1 <= out.ver /\ shown <= out.ver /\ out.ver <= doc.ver /\ out.ver \in Nat
      BY <3>1, TextsType DEF Versions, Past, RunsAreNewer, Texts
    <3>3. opened <= out.ver
      <4>1. CASE "switch" \notin user
        BY <3>2, <4>1 DEF OpenedText
      <4>2. CASE "switch" \in user
        <5>1. out = prog[u]
          BY <3>1, <4>2 DEF OwnFiles, OpenedText, Texts
        <5>2. QED
          BY <3>1, <4>2, <5>1 DEF OpenedText
      <4>3. QED
        BY <4>1, <4>2
    <3>4. shown' \in opened..doc.ver /\ shown' >= shown
      BY <3>1, <3>2, <3>3 DEF TypeOK
    <3>5. QED
      BY <2>1, <3>4 DEF Boxes!Show
  <2>4. QED
    BY <2>2, <2>3
<1>5. ASSUME NEW u \in Updates, PythonStep(u) \/ ShowError \/ UNCHANGED vars
      PROVE  UNCHANGED <<doc, opened, shown>>
  BY <1>5 DEF PythonStep, Load, Truncate, Write, Exit, ShowError, vars, editorVars, viewVars
<1>6. 1 \in Updates
  BY PipelineAssumption DEF Updates
<1>7. QED
  BY <1>1, <1>2, <1>3, <1>4, <1>5, <1>6 DEF Next, UserStep

(* While a turn makes one call of updateBoxes, and users who open other       *)
(* models do not synthesize or write programs that exit, the pipeline keeps   *)
(* the promise of ProjectionBoxes: what is on screen is of the open model and *)
(* never goes back to an older text.                                          *)
THEOREM BoxesImplemented ==
    ASSUME TurnCalls = 1, SwitchersOnlySwitch
    PROVE  Spec => BoxesSpec
<1>1. Init => Boxes!Init
  BY DEF Init, Boxes!Init
<1>2. Init => OpenedText
  BY InitOpened
<1>3. QED
  BY <1>1, <1>2, CoreInvariant, NextOpened, StepsImplement, PTL
  DEF Spec, BoxesSpec, Boxes!Spec

-----------------------------------------------------------------------------
(***************************************************************************)
(* The staleness indicator (changedLinesWhenOutOfDate) while TurnCalls is  *)
(* 1: as long as only edits ask for updates, it is right once all has      *)
(* settled.                                                                *)
(***************************************************************************)

(* Events are of edits already made, the first text (version 1) has none, and *)
(* the timer names the one call that waits in a delay.                        *)
EventsArePast ==
    /\ upc[1] # "unused"
    /\ \A u \in Updates : upc[u] = "delay" => timer = u
    /\ \A u \in Updates : edit[u] # 1 /\ edit[u] <= doc.ver
    /\ \A v \in stale : 1 < v /\ v <= doc.ver

LastEdit(u) == edit[u] = doc.ver \/ doc.ver = 1

(* A call that waits is of the last edit: the edit rejected the earlier one. *)
NewestWaits == OnlyEdits /\ enabled => \A u \in Updates : Waiting(u) => LastEdit(u)

StaleIsRight ==
    /\ doc.kind = "ok" => stale = {}
    /\ doc.kind = "error" /\ doc.ver > 1 => doc.ver \in stale

(* The result of the last edit is still to come, or it has come and whatever  *)
(* runs now runs the same text.                                               *)
LastEditCounts ==
    OnlyEdits /\ enabled /\ doc.kind \in {"ok", "error"} =>
        \/ \E u \in Updates : Waiting(u)
        \/ \E u \in Updates : Awaits(u) /\ prog[u] = doc /\ LastEdit(u)
        \/ StaleIsRight /\ \A u \in Updates : Awaits(u) => prog[u] = doc

Indicator == EventsArePast /\ NewestWaits /\ LastEditCounts

-----------------------------------------------------------------------------
(* A step that keeps the calls' events keeps OnlyEdits, or makes it true only *)
(* of what it was true of.                                                    *)
LEMMA OnlyEditsBefore ==
    ASSUME TypeOK, NEW e \in 0..MaxVersion, NEW immediate \in BOOLEAN,
           UpdateBoxes(e, immediate), EventsArePast, OnlyEdits'
    PROVE  OnlyEdits /\ e # 0
<1>1. PICK u \in Updates :
        /\ upc[u] = "unused"
        /\ upc'[u] # "unused"
        /\ \A v \in Updates \ {u} : upc'[v] = "unused" <=> upc[v] = "unused"
        /\ edit'[u] = e
        /\ \A v \in Updates \ {u} : edit'[v] = edit[v]
  BY NewCall
<1>2. u # 1
  BY <1>1 DEF EventsArePast
<1>3. QED
  BY <1>1, <1>2 DEF OnlyEdits

(* An edit while the controller is enabled: its call is the only one waiting. *)
LEMMA EditIndicator ==
    ASSUME TurnCalls = 1, TypeOK, OneAtATime, Indicator, UserStep, enabled,
           NEW k \in Kinds, NEW spansLines \in BOOLEAN, Edit(k, spansLines)
    PROVE  Indicator'
<1>1. /\ doc' = [ver |-> doc.ver + 1, kind |-> k] /\ UNCHANGED <<enabled, stale>>
      /\ UpdateBoxes(doc.ver + 1, spansLines)
      /\ doc.ver + 1 \in 0..MaxVersion /\ doc.ver \in Nat /\ doc.ver >= 1
  BY NewTextType, PipelineAssumption DEF Edit, NewText, viewVars, TypeOK
<1>2. PICK u \in Updates :
        /\ upc[u] = "unused"
        /\ upc'[u] = IF spansLines THEN "ready" ELSE "delay"
        /\ \A v \in Updates \ {u} :
             upc'[v] = IF v = timer /\ upc[v] = "delay" THEN "cancelled" ELSE upc[v]
        /\ edit'[u] = doc.ver + 1
        /\ \A v \in Updates \ {u} : edit'[v] = edit[v]
        /\ timer' = IF spansLines THEN None ELSE u
  BY <1>1, NewCall
<1>3. micro = <<>> /\ \A v \in Updates : upc[v] # "ready"
  <2>1. micro = <<>>
    BY OneCallATurn
  <2>2. QED
    BY <2>1 DEF OneAtATime
<1>4. \A v \in Updates : upc[v] = "delay" => v = timer
  BY DEF Indicator, EventsArePast
<1>5. \A v \in Updates \ {u} : upc'[v] \notin {"delay", "ready"}
  BY <1>2, <1>3, <1>4
<1>6. EventsArePast'
  <2>1. u # 1
    BY <1>2 DEF Indicator, EventsArePast
  <2>2. 1 \in Updates
    BY PipelineAssumption DEF Updates
  <2>3. upc'[1] # "unused"
    BY <1>2, <2>1, <2>2 DEF Indicator, EventsArePast
  <2>4. \A v \in Updates : upc'[v] = "delay" => timer' = v
    BY <1>2, <1>5
  <2>5. \A v \in Updates : edit[v] \in Nat /\ edit[v] # 1 /\ edit[v] <= doc.ver
    BY PipelineAssumption DEF Indicator, EventsArePast, TypeOK
  <2>6. \A v \in Updates : edit'[v] # 1 /\ edit'[v] <= doc'.ver
    BY <1>1, <1>2, <2>5
  <2>7. \A v \in stale' : 1 < v /\ v <= doc'.ver
    <3>1. \A v \in stale : v \in Nat
      BY PipelineAssumption DEF TypeOK
    <3>2. QED
      BY <1>1, <3>1 DEF Indicator, EventsArePast
  <2>8. QED
    BY <2>3, <2>4, <2>6, <2>7 DEF EventsArePast
<1>7. NewestWaits'
  BY <1>1, <1>2, <1>5 DEF NewestWaits, Waiting, LastEdit
<1>8. LastEditCounts'
  BY <1>2 DEF LastEditCounts, Waiting
<1>9. QED
  BY <1>6, <1>7, <1>8 DEF Indicator

LEMMA NewCallNoEvent ==
    ASSUME TypeOK, UpdateBoxes(0, TRUE)
    PROVE  \E u \in Updates :
             /\ upc[u] = "unused"
             /\ upc'[u] = "ready"
             /\ \A v \in Updates \ {u} :
                  upc'[v] = IF v = timer /\ upc[v] = "delay" THEN "cancelled" ELSE upc[v]
             /\ edit'[u] = 0
             /\ \A v \in Updates \ {u} : edit'[v] = edit[v]
<1>1. PICK u \in Updates :
        /\ upc[u] = "unused"
        /\ upc' = [RejectPending EXCEPT ![u] = "ready"]
        /\ edit' = [edit EXCEPT ![u] = 0]
  BY DEF UpdateBoxes
<1>2. /\ upc'[u] = "ready"
      /\ \A v \in Updates \ {u} :
           upc'[v] = IF v = timer /\ upc[v] = "delay" THEN "cancelled" ELSE upc[v]
  BY <1>1 DEF RejectPending
<1>3. edit'[u] = 0 /\ \A v \in Updates \ {u} : edit'[v] = edit[v]
  BY <1>1 DEF TypeOK
<1>4. QED
  BY <1>1, <1>2, <1>3

(* A call without an event: OnlyEdits is false from now on. *)
LEMMA NoEventIndicator ==
    ASSUME TypeOK, Indicator, UpdateBoxes(0, TRUE),
           doc' = doc \/ \E k \in Kinds : NewText(k), stale' \subseteq stale
    PROVE  Indicator'
<1> 0 \in 0..MaxVersion /\ TRUE \in BOOLEAN
  BY PipelineAssumption
<1>1. ~OnlyEdits'
  BY OnlyEditsBefore DEF Indicator
<1>2. doc'.ver \in Nat /\ doc.ver \in Nat /\ doc.ver <= doc'.ver
  BY DEF NewText, TypeOK
<1>3. EventsArePast'
  <2>1. PICK u \in Updates :
          /\ upc[u] = "unused"
          /\ upc'[u] = "ready"
          /\ \A v \in Updates \ {u} :
               upc'[v] = IF v = timer /\ upc[v] = "delay" THEN "cancelled" ELSE upc[v]
          /\ edit'[u] = 0
          /\ \A v \in Updates \ {u} : edit'[v] = edit[v]
    BY NewCallNoEvent
  <2>2. 1 \in Updates /\ u # 1
    BY <2>1, PipelineAssumption DEF Indicator, EventsArePast, Updates
  <2>3. upc'[1] # "unused"
    BY <2>1, <2>2 DEF Indicator, EventsArePast
  <2>4. \A v \in Updates : upc'[v] # "delay"
    BY <2>1 DEF Indicator, EventsArePast
  <2>5. \A v \in Updates : edit[v] \in Nat /\ edit[v] # 1 /\ edit[v] <= doc.ver
    BY PipelineAssumption DEF Indicator, EventsArePast, TypeOK
  <2>6. \A v \in Updates : edit'[v] # 1 /\ edit'[v] <= doc'.ver
    BY <1>2, <2>1, <2>5
  <2>7. \A v \in stale : v \in Nat /\ 1 < v /\ v <= doc.ver
    BY PipelineAssumption DEF Indicator, EventsArePast, TypeOK
  <2>8. \A v \in stale' : 1 < v /\ v <= doc'.ver
    BY <1>2, <2>7
  <2>9. QED
    BY <2>3, <2>4, <2>6, <2>8 DEF EventsArePast
<1>4. NewestWaits' /\ LastEditCounts'
  BY <1>1 DEF NewestWaits, LastEditCounts
<1>5. QED
  BY <1>3, <1>4 DEF Indicator

(* The controller is disabled: the indicator owes nothing. *)
LEMMA DisabledIndicator ==
    ASSUME TypeOK, Indicator, ~enabled', UNCHANGED <<callVars, stale>>,
           doc' = doc \/ \E k \in Kinds : NewText(k)
    PROVE  Indicator'
<1>1. doc'.ver \in Nat /\ doc.ver \in Nat /\ doc.ver <= doc'.ver
  BY DEF NewText, TypeOK
<1>2. EventsArePast'
  <2>1. \A v \in Updates : edit[v] \in Nat /\ edit[v] # 1 /\ edit[v] <= doc.ver
    BY PipelineAssumption DEF Indicator, EventsArePast, TypeOK
  <2>2. \A v \in stale : v \in Nat /\ 1 < v /\ v <= doc.ver
    BY PipelineAssumption DEF Indicator, EventsArePast, TypeOK
  <2>3. QED
    BY <1>1, <2>1, <2>2 DEF Indicator, EventsArePast, callVars
<1>3. NewestWaits' /\ LastEditCounts'
  BY DEF NewestWaits, LastEditCounts
<1>4. QED
  BY <1>2, <1>3 DEF Indicator

LEMMA UserIndicator ==
    ASSUME TurnCalls = 1, TypeOK, OneAtATime, Indicator, UserStep
    PROVE  Indicator'
<1>1. ASSUME NEW k \in Kinds, NEW spansLines \in BOOLEAN, Edit(k, spansLines)
      PROVE  Indicator'
  <2>1. CASE enabled
    BY <1>1, <2>1, EditIndicator
  <2>2. CASE ~enabled
    BY <1>1, <2>2, DisabledIndicator DEF Edit, viewVars
  <2>3. QED
    BY <2>1, <2>2
<1>2. ASSUME NEW k \in Kinds, SwitchModel(k)
      PROVE  Indicator'
  <2>1. CASE enabled
    BY <1>2, <2>1, NoEventIndicator DEF SwitchModel
  <2>2. CASE ~enabled
    BY <1>2, <2>2, DisabledIndicator DEF SwitchModel
  <2>3. QED
    BY <2>1, <2>2
<1>3. CASE Refresh \/ Resume
  BY <1>3, NoEventIndicator DEF Refresh, Resume, editorVars, viewVars
<1>4. CASE Disable
  BY <1>4, DisabledIndicator DEF Disable, viewVars
<1>5. QED
  BY <1>1, <1>2, <1>3, <1>4 DEF UserStep

LEMMA HostIndicator ==
    ASSUME TypeOK, OneAtATime, OwnFiles, Indicator, NEW u \in Updates, HostStep(u)
    PROVE  Indicator'
<1> USE DEF TypeOK
<1>1. /\ UNCHANGED <<doc, enabled, edit, timer>>
      /\ \A v \in Updates : upc'[v] = "unused" <=> upc[v] = "unused"
      /\ \A v \in Updates : upc'[v] = "delay" => upc[v] = "delay"
      /\ \A v \in Updates : Waiting(v)' => Waiting(v)
  <2>1. UNCHANGED <<doc, enabled, edit, timer>>
    BY DEF HostStep, TimerFires, RunProgram, SpawnAfterKill, ExitEvent, Layout, editorVars
  <2>2. CASE RunProgram(u)
    BY <2>1, <2>2 DEF RunProgram, RejectAwaiting, Waiting
  <2>3. CASE ~RunProgram(u)
    BY <2>1, <2>3 DEF HostStep, TimerFires, SpawnAfterKill, ExitEvent, Layout, Waiting
  <2>4. QED
    BY <2>2, <2>3
<1>2. OnlyEdits' <=> OnlyEdits
  BY <1>1 DEF OnlyEdits
<1>3. NewestWaits'
  BY <1>1, <1>2 DEF Indicator, NewestWaits, LastEdit
<1>4. stale' = stale \/ (ExitEvent(u) /\ upc[u] = "running" /\ out \in Programs /\ Apply(u, out))
  BY DEF HostStep, TimerFires, RunProgram, SpawnAfterKill, ExitEvent, Layout, viewVars
<1>5. EventsArePast'
  <2>1. 1 \in Updates
    BY PipelineAssumption DEF Updates
  <2>2. \A v \in stale' : 1 < v /\ v <= doc.ver
    <3>1. edit[u] \in Nat /\ edit[u] # 1 /\ edit[u] <= doc.ver
      BY PipelineAssumption DEF Indicator, EventsArePast
    <3>2. \A v \in stale : 1 < v /\ v <= doc.ver
      BY DEF Indicator, EventsArePast
    <3>3. stale' \subseteq stale \cup {edit[u]} /\ (edit[u] = 0 => stale' \subseteq stale)
      BY <1>4 DEF Apply, StaleAfter
    <3>4. QED
      BY <3>1, <3>2, <3>3
  <2>3. QED
    BY <1>1, <2>1, <2>2 DEF Indicator, EventsArePast
<1>6. LastEditCounts'
  <2> SUFFICES ASSUME OnlyEdits, enabled, doc.kind \in {"ok", "error"},
                      \A v \in Updates : ~Waiting(v)'
               PROVE  \/ \E v \in Updates : Awaits(v)' /\ prog'[v] = doc /\ LastEdit(v)
                      \/ StaleIsRight' /\ \A v \in Updates : Awaits(v)' => prog'[v] = doc
    BY <1>1, <1>2 DEF LastEditCounts, LastEdit
  <2>1. CASE TimerFires(u)
    BY <2>1 DEF TimerFires, Waiting
  <2>2. CASE RunProgram(u)
    <3>1. Awaits(u)' /\ prog'[u] = doc
      BY <2>2 DEF RunProgram, RejectAwaiting, Awaits
    <3>2. LastEdit(u)
      BY <2>2 DEF RunProgram, Waiting, Indicator, NewestWaits
    <3>3. QED
      BY <3>1, <3>2
  <2>3. CASE SpawnAfterKill(u) \/ Layout(u)
    <3>1. UNCHANGED <<prog, stale>>
      BY <2>3 DEF SpawnAfterKill, Layout, viewVars
    <3>2. \A v \in Updates : (Waiting(v)' <=> Waiting(v)) /\ (Awaits(v)' <=> Awaits(v))
      BY <2>3 DEF SpawnAfterKill, Layout, Waiting, Awaits
    <3>3. QED
      BY <1>1, <3>1, <3>2 DEF Indicator, LastEditCounts, StaleIsRight
  <2>4. CASE ExitEvent(u)
    <3>1. prog' = prog /\ phase[u] = "exited" /\ \A v \in Updates : ~Waiting(v)
      BY <2>4 DEF ExitEvent, Waiting
    <3>2. \/ \E v \in Updates : Awaits(v) /\ prog[v] = doc /\ LastEdit(v)
          \/ StaleIsRight /\ \A v \in Updates : Awaits(v) => prog[v] = doc
      BY <3>1 DEF Indicator, LastEditCounts
    <3>3. CASE UNCHANGED <<upc, stale>>
      BY <1>1, <3>1, <3>2, <3>3 DEF StaleIsRight, Awaits
    <3>4. CASE upc[u] = "running" /\ ~UNCHANGED <<upc, stale>>
      <4>1. \A v \in Updates : (Awaits(v) => v = u) /\ ~Awaits(v)'
        BY <2>4, <3>4 DEF ExitEvent, OneAtATime, Awaits, viewVars
      <4>2. prog[u] = doc \/ StaleIsRight
        BY <3>2, <4>1
      <4>3. Awaits(u)
        BY <3>4 DEF Awaits
      <4>4. prog[u] = doc /\ (LastEdit(u) \/ StaleIsRight)
        BY <3>2, <4>1, <4>3
      <4>5. out = doc /\ out \in Programs
        BY <3>1, <3>4, <4>4, OwnResult
      <4>6. stale' = StaleAfter(u, doc)
        BY <2>4, <3>4, <4>5, TextsType DEF ExitEvent, Apply
      <4>7. doc.ver = 1 => stale = {}
        BY PipelineAssumption DEF Indicator, EventsArePast
      <4>8. doc.ver \in Nat \ {0} /\ edit[u] # 1
        BY DEF Indicator, EventsArePast
      <4>9. doc.kind = "ok" => stale' = {}
        BY <4>4, <4>6, <4>7, <4>8 DEF StaleAfter, LastEdit, StaleIsRight
      <4>10. doc.kind = "error" /\ doc.ver > 1 => doc.ver \in stale'
        BY <4>4, <4>6, <4>8 DEF StaleAfter, LastEdit, StaleIsRight
      <4>11. QED
        BY <1>1, <4>1, <4>9, <4>10 DEF StaleIsRight
    <3>5. QED
      BY <2>4, <3>3, <3>4 DEF ExitEvent, viewVars
  <2>5. QED
    BY <2>1, <2>2, <2>3, <2>4 DEF HostStep
<1>7. QED
  BY <1>3, <1>5, <1>6 DEF Indicator

LEMMA NextIndicator ==
    ASSUME TurnCalls = 1
    PROVE  TypeOK /\ OneAtATime /\ OwnFiles /\ Indicator /\ [Next]_vars => Indicator'
<1> SUFFICES ASSUME TypeOK, OneAtATime, OwnFiles, Indicator, [Next]_vars PROVE Indicator'
  OBVIOUS
<1>1. CASE UserStep
  BY <1>1, UserIndicator
<1>2. ASSUME NEW u \in Updates, HostStep(u) PROVE Indicator'
  BY <1>2, HostIndicator
<1>3. ASSUME NEW u \in Updates, PythonStep(u) \/ ShowError \/ UNCHANGED vars
      PROVE  Indicator'
  <2>1. UNCHANGED <<doc, enabled, upc, edit, prog, timer, stale>>
    BY <1>3 DEF PythonStep, Load, Truncate, Write, Exit, ShowError, vars, editorVars,
                callVars, viewVars
  <2>2. OnlyEdits' <=> OnlyEdits
    BY <2>1 DEF OnlyEdits
  <2>3. QED
    BY <2>1, <2>2 DEF Indicator, EventsArePast, NewestWaits, LastEditCounts, LastEdit,
                      StaleIsRight, Waiting, Awaits
<1>4. 1 \in Updates
  BY PipelineAssumption DEF Updates
<1>5. QED
  BY <1>1, <1>2, <1>3, <1>4 DEF Next

LEMMA InitIndicator == Init => Indicator
<1> SUFFICES ASSUME Init PROVE Indicator
  OBVIOUS
<1>1. 1 \in Updates /\ doc.ver = 1
  BY PipelineAssumption DEF Init, Updates
<1>2. EventsArePast
  BY <1>1 DEF Init, EventsArePast
<1>3. NewestWaits
  BY <1>1 DEF NewestWaits, LastEdit
<1>4. LastEditCounts
  BY <1>1 DEF Init, LastEditCounts, Waiting
<1>5. QED
  BY <1>2, <1>3, <1>4 DEF Indicator

(* While a turn makes one call of updateBoxes, and only edits ask for         *)
(* updates, the settled indicator is green on a text that runs and counts the *)
(* last edit on one that does not.                                            *)
THEOREM IndicatorRight ==
    ASSUME TurnCalls = 1
    PROVE  Spec => []IndicatorFollowsEdits
<1>1. ResultsArrive /\ Indicator => IndicatorFollowsEdits
  <2> SUFFICES ASSUME ResultsArrive, Indicator, Settled, enabled, OnlyEdits,
                      doc.kind \in {"ok", "error"}
               PROVE  StaleIsRight
    BY DEF IndicatorFollowsEdits, StaleIsRight
  <2>1. \A u \in Updates : ~Waiting(u) /\ upc[u] # "killing"
    BY DEF Settled, Over, Waiting
  <2>2. \A u \in Updates : ~(Awaits(u) /\ prog[u] = doc)
    BY DEF Settled, Over, Awaits, ResultsArrive
  <2>3. QED
    BY <2>1, <2>2 DEF Indicator, LastEditCounts
<1>2. Init => ResultsArrive
  BY DEF Init, ResultsArrive
<1>3. QED
  BY <1>1, <1>2, CoreInvariant, NextArrives, InitIndicator, NextIndicator, PTL DEF Spec
=============================================================================
