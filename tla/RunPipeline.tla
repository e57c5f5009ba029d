---------------------------- MODULE RunPipeline ----------------------------
(***************************************************************************)
(* The projection-box run pipeline: what happens between an edit of the    *)
(* program text and the moment its runtime values are on screen.           *)
(*                                                                         *)
(* RTVController.updateBoxes is an async function: every call of it is one *)
(* "update" here, and its awaits split it into the phases of upc.  The     *)
(* extension host is single threaded: a macrotask (an editor event, a      *)
(* timer, a process exit) starts only when the microtask queue is empty,   *)
(* and the continuations of the awaits run from that queue in order.  The  *)
(* python processes run in parallel with it and meet it in two files of    *)
(* the temporary directory that every run shares.                          *)
(*                                                                         *)
(* A program text is abstracted to a version and to how run.py ends on it: *)
(*   "ok"     writes a result whose return code is 0 or 2                  *)
(*   "error"  writes a result whose return code is 1 (it does not parse)   *)
(*   "silent" exits before the result file is written (SystemExit)         *)
(*   "hang"   never ends by itself (it waits for input)                    *)
(***************************************************************************)
EXTENDS Naturals, Sequences

CONSTANTS
    MaxUpdates,  \* bound: calls of updateBoxes in a behaviour
    MaxVersion,  \* bound: versions of the program text
    TurnCalls,   \* bound: calls of updateBoxes one event-loop turn may make
    Kinds,       \* how the programs the users type may end
    Users        \* sets of habits a user may have

AllKinds == {"ok", "error", "silent", "hang"}

(* What a user does apart from editing: open another model, synthesize, which *)
(* disables and re-enables the controller, write programs that exit.          *)
Habits == {"switch", "synthesize", "exit"}

ASSUME PipelineAssumption ==
    /\ MaxUpdates \in Nat \ {0}
    /\ MaxVersion \in Nat \ {0}
    /\ TurnCalls \in Nat \ {0}
    /\ Kinds \subseteq AllKinds
    /\ Users \subseteq SUBSET Habits

VARIABLES
    doc,        \* the program text in the editor
    opened,     \* version at which the current model was attached
    enabled,    \* RTVController.enabled
    upc,        \* phase of each call of updateBoxes
    edit,       \* version of the change event of each call, 0 for none
    prog,       \* program each call read in runProgram
    timer,      \* call whose rejection DelayedRunAtMostOne._reject holds
    micro,      \* continuations queued as microtasks
    calls,      \* calls made so far by the handler that is running
    python,     \* RTVController.pythonProcess: the call that spawned it
    phase,      \* state of the python process of each call
    loaded,     \* program that process read from tmp.py
    tmp,        \* content of tmp.py
    out,        \* content of tmp.py.out
    shown,      \* version whose envs and writes the boxes show, 0 for none
    errPending, \* version whose error waits in _showErrorDelay, 0 for none
    errShown,   \* version whose error is underlined, 0 for none
    stale,      \* changedLinesWhenOutOfDate, as versions; {} is undefined
    user        \* the user's habits, which do not change

editorVars == <<doc, opened, enabled>>
callVars   == <<upc, edit, prog, timer, micro, calls>>
procVars   == <<python, phase, loaded, tmp, out>>
viewVars   == <<shown, errPending, errShown, stale>>
vars       == <<editorVars, callVars, procVars, viewVars, user>>

Updates  == 1..MaxUpdates
None     == 0
Programs == [ver : 0..MaxVersion, kind : AllKinds]
NoProgram == [ver |-> 0, kind |-> "ok"]

(* The result file holds the result of a program, or nothing usable. *)
Missing  == [ver |-> 0, kind |-> "missing"]
Empty    == [ver |-> 0, kind |-> "empty"]
Contents == Programs \cup {Missing, Empty}

Phases == {"unused", "delay", "ready", "killing", "running", "layout",
           "done", "cancelled", "rejected"}
ProcPhases == {"none", "starting", "executing", "truncated", "written",
               "exited", "reaped", "dead"}

(* The process of u runs and nobody has told it to stop. *)
Alive(u) == phase[u] \in {"starting", "executing", "truncated", "written"}

(* The user writes programs of kind k. *)
Writes(k) == k = "silent" => "exit" \in user

Over(u) == upc[u] \in {"unused", "done", "cancelled", "rejected"}
-----------------------------------------------------------------------------
(* The first model has just been attached: onDidChangeModel called           *)
(* updateBoxes(), whose first await has returned to the event loop.          *)
Init ==
    /\ user \in Users
    /\ \E k \in Kinds : Writes(k) /\ doc = [ver |-> 1, kind |-> k]
    /\ opened = 1
    /\ enabled = TRUE
    /\ upc = [u \in Updates |-> IF u = 1 THEN "ready" ELSE "unused"]
    /\ edit = [u \in Updates |-> 0]
    /\ prog = [u \in Updates |-> NoProgram]
    /\ timer = None
    /\ micro = <<1>>
    /\ calls = 1
    /\ python = None
    /\ phase = [u \in Updates |-> "none"]
    /\ loaded = [u \in Updates |-> NoProgram]
    /\ tmp = NoProgram
    /\ out = Missing
    /\ shown = 0
    /\ errPending = 0
    /\ errShown = 0
    /\ stale = {}

(* A new macrotask starts on an empty microtask queue; the same handler may  *)
(* call updateBoxes again before its first microtask runs.                   *)
LoopIdle == micro = <<>>
MayCall  == LoopIdle \/ (0 < calls /\ calls < TurnCalls)

(* DelayedRunAtMostOne.run: a call still waiting for its timer is rejected.  *)
(* (_reject is kept after the timer fired, when calling it has no effect.)   *)
RejectPending ==
    [u \in Updates |-> IF u = timer /\ upc[u] = "delay" THEN "cancelled" ELSE upc[u]]

(* updateBoxes up to its first await, for a change event of version e (0: no *)
(* event).  Without an event, or with one that spans lines, the delay is 0.  *)
UpdateBoxes(e, immediate) ==
    \E u \in Updates :
        /\ upc[u] = "unused"
        /\ \A v \in 1..(u - 1) : upc[v] # "unused"
        /\ upc' = [RejectPending EXCEPT ![u] = IF immediate THEN "ready" ELSE "delay"]
        /\ timer' = IF immediate THEN None ELSE u
        /\ micro' = IF immediate THEN Append(micro, u) ELSE micro
        /\ calls' = IF LoopIdle THEN 1 ELSE calls + 1
        /\ edit' = [edit EXCEPT ![u] = e]
        /\ UNCHANGED prog
-----------------------------------------------------------------------------
(* Editor events *)

NewText(k) ==
    /\ doc.ver < MaxVersion
    /\ Writes(k)
    /\ doc' = [ver |-> doc.ver + 1, kind |-> k]

(* onDidChangeModelContent: ignored while the controller is disabled. *)
Edit(k, spansLines) ==
    /\ MayCall
    /\ NewText(k)
    /\ IF enabled THEN UpdateBoxes(doc.ver + 1, spansLines) ELSE UNCHANGED callVars
    /\ UNCHANGED <<opened, enabled, procVars, viewVars>>

(* updateBoxes() without an event: a language change, a loop focus, ... *)
Refresh ==
    /\ MayCall
    /\ enabled
    /\ UpdateBoxes(0, TRUE)
    /\ UNCHANGED <<editorVars, procVars, viewVars>>

(* Mutant of SwitchModel: the data of the old model is kept. *)
SwitchModelKeepsData(k) ==
    /\ "switch" \in user
    /\ MayCall
    /\ NewText(k)
    /\ opened' = doc.ver + 1
    /\ IF enabled THEN UpdateBoxes(0, TRUE) ELSE UNCHANGED callVars
    /\ UNCHANGED <<enabled, procVars, viewVars>>

(* onDidChangeModel: the boxes and their data go, then updateBoxes(). *)
SwitchModel(k) ==
    /\ "switch" \in user
    /\ MayCall
    /\ NewText(k)
    /\ opened' = doc.ver + 1
    /\ shown' = 0
    /\ IF enabled THEN UpdateBoxes(0, TRUE) ELSE UNCHANGED callVars
    /\ UNCHANGED <<enabled, procVars, errPending, errShown, stale>>

(* startSynthesis calls disable() once its own update has finished. *)
Disable ==
    /\ "synthesize" \in user
    /\ LoopIdle
    /\ enabled
    /\ enabled' = FALSE
    /\ UNCHANGED <<doc, opened, callVars, procVars, viewVars>>

(* Mutant of Resume: the controller is enabled without an update. *)
ResumeNoUpdate ==
    /\ MayCall
    /\ ~enabled
    /\ enabled' = TRUE
    /\ stale' = {}
    /\ UNCHANGED <<doc, opened, callVars, procVars, shown, errPending, errShown>>

(* stopSynthesis: enable(), resetChangedLinesWhenOutOfDate(), updateBoxes(). *)
Resume ==
    /\ MayCall
    /\ ~enabled
    /\ enabled' = TRUE
    /\ stale' = {}
    /\ UpdateBoxes(0, TRUE)
    /\ UNCHANGED <<doc, opened, procVars, shown, errPending, errShown>>
-----------------------------------------------------------------------------
(* The continuations of updateBoxes and runProgram *)

TimerFires(u) ==
    /\ LoopIdle
    /\ upc[u] = "delay"
    /\ upc' = [upc EXCEPT ![u] = "ready"]
    /\ micro' = Append(micro, u)
    /\ calls' = 0
    /\ UNCHANGED <<editorVars, edit, prog, timer, procVars, viewVars>>

(* Mutant of Killed: no signal is sent. *)
KilledNoSignal(p) == phase

(* LocalRunProcess.kill: the signal ends the process, and the call that was  *)
(* awaiting it is rejected without waiting for the exit.                     *)
Killed(p) == IF Alive(p) THEN [phase EXCEPT ![p] = "dead"] ELSE phase
RejectAwaiting(p) == IF upc[p] = "running" THEN [upc EXCEPT ![p] = "rejected"] ELSE upc

(* LocalUtils.runProgram: write tmp.py, start python, remember the process.  *)
Spawn(u, text) ==
    /\ tmp' = text
    /\ phase' = [phase EXCEPT ![u] = "starting"]
    /\ python' = u
    /\ UNCHANGED <<loaded, out>>

(* Mutant of RunProgram: a registered process makes it give up (a busy flag).  *)
RunProgramBusy(u) ==
    /\ micro # <<>> /\ u = Head(micro)
    /\ upc[u] = "ready"
    /\ prog' = [prog EXCEPT ![u] = doc]
    /\ calls' = 0
    /\ micro' = Tail(micro)
    /\ \/ /\ python = None
          /\ Spawn(u, doc)
          /\ upc' = [upc EXCEPT ![u] = "running"]
       \/ /\ python # None
          /\ upc' = [upc EXCEPT ![u] = "rejected"]
          /\ UNCHANGED procVars
    /\ UNCHANGED <<editorVars, edit, timer, viewVars>>

(* The timer is over: runProgram reads the text, then spawns at once or, when *)
(* a process is registered, kills it and awaits kill().                       *)
RunProgram(u) ==
    /\ micro # <<>> /\ u = Head(micro)
    /\ upc[u] = "ready"
    /\ prog' = [prog EXCEPT ![u] = doc]
    /\ calls' = 0
    /\ \/ /\ python = None
          /\ Spawn(u, doc)
          /\ upc' = [upc EXCEPT ![u] = "running"]
          /\ micro' = Tail(micro)
       \/ /\ python # None
          /\ phase' = Killed(python)
          /\ upc' = [RejectAwaiting(python) EXCEPT ![u] = "killing"]
          /\ micro' = Append(Tail(micro), u)
          /\ UNCHANGED <<python, loaded, tmp, out>>
    /\ UNCHANGED <<editorVars, edit, timer, viewVars>>

SpawnAfterKill(u) ==
    /\ micro # <<>> /\ u = Head(micro)
    /\ upc[u] = "killing"
    /\ Spawn(u, prog[u])
    /\ upc' = [upc EXCEPT ![u] = "running"]
    /\ micro' = Tail(micro)
    /\ calls' = 0
    /\ UNCHANGED <<editorVars, edit, prog, timer, viewVars>>
-----------------------------------------------------------------------------
(* The python process: run.py *)

(* load_code_lines(file): whatever tmp.py holds by now. *)
Load(u) ==
    /\ phase[u] = "starting"
    /\ phase' = [phase EXCEPT ![u] = "executing"]
    /\ loaded' = [loaded EXCEPT ![u] = tmp]
    /\ UNCHANGED <<editorVars, callVars, python, tmp, out, viewVars>>

(* open(file + ".out", "w") truncates the shared result file ... *)
Truncate(u) ==
    /\ phase[u] = "executing"
    /\ loaded[u].kind \in {"ok", "error"}
    /\ phase' = [phase EXCEPT ![u] = "truncated"]
    /\ out' = Empty
    /\ UNCHANGED <<editorVars, callVars, python, loaded, tmp, viewVars>>

(* ... and out.write fills it. *)
Write(u) ==
    /\ phase[u] = "truncated"
    /\ phase' = [phase EXCEPT ![u] = "written"]
    /\ out' = loaded[u]
    /\ UNCHANGED <<editorVars, callVars, python, loaded, tmp, viewVars>>

(* A SystemExit of the program passes through main before the file is opened. *)
Exit(u) ==
    /\ \/ phase[u] = "written"
       \/ phase[u] = "executing" /\ loaded[u].kind = "silent"
    /\ phase' = [phase EXCEPT ![u] = "exited"]
    /\ UNCHANGED <<editorVars, callVars, python, loaded, tmp, out, viewVars>>
-----------------------------------------------------------------------------
(* The exit handler of LocalRunProcess and what it resumes *)

(* Mutants of StaleAfter: the event is not tested for undefined; a success    *)
(* leaves the set as it was.                                                  *)
StaleAnyEvent(u, r) == IF r.kind = "ok" THEN {} ELSE stale \cup {edit[u]}
StaleKept(u, r) == IF edit[u] = 0 \/ r.kind = "ok" THEN stale ELSE stale \cup {edit[u]}

(* updateLinesWhenOutOfDate: a call without an event changes nothing. *)
StaleAfter(u, r) ==
    IF edit[u] = 0 THEN stale
    ELSE IF r.kind = "ok" THEN {} ELSE stale \cup {edit[u]}

(* Mutant of Apply: a success leaves the delayed error waiting. *)
ApplyKeepsTimer(u, r) ==
    /\ IF r.kind = "ok"
         THEN shown' = r.ver /\ errShown' = 0 /\ UNCHANGED errPending
         ELSE errPending' = loaded[u].ver /\ UNCHANGED <<shown, errShown>>
    /\ stale' = StaleAfter(u, r)

(* updateBoxes after runProgram returned the parsed result r to u. *)
Apply(u, r) ==
    /\ IF r.kind = "ok"
         THEN /\ shown' = r.ver
              /\ errPending' = 0
              /\ errShown' = 0
         ELSE /\ errPending' = loaded[u].ver
              /\ UNCHANGED <<shown, errShown>>
    /\ stale' = StaleAfter(u, r)

(* The result file as readFileSync finds it: a run whose call was rejected   *)
(* changes nothing; a missing file throws in the handler, so the call is     *)
(* never settled; an empty one is no result; one cut short does not parse.   *)
ExitEvent(u) ==
    /\ LoopIdle
    /\ phase[u] = "exited"
    /\ phase' = [phase EXCEPT ![u] = "reaped"]
    /\ \/ /\ upc[u] # "running" \/ out = Missing
          /\ UNCHANGED <<upc, python, viewVars>>
       \/ /\ upc[u] = "running" /\ out = Empty
          /\ python' \in {python, None}
          /\ upc' = [upc EXCEPT ![u] = "rejected"]
          /\ UNCHANGED viewVars
       \/ /\ upc[u] = "running" /\ out \in Programs
          /\ python' = None
          /\ upc' = [upc EXCEPT ![u] = "layout"]
          /\ Apply(u, out)
    /\ UNCHANGED <<editorVars, edit, prog, timer, micro, calls, loaded, tmp, out>>

(* updateContentAndLayout resolves after its setTimeout(0). *)
Layout(u) ==
    /\ LoopIdle
    /\ upc[u] = "layout"
    /\ upc' = [upc EXCEPT ![u] = "done"]
    /\ UNCHANGED <<editorVars, edit, prog, timer, micro, calls, procVars, viewVars>>

(* The 1500 ms of showErrorWithDelay are over: the old underline goes; the    *)
(* new one comes unless the output read so far holds no complete message.     *)
ShowError ==
    /\ LoopIdle
    /\ errPending # 0
    /\ errShown' \in {errPending, 0}
    /\ errPending' = 0
    /\ UNCHANGED <<editorVars, callVars, procVars, shown, stale>>
-----------------------------------------------------------------------------
UserStep ==
    \/ \E k \in Kinds, spansLines \in BOOLEAN : Edit(k, spansLines)
    \/ \E k \in Kinds : SwitchModel(k)
    \/ Refresh
    \/ Disable
    \/ Resume

HostStep(u) ==
    \/ TimerFires(u)
    \/ RunProgram(u)
    \/ SpawnAfterKill(u)
    \/ ExitEvent(u)
    \/ Layout(u)

PythonStep(u) == Load(u) \/ Truncate(u) \/ Write(u) \/ Exit(u)

Next ==
    /\ \/ UserStep
       \/ \E u \in Updates : HostStep(u) \/ PythonStep(u)
       \/ ShowError
    /\ UNCHANGED user

Spec == Init /\ [][Next]_vars

(* The event loop runs what is queued, the operating system runs python, and  *)
(* a program that is not "hang" ends.  The user owes nothing.                 *)
Fairness ==
    /\ \A u \in Updates :
          /\ WF_vars(HostStep(u) /\ UNCHANGED user)
          /\ WF_vars(PythonStep(u) /\ UNCHANGED user)
    /\ WF_vars(ShowError /\ UNCHANGED user)

FairSpec == Spec /\ Fairness
-----------------------------------------------------------------------------
(* Properties *)

(* Every variable keeps its type; the queue holds waiting calls only. *)
TypeOK ==
    /\ doc \in [ver : 1..MaxVersion, kind : Kinds]
    /\ opened \in 1..MaxVersion
    /\ enabled \in BOOLEAN
    /\ upc \in [Updates -> Phases]
    /\ edit \in [Updates -> 0..MaxVersion]
    /\ prog \in [Updates -> Programs]
    /\ timer \in Updates \cup {None}
    /\ micro \in Seq(Updates)
    /\ calls \in 0..TurnCalls
    /\ python \in Updates \cup {None}
    /\ phase \in [Updates -> ProcPhases]
    /\ loaded \in [Updates -> Programs]
    /\ tmp \in Programs
    /\ out \in Contents
    /\ shown \in 0..MaxVersion
    /\ errPending \in 0..MaxVersion
    /\ errShown \in 0..MaxVersion
    /\ stale \subseteq 1..MaxVersion

(* At most one python process runs that nobody told to stop, and it is the    *)
(* one pythonProcess names: what kill-before-spawn in runProgram is for.      *)
AtMostOneAlive == \A u \in Updates : Alive(u) => python = u

(* The two files are shared, yet a call that still awaits its process finds   *)
(* its own program in tmp.py and its own result in tmp.py.out.                *)
OwnFiles ==
    \A u \in Updates : upc[u] = "running" =>
        /\ phase[u] = "starting" => tmp = prog[u]
        /\ phase[u] \in {"executing", "truncated", "written", "exited"} => loaded[u] = prog[u]
        /\ phase[u] \in {"written", "exited"} /\ loaded[u].kind # "silent" => out = loaded[u]

(* What keeps them so while a turn makes one call: the queue holds the one    *)
(* call that is about to spawn, only the registered call awaits a process,    *)
(* and when kill() is awaited there is nothing left to kill.                  *)
OneAtATime ==
    /\ Len(micro) <= 1
    /\ \A u \in Updates : upc[u] \in {"ready", "killing"} => micro = <<u>>
    /\ \A u \in Updates : upc[u] = "running" => python = u
    /\ \A u \in Updates : Alive(u) => upc[u] = "running"
    /\ \A u, v \in Updates : upc[u] = "killing" => upc[v] # "running"

(* No call is under way and no process of a call that waits for one is left.  *)
Settled ==
    /\ LoopIdle
    /\ \A u \in Updates : Over(u) \/ (upc[u] = "running" /\ phase[u] = "reaped")

(* README.md: "as you write executable Python code, you should see Projection *)
(* Boxes appearing to show your program's runtime values": once everything    *)
(* has settled the boxes show the text in the editor, and no error of an      *)
(* older text is underlined or about to be.                                   *)
SettledShowsText ==
    Settled /\ enabled /\ doc.kind = "ok" =>
        shown = doc.ver /\ errPending = 0 /\ errShown = 0

(* The same for a program that ends through sys.exit, as README.md says it of *)
(* any executable code: its boxes show its own values, or none.               *)
SettledShowsExitedProgram ==
    Settled /\ enabled /\ doc.kind = "silent" => shown \in {0, doc.ver}

(* An error that is underlined, or will be, is of a newer text than the       *)
(* values on screen: a successful run cancels the delayed error and clears    *)
(* the underline, whatever order timers and exits come in.                    *)
ErrorsAreNewer == \A e \in {errPending, errShown} : e # 0 => e > shown

(* As long as only edits ask for updates, the settled staleness indicator is  *)
(* green on a text that runs and counts the last edit on one that does not:   *)
(* cancelled and killed updates lose their event, the last one never does.    *)
OnlyEdits == \A u \in Updates : upc[u] # "unused" /\ edit[u] = 0 => u = 1
IndicatorFollowsEdits ==
    Settled /\ enabled /\ OnlyEdits =>
        /\ doc.kind = "ok" => stale = {}
        /\ doc.kind = "error" /\ doc.ver > 1 => doc.ver \in stale

(* A text that runs is shown, unless it is replaced first. *)
EventuallyShown ==
    \A v \in 1..MaxVersion :
        (enabled /\ doc = [ver |-> v, kind |-> "ok"]) ~> (shown = v \/ doc.ver # v \/ ~enabled)

(* The boxes promise what ProjectionBoxes states. *)
Boxes == INSTANCE ProjectionBoxes WITH text <- doc.ver
BoxesSpec == Boxes!Spec
=============================================================================
