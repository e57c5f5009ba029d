----------------------------- MODULE RemoteRun -----------------------------
(***************************************************************************)
(* The run pipeline of the web build: RTVController.runProgram over        *)
(* RemoteRunProcess, which hands every run to one Pyodide worker.          *)
(*                                                                         *)
(* There is nothing to kill here.  kill() sets a byte that the page and    *)
(* the worker share; the worker interrupts what it is running and clears   *)
(* the byte; a new process posts its request when the byte is clear.  The  *)
(* page is single threaded and meets the worker in the byte and in two     *)
(* queues of messages.  An await that only passes through microtasks is no *)
(* step of its own.                                                        *)
(*                                                                         *)
(* A program is a version of the text and how it ends: "ok" and "error"    *)
(* (it does not parse) by themselves, "hang" only when it is interrupted,  *)
(* "deaf" by itself and without noticing an interrupt.                     *)
(***************************************************************************)
EXTENDS Naturals, Sequences

CONSTANTS
    MaxRuns,     \* bound: calls of runProgram in a behaviour
    MaxVersion,  \* bound: versions of the program text
    Kinds,       \* how the programs the user types may end
    Users        \* the sets of habits that are looked at

AllKinds == {"ok", "error", "hang", "deaf"}

(* What a user does: typing before the first run of the page is over, while a *)
(* process waits for the byte, while a kill() waits for it; programs that do  *)
(* not notice interrupts.                                                     *)
Habits == {"early", "hurry", "press", "deaf"}

ASSUME RemoteAssumption ==
    /\ MaxRuns \in Nat \ {0, 1, 2}
    /\ MaxVersion \in Nat \ {0}
    /\ Kinds \subseteq AllKinds
    /\ Users \subseteq SUBSET Habits

VARIABLES
    doc,      \* the program text in the editor
    shown,    \* version whose envs the boxes show, 0 for none
    timer,    \* DelayedRunAtMostOne: a call waits for its timer
    spinner,  \* the page's spinner is there
    habits,   \* the user's habits, which do not change
    ready,    \* loadPyodide has been resolved
    run,      \* each run: who called, where the caller is, program, process it kills
    python,   \* RTVController.pythonProcess
    listens,  \* processes whose listener is registered
    loading,  \* processes that await loadPyodide
    waiting,  \* processes that wait for the byte
    byte,     \* interruptBuffer[0]
    queue,    \* requests posted to the worker
    working,  \* the request the worker runs, 0 for none
    mail      \* messages posted by the worker

pageVars    == <<doc, shown, timer, spinner, ready>>
processVars == <<run, python, listens, loading, waiting>>
workerVars  == <<queue, working, mail>>
vars        == <<pageVars, habits, processVars, byte, workerVars>>

Runs     == 1..MaxRuns
None     == 0
Elements(s) == {s[i] : i \in DOMAIN s}
Unused   == [for |-> "none", at |-> "unused", ver |-> 0, kind |-> "ok", victim |-> 0]
Awaits(r) == run[r].at = "await"
-----------------------------------------------------------------------------
(* The model is attached before Pyodide is there: the first update has made  *)
(* its process, which awaits loadPyodide.                                    *)
Init ==
    /\ habits \in Users
    /\ \E k \in Kinds : doc = [ver |-> 1, kind |-> k] /\ (k = "deaf" => "deaf" \in habits)
    /\ shown = 0
    /\ timer = FALSE
    /\ spinner = TRUE
    /\ ready = FALSE
    /\ run = [r \in Runs |->
                IF r = 1 THEN [for |-> "boxes", at |-> "await", ver |-> 1, kind |-> doc.kind, victim |-> 0]
                ELSE Unused]
    /\ python = 1
    /\ listens = {1}
    /\ loading = <<1>>
    /\ waiting = <<>>
    /\ byte = 0
    /\ queue = <<>>
    /\ working = None
    /\ mail = <<>>

(* Mutant: the process does not look at the byte. *)
ProcessPosts(r, b) ==
    \/ ~ready /\ loading' = Append(loading, r) /\ UNCHANGED <<waiting, queue>>
    \/ ready /\ queue' = Append(queue, r) /\ UNCHANGED <<loading, waiting>>

(* new RemoteRunProcess: it listens, and posts its request as soon as Pyodide *)
(* is there and the byte b is clear.                                          *)
Process(r, b) ==
    \/ ~ready /\ loading' = Append(loading, r) /\ UNCHANGED <<waiting, queue>>
    \/ ready /\ b = 0 /\ queue' = Append(queue, r) /\ UNCHANGED <<loading, waiting>>
    \/ ready /\ b # 0 /\ waiting' = Append(waiting, r) /\ UNCHANGED <<loading, queue>>

(* reject() of a process: its caller does not go on, unless Pyodide is not    *)
(* there yet, when there is nothing to reject.                                *)
Rejected(p) == {p} \ ({None} \cup Elements(loading))

Over(rs) == [r \in Runs |-> IF r \in rs THEN [run[r] EXCEPT !.at = "over"] ELSE run[r]]

(* Mutant: kill() counts the interrupts instead of waiting for its turn. *)
RunProgramCounts(r, caller, done) ==
    /\ run[r] = Unused /\ \A q \in 1..(r - 1) : run[q] # Unused
    /\ run' = [Over(Rejected(python) \cup done) EXCEPT ![r] =
                 [for |-> caller, at |-> "await", ver |-> doc'.ver, kind |-> doc'.kind, victim |-> None]]
    /\ python' = r
    /\ listens' = (listens \ ({python} \cup done)) \cup {r}
    /\ byte' = IF python # None THEN byte + 1 ELSE byte
    /\ Process(r, byte')

(* Mutant: the registered process is left alone. *)
RunProgramNoKill(r, caller, done) ==
    /\ run[r] = Unused /\ \A q \in 1..(r - 1) : run[q] # Unused
    /\ run' = [Over(done) EXCEPT ![r] =
                 [for |-> caller, at |-> "await", ver |-> doc'.ver, kind |-> doc'.kind, victim |-> None]]
    /\ python' = r
    /\ listens' = (listens \ done) \cup {r}
    /\ UNCHANGED byte
    /\ Process(r, byte)

(* RTVController.runProgram, r its number: it reads the text and, when a      *)
(* process is registered, awaits its kill(), which waits for a byte that is   *)
(* set and sets one that is clear.  The listeners of done have just gone.     *)
RunProgram(r, caller, done) ==
    /\ run[r] = Unused /\ \A q \in 1..(r - 1) : run[q] # Unused
    /\ LET kills == python # None
           sleeps == kills /\ byte # 0
       IN  /\ run' = [Over(Rejected(python) \cup done) EXCEPT ![r] =
                        [for |-> caller, at |-> IF sleeps THEN "kill" ELSE "await",
                         ver |-> doc'.ver, kind |-> doc'.kind, victim |-> IF sleeps THEN python ELSE None]]
           /\ \/ /\ sleeps
                 /\ listens' = listens \ done
                 /\ UNCHANGED <<python, byte, loading, waiting, queue>>
              \/ /\ ~sleeps
                 /\ python' = r
                 /\ listens' = (listens \ ({python} \cup done)) \cup {r}
                 /\ byte' = IF kills THEN 1 ELSE byte
                 /\ Process(r, byte')

(* kill() sees a clear byte: it sets it, and runProgram goes on. *)
KillEnds(r) ==
    /\ run[r].at = "kill"
    /\ byte = 0
    /\ byte' = 1
    /\ listens' = (listens \ {run[r].victim}) \cup {r}
    /\ run' = [run EXCEPT ![r].at = "await"]
    /\ python' = r
    /\ Process(r, 1)
    /\ UNCHANGED <<pageVars, working, mail>>
-----------------------------------------------------------------------------
(* The user *)

(* The bound on runs leaves those that the page will start by itself. *)
Room == run[MaxRuns - (IF ~ready THEN 2 ELSE IF spinner THEN 1 ELSE 0)] = Unused

(* When this user types. *)
MayType ==
    /\ Room
    /\ ~ready \/ spinner => "early" \in habits
    /\ waiting # <<>> => "hurry" \in habits
    /\ (\E r \in Runs : run[r].at = "kill") => "press" \in habits

(* onDidChangeModelContent: updateBoxes, at once or after a delay, takes the  *)
(* place of a call that waits for its timer.                                  *)
Edit(k, spansLines) ==
    /\ MayType
    /\ doc.ver < MaxVersion
    /\ k = "deaf" => "deaf" \in habits
    /\ doc' = [ver |-> doc.ver + 1, kind |-> k]
    /\ timer' = ~spansLines
    /\ \/ spansLines /\ \E r \in Runs : RunProgram(r, "boxes", {})
       \/ ~spansLines /\ UNCHANGED <<processVars, byte, queue>>
    /\ UNCHANGED <<shown, spinner, ready, working, mail>>

(* updateBoxes() without an event. *)
Refresh ==
    /\ MayType
    /\ timer' = FALSE
    /\ UNCHANGED doc
    /\ \E r \in Runs : RunProgram(r, "boxes", {})
    /\ UNCHANGED <<shown, spinner, ready, working, mail>>

TimerFires ==
    /\ timer
    /\ timer' = FALSE
    /\ UNCHANGED doc
    /\ \E r \in Runs : RunProgram(r, "boxes", {})
    /\ UNCHANGED <<shown, spinner, ready, working, mail>>
-----------------------------------------------------------------------------
(* The page *)

(* The worker says LOADED: the processes that awaited it post their requests, *)
(* or wait for the byte, and so does one run of the program that is not       *)
(* registered.                                                                *)
Loaded ==
    /\ ~ready
    /\ ready' = TRUE
    /\ \E r \in Runs :
        /\ run[r] = Unused /\ \A q \in 1..(r - 1) : run[q] # Unused
        /\ run' = [run EXCEPT ![r] = [for |-> "page", at |-> "await", ver |-> doc.ver,
                                      kind |-> doc.kind, victim |-> None]]
        /\ listens' = listens \cup {r}
        /\ \/ byte = 0 /\ queue' = loading \o <<r>> /\ UNCHANGED waiting
           \/ byte # 0 /\ waiting' = loading \o <<r>> /\ UNCHANGED queue
    /\ loading' = <<>>
    /\ UNCHANGED <<doc, shown, timer, spinner, python, byte, working, mail>>

(* A waiting process finds the byte clear and posts its request, also when    *)
(* it has been killed meanwhile.                                              *)
Posts(r) ==
    /\ byte = 0
    /\ \E i \in DOMAIN waiting :
        /\ waiting[i] = r
        /\ waiting' = SubSeq(waiting, 1, i - 1) \o SubSeq(waiting, i + 1, Len(waiting))
    /\ queue' = Append(queue, r)
    /\ UNCHANGED <<pageVars, run, python, listens, loading, byte, working, mail>>

(* Mutant: after half a second it posts its request and leaves the byte. *)
GivesUpKeepsByte ==
    /\ waiting # <<>>
    /\ byte # 0
    /\ IF working = None THEN queue = <<>> ELSE run[working].kind = "deaf"
    /\ waiting' = Tail(waiting)
    /\ queue' = Append(queue, Head(waiting))
    /\ UNCHANGED <<pageVars, run, python, listens, loading, byte, working, mail>>

(* It has waited for half a second: it clears the byte itself.  The worker    *)
(* takes a request, and a program notices an interrupt, sooner than that.     *)
GivesUp ==
    /\ waiting # <<>>
    /\ byte # 0
    /\ IF working = None THEN queue = <<>> ELSE run[working].kind = "deaf"
    /\ byte' = 0
    /\ waiting' = Tail(waiting)
    /\ queue' = Append(queue, Head(waiting))
    /\ UNCHANGED <<pageVars, run, python, listens, loading, working, mail>>

(* Mutant: a killed process still delivers its result. *)
ResultOfKilled(r) ==
    /\ mail # <<>>
    /\ Head(mail) = [run |-> r, result |-> TRUE]
    /\ mail' = Tail(mail)
    /\ IF run[r].for = "page"
       THEN /\ spinner' = FALSE
            /\ UNCHANGED <<doc, shown, timer>>
            /\ \E q \in Runs : RunProgram(q, "nobody", {r})
       ELSE /\ run' = Over({r})
            /\ listens' = listens \ {r}
            /\ python' = None
            /\ shown' = IF run[r].for = "boxes" /\ run[r].kind # "error" THEN run[r].ver ELSE shown
            /\ UNCHANGED <<doc, timer, spinner, loading, waiting, queue, byte>>
    /\ UNCHANGED <<ready, working>>

(* The listener of a process gets its result.  updateBoxes goes on with it;   *)
(* after the page's own run the spinner goes and runProgram is called once    *)
(* more, for nobody.                                                          *)
Result(r) ==
    /\ mail # <<>>
    /\ Head(mail) = [run |-> r, result |-> TRUE]
    /\ mail' = Tail(mail)
    /\ \/ /\ Awaits(r) /\ r \in listens /\ run[r].for = "page"
          /\ spinner' = FALSE
          /\ UNCHANGED <<doc, shown, timer>>
          /\ \E q \in Runs : RunProgram(q, "nobody", {r})
       \/ /\ Awaits(r) /\ r \in listens /\ run[r].for # "page"
          /\ run' = Over({r})
          /\ listens' = listens \ {r}
          /\ python' = None
          /\ shown' = IF run[r].for = "boxes" /\ run[r].kind # "error" THEN run[r].ver ELSE shown
          /\ UNCHANGED <<doc, timer, spinner, loading, waiting, queue, byte>>
       \/ /\ ~(Awaits(r) /\ r \in listens)
          /\ listens' = listens \ {r}
          /\ UNCHANGED <<doc, shown, timer, spinner, run, python, loading, waiting, queue, byte>>
    /\ UNCHANGED <<ready, working>>

(* It gets an exception: its caller is rejected and the process stays         *)
(* registered.                                                                *)
Exception(r) ==
    /\ mail # <<>>
    /\ Head(mail) = [run |-> r, result |-> FALSE]
    /\ mail' = Tail(mail)
    /\ run' = Over({r} \cap listens)
    /\ listens' = listens \ {r}
    /\ UNCHANGED <<pageVars, python, loading, waiting, byte, queue, working>>
-----------------------------------------------------------------------------
(* The worker *)

Takes ==
    /\ working = None
    /\ queue # <<>>
    /\ working' = Head(queue)
    /\ queue' = Tail(queue)
    /\ UNCHANGED <<pageVars, processVars, byte, mail>>

Ends ==
    /\ working # None
    /\ run[working].kind # "hang"
    /\ mail' = Append(mail, [run |-> working, result |-> TRUE])
    /\ working' = None
    /\ UNCHANGED <<pageVars, processVars, byte, queue>>

Interrupted ==
    /\ working # None
    /\ byte # 0
    /\ run[working].kind # "deaf"
    /\ byte' = 0
    /\ mail' = Append(mail, [run |-> working, result |-> FALSE])
    /\ working' = None
    /\ UNCHANGED <<pageVars, processVars, queue>>
-----------------------------------------------------------------------------
UserStep == (\E k \in Kinds, spansLines \in BOOLEAN : Edit(k, spansLines)) \/ Refresh

PageStep   == (TimerFires \/ Loaded \/ GivesUp) /\ UNCHANGED habits
RunStep(r) == (KillEnds(r) \/ Posts(r) \/ Result(r) \/ Exception(r)) /\ UNCHANGED habits
WorkerStep == (Takes \/ Ends \/ Interrupted) /\ UNCHANGED habits

Next ==
    \/ UserStep /\ UNCHANGED habits
    \/ PageStep
    \/ \E r \in Runs : RunStep(r)
    \/ WorkerStep

Spec == Init /\ [][Next]_vars

(* The page runs what is due, its timers fire, and the worker works.  The     *)
(* user owes nothing.                                                         *)
FairSpec ==
    /\ Spec
    /\ WF_vars(PageStep) /\ WF_vars(WorkerStep)
    /\ \A r \in Runs : WF_vars(RunStep(r))
-----------------------------------------------------------------------------
(* Properties *)

(* Every variable keeps its type. *)
TypeOK ==
    /\ doc \in [ver : 1..MaxVersion, kind : Kinds]
    /\ shown \in 0..MaxVersion
    /\ {timer, spinner, ready} \subseteq BOOLEAN
    /\ habits \in Users
    /\ run \in [Runs -> [for : {"none", "boxes", "page", "nobody"}, at : {"unused", "kill", "await", "over"},
                         ver : 0..MaxVersion, kind : AllKinds, victim : Runs \cup {None}]]
    /\ python \in Runs \cup {None}
    /\ listens \subseteq Runs
    /\ {loading, waiting, queue} \subseteq Seq(Runs)
    /\ byte \in {0, 1}
    /\ working \in Runs \cup {None}
    /\ mail \in Seq([run : Runs, result : BOOLEAN])

(* The byte does not say whom it interrupts: the request it ends is never one *)
(* that somebody waits for.  Only who types before the first run of the page  *)
(* is over, or keeps typing while a kill() waits, loses the run he wants.     *)
NoStrayInterrupt ==
    /\ habits \cap {"early", "press"} = {}
    /\ byte # 0
    /\ working # None
    => working \notin listens

(* A killed process may still post its request and have it run, yet the boxes *)
(* promise what ProjectionBoxes states: they never go back to an older text.  *)
(* Not to a user who lets two kill() wait, by typing while one waits, or      *)
(* before the first run of the page is over, whose end kills as well, and     *)
(* does not wait for processes either: they may end in the other order.       *)
TwoKills == "press" \in habits \/ {"early", "hurry"} \subseteq habits
Boxes == INSTANCE ProjectionBoxes WITH
            text <- doc.ver, opened <- 1, shown <- IF TwoKills THEN 0 ELSE shown
BoxesSpec == Boxes!Spec

(* The kill()s that wait for the byte come to their end, whoever set it and   *)
(* whatever the worker does: there is always a process that will clear it.    *)
KillsEnd == (\E r \in Runs : run[r].at = "kill") ~> (\A r \in Runs : run[r].at # "kill")

(* A patient user sees every text that runs, unless he replaces it first,     *)
(* also when programs before it never ended.                                  *)
EventuallyShown ==
    \A v \in 1..MaxVersion :
        habits = {} /\ doc = [ver |-> v, kind |-> "ok"] ~> shown = v \/ doc.ver # v
=============================================================================
