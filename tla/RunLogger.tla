----------------------------- MODULE RunLogger -----------------------------
(***************************************************************************)
(* The Logger of run.py: it is told of every line and every return of the  *)
(* user's program and records an environment for each, together with the  *)
(* loops that are active and how often each has gone round.  The boxes are *)
(* laid out by these loops.  The logger has no syntax tree: it finds out   *)
(* where loops begin and end from the indentation and the words of lines.  *)
(*                                                                         *)
(* A program is a sequence of lines, of which the logger knows the         *)
(* indentation and some words.  It has at most one function, and its       *)
(* conditions, ranges and exceptions are chosen as it runs.  A "break",    *)
(* "return" or "raise" need not be taken: the line may be "if c: break".   *)
(* The logger leaves alone lines of other files, comprehensions, lambdas   *)
(* and class bodies; these steps of a program are not modelled.  A         *)
(* "library" line calls a function of another file, which may raise and    *)
(* catch an exception of its own.                                          *)
(***************************************************************************)
EXTENDS Naturals, Sequences, FiniteSets

CONSTANTS
    Programs, \* the programs that are run
    Limit     \* RUNPY_LIMIT

Kinds == {"plain", "loop", "if", "break", "return", "raise", "call", "library", "def"}
Lines == [indent : Nat, does : Kinds]

(* stmts_in_loop: the lines below line l of program p that are indented more  *)
(* than it is.                                                                *)
BodyOf(p, l) == {k \in DOMAIN p : k > l /\ \A j \in (l + 1)..k : p[j].indent > p[l].indent}

(* Python's parser has accepted a program that is run: a header has a body, a *)
(* break a loop of its own function, a return a function.  Functions are not  *)
(* nested.                                                                    *)
WellFormed(p) ==
    /\ p # <<>>
    /\ \A l \in DOMAIN p :
          /\ p[l].does \in {"loop", "if", "def"} => l + 1 \in BodyOf(p, l)
          /\ p[l].does = "break" =>
                \E h \in DOMAIN p :
                    /\ p[h].does = "loop" /\ l \in BodyOf(p, h)
                    /\ \A d \in DOMAIN p : p[d].does = "def" /\ l \in BodyOf(p, d) => h \in BodyOf(p, d)
          /\ p[l].does = "return" => \E d \in DOMAIN p : p[d].does = "def" /\ l \in BodyOf(p, d)
          /\ p[l].does = "def" => \A d \in DOMAIN p : p[d].does = "def" => l \notin BodyOf(p, d)

ASSUME LoggerAssumption ==
    /\ Programs \subseteq {p \in Seq(Lines) : WellFormed(p)}
    /\ Limit \in Nat \ {0}

VARIABLES
    program,   \* the lines
    stack,     \* the frames of the program that runs, with the loops each is really in
    active,    \* Logger.active_loops
    log,       \* Logger.data, in the order in which it is recorded
    time,      \* Logger.time: environments recorded so far
    exception, \* Logger.exception is set
    quitting   \* set_quit was called

vars == <<program, stack, active, log, time, exception, quitting>>

Top(s)  == s[Len(s)]
Pop(s)  == SubSeq(s, 1, Len(s) - 1)

Indent(l) == program[l].indent
Does(l)   == program[l].does

Body(l)   == BodyOf(program, l)

Greatest(S) == CHOOSE x \in S : \A y \in S : y <= x

Envs == {i \in DOMAIN log : log[i].kind = "env"}

(* Logger.prev_env, which there is once something has been recorded. *)
PrevEnv == log[Greatest(Envs)]
-----------------------------------------------------------------------------
(* The program: where control goes from a line *)

Around(l, kinds) == {h \in DOMAIN program : Does(h) \in kinds /\ l \in Body(h)}
Innermost(hs)    == Greatest(hs)

(* The line that is executed when the statement of line l is over: the one    *)
(* below it, the header of the loop whose body it ends, or 0 for a return.    *)
After(l) ==
    LET below == l + 1 + Cardinality(Body(l))
        hs    == Around(l, {"loop", "def"})
    IN IF hs = {} THEN IF below \in DOMAIN program THEN below ELSE 0
       ELSE IF below \in Body(Innermost(hs)) THEN below
       ELSE IF Does(Innermost(hs)) = "loop" THEN Innermost(hs) ELSE 0

Successors(l) ==
    CASE Does(l) \in {"loop", "if"} -> {l + 1, After(l)}
      [] Does(l) = "break"          -> {After(l), After(Innermost(Around(l, {"loop"})))}
      [] Does(l) = "return"         -> {After(l), 0}
      [] OTHER                      -> {After(l)}

(* A frame: the line it executed last and the one it executes next, whether   *)
(* an exception leaves it, the loops it is in, how often each has come back   *)
(* to its header and how many rounds it has begun; and the iterations of the  *)
(* loops its callers are in.                                                  *)
NewFrame(id, def, outer) ==
    [id |-> id, name |-> def, at |-> def, next |-> def + 1, raised |-> FALSE, loops |-> <<>>, outer |-> outer]

(* The loops of frame f, which are nested, that line l belongs to. *)
StillIn(f, l) ==
    LET leading == {k \in 0..Len(f.loops) : \A j \in 1..k : l = f.loops[j].line \/ l \in Body(f.loops[j].line)}
    IN  SubSeq(f.loops, 1, Greatest(leading))

(* Frame f with line l executed and control going to n. *)
Executed(f, l, n) ==
    LET in   == StillIn(f, l)
        goes == IF n = l + 1 THEN 1 ELSE 0
        k    == Len(in)
    IN [f EXCEPT
          !.at = l, !.next = n,
          !.loops = IF Does(l) # "loop" THEN in
                    ELSE IF k > 0 /\ in[k].line = l
                      THEN [in EXCEPT ![k].iter = @ + 1, ![k].begun = @ + goes]
                      ELSE Append(in, [line |-> l, iter |-> 0, begun |-> goes])]

(* The loops the whole program is in when frame f, the top one, is at line l. *)
Iterations(loops) == [i \in DOMAIN loops |-> [line |-> loops[i].line, iter |-> loops[i].iter]]
TrueLoops(f, l)   == f.outer \o Iterations(StillIn(f, l))
-----------------------------------------------------------------------------
(* The logger *)

(* The line before was a return of this function: the names are compared. *)
Returned(f, prev) == Does(prev.line) = "return" /\ prev.name = f.name

(* Line l is outside the innermost active loop, by its indentation. *)
Outside(l) == Indent(l) <= Indent(Top(active).line) /\ l # Top(active).line

(* How many of the active loops record_loop_end ends when frame f is at line  *)
(* l and prev was recorded last: all of them after a line with a return.      *)
Ending(f, l, prev) ==
    IF active = <<>> \/ Top(active).frame # f.id THEN 0
    ELSE IF Returned(f, prev) THEN Len(active)
    ELSE IF Outside(l) THEN 1 ELSE 0

(* Mutant of LastRound: a break is taken to have gone through the header.  *)
LastRoundNoBreak(f, prev) == IF Returned(f, prev) THEN 1 ELSE 0

(* The round that a break or return cut short is counted as well. *)
LastRound(f, prev) == IF Does(prev.line) = "break" \/ Returned(f, prev) THEN 1 ELSE 0

(* The records of the loops that end, innermost first, and what stays active. *)
EndRecords(f, l, prev) ==
    [k \in 1..Ending(f, l, prev) |->
        LET i == Len(active) + 1 - k
        IN [kind |-> "end", line |-> active[i].line,
            iter |-> active[i].iter + LastRound(f, prev),
            begun |-> {f.loops[j].begun : j \in {j \in DOMAIN f.loops : f.loops[j].line = active[i].line}}]]
StayActive(f, l, prev) == SubSeq(active, 1, Len(active) - Ending(f, l, prev))

(* What record_env records; really is where the program really is. *)
Env(f, l, ret, loops, really, says) ==
    [kind |-> "env", line |-> l, ret |-> ret, frame |-> f.id, name |-> f.name,
     loops |-> Iterations(loops), really |-> really, says |-> says, raised |-> f.raised]

(* record_loop_begin. *)
Began(f, l, loops) ==
    IF Does(l) # "loop" THEN loops
    ELSE IF loops # <<>> /\ Top(loops).line = l
      THEN [loops EXCEPT ![Len(loops)].iter = @ + 1]
      ELSE Append(loops, [frame |-> f.id, line |-> l, iter |-> 0])
BeginRecord(l, before, after) ==
    IF Len(after) > Len(before) THEN <<[kind |-> "begin", line |-> l, iter |-> 0]>> ELSE <<>>

(* Mutant of Counted: the program is stopped after the limit.  *)
CountedLate ==
    /\ time' = time + 1
    /\ quitting' = (time' > Limit)

Counted ==
    /\ time' = time + 1
    /\ quitting' = (time' >= Limit)
-----------------------------------------------------------------------------
Init ==
    /\ program \in Programs
    /\ stack = <<NewFrame(0, 0, <<>>)>>
    /\ active = <<>>
    /\ log = <<>>
    /\ time = 0
    /\ exception = FALSE
    /\ quitting = FALSE

Running == stack # <<>> /\ ~quitting

(* Mutant of ExceptionAfter: user_line does not forget the exception. *)
ExceptionAfterKept(l) == {exception}

(* user_line forgets the exception, user_exception sets it. *)
ExceptionAfter(l) == IF Does(l) = "library" THEN BOOLEAN ELSE {FALSE}

(* An exception leaves frame f at line l and all frames above number k, whose *)
(* except clause is what it executes next; with 0 it leaves the program.      *)
Raise(f, l, k) ==
    /\ k > 0 => stack[k].next # 0
    /\ stack' = [i \in DOMAIN stack |->
                   IF i <= k THEN stack[i]
                   ELSE [(IF i = Len(stack) THEN Executed(f, l, 0) ELSE stack[i])
                            EXCEPT !.next = 0, !.raised = TRUE]]
    /\ exception' = TRUE

(* What the program does at line l of frame f. *)
Execute(f, l) ==
    \/ /\ Does(l) # "call"
       /\ \E n \in Successors(l) : stack' = Append(Pop(stack), Executed(f, l, n))
       /\ exception' \in ExceptionAfter(l)
    \/ /\ Does(l) = "call"
       /\ LET caller == Executed(f, l, After(l))
          IN \E def \in {d \in DOMAIN program : Does(d) = "def"} :
                stack' = Append(Append(Pop(stack), caller),
                                NewFrame(time', def, caller.outer \o Iterations(caller.loops)))
       /\ exception' \in ExceptionAfter(l)
    \/ /\ Does(l) = "raise"
       /\ \E k \in 0..(Len(stack) - 1) : Raise(f, l, k)

(* user_line, then the program executes the line. *)
UserLine ==
    LET f == Top(stack)
        l == f.next
        ends == IF log = <<>> THEN <<>> ELSE EndRecords(f, l, PrevEnv)
        kept == IF log = <<>> THEN active ELSE StayActive(f, l, PrevEnv)
        says == IF time + 1 >= Limit THEN "limit" ELSE "state"
    IN /\ Running
       /\ l # 0
       /\ active' = Began(f, l, kept)
       /\ log' = log \o ends \o <<Env(f, l, FALSE, kept, TrueLoops(f, l), says)>> \o BeginRecord(l, kept, active')
       /\ Counted
       /\ Execute(f, l)
       /\ UNCHANGED program

(* user_return: the environment at the end of a frame, with what it returns   *)
(* or, if there was an exception, that one; then the loops that end with it.  *)
UserReturn ==
    LET f == Top(stack)
        says == IF exception THEN "thrown" ELSE IF time + 1 >= Limit THEN "limit" ELSE "value"
        env  == Env(f, f.at, TRUE, active, TrueLoops(f, f.at), says)
    IN /\ Running
       /\ f.next = 0
       /\ active' = StayActive(f, f.at, env)
       /\ log' = Append(log, env) \o EndRecords(f, f.at, env)
       /\ Counted
       /\ stack' = Pop(stack)
       /\ UNCHANGED <<program, exception>>

Next == UserLine \/ UserReturn

Spec == Init /\ [][Next]_vars
-----------------------------------------------------------------------------
(* adjust_to_next_time_step: a box shows at line l what is true behind it,    *)
(* which is the environment that the same frame records next.                 *)

(* The record j is the next environment of the frame of record i. *)
Follows(j, i) ==
    /\ log[j].kind = "env"
    /\ log[j].frame = log[i].frame
    /\ \A k \in (i + 1)..(j - 1) : log[k].kind = "env" => log[k].frame # log[i].frame

(* Mutant of Adjusted: the next environment of any frame is taken.  *)
AdjustedAnyFrame(i) ==
    {j \in (i + 1)..Len(log) :
        /\ log[j].kind = "env"
        /\ \A k \in (i + 1)..(j - 1) : log[k].kind # "env"
        /\ Does(log[i].line) = "loop" => Indent(log[j].line) > Indent(log[i].line)}

Adjusted(i) ==
    {j \in (i + 1)..Len(log) :
        /\ Follows(j, i)
        /\ \/ Does(log[i].line) # "loop"
           \/ log[j].says \in {"limit", "thrown"}
           \/ Indent(log[j].line) > Indent(log[i].line)}
-----------------------------------------------------------------------------
(* Properties *)

(* Every variable keeps its type. *)
TypeOK ==
    /\ program \in Seq(Lines)
    /\ stack \in Seq([id : Nat, name : Nat, at : Nat, next : Nat, raised : BOOLEAN,
                      loops : Seq([line : Nat, iter : Nat, begun : Nat]),
                      outer : Seq([line : Nat, iter : Nat])])
    /\ active \in Seq([frame : Nat, line : DOMAIN program, iter : Nat])
    /\ time = Cardinality(Envs)
    /\ time <= Limit
    /\ exception \in BOOLEAN
    /\ quitting \in BOOLEAN

(* Programs whose loops the logger can follow: no return or raise inside a    *)
(* loop of the function, no loop that ends with the function, no recursion    *)
(* out of a loop.                                                             *)
LoopsOfFunction == {h \in DOMAIN program : Does(h) = "loop" /\ Around(h, {"def"}) # {}}
Followed ==
    \A h \in LoopsOfFunction :
        /\ After(h) # 0
        /\ \A l \in Body(h) : Does(l) \notin {"return", "raise", "call"}

(* "#" and "$", by which the boxes are laid out: an environment is recorded   *)
(* with the loops the program is really in, the ones of its callers included, *)
(* and the iteration each is really in; and although "break statements don't  *)
(* go through the loop header, so we miss the last increment in iter", a loop *)
(* ends with as many rounds as it began.                                      *)
TrueIterations ==
    Followed =>
        /\ \A i \in Envs : log[i].loops = log[i].really
        /\ \A i \in DOMAIN log : log[i].kind = "end" => log[i].begun = {log[i].iter}

(* What is shown at a line that was executed is the same call's, in the same  *)
(* iteration; at the header of a loop it is in the iteration that begins, and *)
(* a break may leave the loop.                                                *)
Extends(long, short) == Len(long) >= Len(short) /\ SubSeq(long, 1, Len(short)) = short
Lined(loops) == [k \in DOMAIN loops |-> loops[k].line]
ShownWhereItRan ==
    Followed => \A i \in Envs : \A j \in Adjusted(i) :
        /\ log[j].frame = log[i].frame
        /\ CASE Does(log[i].line) = "loop" ->
                  log[j].says = "state" => Top(log[j].loops).line = log[i].line
             [] Does(log[i].line) = "break" -> Extends(log[i].loops, log[j].loops)
             [] OTHER -> log[j].loops = log[i].loops

(* "Non-errors can accidentally overwrite actual errors we care about": an    *)
(* exception is reported of a return exactly if the frame was left by one,    *)
(* unless a library has caught one of its own.                                *)
ThrownIsThrown ==
    (\A l \in DOMAIN program : Does(l) # "library") => \A i \in Envs : log[i].ret => (log[i].says = "thrown" <=> log[i].raised)

(* "we shouldn't record the end of a loop after a call to another function    *)
(* with a return statement": a step ends loops only of the frame that takes   *)
(* it.                                                                        *)
OwnLoopsEnd ==
    [][\A k \in DOMAIN active :
          active[k].frame # Top(stack).id => k \in DOMAIN active' /\ active'[k] = active[k]]_vars
=============================================================================
