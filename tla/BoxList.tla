------------------------------ MODULE BoxList ------------------------------
(***************************************************************************)
(* The list of projection boxes (RTVDisplay.ts): _boxes[i] belongs to line *)
(* i + 1.  When the text changes, addRemoveBoxes follows the lines with    *)
(* their boxes, so that a line keeps its box and what the user has chosen  *)
(* in it, by the ranges and the numbers of lines in the event alone.       *)
(***************************************************************************)
EXTENDS Integers, Sequences, FiniteSets, Functions

CONSTANTS
    MaxLines, \* bound: lines of the text
    MaxAdded, \* bound: lines that one change adds
    Carets,   \* bound: changes of one event
    Boxes,    \* bound: names of boxes; a box that is neither listed nor seen gives its name away
    Sessions  \* sets of events that occur in a session

(* Events of one change, of several that add or replace lines, of any, and    *)
(* another text in the editor.                                                *)
Events == {"one", "adds", "any", "model"}

ASSUME ListAssumption ==
    /\ {MaxLines, MaxAdded, Carets} \subseteq Nat \ {0}
    /\ 1..MaxLines \subseteq Boxes /\ Boxes \subseteq Nat \ {0}
    /\ Sessions \subseteq SUBSET Events

VARIABLES
    boxes,   \* _boxes
    showing, \* boxes in the editor that show something
    enabled, \* RTVController.enabled
    thrown,  \* addRemoveBoxes has come upon an undefined box
    events,  \* the events that occur, which do not change
    own      \* (history) for each line of the text, the box it came with, 0 while it has none

vars == <<boxes, showing, enabled, thrown, events, own>>

Lines     == Len(own)
Listed    == Range(boxes)
Same(n)   == [k \in 1..n |-> k]

(* The names of `count` new boxes, which nothing has used: the least ones.    *)
Free(used)         == Boxes \ (Listed \cup showing \cup Range(own) \cup used)
Fresh(used, count) ==
    [k \in 1..count |-> CHOOSE b \in Free(used) : Cardinality({x \in Free(used) : x < b}) = k - 1]
-----------------------------------------------------------------------------
(* The events: where a change starts in its first line, before, within or     *)
(* after its words, where it ends in its last one, and the lines it adds.     *)

Places == {"before", "within", "after"}

Changes ==
    {c \in [start : 1..MaxLines, end : 1..MaxLines, added : 0..MaxAdded, from : Places] :
        c.start <= c.end /\ (c.start = c.end => c.added > 0)}

Delta(c) == c.added - (c.end - c.start)

(* The lines that the first k changes of an event add. *)
Added(e, k) ==
    LET sum[i \in 0..Len(e)] == IF i = 0 THEN 0 ELSE sum[i - 1] + Delta(e[i])
    IN  sum[k]

(* Change d is of text behind that of c, of the same line at the earliest. *)
InOrder(c, d) ==
    \/ c.end < d.start
    \/ c.end = d.start /\ (c.start < c.end \/ c.from = "before" \/ d.from \in {c.from, "after"})

(* The events that may come to a text of n lines, in the order of the text. *)
MayCome ==
    [n \in 1..MaxLines |->
        {e \in UNION {[1..k -> Changes] : k \in 1..Carets} :
            /\ \A k \in 1..Len(e) : e[k].end <= n
            /\ \A k \in 1..(Len(e) - 1) : InOrder(e[k], e[k + 1])
            /\ n + Added(e, Len(e)) \in 1..MaxLines}]

Allowed(e) ==
    \/ "any" \in events
    \/ "one" \in events /\ Len(e) = 1
    \/ "adds" \in events /\ \A k \in 1..Len(e) : Delta(e[k]) >= 0

(* What becomes of a list of one entry for each line: those of the lines that *)
(* a change is about are 0, but for a line that text is added after, or lines *)
(* before.                                                                    *)
Replacing(c, list, k) ==
    IF k = c.start /\ c.from = "after" /\ Delta(c) >= 0 THEN list[c.start]
    ELSE IF k = c.start + c.added /\ c.from = "before" /\ c.start = c.end THEN list[c.end]
    ELSE 0

Replaced(c, list) ==
    [k \in 1..(Len(list) + Delta(c)) |->
        IF k < c.start THEN list[k]
        ELSE IF k > c.start + c.added THEN list[k - Delta(c)]
        ELSE Replacing(c, list, k)]
-----------------------------------------------------------------------------
(* addRemoveBoxes *)

(* padBoxArray comes first and already counts the new lines. *)
Missing(list, lines) == IF lines > Len(list) THEN lines - Len(list) ELSE 0
Padded(list, lines)  == list \o Fresh({}, Missing(list, lines))

(* Mutant of Trigger: a line added at the end of a line is added before it. *)
TriggerAtStart(c) == c.start

(* The line of the new list at which the loop takes up a change. *)
Trigger(c) == IF Delta(c) > 0 /\ c.from = "after" THEN c.start + 1 ELSE c.start

(* Mutants of Taken: one box less is passed over, or one more. *)
TakenMore(taken, c) == IF Delta(c) < 0 THEN taken + (c.end - c.start) - c.added + 1 ELSE taken
TakenLess(taken, c) == IF Delta(c) < 0 THEN taken + (c.end - c.start) - c.added - 1 ELSE taken

(* What of the old list is used up after a change. *)
Taken(taken, c) == IF Delta(c) < 0 THEN taken + (c.end - c.start) - c.added ELSE taken

(* The next boxes of the old list, 0 for the undefined ones beyond its end. *)
Copied(orig, taken, count) == [k \in 1..count |-> IF taken + k \in DOMAIN orig THEN orig[taken + k] ELSE 0]

(* One change: boxes are copied until its line comes, then new ones are made  *)
(* or old ones are passed over and destroyed.  If the line is past, it never  *)
(* comes, nor do the changes after it.                                        *)
Step(orig, lines, s, c) ==
    IF s.stuck \/ Trigger(c) <= Len(s.list) \/ Trigger(c) > lines
      THEN [s EXCEPT !.stuck = TRUE]
      ELSE LET count == Trigger(c) - 1 - Len(s.list)
               news  == Fresh(Range(orig) \cup Range(s.list), IF Delta(c) > 0 THEN Delta(c) ELSE 0)
               taken == Taken(s.taken + count, c)
           IN  [stuck |-> FALSE,
                list  |-> s.list \o Copied(orig, s.taken, count) \o news,
                taken |-> taken,
                gone  |-> s.gone \cup Range(Copied(orig, s.taken + count, taken - s.taken - count))]

Start == [stuck |-> FALSE, list |-> <<>>, taken |-> 0, gone |-> {}]

Loop(e, orig, lines) ==
    LET after[k \in 0..Len(e)] == IF k = 0 THEN Start ELSE Step(orig, lines, after[k - 1], e[k])
    IN  after[Len(e)]

(* What is left is copied until there is a box for each line of the text. *)
AddRemoveBoxes(e, lines) ==
    LET orig == Padded(boxes, lines)
        s    == Loop(e, orig, lines)
    IN  /\ boxes' = s.list \o Copied(orig, s.taken, Missing(s.list, lines))
        /\ thrown' = (0 \in Range(boxes') \cup s.gone)
        /\ showing' = showing \ s.gone
-----------------------------------------------------------------------------
(* The boxes have been made for a text. *)
Init ==
    /\ boxes \in {Same(n) : n \in 1..MaxLines}
    /\ showing = {}
    /\ enabled = TRUE
    /\ thrown = FALSE
    /\ events \in Sessions
    /\ own = boxes

(* An edit, while the boxes are enabled.  A line outside of the lines that    *)
(* change, or that is only added to, stays the line it is.                    *)
OnDidChangeModelContent(e) ==
    /\ enabled
    /\ Allowed(e)
    /\ LET lines == Lines + Added(e, Len(e))
           stays(k) == Len(e) = 1 /\ Replaced(e[1], own)[k] # 0
       IN  /\ AddRemoveBoxes(e, lines)
           /\ own' = [k \in 1..lines |-> IF stays(k) THEN Replaced(e[1], own)[k] ELSE boxes'[k]]
    /\ UNCHANGED enabled

(* updateContent: the boxes in the list have something to show, or they have  *)
(* not; for some to have is as good for the properties as for all.            *)
UpdateContent ==
    /\ enabled
    /\ Len(boxes) = Lines
    /\ \E S \in {Listed, {}} : showing' = S \cup (showing \ Listed)
    /\ UNCHANGED <<boxes, enabled, thrown, own>>

(* Mutant of PadBoxArray: one line too little is counted. *)
PadBoxArrayLess(list, lines) == boxes' = Padded(list, lines - 1)

(* An update without an event adds boxes at the end. *)
PadBoxArray(list, lines) == boxes' = Padded(list, lines)

(* The synthesizer disables the boxes, writes a fragment of some lines in the *)
(* place of one, which nothing notices, and enables them with an update.      *)
Disable ==
    /\ enabled
    /\ enabled' = FALSE
    /\ UNCHANGED <<boxes, showing, thrown, own>>

InsertFragment ==
    /\ ~enabled
    /\ \E c \in Changes :
          /\ c.start = c.end /\ c.end <= Lines /\ c.from = "before"
          /\ Lines + c.added <= MaxLines
          /\ own' = Replaced(c, own)
    /\ UNCHANGED <<boxes, showing, enabled, thrown>>

Enable ==
    /\ ~enabled
    /\ enabled' = TRUE
    /\ PadBoxArray(boxes, Lines)
    /\ own' = Copied(boxes', 0, Lines)
    /\ UNCHANGED <<showing, thrown>>

(* Another text comes into the editor: the boxes are forgotten, and made anew *)
(* with the next update, which is at once if they are enabled.  Bound: boxes  *)
(* that nothing lists any more are those of one text.                         *)
OnDidChangeModel ==
    /\ "model" \in events
    /\ showing \subseteq Listed
    /\ \E n \in 1..MaxLines :
          /\ IF enabled THEN PadBoxArray(<<>>, n) ELSE boxes' = <<>>
          /\ own' = Copied(boxes', 0, n)
    /\ UNCHANGED <<showing, enabled, thrown>>

Next ==
    /\ ~thrown
    /\ \/ \E e \in MayCome[Lines] : OnDidChangeModelContent(e)
       \/ UpdateContent \/ Disable \/ InsertFragment \/ Enable \/ OnDidChangeModel
    /\ UNCHANGED events

Spec == Init /\ [][Next]_vars
-----------------------------------------------------------------------------
(* Properties *)

(* Every variable keeps its type, and an undefined box is never used: the     *)
(* loop of addRemoveBoxes does not run out of boxes, for the events allowed.  *)
TypeOK ==
    /\ Lines \in 1..MaxLines
    /\ boxes \in Seq(Boxes)
    /\ showing \subseteq Boxes
    /\ enabled \in BOOLEAN
    /\ ~thrown
    /\ events \in Sessions
    /\ own \in Seq(Boxes \cup {0})

(* After an event or an update every line has a box of its own. *)
OneBoxPerLine == enabled => Len(boxes) = Lines /\ IsInjective(boxes)

(* A line that no change is about keeps the box it came with, with all that   *)
(* the user has chosen in it, however many lines come and go above it; so     *)
(* does the line after whose words, or before whose words, lines are added.   *)
LineKeepsBox == enabled => boxes = own

(* A box that is no longer in the list shows nothing: it has been destroyed,  *)
(* or it never had anything to show.  This is so as long as the text is one.  *)
OrphansShowNothing == "model" \notin events => showing \subseteq Listed
=============================================================================
