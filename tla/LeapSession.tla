---------------------------- MODULE LeapSession ----------------------------
(***************************************************************************)
(* The assistant session of Leap.ts: the side panel, the suggestion that   *)
(* is written into the editor between two completion comments, and the     *)
(* conversation about it.                                                  *)
(*                                                                         *)
(* Every answer of the language model is awaited, and what the code does   *)
(* with it runs after the await, whatever toggle, escape, clicks and       *)
(* typing have done in between.  A request is one such await: "complete"   *)
(* of startCompletion, "comments" of showLineComments, "chat" of           *)
(* addToConvo and "summary" of dispose.  An abort ends the stream of a     *)
(* request that has one, and whatever was received is used as if it were   *)
(* the answer; before the connection is up it has no effect.  A request    *)
(* may end in any way at any time here, so an abort needs no step.         *)
(*                                                                         *)
(* The text is a sequence of pieces: what the user typed, suggested code,  *)
(* completion comments.  The editor always has a model.                    *)
(***************************************************************************)
EXTENDS Naturals, Sequences, FiniteSets

CONSTANTS
    MaxRequests, \* bound: requests of a behaviour
    MaxTyped,    \* bound: edits of the user, the first text included
    Users        \* the users, and their luck, that are looked at

RequestKinds == {"complete", "comments", "chat", "summary"}

(* A user: the kinds of requests he does not wait for before a toggle or      *)
(* escape, those that may fail, whether he deletes and types completion       *)
(* comments, and the bounds on his requests and edits.                        *)
AllUsers == [overlaps : SUBSET RequestKinds, fails : SUBSET RequestKinds,
             tampers : BOOLEAN, asks : 1..MaxRequests, types : 1..MaxTyped]

ASSUME LeapAssumption ==
    /\ MaxRequests \in Nat \ {0}
    /\ MaxTyped \in Nat \ {0}
    /\ Users \subseteq AllUsers

VARIABLES
    user,         \* who it is, which does not change
    state,        \* Leap.state
    panel,        \* the panel element and the page on it
    completions,  \* Leap.completions: its first element
    lineComments, \* Leap.lineComments: the request whose code they comment, or 0
    viewing,      \* Leap.viewingLineComments
    convo,        \* Leap.convo: role of each message, and the completion it is about
    asked,        \* the requests made
    open,         \* those that are awaited
    aborted,      \* Leap._abort.signal.aborted
    text,         \* the text in the editor
    cursor,       \* Leap._lastCursorPos
    typed         \* edits of the user so far

sessionVars == <<state, panel, completions, lineComments, viewing, convo>>
requestVars == <<asked, open>>
textVars    == <<text, cursor, typed>>
vars        == <<user, sessionVars, requestVars, aborted, textVars>>

Requests  == 1..MaxRequests
Undefined == [req |-> 0, kind |-> "none"]
Unused    == [kind |-> "none", about |-> 0]
Marker    == [by |-> "marker", n |-> 0]
Code(r)   == [by |-> "model", n |-> r]
Typed(n)  == [by |-> "user", n |-> n]

Pending(kinds) == {r \in open : asked[r].kind \in kinds}

(* The completion comments of a text, the first and the last of them, and     *)
(* what lies before, between and behind these two.                            *)
Marks(t)   == {i \in DOMAIN t : t[i] = Marker}
First(t)   == CHOOSE i \in Marks(t) : \A j \in Marks(t) : i <= j
Last(t)    == CHOOSE i \in Marks(t) : \A j \in Marks(t) : j <= i
Before(t)  == SubSeq(t, 1, First(t) - 1)
Between(t) == SubSeq(t, First(t) + 1, Last(t) - 1)
Behind(t)  == SubSeq(t, Last(t) + 1, Len(t))

Insert(t, i, s) == SubSeq(t, 1, i) \o s \o SubSeq(t, i + 1, Len(t))
-----------------------------------------------------------------------------
Init ==
    /\ user \in Users
    /\ state = "Off"
    /\ panel = "none"
    /\ completions = Undefined
    /\ lineComments = 0
    /\ viewing = FALSE
    /\ convo = <<>>
    /\ asked = [r \in Requests |-> Unused]
    /\ open = {}
    /\ aborted = FALSE
    /\ text \in {<<>>, <<Typed(1)>>}
    /\ cursor = 0
    /\ typed = 1

(* Mutant of Ask: the request is awaited but not remembered.  *)
AskUnrecorded(kind, about) ==
    \E r \in 1..user.asks :
        /\ asked[r] = Unused
        /\ \A q \in 1..(r - 1) : asked[q] # Unused
        /\ open' = open \cup {r}
        /\ UNCHANGED asked

(* The first unused number is the request's. *)
Ask(kind, about) ==
    \E r \in 1..user.asks :
        /\ asked[r] = Unused
        /\ \A q \in 1..(r - 1) : asked[q] # Unused
        /\ asked' = [asked EXCEPT ![r] = [kind |-> kind, about |-> about]]
        /\ open' = open \cup {r}

(* The user gives a command only when every request that is awaited is of a   *)
(* kind the user does not wait for.                                           *)
MayCommand == Pending(RequestKinds \ user.overlaps) = {}
-----------------------------------------------------------------------------
(* The suggestion in the text *)

(* Mutant of WithSuggestion: a suggestion that is already there is kept. *)
WithSuggestionTwice(t, c) ==
    IF t = <<>> THEN t
    ELSE Insert(t, IF cursor < Len(t) THEN cursor ELSE Len(t), <<Marker, c, Marker>>)

(* previewCompletion: replace what lies between two comments, or insert at    *)
(* the position the cursor had; an empty text is left alone.                  *)
WithSuggestion(t, c) ==
    IF t = <<>> THEN t
    ELSE IF Cardinality(Marks(t)) >= 2
      THEN Before(t) \o <<Marker, c, Marker>> \o Behind(t)
      ELSE Insert(t, IF cursor < Len(t) THEN cursor ELSE Len(t), <<Marker, c, Marker>>)

(* Mutant of WithoutSuggestion: a removal reaches to the end of the text when *)
(* there is a single comment.                                                 *)
WithoutSuggestionUnpaired(t, commentOnly) ==
    IF Marks(t) = {} THEN t
    ELSE IF Cardinality(Marks(t)) = 1 /\ ~commentOnly THEN Before(t)
    ELSE Before(t) \o (IF commentOnly THEN Between(t) ELSE <<>>) \o Behind(t)

(* removeCompletion: the first and the last comment go, and what is between   *)
(* them unless only the comments are to go.  A single comment goes alone.     *)
WithoutSuggestion(t, commentOnly) ==
    IF Marks(t) = {} THEN t
    ELSE Before(t) \o (IF commentOnly THEN Between(t) ELSE <<>>) \o Behind(t)

(* The request whose code is previewed: its own, or the commented one. *)
ShownCode(r) == IF viewing /\ lineComments # 0 THEN lineComments ELSE r

PreviewCompletion ==
    text' = IF completions.kind = "code"
              THEN WithSuggestion(text, Code(ShownCode(completions.req))) ELSE text

RemoveCompletion(commentOnly) ==
    text' = IF completions # Undefined THEN WithoutSuggestion(text, commentOnly) ELSE text
-----------------------------------------------------------------------------
(* Commands *)

(* dispose: the panel goes at once, everything else when the conversation     *)
(* has been summarised.  Without a conversation it throws before it asks.     *)
Dispose ==
    /\ panel' = "none"
    /\ IF convo = <<>> THEN UNCHANGED requestVars ELSE Ask("summary", 0)

HideCompletions(commentOnly) ==
    /\ Dispose
    /\ RemoveCompletion(commentOnly)
    /\ state' = "Off"

StartCompletion ==
    /\ state' = "Loading"
    /\ panel' = "blank"
    /\ cursor' \in 0..Len(text)
    /\ Ask("complete", 0)

(* Mutant of Toggle: a suggestion that is shown is not hidden first.  *)
ToggleKeepsPanel ==
    /\ MayCommand
    /\ aborted' = FALSE
    /\ \/ state \in {"Off", "Loading"} /\ StartCompletion /\ UNCHANGED text
       \/ /\ state = "Shown"
          /\ state' = "Off"
          /\ RemoveCompletion(TRUE)
          /\ UNCHANGED <<panel, cursor, requestVars>>
    /\ UNCHANGED <<completions, lineComments, viewing, convo, typed>>

Toggle ==
    /\ MayCommand
    /\ aborted' = FALSE
    /\ \/ state \in {"Off", "Loading"} /\ StartCompletion /\ UNCHANGED text
       \/ state = "Shown" /\ HideCompletions(TRUE) /\ UNCHANGED cursor
    /\ UNCHANGED <<completions, lineComments, viewing, convo, typed>>

Escape ==
    /\ MayCommand
    /\ aborted' = TRUE
    /\ IF state = "Off"
         THEN UNCHANGED <<state, panel, requestVars, text>>
         ELSE HideCompletions(FALSE)
    /\ UNCHANGED <<completions, lineComments, viewing, convo, cursor, typed>>

(* The buttons of a page that shows code, with a link that asks for line      *)
(* comments or, on a "commented" page, one that shows and hides them.         *)

Buttons == panel \in {"code", "commented"}

CopyToEditor ==
    /\ Buttons
    /\ PreviewCompletion
    /\ UNCHANGED <<sessionVars, requestVars, aborted, cursor, typed>>

Revert ==
    /\ Buttons
    /\ RemoveCompletion(FALSE)
    /\ UNCHANGED <<sessionVars, requestVars, aborted, cursor, typed>>

(* showLineComments: a second click before the answer asks a second time. *)
AddLineComments ==
    /\ panel = "code"
    /\ viewing' = TRUE
    /\ IF completions.kind = "code" /\ lineComments = 0 THEN Ask("comments", completions.req) ELSE UNCHANGED requestVars
    /\ UNCHANGED <<state, panel, completions, lineComments, convo, aborted, textVars>>

ToggleLineComments ==
    /\ panel = "commented"
    /\ viewing' = ~viewing
    /\ UNCHANGED <<state, panel, completions, lineComments, convo, requestVars, aborted, textVars>>

(* addToConvo, by whichever button, up to its await. *)
SendMessage ==
    /\ Buttons
    /\ Ask("chat", completions.req)
    /\ UNCHANGED <<sessionVars, aborted, textVars>>
-----------------------------------------------------------------------------
(* The user types, anywhere; some also completion comments. *)

Type ==
    /\ typed < user.types
    /\ typed' = typed + 1
    /\ \E i \in 0..Len(text) : text' = Insert(text, i, <<Typed(typed')>>)
    /\ UNCHANGED <<sessionVars, requestVars, aborted, cursor>>

Tamper ==
    /\ user.tampers
    /\ typed < user.types
    /\ typed' = typed + 1
    /\ \/ \E i \in Marks(text) : text' = SubSeq(text, 1, i - 1) \o SubSeq(text, i + 1, Len(text))
       \/ /\ Marks(text) = {}
          /\ \E i \in 0..Len(text) : text' = Insert(text, i, <<Marker>>)
    /\ UNCHANGED <<sessionVars, requestVars, aborted, cursor>>
-----------------------------------------------------------------------------
(* What happens when the awaited request r ends *)

Ends(r, kind) ==
    /\ r \in open
    /\ asked[r].kind = kind
    /\ open' = open \ {r}
    /\ UNCHANGED <<user, asked, aborted, typed, cursor>>

Page(kind) == IF kind = "code" /\ lineComments # 0 THEN "commented" ELSE kind

Message(role, r) == [role |-> role, about |-> r]

(* Mutants of CompletionEnds: an error of the request is not caught; one that *)
(* is caught is shown without becoming the completion.                        *)
CompletionEndsUncaught(r, kind) ==
    /\ Ends(r, "complete")
    /\ kind = "error"
    /\ "complete" \in user.fails
    /\ UNCHANGED <<sessionVars, text>>

CompletionEndsUnset(r, kind) ==
    /\ Ends(r, "complete")
    /\ kind = "error" => "complete" \in user.fails
    /\ completions' = IF kind = "code" THEN [req |-> r, kind |-> kind] ELSE completions
    /\ convo' = convo \o <<Message("system", r), Message("user", r), Message("assistant", r)>>
    /\ panel' = IF panel = "none" THEN "none" ELSE Page(kind)
    /\ state' = "Shown"
    /\ text' = IF kind = "code" THEN WithSuggestion(text, Code(ShownCode(r))) ELSE text
    /\ UNCHANGED <<lineComments, viewing>>

(* startCompletion after getCompletions, which turns errors into a page.  *)
CompletionEnds(r, kind) ==
    /\ Ends(r, "complete")
    /\ kind = "error" => "complete" \in user.fails
    /\ completions' = [req |-> r, kind |-> kind]
    /\ convo' = convo \o <<Message("system", r), Message("user", r), Message("assistant", r)>>
    /\ panel' = IF panel = "none" THEN "none" ELSE Page(kind)
    /\ state' = "Shown"
    /\ text' = IF kind = "code" THEN WithSuggestion(text, Code(ShownCode(r))) ELSE text
    /\ UNCHANGED <<lineComments, viewing>>

CommentsEnd(r) ==
    /\ Ends(r, "comments")
    /\ lineComments' = asked[r].about
    /\ panel' = IF Buttons /\ completions.kind = "code" THEN "commented" ELSE panel
    /\ UNCHANGED <<state, completions, viewing, convo, text>>

ChatEnds(r) ==
    /\ Ends(r, "chat")
    /\ convo' = convo \o <<Message("user", asked[r].about), Message("assistant", asked[r].about)>>
    /\ UNCHANGED <<state, panel, completions, lineComments, viewing, text>>

(* Mutant of SummaryEnds: the line comments are not forgotten.  *)
SummaryEndsKeepsComments(r) ==
    /\ Ends(r, "summary")
    /\ completions' = Undefined
    /\ convo' = <<>>
    /\ UNCHANGED <<state, panel, lineComments, viewing, text>>

(* The rest of dispose. *)
SummaryEnds(r) ==
    /\ Ends(r, "summary")
    /\ completions' = Undefined
    /\ lineComments' = 0
    /\ convo' = <<>>
    /\ UNCHANGED <<state, panel, viewing, text>>

(* A request other than "complete" that fails rejects its caller. *)
RequestFails(r) ==
    \E kind \in user.fails \ {"complete"} : Ends(r, kind) /\ UNCHANGED <<sessionVars, text>>

RequestEnds(r) ==
    \/ \E kind \in {"code", "error"} : CompletionEnds(r, kind)
    \/ CommentsEnd(r)
    \/ ChatEnds(r)
    \/ SummaryEnds(r)
    \/ RequestFails(r)

UserStep ==
    \/ Toggle \/ Escape
    \/ CopyToEditor \/ Revert \/ AddLineComments \/ ToggleLineComments \/ SendMessage
    \/ Type \/ Tamper

Next == (UserStep /\ UNCHANGED user) \/ \E r \in Requests : RequestEnds(r)

Spec == Init /\ [][Next]_vars

(* Every request ends: it is answered, or the client library times it out.  *)
FairSpec == Spec /\ \A r \in Requests : WF_vars(RequestEnds(r))
-----------------------------------------------------------------------------
(* Properties *)

Pieces == {Marker} \cup {Code(r) : r \in Requests} \cup {Typed(n) : n \in 1..MaxTyped}

(* Every variable keeps its type. *)
TypeOK ==
    /\ user \in Users
    /\ state \in {"Off", "Loading", "Shown"}
    /\ panel \in {"none", "blank", "code", "commented", "error"}
    /\ completions \in {Undefined} \cup [req : Requests, kind : {"code", "error"}]
    /\ lineComments \in 0..MaxRequests
    /\ viewing \in BOOLEAN
    /\ convo \in Seq([role : {"system", "user", "assistant"}, about : 0..MaxRequests])
    /\ asked \in [Requests -> {Unused} \cup [kind : RequestKinds, about : 0..MaxRequests]]
    /\ open \subseteq {r \in Requests : asked[r] # Unused}
    /\ aborted \in BOOLEAN
    /\ text \in Seq(Pieces)
    /\ cursor \in Nat
    /\ typed \in 1..MaxTyped

(* However commands and answers interleave, the panel is there while a        *)
(* completion is loading, and code can be clicked on only while one is shown. *)
(* So renderCompletionPage and getCompletions of the last toggle find it.     *)
PanelFollowsState ==
    /\ state = "Loading" => panel = "blank"
    /\ state = "Off" => panel = "none"
    /\ state = "Shown" => panel # "blank"

(* While nobody else writes completion comments there is at most one pair of  *)
(* them, whatever late answers, copies and reverts do.                        *)
OneSuggestion == ~user.tampers => Cardinality(Marks(text)) \in {0, 2}

(* Piece i lies between two completion comments that enclose suggested code,  *)
(* with no other comment between them.                                        *)
Suggested(t, i) ==
    \E a, b \in Marks(t) :
        /\ a < i /\ i < b
        /\ \A j \in Marks(t) : j <= a \/ b <= j
        /\ \E j \in a..b : t[j].by = "model"

(* "clears out the code completion indicated by the completion comments": no  *)
(* step takes anything else out of the text, be it typed or accepted code,    *)
(* and "if commentOnly is true, we only remove the comments": accepting a     *)
(* suggestion, or removing a comment without its pair, takes out nothing else. *)
OwnText(t) == {t[i] : i \in {j \in DOMAIN t : t[j] # Marker /\ ~Suggested(t, j)}}
Written(t) ==
    LET upTo[n \in 0..Len(t)] == IF n = 0 THEN <<>>
                                 ELSE IF t[n] = Marker THEN upTo[n - 1] ELSE Append(upTo[n - 1], t[n])
    IN  upTo[Len(t)]
OwnTextKept ==
    [][/\ ~user.tampers => OwnText(text) \subseteq {text'[i] : i \in DOMAIN text'}
       /\ \/ state = "Shown" /\ state' = "Off" /\ ~aborted'
          \/ Cardinality(Marks(text)) = 1 /\ Marks(text') = {}
          => Written(text') = Written(text)]_<<state, aborted, text>>

(* The user waits for every request before a toggle or escape, and summaries  *)
(* do not fail: then a session is over before the next one starts.            *)
Patient == user.overlaps = {} /\ "summary" \notin user.fails /\ ~user.tampers

(* "This should open a side panel containing code suggestions": what is shown *)
(* has its panel, and a completion its buttons can work on; a session that is *)
(* over leaves no completion comment in the text.                             *)
ShownIsWhole ==
    Patient =>
        /\ state = "Shown" => panel # "none" /\ completions # Undefined
        /\ Buttons => completions.kind = "code"
        /\ panel = "commented" <=> Buttons /\ lineComments # 0
        /\ state = "Off" => Marks(text) = {}

(* After an escape, until the next toggle, nothing is shown or suggested. *)
EscapeCancels == aborted => state = "Off" /\ Marks(text) = {}

(* Everything is about one completion: what is suggested is the one that the  *)
(* panel shows, with or without line comments, and the conversation that is   *)
(* sent and summarised has one system message, then questions and answers.    *)
OneCompletion ==
    Patient =>
        /\ state = "Shown" /\ completions.kind = "code" =>
              \A i \in DOMAIN text :
                  Suggested(text, i) /\ text[i].by = "model" => text[i] = Code(completions.req)
        /\ \A i \in DOMAIN convo :
              /\ convo[i].about = convo[1].about
              /\ convo[i].role = IF i = 1 THEN "system" ELSE IF i % 2 = 0 THEN "user" ELSE "assistant"

(* A completion that is loading is shown, be it as an error, or given up. *)
LoadingEnds == state = "Loading" ~> state # "Loading"
=============================================================================
