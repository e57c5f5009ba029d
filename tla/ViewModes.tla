----------------------------- MODULE ViewModes -----------------------------
(***************************************************************************)
(* The view mode of the projection boxes and the settings it stands for    *)
(* (RTVDisplay.ts, ConfigurationServiceCache).  Every editor has a         *)
(* controller with a cache of the settings: a change goes into the cache   *)
(* at once and is written to the settings file later, in the order of the  *)
(* calls.  When the file has changed every cache hears of it, and what is  *)
(* not as it remembers must be the user's doing: a new mode is applied, a  *)
(* new setting makes the mode Custom.                                      *)
(*                                                                         *)
(* Of the eleven settings that belong to a mode two are kept: whether      *)
(* boxes show modified variables only, which Compact alone has, and        *)
(* whether they are as large as the text, which Full and Stealth are not.  *)
(***************************************************************************)
EXTENDS Naturals, Sequences, FiniteSets, Functions

CONSTANTS
    Editors,    \* editors there may be
    First,      \* the editor that is always open
    MaxChanges, \* bound: what the user changes in a behaviour
    Users       \* sets of habits a user may have

(* The user has a second editor open, chooses Stealth, flips one setting by a *)
(* command, edits the settings file, does not wait until a change is written; *)
(* and the file may be read when several writes are in it.                    *)
Habits == {"two", "stealth", "flip", "edit", "hurry", "merge"}

ASSUME ViewAssumption ==
    /\ First \in Editors /\ IsFiniteSet(Editors)
    /\ MaxChanges \in Nat
    /\ Users \subseteq SUBSET Habits

VARIABLES
    stored,  \* the settings as the configuration service knows them
    queue,   \* writes that ConfigurationEditing has yet to do
    cached,  \* ConfigurationServiceCache._vals of each editor
    policy,  \* _visibilityPolicy of each editor
    timers,  \* how many 300 ms timers of Stealth each editor has running
    changes, \* what the user has changed so far
    wanted,  \* (history) the settings the user has asked for
    user     \* the user's habits, which do not change

hostVars == <<stored, queue, cached, policy, timers>>
vars     == <<hostVars, changes, wanted, user>>

Modes    == {"Full", "CursorAndReturn", "Compact", "Stealth", "Custom"}
Keys     == {"viewMode", "modified", "zoom"}
Flags    == Keys \ {"viewMode"}
OnOff    == {"on", "off"}
Values(key) == IF key = "viewMode" THEN Modes ELSE OnOff
Settings == {s \in [Keys -> Modes \cup OnOff] : \A key \in Keys : s[key] \in Values(key)}
Writes   == {w \in [key : Keys, value : Modes \cup OnOff] : w.value \in Values(w.key)}
Open     == IF "two" \in user THEN Editors ELSE {First}

Flag(b)    == IF b THEN "on" ELSE "off"
Flipped(v) == Flag(v = "off")

(* What the modes stand for. *)
View(m) ==
    [key \in Keys |-> CASE key = "viewMode" -> m
                       [] key = "modified" -> Flag(m = "Compact")
                       [] key = "zoom" -> Flag(m \in {"CursorAndReturn", "Compact"})]
Policy(m) == CASE m = "CursorAndReturn" -> "cursor" [] m = "Stealth" -> "none" [] OTHER -> "all"
-----------------------------------------------------------------------------
(* What a handler of editor e does to the host, h, whose stored settings only *)
(* the file can change: operators from records to records.                    *)
Host == [stored |-> stored, queue |-> queue, cached |-> cached, policy |-> policy, timers |-> timers]

Becomes(h) ==
    /\ stored' = h.stored
    /\ queue' = h.queue
    /\ cached' = h.cached
    /\ policy' = h.policy
    /\ timers' = h.timers

(* ConfigurationServiceCache.updateValue; the service writes nothing if the   *)
(* setting is stored as it should be, whatever is still to be written.        *)
UpdateValue(h, e, key, v) ==
    [h EXCEPT !.cached[e][key] = v,
              !.queue = IF v = h.stored[key] THEN @ ELSE Append(@, [key |-> key, value |-> v])]

(* changeToFullView, changeToCompactView: what mode m stands for but its name. *)
ChangeToView(h, e, m) ==
    UpdateValue(UpdateValue(h, e, "modified", View(m)["modified"]), e, "zoom", View(m)["zoom"])

(* Stealth hides the boxes first, and changes the settings 300 ms later.      *)
ChangeViewMode(h, e, m) ==
    LET named == UpdateValue(h, e, "viewMode", m)
    IN  CASE m = "Custom"  -> named
          [] m = "Stealth" -> [named EXCEPT !.policy[e] = Policy(m), !.timers[e] = @ + 1]
          [] OTHER         -> [ChangeToView(named, e, m) EXCEPT !.policy[e] = Policy(m)]

(* Mutant of OnUserChangeConfiguration: the name of the key is taken for that *)
(* of a mode.                                                                 *)
OnUserChangeKey(h, e, keys) ==
    IF "viewMode" \in Range(keys) THEN ChangeViewMode(h, e, h.cached[e]["viewMode"])
    ELSE UpdateValue(h, e, "viewMode", keys[1])

OnUserChangeConfiguration(h, e, keys) ==
    IF "viewMode" \in Range(keys) THEN ChangeViewMode(h, e, h.cached[e]["viewMode"])
    ELSE UpdateValue(h, e, "viewMode", "Custom")

(* Mutants of Hears: what the cache wrote itself is not told from what the    *)
(* user changed; the cache takes the new value when the handler is done.      *)
HearsAny(h, e, key, keys) ==
    OnUserChangeConfiguration([h EXCEPT !.cached[e][key] = h.stored[key]], e, keys)

HearsLate(h, e, key, keys) ==
    IF h.cached[e][key] = h.stored[key] THEN h
    ELSE [OnUserChangeConfiguration(h, e, keys) EXCEPT !.cached[e][key] = h.stored[key]]

(* One key of an event: a cache that remembers something else takes the value *)
(* and calls the handler of the whole event.                                  *)
Hears(h, e, key, keys) ==
    IF h.cached[e][key] = h.stored[key] THEN h
    ELSE OnUserChangeConfiguration([h EXCEPT !.cached[e][key] = h.stored[key]], e, keys)

OnChangeConfiguration(h, e, keys) ==
    LET after[k \in 0..Len(keys)] == IF k = 0 THEN h ELSE Hears(after[k - 1], e, keys[k], keys)
    IN  after[Len(keys)]

Heard(h, listeners, keys) ==
    LET after[k \in 0..Len(listeners)] ==
            IF k = 0 THEN h ELSE OnChangeConfiguration(after[k - 1], listeners[k], keys)
    IN  after[Len(listeners)]

(* The settings become s: an event names what has changed, in any order, and  *)
(* each controller hears it in turn.                                          *)
Orders(S) == Bijection(1..Cardinality(S), S)

Fires(h, s) ==
    \E keys \in Orders({key \in Keys : s[key] # h.stored[key]}), listeners \in Orders(Open) :
        Becomes(Heard([h EXCEPT !.stored = s], listeners, keys))
-----------------------------------------------------------------------------
Init ==
    /\ stored = View("Full")
    /\ queue = <<>>
    /\ cached = [e \in Editors |-> View("Full")]
    /\ policy = [e \in Editors |-> "all"]
    /\ timers = [e \in Editors |-> 0]
    /\ changes = 0
    /\ wanted = View("Full")
    /\ user \in Users

Quiet == queue = <<>> /\ \A e \in Editors : timers[e] = 0

MayChange == changes < MaxChanges /\ (Quiet \/ "hurry" \in user)

Wants(s) ==
    /\ wanted' = s
    /\ changes' = changes + 1

(* A menu entry, flipThroughViewModes, the focus on a loop, or a synthesis,   *)
(* which starts with Stealth and ends with Full.                              *)
ChooseMode(e, m) ==
    /\ MayChange
    /\ m # "Custom"
    /\ m = "Stealth" => "stealth" \in user
    /\ Becomes(ChangeViewMode(Host, e, m))
    /\ Wants(View(m))

(* Escape applies the mode again. *)
Escape(e) ==
    /\ MayChange
    /\ Becomes(ChangeViewMode(Host, e, cached[e]["viewMode"]))
    /\ Wants(IF wanted["viewMode"] = "Custom" THEN wanted ELSE View(wanted["viewMode"]))

(* flipModVars and flipZoom leave the mode its name. *)
Flip(e, key) ==
    /\ MayChange
    /\ "flip" \in user
    /\ Becomes(UpdateValue(Host, e, key, Flipped(cached[e][key])))
    /\ Wants([wanted EXCEPT ![key] = Flipped(cached[e][key])])

(* The user edits the settings file: the mode, or a setting of its own. *)
EditMode(m) ==
    /\ MayChange
    /\ "edit" \in user
    /\ m # stored["viewMode"]
    /\ m = "Stealth" => "stealth" \in user
    /\ Fires(Host, [stored EXCEPT !["viewMode"] = m])
    /\ Wants(IF m = "Custom" THEN [wanted EXCEPT !["viewMode"] = m] ELSE View(m))

EditSetting(key) ==
    /\ MayChange
    /\ "edit" \in user
    /\ Fires(Host, [stored EXCEPT ![key] = Flipped(@)])
    /\ Wants([wanted EXCEPT !["viewMode"] = "Custom", ![key] = Flipped(stored[key])])

UserStep ==
    \/ \E e \in Open : \/ \E m \in Modes : ChooseMode(e, m)
                       \/ Escape(e)
                       \/ \E key \in Flags : Flip(e, key)
    \/ \E m \in Modes : EditMode(m)
    \/ \E key \in Flags : EditSetting(key)

(* The file is read again after the next n writes. *)
Written(n) ==
    [key \in Keys |->
        LET of == {i \in 1..n : queue[i].key = key}
        IN  IF of = {} THEN stored[key] ELSE queue[CHOOSE i \in of : \A j \in of : j <= i].value]

Lands(n) ==
    /\ n \in 1..Len(queue)
    /\ n > 1 => "merge" \in user
    /\ Fires([Host EXCEPT !.queue = SubSeq(queue, n + 1, Len(queue))], Written(n))
    /\ UNCHANGED <<changes, wanted>>

(* The 300 ms after Stealth was chosen are over: changeToFullView. *)
TimerFires(e) ==
    /\ timers[e] > 0
    /\ Becomes(ChangeToView([Host EXCEPT !.timers[e] = @ - 1], e, "Full"))
    /\ UNCHANGED <<changes, wanted>>

HostStep ==
    \/ \E n \in 1..Len(queue) : Lands(n)
    \/ \E e \in Open : TimerFires(e)

Next == (UserStep \/ HostStep) /\ UNCHANGED user

Spec == Init /\ [][Next]_vars

(* What is queued is written, and timers fire; the user owes nothing. *)
FairSpec == Spec /\ WF_vars(HostStep /\ UNCHANGED user)
-----------------------------------------------------------------------------
(* Properties *)

(* Every variable keeps its type. *)
TypeOK ==
    /\ stored \in Settings
    /\ queue \in Seq(Writes)
    /\ cached \in [Editors -> Settings]
    /\ policy \in [Editors -> {"all", "cursor", "none"}]
    /\ timers \in [Editors -> Nat]
    /\ changes \in 0..MaxChanges
    /\ wanted \in Settings
    /\ user \in Users

(* Once everything is written the settings are what the user asked for, in    *)
(* the file and in every editor, and the boxes are as visible as the mode     *)
(* says.  This is so for a user who waits, and, with two editors open, neither *)
(* chooses Stealth nor flips single settings, when every write is an event of *)
(* its own.                                                                   *)
Waits == "hurry" \notin user /\ ("two" \in user => {"stealth", "flip", "merge"} \cap user = {})
ModeHolds ==
    Quiet /\ Waits =>
        /\ stored = wanted
        /\ \A e \in Open :
              /\ cached[e] = wanted
              /\ wanted["viewMode"] # "Custom" => policy[e] = Policy(wanted["viewMode"])

(* Caches that take each other's writes, or their own earlier ones, for the   *)
(* user's do not answer each other for ever.                                  *)
Settles == []<>Quiet
=============================================================================
