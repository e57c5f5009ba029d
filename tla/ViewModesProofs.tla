-------------------------- MODULE ViewModesProofs --------------------------
(***************************************************************************)
(* Theorems about ViewModes, for any number of editors and of changes.     *)
(***************************************************************************)
EXTENDS ViewModes, SequenceTheorems, FiniteSetTheorems, WellFoundedInduction, TLAPS

-----------------------------------------------------------------------------
(***************************************************************************)
(* Numbers and settings.                                                   *)
(***************************************************************************)

LEMMA LeastNumber ==
    ASSUME NEW T \in SUBSET Nat, T # {}
    PROVE  \E x \in T : \A y \in T : x <= y
<1> DEFINE up(x) == 1..x
           U == {up(x) : x \in T}
<1>1. U \subseteq FiniteSubsetsOf(Nat) /\ U # {}
  <2>1. ASSUME NEW x \in T PROVE up(x) \in FiniteSubsetsOf(Nat)
    <3>1. x \in Int /\ 1 \in Int
      OBVIOUS
    <3>2. IsFiniteSet(1..x)
      BY <3>1, FS_Interval
    <3>3. QED
      BY <3>2 DEF FiniteSubsetsOf
  <2>2. QED
    BY <2>1
<1>2. IsWellFoundedOn(StrictSubsetOrdering(Nat), FiniteSubsetsOf(Nat))
  BY FS_StrictSubsetOrderingWellFounded
<1>3. PICK s \in U : \A r \in U : ~ (<<r, s>> \in StrictSubsetOrdering(Nat))
  BY <1>1, <1>2, WFMin
<1>4. PICK x \in T : s = up(x)
  OBVIOUS
<1>5. ASSUME NEW y \in T, y < x PROVE FALSE
  <2>1. up(y) \subseteq up(x) /\ up(y) # up(x) /\ up(y) \in SUBSET Nat /\ up(x) \in SUBSET Nat
    <3>1. x \in up(x) /\ x \notin up(y)
      BY <1>5
    <3>2. QED
      BY <1>5, <3>1
  <2>2. <<up(y), up(x)>> \in StrictSubsetOrdering(Nat)
    BY <2>1 DEF StrictSubsetOrdering
  <2>3. QED
    BY <1>3, <1>4, <2>2
<1>6. QED
  BY <1>5

LEMMA SettingsAre ==
    ASSUME NEW s \in Settings
    PROVE  s \in [Keys -> Modes \cup OnOff] /\ \A key \in Keys : s[key] \in Values(key)
  BY DEF Settings

LEMMA SettingsSame ==
    ASSUME NEW s \in Settings, NEW t \in Settings, \A key \in Keys : s[key] = t[key]
    PROVE  s = t
<1>1. s \in [Keys -> Modes \cup OnOff] /\ t \in [Keys -> Modes \cup OnOff]
  BY SettingsAre
<1>2. QED
  BY <1>1

LEMMA SettingsExcept ==
    ASSUME NEW s \in Settings, NEW key \in Keys, NEW v \in Values(key)
    PROVE  /\ [s EXCEPT ![key] = v] \in Settings /\ [s EXCEPT ![key] = v][key] = v
           /\ \A k \in Keys \ {key} : [s EXCEPT ![key] = v][k] = s[k]
<1>1. s \in [Keys -> Modes \cup OnOff] /\ \A k \in Keys : s[k] \in Values(k)
  BY SettingsAre
<1>2. v \in Modes \cup OnOff
  BY DEF Values
<1>3. QED
  BY <1>1, <1>2 DEF Settings

LEMMA ViewIs ==
    ASSUME NEW m \in Modes
    PROVE  View(m) \in Settings /\ View(m)["viewMode"] = m
<1>1. \A b : Flag(b) \in OnOff
  BY DEF Flag, OnOff
<1>2. /\ View(m)["viewMode"] = m
      /\ View(m)["modified"] \in OnOff
      /\ View(m)["zoom"] \in OnOff
  BY <1>1 DEF View, Keys
<1>3. \A key \in Keys : View(m)[key] \in Values(key)
  BY <1>2 DEF Keys, Values
<1>4. View(m) = [key \in Keys |-> View(m)[key]]
  <2> DEFINE E(key) == CASE key = "viewMode" -> m
                       [] key = "modified" -> Flag(m = "Compact")
                       [] key = "zoom" -> Flag(m \in {"CursorAndReturn", "Compact"})
  <2>1. View(m) = [key \in Keys |-> E(key)]
    BY DEF View
  <2> HIDE DEF E
  <2>2. QED
    BY <2>1
<1>5. \A key \in Keys : View(m)[key] \in Modes \cup OnOff
  BY <1>3 DEF Values
<1>6. View(m) \in [Keys -> Modes \cup OnOff]
  BY <1>4, <1>5
<1>7. QED
  BY <1>2, <1>3, <1>6 DEF Settings

(* Stealth stands for what Full stands for, but for its name. *)
LEMMA StealthIsFull ==
    \A key \in Flags : View("Full")[key] = View("Stealth")[key]
<1>1. Flag("Full" = "Compact") = Flag("Stealth" = "Compact")
  BY DEF Flag
<1>2. Flag("Full" \in {"CursorAndReturn", "Compact"}) = Flag("Stealth" \in {"CursorAndReturn", "Compact"})
  BY DEF Flag
<1>3. View("Full")["modified"] = View("Stealth")["modified"]
  BY <1>1 DEF View, Keys
<1>4. View("Full")["zoom"] = View("Stealth")["zoom"]
  BY <1>2 DEF View, Keys
<1>5. QED
  BY <1>3, <1>4 DEF Flags, Keys

-----------------------------------------------------------------------------
(***************************************************************************)
(* What an operation makes of the host.                                    *)
(***************************************************************************)

Policies == {"all", "cursor", "none"}

HostOK(h) ==
    h \in [stored : Settings, queue : Seq(Writes), cached : [Editors -> Settings],
           policy : [Editors -> Policies], timers : [Editors -> Nat]]

(* Writes of values of s for keys of K are added to a queue. *)
Extends(q, r, s, K) ==
    /\ Len(q) <= Len(r)
    /\ \A i \in 1..Len(q) : r[i] = q[i]
    /\ \A i \in 1..Len(r) : i > Len(q) => r[i].key \in K /\ r[i].value = s[r[i].key]

(* What is not stored as in s is queued, as far as K goes. *)
Pends(q, st, s, K) == \A key \in K : s[key] # st[key] => \E i \in 1..Len(q) : q[i].key = key

LEMMA ExtendsTrans ==
    ASSUME NEW S, NEW q \in Seq(S), NEW r \in Seq(S), NEW t \in Seq(S), NEW s, NEW K, NEW L,
           Extends(q, r, s, K), Extends(r, t, s, L)
    PROVE  Extends(q, t, s, K \cup L)
<1>1. Len(q) \in Nat /\ Len(r) \in Nat /\ Len(t) \in Nat
  BY LenProperties
<1>2. Len(q) <= Len(r) /\ Len(r) <= Len(t)
  BY DEF Extends
<1>3. \A i \in 1..Len(q) : i \in 1..Len(r)
  BY <1>1, <1>2
<1>4. \A i \in 1..Len(q) : t[i] = q[i]
  BY <1>3 DEF Extends
<1>5. ASSUME NEW i \in 1..Len(t), i > Len(q) PROVE t[i].key \in K \cup L /\ t[i].value = s[t[i].key]
  <2>1. CASE i > Len(r)
    BY <2>1 DEF Extends
  <2>2. CASE ~(i > Len(r))
    <3>1. i \in 1..Len(r)
      BY <1>1, <2>2
    <3>2. t[i] = r[i] /\ r[i].key \in K /\ r[i].value = s[r[i].key]
      BY <1>5, <3>1 DEF Extends
    <3>3. QED
      BY <3>2
  <2>3. QED
    BY <2>1, <2>2
<1>6. Len(q) <= Len(t)
  BY <1>1, <1>2
<1>7. QED
  BY <1>4, <1>5, <1>6 DEF Extends

LEMMA PendsOn ==
    ASSUME NEW S, NEW q \in Seq(S), NEW r \in Seq(S), NEW st, NEW s, NEW K, NEW t, NEW L,
           Extends(q, r, t, L), Pends(q, st, s, K)
    PROVE  Pends(r, st, s, K)
<1>1. Len(q) \in Nat /\ Len(r) \in Nat /\ Len(q) <= Len(r)
  BY LenProperties DEF Extends
<1>2. \A i \in 1..Len(q) : i \in 1..Len(r) /\ r[i] = q[i]
  BY <1>1 DEF Extends
<1>3. QED
  BY <1>2 DEF Pends

LEMMA ExtendsSelf ==
    ASSUME NEW S, NEW q \in Seq(S), NEW s, NEW K
    PROVE  Extends(q, q, s, K)
<1>1. Len(q) \in Nat
  BY LenProperties
<1>2. QED
  BY <1>1 DEF Extends

(* One write is added, if need be. *)
Updated(h, r, e, key, v) ==
    /\ HostOK(r)
    /\ r.stored = h.stored /\ r.policy = h.policy /\ r.timers = h.timers
    /\ r.cached = [h.cached EXCEPT ![e] = [h.cached[e] EXCEPT ![key] = v]]
    /\ \A s : s[key] = v => Extends(h.queue, r.queue, s, {key}) /\ Pends(r.queue, h.stored, s, {key})
    /\ v # h.stored[key] => Len(r.queue) = Len(h.queue) + 1 /\ r.queue[Len(h.queue) + 1].key = key

LEMMA UpdateValueIs ==
    ASSUME NEW h, HostOK(h), NEW e \in Editors, NEW key \in Keys, NEW v \in Values(key)
    PROVE  Updated(h, UpdateValue(h, e, key, v), e, key, v)
<1> DEFINE w == [key |-> key, value |-> v]
           q == IF v = h.stored[key] THEN h.queue ELSE Append(h.queue, w)
           r == UpdateValue(h, e, key, v)
           c == [h.cached EXCEPT ![e] = [h.cached[e] EXCEPT ![key] = v]]
<1>1. /\ h.stored \in Settings /\ h.queue \in Seq(Writes) /\ h.cached \in [Editors -> Settings]
      /\ h.policy \in [Editors -> Policies] /\ h.timers \in [Editors -> Nat]
      /\ h = [stored |-> h.stored, queue |-> h.queue, cached |-> h.cached, policy |-> h.policy, timers |-> h.timers]
  BY DEF HostOK
<1>2. r = [stored |-> h.stored, queue |-> q, cached |-> c, policy |-> h.policy, timers |-> h.timers]
  <2>1. r = [h EXCEPT !.cached = c, !.queue = q]
    BY <1>1 DEF UpdateValue
  <2> HIDE DEF r, c, q
  <2>2. QED
    BY <1>1, <2>1
<1>3. w \in Writes
  <2>1. v \in Modes \cup OnOff
    BY DEF Values
  <2>2. QED
    BY <2>1 DEF Writes
<1>4. w.key = key /\ w.value = v
  OBVIOUS
<1>5. c \in [Editors -> Settings]
  <2>1. h.cached[e] \in Settings
    BY <1>1
  <2>2. [h.cached[e] EXCEPT ![key] = v] \in Settings
    BY <2>1, SettingsExcept
  <2>3. QED
    BY <1>1, <2>2
<1> HIDE DEF w, r, c
<1>6. CASE v = h.stored[key]
  <2>1. q = h.queue
    BY <1>6
  <2> HIDE DEF q
  <2>2. \A s : Extends(h.queue, q, s, {key})
    BY <1>1, <2>1, ExtendsSelf
  <2>3. \A s : s[key] = v => Pends(q, h.stored, s, {key})
    BY <1>6 DEF Pends
  <2>4. HostOK(r)
    BY <1>1, <1>2, <1>5, <2>1 DEF HostOK
  <2>5. r.stored = h.stored /\ r.policy = h.policy /\ r.timers = h.timers /\ r.cached = c /\ r.queue = q
    BY <1>2
  <2>6. QED
    BY <1>6, <2>2, <2>3, <2>4, <2>5 DEF Updated, r, c
<1>7. CASE v # h.stored[key]
  <2>1. q = Append(h.queue, w)
    BY <1>7
  <2> HIDE DEF q
  <2>2. q \in Seq(Writes) /\ Len(q) = Len(h.queue) + 1 /\ Len(h.queue) \in Nat
        /\ (\A i \in 1..Len(h.queue) : q[i] = h.queue[i]) /\ q[Len(h.queue) + 1] = w
    BY <1>1, <1>3, <2>1, AppendProperties, LenProperties
  <2>3. \A i \in 1..Len(q) : i > Len(h.queue) => i = Len(h.queue) + 1
    BY <2>2
  <2>4. Len(h.queue) <= Len(q) /\ Len(h.queue) + 1 \in 1..Len(q)
    BY <2>2
  <2>5. \A s : s[key] = v => Extends(h.queue, q, s, {key})
    BY <1>4, <2>2, <2>3, <2>4 DEF Extends
  <2>6. \A s : Pends(q, h.stored, s, {key})
    BY <1>4, <2>2, <2>4 DEF Pends
  <2>7. HostOK(r)
    BY <1>1, <1>2, <1>5, <2>2 DEF HostOK
  <2>8. r.stored = h.stored /\ r.policy = h.policy /\ r.timers = h.timers /\ r.cached = c /\ r.queue = q
    BY <1>2
  <2>9. Len(q) = Len(h.queue) + 1 /\ q[Len(h.queue) + 1].key = key
    BY <1>4, <2>2
  <2>10. QED
    BY <2>5, <2>6, <2>7, <2>8, <2>9 DEF Updated, r, c
<1>8. QED
  BY <1>6, <1>7

LEMMA HostIs ==
    ASSUME NEW h, HostOK(h)
    PROVE  /\ h.stored \in Settings /\ h.queue \in Seq(Writes) /\ h.cached \in [Editors -> Settings]
           /\ h.policy \in [Editors -> Policies] /\ h.timers \in [Editors -> Nat]
           /\ h = [stored |-> h.stored, queue |-> h.queue, cached |-> h.cached, policy |-> h.policy, timers |-> h.timers]
  BY DEF HostOK

(* Two settings written one after the other. *)
LEMMA ChangeToViewIs ==
    ASSUME NEW h, HostOK(h), NEW e \in Editors, NEW m \in Modes,
           NEW t \in Settings, \A key \in Flags : t[key] = View(m)[key], t["viewMode"] = h.cached[e]["viewMode"]
    PROVE  LET r == ChangeToView(h, e, m)
           IN  /\ HostOK(r)
               /\ r.stored = h.stored /\ r.policy = h.policy /\ r.timers = h.timers
               /\ r.cached = [h.cached EXCEPT ![e] = t]
               /\ Extends(h.queue, r.queue, t, Flags) /\ Pends(r.queue, h.stored, t, Flags)
<1> DEFINE v == View(m)["modified"]
           w == View(m)["zoom"]
           g == UpdateValue(h, e, "modified", v)
           r == UpdateValue(g, e, "zoom", w)
<1>1. r = ChangeToView(h, e, m)
  BY DEF ChangeToView
<1>2. "modified" \in Keys /\ "zoom" \in Keys /\ "modified" \in Flags /\ "zoom" \in Flags
  BY DEF Keys, Flags
<1>3. v \in Values("modified") /\ w \in Values("zoom")
  BY <1>2, ViewIs, SettingsAre
<1>4. t["modified"] = v /\ t["zoom"] = w
  BY <1>2
<1> HIDE DEF v, w
<1>5. Updated(h, g, e, "modified", v)
  BY <1>2, <1>3, UpdateValueIs
<1>6. HostOK(g) /\ g.stored = h.stored /\ g.policy = h.policy /\ g.timers = h.timers
  BY <1>5 DEF Updated
<1>7. Updated(g, r, e, "zoom", w)
  BY <1>2, <1>3, <1>6, UpdateValueIs
<1> HIDE DEF g, r
<1>8. HostOK(r) /\ r.stored = h.stored /\ r.policy = h.policy /\ r.timers = h.timers
  BY <1>6, <1>7 DEF Updated
<1>9. Extends(h.queue, g.queue, t, {"modified"}) /\ Pends(g.queue, h.stored, t, {"modified"})
  BY <1>4, <1>5 DEF Updated
<1>10. Extends(g.queue, r.queue, t, {"zoom"}) /\ Pends(r.queue, h.stored, t, {"zoom"})
  BY <1>4, <1>6, <1>7 DEF Updated
<1>11. h.queue \in Seq(Writes) /\ g.queue \in Seq(Writes) /\ r.queue \in Seq(Writes)
  BY <1>6, <1>8, HostIs
<1>12. {"modified"} \cup {"zoom"} = Flags
  BY DEF Flags, Keys
<1>13. Extends(h.queue, r.queue, t, Flags)
  <2>1. Extends(h.queue, r.queue, t, {"modified"} \cup {"zoom"})
    BY <1>9, <1>10, <1>11, ExtendsTrans
  <2>2. QED
    BY <2>1, <1>12
<1>14. Pends(r.queue, h.stored, t, {"modified"})
  BY <1>9, <1>10, <1>11, PendsOn
<1>15. Pends(r.queue, h.stored, t, Flags)
  BY <1>10, <1>12, <1>14 DEF Pends
<1>16. r.cached = [h.cached EXCEPT ![e] = t]
  <2> DEFINE c == h.cached[e]
             d == [c EXCEPT !["modified"] = v]
             f == [d EXCEPT !["zoom"] = w]
  <2>1. c \in Settings /\ h.cached \in [Editors -> Settings]
    BY HostIs
  <2>2. g.cached = [h.cached EXCEPT ![e] = d]
    BY <1>5 DEF Updated
  <2>3. g.cached[e] = d
    BY <2>1, <2>2
  <2>4. r.cached = [g.cached EXCEPT ![e] = f]
    BY <1>7, <2>3 DEF Updated
  <2>5. d \in Settings /\ d["modified"] = v /\ \A k \in Keys \ {"modified"} : d[k] = c[k]
    BY <2>1, <1>2, <1>3, SettingsExcept
  <2> HIDE DEF d
  <2>6. f \in Settings /\ f["zoom"] = w /\ \A k \in Keys \ {"zoom"} : f[k] = d[k]
    BY <2>5, <1>2, <1>3, SettingsExcept
  <2> HIDE DEF f
  <2>7. \A k \in Keys : f[k] = t[k]
    BY <2>5, <2>6, <1>4 DEF Keys
  <2>8. f = t
    BY <2>6, <2>7, SettingsSame
  <2>9. [g.cached EXCEPT ![e] = f] = [h.cached EXCEPT ![e] = f]
    BY <2>1, <2>2
  <2>10. QED
    BY <2>4, <2>8, <2>9
<1>17. QED
  BY <1>1, <1>8, <1>13, <1>15, <1>16

-----------------------------------------------------------------------------
(***************************************************************************)
(* A change of the mode.                                                   *)
(***************************************************************************)

(* The cache of an editor after a change to mode m, the timers it starts, and *)
(* the settings it writes at once.                                            *)
Turned(c, m) == IF m \in {"Custom", "Stealth"} THEN [c EXCEPT !["viewMode"] = m] ELSE View(m)
Waiting(m) == IF m = "Stealth" THEN 1 ELSE 0
Named(m) == IF m \in {"Custom", "Stealth"} THEN {"viewMode"} ELSE Keys

(* The cache of e becomes t, d more timers run, and writes for K are added. *)
Turns(h, r, e, t, d, K) ==
    /\ HostOK(r)
    /\ r.stored = h.stored
    /\ r.cached = [h.cached EXCEPT ![e] = t]
    /\ r.timers = [h.timers EXCEPT ![e] = h.timers[e] + d]
    /\ Extends(h.queue, r.queue, t, K)
    /\ Pends(r.queue, h.stored, t, K)

ModeTurns(h, r, e, m) ==
    /\ Turns(h, r, e, Turned(h.cached[e], m), Waiting(m), Named(m))
    /\ r.policy = IF m = "Custom" THEN h.policy ELSE [h.policy EXCEPT ![e] = Policy(m)]
    /\ m # h.stored["viewMode"] =>
          /\ Len(h.queue) + 1 \in 1..Len(r.queue)
          /\ r.queue[Len(h.queue) + 1].key = "viewMode"

LEMMA TurnedIs ==
    ASSUME NEW c \in Settings, NEW m \in Modes
    PROVE  Turned(c, m) \in Settings /\ Turned(c, m)["viewMode"] = m
<1>1. "viewMode" \in Keys /\ m \in Values("viewMode")
  BY DEF Keys, Values
<1>2. [c EXCEPT !["viewMode"] = m] \in Settings /\ [c EXCEPT !["viewMode"] = m]["viewMode"] = m
  BY <1>1, SettingsExcept
<1>3. QED
  BY <1>2, ViewIs DEF Turned

LEMMA PolicyIs == \A m : Policy(m) \in Policies
  BY DEF Policy, Policies

LEMMA ChangeViewModeIs ==
    ASSUME NEW h, HostOK(h), NEW e \in Editors, NEW m \in Modes
    PROVE  ModeTurns(h, ChangeViewMode(h, e, m), e, m)
<1> DEFINE c == h.cached[e]
           n == [c EXCEPT !["viewMode"] = m]
           g == UpdateValue(h, e, "viewMode", m)
           r == ChangeViewMode(h, e, m)
<1>1. "viewMode" \in Keys /\ m \in Values("viewMode")
  BY DEF Keys, Values
<1>2. Updated(h, g, e, "viewMode", m)
  BY <1>1, UpdateValueIs
<1>3. HostOK(g) /\ g.stored = h.stored /\ g.policy = h.policy /\ g.timers = h.timers
      /\ g.cached = [h.cached EXCEPT ![e] = n]
  BY <1>2 DEF Updated
<1>4. c \in Settings /\ h.cached \in [Editors -> Settings] /\ h.policy \in [Editors -> Policies]
      /\ h.timers \in [Editors -> Nat] /\ h.queue \in Seq(Writes) /\ h.stored \in Settings
  BY HostIs
<1>5. n \in Settings /\ n["viewMode"] = m /\ \A k \in Keys \ {"viewMode"} : n[k] = c[k]
  BY <1>1, <1>4, SettingsExcept
<1>6. \A s : s["viewMode"] = m =>
         Extends(h.queue, g.queue, s, {"viewMode"}) /\ Pends(g.queue, h.stored, s, {"viewMode"})
  BY <1>2 DEF Updated
<1>7. Len(g.queue) \in Nat /\ Len(h.queue) \in Nat /\ g.queue \in Seq(Writes)
  <2>1. g.queue \in Seq(Writes)
    BY <1>3, HostIs
  <2>2. QED
    BY <1>4, <2>1, LenProperties
<1>8. m # h.stored["viewMode"] => Len(h.queue) + 1 \in 1..Len(g.queue) /\ g.queue[Len(h.queue) + 1].key = "viewMode"
  <2>1. m # h.stored["viewMode"] => Len(g.queue) = Len(h.queue) + 1 /\ g.queue[Len(h.queue) + 1].key = "viewMode"
    BY <1>2 DEF Updated
  <2>2. QED
    BY <1>7, <2>1
<1>9. CASE m = "Custom"
  <2>1. r = g
    BY <1>9 DEF ChangeViewMode
  <2>2. Turned(c, m) = n /\ Waiting(m) = 0 /\ Named(m) = {"viewMode"}
    BY <1>9 DEF Turned, Waiting, Named
  <2> HIDE DEF n, c, g
  <2>3. g.timers = [h.timers EXCEPT ![e] = h.timers[e] + 0]
    <3>1. h.timers[e] + 0 = h.timers[e]
      BY <1>4
    <3>2. QED
      BY <1>3, <1>4, <3>1
  <2>4. Turns(h, g, e, n, 0, {"viewMode"})
    BY <1>3, <1>5, <1>6, <2>3 DEF Turns
  <2>5. QED
    BY <1>3, <1>8, <1>9, <2>1, <2>2, <2>4 DEF ModeTurns, c
<1>10. CASE m = "Stealth"
  <2> DEFINE p == [h.policy EXCEPT ![e] = Policy(m)]
             u == [h.timers EXCEPT ![e] = h.timers[e] + 1]
  <2>1. r = [g EXCEPT !.policy[e] = Policy(m), !.timers[e] = @ + 1]
    BY <1>10 DEF ChangeViewMode
  <2>2. Turned(c, m) = n /\ Waiting(m) = 1 /\ Named(m) = {"viewMode"}
    BY <1>10 DEF Turned, Waiting, Named
  <2> HIDE DEF g, r
  <2>3. g = [stored |-> g.stored, queue |-> g.queue, cached |-> g.cached, policy |-> g.policy, timers |-> g.timers]
    BY <1>3, HostIs
  <2>4. r = [g EXCEPT !.policy = p, !.timers = u]
    BY <1>3, <2>1, <2>3
  <2>5. p \in [Editors -> Policies] /\ u \in [Editors -> Nat]
    BY <1>4, PolicyIs
  <2> HIDE DEF n, c, p, u
  <2>6. r = [stored |-> g.stored, queue |-> g.queue, cached |-> g.cached, policy |-> p, timers |-> u]
    BY <2>3, <2>4
  <2>7. r.stored = h.stored /\ r.queue = g.queue /\ r.cached = [h.cached EXCEPT ![e] = n] /\ r.policy = p /\ r.timers = u
    BY <1>3, <2>6
  <2>8. g.stored \in Settings /\ g.cached \in [Editors -> Settings]
    BY <1>3, HostIs
  <2>9. HostOK(r)
    BY <1>7, <2>5, <2>6, <2>8 DEF HostOK
  <2>10. Turns(h, r, e, n, 1, {"viewMode"})
    <3>1. Extends(h.queue, g.queue, n, {"viewMode"}) /\ Pends(g.queue, h.stored, n, {"viewMode"})
      BY <1>5, <1>6
    <3>2. QED
      BY <2>7, <2>9, <3>1 DEF Turns, u
  <2>11. QED
    <3>1. r.policy = [h.policy EXCEPT ![e] = Policy(m)] /\ m # "Custom" /\ r.queue = g.queue
      BY <1>10, <2>7 DEF p
    <3>2. Turns(h, r, e, Turned(h.cached[e], m), Waiting(m), Named(m))
      BY <2>2, <2>10 DEF c
    <3>3. QED
      BY <1>8, <3>1, <3>2 DEF ModeTurns, r
<1>11. CASE m \notin {"Custom", "Stealth"}
  <2> DEFINE f == ChangeToView(g, e, m)
             p == [h.policy EXCEPT ![e] = Policy(m)]
             t == View(m)
  <2>1. r = [f EXCEPT !.policy[e] = Policy(m)]
    BY <1>11 DEF ChangeViewMode
  <2>2. Turned(c, m) = t /\ Waiting(m) = 0 /\ Named(m) = Keys
    BY <1>11 DEF Turned, Waiting, Named
  <2>3. t \in Settings /\ t["viewMode"] = m /\ \A key \in Flags : t[key] = View(m)[key]
    BY ViewIs
  <2> HIDE DEF c, n, g, r, t
  <2>4. g.cached[e]["viewMode"] = t["viewMode"]
    BY <1>3, <1>4, <1>5, <2>3
  <2>5. /\ HostOK(f)
        /\ f.stored = g.stored /\ f.policy = g.policy /\ f.timers = g.timers
        /\ f.cached = [g.cached EXCEPT ![e] = t]
        /\ Extends(g.queue, f.queue, t, Flags) /\ Pends(f.queue, g.stored, t, Flags)
    BY <1>3, <2>3, <2>4, ChangeToViewIs
  <2> HIDE DEF f
  <2>6. f = [stored |-> f.stored, queue |-> f.queue, cached |-> f.cached, policy |-> f.policy, timers |-> f.timers]
        /\ f.queue \in Seq(Writes) /\ f.stored \in Settings /\ f.cached \in [Editors -> Settings]
    BY <2>5, HostIs
  <2>7. r = [f EXCEPT !.policy = p]
    BY <1>3, <2>1, <2>5, <2>6
  <2>8. p \in [Editors -> Policies]
    BY <1>4, PolicyIs
  <2> HIDE DEF p
  <2>9. r = [stored |-> f.stored, queue |-> f.queue, cached |-> f.cached, policy |-> p, timers |-> f.timers]
    BY <2>6, <2>7
  <2>10. r.stored = h.stored /\ r.queue = f.queue /\ r.cached = f.cached /\ r.policy = p /\ r.timers = h.timers
    BY <1>3, <2>5, <2>9
  <2>11. f.timers \in [Editors -> Nat]
    BY <1>3, <1>4, <2>5
  <2>12. HostOK(r)
    BY <2>6, <2>8, <2>9, <2>11 DEF HostOK
  <2>13. r.cached = [h.cached EXCEPT ![e] = t]
    BY <1>3, <1>4, <2>5, <2>10
  <2>14. r.timers = [h.timers EXCEPT ![e] = h.timers[e] + 0]
    <3>1. h.timers[e] + 0 = h.timers[e]
      BY <1>4
    <3>2. QED
      BY <1>4, <2>10, <3>1
  <2>15. {"viewMode"} \cup Flags = Keys
    BY DEF Flags, Keys
  <2>16. Extends(h.queue, g.queue, t, {"viewMode"}) /\ Pends(g.queue, h.stored, t, {"viewMode"})
    BY <1>6, <2>3
  <2>17. Extends(h.queue, f.queue, t, Keys)
    <3>1. Extends(h.queue, f.queue, t, {"viewMode"} \cup Flags)
      BY <1>4, <1>7, <2>5, <2>6, <2>16, ExtendsTrans
    <3>2. QED
      BY <2>15, <3>1
  <2>18. Pends(f.queue, h.stored, t, Keys)
    <3>1. Pends(f.queue, h.stored, t, {"viewMode"})
      BY <1>7, <2>5, <2>6, <2>16, PendsOn
    <3>2. Pends(f.queue, h.stored, t, Flags)
      BY <1>3, <2>5
    <3>3. QED
      BY <2>15, <3>1, <3>2 DEF Pends
  <2>19. Turns(h, r, e, t, 0, Keys)
    BY <2>10, <2>12, <2>13, <2>14, <2>17, <2>18 DEF Turns
  <2>20. m # h.stored["viewMode"] => Len(h.queue) + 1 \in 1..Len(f.queue) /\ f.queue[Len(h.queue) + 1].key = "viewMode"
    <3>1. Len(g.queue) <= Len(f.queue) /\ \A i \in 1..Len(g.queue) : f.queue[i] = g.queue[i]
      BY <2>5 DEF Extends
    <3>2. Len(f.queue) \in Nat
      BY <2>6, LenProperties
    <3>3. QED
      BY <1>7, <1>8, <3>1, <3>2
  <2>21. QED
    <3>1. Turns(h, r, e, Turned(h.cached[e], m), Waiting(m), Named(m))
      BY <2>2, <2>19 DEF c
    <3>2. r.policy = [h.policy EXCEPT ![e] = Policy(m)] /\ m # "Custom"
      BY <1>11, <2>10 DEF p
    <3>3. QED
      BY <2>10, <2>20, <3>1, <3>2 DEF ModeTurns, r
<1>12. QED
  BY <1>9, <1>10, <1>11

-----------------------------------------------------------------------------
(***************************************************************************)
(* Boxes are as visible as the mode of their editor says, whatever happens. *)
(***************************************************************************)

FitsBut(h, S) ==
    \A x \in Editors \ S : h.cached[x]["viewMode"] # "Custom" => h.policy[x] = Policy(h.cached[x]["viewMode"])

(* The host is in order, and only the caches and what follows from them differ. *)
Sound(h, r) == HostOK(r) /\ FitsBut(r, {}) /\ r.stored = h.stored

LEMMA ChangeFits ==
    ASSUME NEW h, HostOK(h), NEW e \in Editors, NEW m \in Modes, FitsBut(h, {e})
    PROVE  Sound(h, ChangeViewMode(h, e, m))
<1> DEFINE r == ChangeViewMode(h, e, m)
           t == Turned(h.cached[e], m)
<1>1. ModeTurns(h, r, e, m)
  BY ChangeViewModeIs
<1>2. h.cached \in [Editors -> Settings] /\ h.policy \in [Editors -> Policies]
  BY HostIs
<1>3. t \in Settings /\ t["viewMode"] = m
  BY <1>2, TurnedIs
<1> HIDE DEF r
<1>4. HostOK(r) /\ r.stored = h.stored /\ r.cached = [h.cached EXCEPT ![e] = t]
  BY <1>1 DEF ModeTurns, Turns
<1>5. r.policy = IF m = "Custom" THEN h.policy ELSE [h.policy EXCEPT ![e] = Policy(m)]
  BY <1>1 DEF ModeTurns
<1> HIDE DEF t
<1>6. ASSUME NEW x \in Editors, r.cached[x]["viewMode"] # "Custom"
      PROVE  r.policy[x] = Policy(r.cached[x]["viewMode"])
  <2>1. CASE x = e
    BY <1>2, <1>3, <1>4, <1>5, <1>6, <2>1
  <2>2. CASE x # e
    <3>1. r.cached[x] = h.cached[x] /\ r.policy[x] = h.policy[x]
      BY <1>2, <1>4, <1>5, <2>2
    <3>2. QED
      BY <1>6, <2>2, <3>1 DEF FitsBut
  <2>3. QED
    BY <2>1, <2>2
<1>7. QED
  BY <1>4, <1>6 DEF FitsBut, Sound, r

LEMMA NameFits ==
    ASSUME NEW h, HostOK(h), NEW e \in Editors, FitsBut(h, {e})
    PROVE  Sound(h, UpdateValue(h, e, "viewMode", "Custom"))
<1>1. "viewMode" \in Keys /\ "Custom" \in Values("viewMode") /\ "Custom" \in Modes
  BY DEF Keys, Values, Modes
<1>2. ChangeViewMode(h, e, "Custom") = UpdateValue(h, e, "viewMode", "Custom")
  BY DEF ChangeViewMode
<1>3. QED
  BY <1>1, <1>2, ChangeFits

(* The cache of an editor takes what is stored for one key. *)
Taken(h, e, key) == [h EXCEPT !.cached[e][key] = h.stored[key]]

Takes(h, r, e, key) ==
    /\ HostOK(r)
    /\ r.stored = h.stored /\ r.queue = h.queue /\ r.policy = h.policy /\ r.timers = h.timers
    /\ r.cached = [h.cached EXCEPT ![e] = [h.cached[e] EXCEPT ![key] = h.stored[key]]]
    /\ [h.cached[e] EXCEPT ![key] = h.stored[key]] \in Settings

LEMMA TakenIs ==
    ASSUME NEW h, HostOK(h), NEW e \in Editors, NEW key \in Keys
    PROVE  Takes(h, Taken(h, e, key), e, key)
<1> DEFINE r == Taken(h, e, key)
           d == [h.cached[e] EXCEPT ![key] = h.stored[key]]
           c == [h.cached EXCEPT ![e] = d]
<1>1. /\ h.stored \in Settings /\ h.queue \in Seq(Writes) /\ h.cached \in [Editors -> Settings]
      /\ h.policy \in [Editors -> Policies] /\ h.timers \in [Editors -> Nat]
      /\ h = [stored |-> h.stored, queue |-> h.queue, cached |-> h.cached, policy |-> h.policy, timers |-> h.timers]
  BY HostIs
<1>2. d \in Settings
  <2>1. h.stored[key] \in Values(key)
    BY <1>1, SettingsAre
  <2>2. h.cached[e] \in Settings
    BY <1>1
  <2>3. QED
    BY <2>1, <2>2, SettingsExcept
<1>3. r = [h EXCEPT !.cached = c]
  BY <1>1 DEF Taken
<1>4. c \in [Editors -> Settings]
  BY <1>1, <1>2
<1> HIDE DEF r, c
<1>5. r = [stored |-> h.stored, queue |-> h.queue, cached |-> c, policy |-> h.policy, timers |-> h.timers]
  BY <1>1, <1>3
<1>6. HostOK(r)
  BY <1>1, <1>4, <1>5 DEF HostOK
<1>7. r.stored = h.stored /\ r.queue = h.queue /\ r.policy = h.policy /\ r.timers = h.timers /\ r.cached = c
  BY <1>5
<1>8. QED
  BY <1>2, <1>6, <1>7 DEF Takes, r, c

LEMMA HearsFits ==
    ASSUME NEW h, HostOK(h), FitsBut(h, {}), NEW e \in Editors, NEW key \in Keys, NEW keys
    PROVE  Sound(h, Hears(h, e, key, keys))
<1> DEFINE g == Taken(h, e, key)
<1>1. CASE h.cached[e][key] = h.stored[key]
  <2>1. Hears(h, e, key, keys) = h
    BY <1>1 DEF Hears
  <2>2. QED
    BY <2>1 DEF Sound
<1>2. CASE h.cached[e][key] # h.stored[key]
  <2>1. Hears(h, e, key, keys) = OnUserChangeConfiguration(g, e, keys)
    BY <1>2 DEF Hears, Taken
  <2>2. HostOK(g) /\ g.stored = h.stored /\ g.policy = h.policy
        /\ g.cached = [h.cached EXCEPT ![e] = [h.cached[e] EXCEPT ![key] = h.stored[key]]]
    <3>1. Takes(h, Taken(h, e, key), e, key)
      BY TakenIs
    <3>2. QED
      BY <3>1 DEF Takes
  <2> HIDE DEF g
  <2>3. h.cached \in [Editors -> Settings] /\ g.cached \in [Editors -> Settings]
    BY <2>2, HostIs
  <2>4. FitsBut(g, {e})
    <3>1. \A x \in Editors \ {e} : g.cached[x] = h.cached[x]
      BY <2>2, <2>3
    <3>2. QED
      BY <2>2, <3>1 DEF FitsBut
  <2>5. Sound(g, OnUserChangeConfiguration(g, e, keys))
    <3>1. CASE "viewMode" \in Range(keys)
      <4>1. OnUserChangeConfiguration(g, e, keys) = ChangeViewMode(g, e, g.cached[e]["viewMode"])
        BY <3>1 DEF OnUserChangeConfiguration
      <4>2. g.cached[e]["viewMode"] \in Modes
        <5>1. g.cached[e] \in Settings /\ "viewMode" \in Keys
          BY <2>3 DEF Keys
        <5>2. g.cached[e]["viewMode"] \in Values("viewMode")
          BY <5>1, SettingsAre
        <5>3. QED
          BY <5>2 DEF Values
      <4>3. QED
        BY <2>2, <2>4, <4>1, <4>2, ChangeFits
    <3>2. CASE "viewMode" \notin Range(keys)
      <4>1. OnUserChangeConfiguration(g, e, keys) = UpdateValue(g, e, "viewMode", "Custom")
        BY <3>2 DEF OnUserChangeConfiguration
      <4>2. QED
        BY <2>2, <2>4, <4>1, NameFits
    <3>3. QED
      BY <3>1, <3>2
  <2>6. QED
    BY <2>1, <2>2, <2>5 DEF Sound
<1>3. QED
  BY <1>1, <1>2

-----------------------------------------------------------------------------
(***************************************************************************)
(* The keys of an event and its listeners, one after the other.            *)
(***************************************************************************)

IsHearing(h, e, keys, m, g) ==
    g = [k \in 0..m |-> IF k = 0 THEN h ELSE Hears(g[k - 1], e, keys[k], keys)]

LEMMA HearingExists ==
    ASSUME NEW h, NEW e, NEW keys, NEW n \in Nat
    PROVE  \E g : IsHearing(h, e, keys, n, g)
<1> DEFINE T == {m \in Nat : ~ \E g : IsHearing(h, e, keys, m, g)}
<1>1. SUFFICES ASSUME T # {} PROVE FALSE
  OBVIOUS
<1>2. PICK m \in T : \A y \in T : m <= y
  BY <1>1, LeastNumber
<1>3. m # 0
  <2>1. IsHearing(h, e, keys, 0, [k \in 0..0 |-> h])
    BY DEF IsHearing
  <2>2. QED
    BY <2>1
<1>4. m - 1 \in Nat /\ m - 1 \notin T
  BY <1>2, <1>3
<1>5. PICK g : IsHearing(h, e, keys, m - 1, g)
  BY <1>4
<1> DEFINE f == [k \in 0..m |-> IF k = m THEN Hears(g[m - 1], e, keys[m], keys) ELSE g[k]]
<1>6. ASSUME NEW k \in 0..m PROVE f[k] = IF k = 0 THEN h ELSE Hears(f[k - 1], e, keys[k], keys)
  <2>1. CASE k = m
    <3>1. m - 1 \in 0..m /\ m - 1 # m
      BY <1>3
    <3>2. f[m] = Hears(g[m - 1], e, keys[m], keys) /\ f[m - 1] = g[m - 1]
      BY <3>1
    <3>3. QED
      BY <1>3, <2>1, <3>2
  <2>2. CASE k # m
    <3>1. k \in 0..(m - 1) /\ (k # 0 => k - 1 \in 0..m /\ k - 1 # m)
      BY <2>2
    <3>2. f[k] = g[k] /\ (k # 0 => f[k - 1] = g[k - 1])
      BY <2>2, <3>1
    <3>3. g[k] = IF k = 0 THEN h ELSE Hears(g[k - 1], e, keys[k], keys)
      BY <1>5, <3>1 DEF IsHearing
    <3>4. QED
      BY <3>2, <3>3
  <2>3. QED
    BY <2>1, <2>2
<1>7. f = [k \in 0..m |-> IF k = 0 THEN h ELSE Hears(f[k - 1], e, keys[k], keys)]
  BY <1>6
<1>8. IsHearing(h, e, keys, m, f)
  BY <1>7 DEF IsHearing
<1>9. QED
  BY <1>8

LEMMA HearingIs ==
    ASSUME NEW h, NEW e, NEW keys, Len(keys) \in Nat
    PROVE  \E g : /\ g[0] = h
                  /\ \A k \in 1..Len(keys) : g[k] = Hears(g[k - 1], e, keys[k], keys)
                  /\ OnChangeConfiguration(h, e, keys) = g[Len(keys)]
<1> DEFINE g == CHOOSE f : f = [k \in 0..Len(keys) |-> IF k = 0 THEN h ELSE Hears(f[k - 1], e, keys[k], keys)]
<1>1. g = [k \in 0..Len(keys) |-> IF k = 0 THEN h ELSE Hears(g[k - 1], e, keys[k], keys)]
  <2>1. \E f : f = [k \in 0..Len(keys) |-> IF k = 0 THEN h ELSE Hears(f[k - 1], e, keys[k], keys)]
    <3>1. \E f : IsHearing(h, e, keys, Len(keys), f)
      BY HearingExists
    <3>2. QED
      BY <3>1 DEF IsHearing
  <2>2. QED
    BY <2>1
<1>2. OnChangeConfiguration(h, e, keys) = g[Len(keys)]
  BY DEF OnChangeConfiguration
<1> HIDE DEF g
<1>3. 0 \in 0..Len(keys) /\ \A k \in 1..Len(keys) : k \in 0..Len(keys) /\ k # 0
  OBVIOUS
<1>4. g[0] = h /\ \A k \in 1..Len(keys) : g[k] = Hears(g[k - 1], e, keys[k], keys)
  BY <1>1, <1>3
<1>5. QED
  BY <1>2, <1>4

IsAnswering(h, listeners, keys, m, g) ==
    g = [k \in 0..m |-> IF k = 0 THEN h ELSE OnChangeConfiguration(g[k - 1], listeners[k], keys)]

LEMMA AnsweringExists ==
    ASSUME NEW h, NEW listeners, NEW keys, NEW n \in Nat
    PROVE  \E g : IsAnswering(h, listeners, keys, n, g)
<1> DEFINE T == {m \in Nat : ~ \E g : IsAnswering(h, listeners, keys, m, g)}
<1>1. SUFFICES ASSUME T # {} PROVE FALSE
  OBVIOUS
<1>2. PICK m \in T : \A y \in T : m <= y
  BY <1>1, LeastNumber
<1>3. m # 0
  <2>1. IsAnswering(h, listeners, keys, 0, [k \in 0..0 |-> h])
    BY DEF IsAnswering
  <2>2. QED
    BY <2>1
<1>4. m - 1 \in Nat /\ m - 1 \notin T
  BY <1>2, <1>3
<1>5. PICK g : IsAnswering(h, listeners, keys, m - 1, g)
  BY <1>4
<1> DEFINE f == [k \in 0..m |-> IF k = m THEN OnChangeConfiguration(g[m - 1], listeners[m], keys) ELSE g[k]]
<1>6. ASSUME NEW k \in 0..m PROVE f[k] = IF k = 0 THEN h ELSE OnChangeConfiguration(f[k - 1], listeners[k], keys)
  <2>1. CASE k = m
    <3>1. m - 1 \in 0..m /\ m - 1 # m
      BY <1>3
    <3>2. f[m] = OnChangeConfiguration(g[m - 1], listeners[m], keys) /\ f[m - 1] = g[m - 1]
      BY <3>1
    <3>3. QED
      BY <1>3, <2>1, <3>2
  <2>2. CASE k # m
    <3>1. k \in 0..(m - 1) /\ (k # 0 => k - 1 \in 0..m /\ k - 1 # m)
      BY <2>2
    <3>2. f[k] = g[k] /\ (k # 0 => f[k - 1] = g[k - 1])
      BY <2>2, <3>1
    <3>3. g[k] = IF k = 0 THEN h ELSE OnChangeConfiguration(g[k - 1], listeners[k], keys)
      BY <1>5, <3>1 DEF IsAnswering
    <3>4. QED
      BY <3>2, <3>3
  <2>3. QED
    BY <2>1, <2>2
<1>7. f = [k \in 0..m |-> IF k = 0 THEN h ELSE OnChangeConfiguration(f[k - 1], listeners[k], keys)]
  BY <1>6
<1>8. IsAnswering(h, listeners, keys, m, f)
  BY <1>7 DEF IsAnswering
<1>9. QED
  BY <1>8

LEMMA AnsweringIs ==
    ASSUME NEW h, NEW listeners, NEW keys, Len(listeners) \in Nat
    PROVE  \E g : /\ g[0] = h
                  /\ \A k \in 1..Len(listeners) : g[k] = OnChangeConfiguration(g[k - 1], listeners[k], keys)
                  /\ Heard(h, listeners, keys) = g[Len(listeners)]
<1> DEFINE g == CHOOSE f : f = [k \in 0..Len(listeners) |-> IF k = 0 THEN h ELSE OnChangeConfiguration(f[k - 1], listeners[k], keys)]
<1>1. g = [k \in 0..Len(listeners) |-> IF k = 0 THEN h ELSE OnChangeConfiguration(g[k - 1], listeners[k], keys)]
  <2>1. \E f : f = [k \in 0..Len(listeners) |-> IF k = 0 THEN h ELSE OnChangeConfiguration(f[k - 1], listeners[k], keys)]
    <3>1. \E f : IsAnswering(h, listeners, keys, Len(listeners), f)
      BY AnsweringExists
    <3>2. QED
      BY <3>1 DEF IsAnswering
  <2>2. QED
    BY <2>1
<1>2. Heard(h, listeners, keys) = g[Len(listeners)]
  BY DEF Heard
<1> HIDE DEF g
<1>3. 0 \in 0..Len(listeners) /\ \A k \in 1..Len(listeners) : k \in 0..Len(listeners) /\ k # 0
  OBVIOUS
<1>4. g[0] = h /\ \A k \in 1..Len(listeners) : g[k] = OnChangeConfiguration(g[k - 1], listeners[k], keys)
  BY <1>1, <1>3
<1>5. QED
  BY <1>2, <1>4

LEMMA HearingFits ==
    ASSUME NEW h, HostOK(h), FitsBut(h, {}), NEW e \in Editors,
           NEW keys, Len(keys) \in Nat, \A k \in 1..Len(keys) : keys[k] \in Keys
    PROVE  Sound(h, OnChangeConfiguration(h, e, keys))
<1>1. PICK g : /\ g[0] = h
               /\ \A k \in 1..Len(keys) : g[k] = Hears(g[k - 1], e, keys[k], keys)
               /\ OnChangeConfiguration(h, e, keys) = g[Len(keys)]
  BY HearingIs
<1> DEFINE T == {k \in 0..Len(keys) : ~ Sound(h, g[k])}
<1>2. T = {}
  <2>1. SUFFICES ASSUME T # {} PROVE FALSE
    OBVIOUS
  <2>2. T \in SUBSET Nat
    OBVIOUS
  <2>3. PICK k \in T : \A y \in T : k <= y
    BY <2>1, <2>2, LeastNumber
  <2>4. k # 0
    BY <1>1 DEF Sound
  <2>5. k \in 1..Len(keys) /\ k - 1 \in 0..Len(keys) /\ k - 1 \notin T
    BY <2>3, <2>4
  <2>6. HostOK(g[k - 1]) /\ FitsBut(g[k - 1], {}) /\ g[k - 1].stored = h.stored
    BY <2>5 DEF Sound
  <2>7. Sound(g[k - 1], g[k])
    BY <1>1, <2>5, <2>6, HearsFits
  <2>8. Sound(h, g[k])
    BY <2>6, <2>7 DEF Sound
  <2>9. QED
    BY <2>3, <2>8
<1>3. Len(keys) \notin T
  BY <1>2
<1>4. QED
  BY <1>1, <1>3

LEMMA HeardFits ==
    ASSUME NEW h, HostOK(h), FitsBut(h, {}),
           NEW listeners, Len(listeners) \in Nat, \A k \in 1..Len(listeners) : listeners[k] \in Editors,
           NEW keys, Len(keys) \in Nat, \A k \in 1..Len(keys) : keys[k] \in Keys
    PROVE  Sound(h, Heard(h, listeners, keys))
<1>1. PICK g : /\ g[0] = h
               /\ \A k \in 1..Len(listeners) : g[k] = OnChangeConfiguration(g[k - 1], listeners[k], keys)
               /\ Heard(h, listeners, keys) = g[Len(listeners)]
  BY AnsweringIs
<1> DEFINE T == {k \in 0..Len(listeners) : ~ Sound(h, g[k])}
<1>2. T = {}
  <2>1. SUFFICES ASSUME T # {} PROVE FALSE
    OBVIOUS
  <2>2. T \in SUBSET Nat
    OBVIOUS
  <2>3. PICK k \in T : \A y \in T : k <= y
    BY <2>1, <2>2, LeastNumber
  <2>4. k # 0
    BY <1>1 DEF Sound
  <2>5. k \in 1..Len(listeners) /\ k - 1 \in 0..Len(listeners) /\ k - 1 \notin T
    BY <2>3, <2>4
  <2>6. HostOK(g[k - 1]) /\ FitsBut(g[k - 1], {}) /\ g[k - 1].stored = h.stored
    BY <2>5 DEF Sound
  <2>7. Sound(g[k - 1], g[k])
    BY <1>1, <2>5, <2>6, HearingFits
  <2>8. Sound(h, g[k])
    BY <2>6, <2>7 DEF Sound
  <2>9. QED
    BY <2>3, <2>8
<1>3. Len(listeners) \notin T
  BY <1>2
<1>4. QED
  BY <1>1, <1>3

LEMMA OrdersAre ==
    ASSUME NEW S, IsFiniteSet(S), NEW q \in Orders(S)
    PROVE  /\ Cardinality(S) \in Nat /\ Len(q) = Cardinality(S) /\ DOMAIN q = 1..Len(q)
           /\ \A i \in 1..Len(q) : q[i] \in S
           /\ \A i, j \in 1..Len(q) : q[i] = q[j] => i = j
           /\ \A x \in S : \E i \in 1..Len(q) : q[i] = x
<1>1. PICK n \in Nat : n = Cardinality(S)
  BY FS_CardinalityType
<1>2. q \in [1..n -> S] /\ IsInjective(q) /\ \A x \in S : \E i \in 1..n : q[i] = x
  BY <1>1 DEF Orders, Bijection, Injection, Surjection
<1>3. Len(q) = n
  <2>1. q \in Seq(S) /\ DOMAIN q = 1..n
    BY <1>2, SeqDef
  <2>2. DOMAIN q = 1..Len(q) /\ Len(q) \in Nat
    BY <2>1, LenProperties
  <2>3. PICK l \in Nat : l = Len(q)
    BY <2>2
  <2>4. 1..l = 1..n
    BY <2>1, <2>2, <2>3
  <2>5. l = n
    <3>1. l \in 1..l <=> l \in 1..n
      BY <2>4
    <3>2. n \in 1..l <=> n \in 1..n
      BY <2>4
    <3>3. l \in 1..l <=> l >= 1
      OBVIOUS
    <3>4. QED
      BY <3>1, <3>2
  <2>6. QED
    BY <2>3, <2>5
<1>4. \A i, j \in 1..n : q[i] = q[j] => i = j
  BY <1>2 DEF IsInjective
<1>5. QED
  BY <1>1, <1>2, <1>3, <1>4

LEMMA KeysAre == IsFiniteSet(Keys) /\ \A S \in SUBSET Keys : IsFiniteSet(S)
<1>1. IsFiniteSet({}) 
  BY FS_EmptySet
<1>2. IsFiniteSet({} \cup {"viewMode"})
  BY <1>1, FS_AddElement
<1>3. IsFiniteSet(({} \cup {"viewMode"}) \cup {"modified"})
  BY <1>2, FS_AddElement
<1>4. IsFiniteSet((({} \cup {"viewMode"}) \cup {"modified"}) \cup {"zoom"})
  BY <1>3, FS_AddElement
<1>5. Keys = (({} \cup {"viewMode"}) \cup {"modified"}) \cup {"zoom"}
  BY DEF Keys
<1>6. IsFiniteSet(Keys)
  BY <1>4, <1>5
<1>7. QED
  BY <1>6, FS_Subset

LEMMA OpenAre == Open \subseteq Editors /\ First \in Open /\ IsFiniteSet(Open)
<1>1. Open \subseteq Editors /\ First \in Open
  BY ViewAssumption DEF Open
<1>2. QED
  BY <1>1, ViewAssumption, FS_Subset

LEMMA FiresFits ==
    ASSUME NEW h, HostOK(h), FitsBut(h, {}), NEW s \in Settings, Fires(h, s)
    PROVE  \E r : Sound([h EXCEPT !.stored = s], r) /\ Becomes(r)
<1> DEFINE S == {key \in Keys : s[key] # h.stored[key]}
           g == [h EXCEPT !.stored = s]
<1>1. PICK keys \in Orders(S), listeners \in Orders(Open) : Becomes(Heard(g, listeners, keys))
  BY DEF Fires
<1>2. S \subseteq Keys
  OBVIOUS
<1>3. HostOK(g) /\ g.cached = h.cached /\ g.policy = h.policy
  <2>1. /\ h.stored \in Settings /\ h.queue \in Seq(Writes) /\ h.cached \in [Editors -> Settings]
        /\ h.policy \in [Editors -> Policies] /\ h.timers \in [Editors -> Nat]
    BY HostIs
  <2>2. h = [stored |-> h.stored, queue |-> h.queue, cached |-> h.cached, policy |-> h.policy, timers |-> h.timers]
    BY HostIs
  <2>3. g = [stored |-> s, queue |-> h.queue, cached |-> h.cached, policy |-> h.policy, timers |-> h.timers]
    BY <2>2
  <2>4. QED
    BY <2>1, <2>3 DEF HostOK
<1> HIDE DEF S, g
<1>4. Len(keys) \in Nat /\ \A k \in 1..Len(keys) : keys[k] \in Keys
  <2>1. IsFiniteSet(S)
    BY <1>2, KeysAre
  <2>2. QED
    BY <1>2, <2>1, OrdersAre
<1>5. Len(listeners) \in Nat /\ \A k \in 1..Len(listeners) : listeners[k] \in Editors
  BY OpenAre, OrdersAre
<1>6. FitsBut(g, {})
  BY <1>3 DEF FitsBut
<1>7. Sound(g, Heard(g, listeners, keys))
  BY <1>3, <1>4, <1>5, <1>6, HeardFits
<1>8. QED
  BY <1>1, <1>7 DEF g

-----------------------------------------------------------------------------
(***************************************************************************)
(* Type correctness, and the boxes that an editor shows.                   *)
(***************************************************************************)

Fitting == TypeOK /\ FitsBut(Host, {})

LEMMA HostFields ==
    /\ Host.stored = stored /\ Host.queue = queue /\ Host.cached = cached
    /\ Host.policy = policy /\ Host.timers = timers
  BY DEF Host

LEMMA HostTyped == TypeOK => HostOK(Host)
<1>1. SUFFICES ASSUME TypeOK PROVE HostOK(Host)
  OBVIOUS
<1>2. stored \in Settings /\ queue \in Seq(Writes) /\ cached \in [Editors -> Settings]
      /\ policy \in [Editors -> Policies] /\ timers \in [Editors -> Nat]
  BY <1>1 DEF TypeOK, Policies
<1>3. QED
  BY <1>2 DEF HostOK, Host

(* The host after a step. *)
LEMMA HostNext ==
    ASSUME NEW r, HostOK(r), FitsBut(r, {}), Becomes(r),
           changes' \in 0..MaxChanges, wanted' \in Settings, user' \in Users
    PROVE  Fitting'
<1>1. /\ stored' \in Settings /\ queue' \in Seq(Writes) /\ cached' \in [Editors -> Settings]
      /\ policy' \in [Editors -> Policies] /\ timers' \in [Editors -> Nat]
  BY HostIs DEF Becomes
<1>2. TypeOK'
  BY <1>1 DEF TypeOK, Policies
<1>3. FitsBut(Host, {})'
  <2>1. cached' = r.cached /\ policy' = r.policy
    BY DEF Becomes
  <2>2. QED
    BY <2>1 DEF FitsBut, Host
<1>4. QED
  BY <1>2, <1>3 DEF Fitting

LEMMA FittingInit == Init => Fitting
<1>1. SUFFICES ASSUME Init PROVE Fitting
  OBVIOUS
<1>2. View("Full") \in Settings /\ View("Full")["viewMode"] = "Full" /\ "Full" \in Modes
  BY ViewIs DEF Modes
<1>3. <<>> \in Seq(Writes)
  BY EmptySeq
<1>4. TypeOK
  BY <1>1, <1>2, <1>3, ViewAssumption DEF Init, TypeOK
<1>5. \A x \in Editors : cached[x] = View("Full") /\ policy[x] = "all"
  BY <1>1 DEF Init
<1>6. FitsBut(Host, {})
  <2>1. Policy("Full") = "all"
    BY DEF Policy
  <2>2. QED
    BY <1>2, <1>5, <2>1, HostFields DEF FitsBut
<1>7. QED
  BY <1>4, <1>6 DEF Fitting

(* The values that are written, and the value a setting flips to. *)
LEMMA FlippedIs == \A v : \A key \in Flags : Flipped(v) \in Values(key) /\ key \in Keys
<1>1. \A v : Flipped(v) \in OnOff
  BY DEF Flipped, Flag, OnOff
<1>2. \A key \in Flags : Values(key) = OnOff /\ key \in Keys
  BY DEF Flags, Values
<1>3. QED
  BY <1>1, <1>2

LEMMA QueueIs ==
    ASSUME TypeOK, NEW i \in 1..Len(queue)
    PROVE  queue[i].key \in Keys /\ queue[i].value \in Values(queue[i].key)
<1>1. queue \in Seq(Writes) /\ Len(queue) \in Nat
  BY LenProperties DEF TypeOK
<1>2. queue[i] \in Writes
  BY <1>1, ElementOfSeq
<1>3. QED
  BY <1>2 DEF Writes

LEMMA WrittenIs ==
    ASSUME TypeOK, NEW n \in 1..Len(queue)
    PROVE  /\ Written(n) \in Settings
           /\ \A key \in Keys :
                 \/ Written(n)[key] = stored[key] /\ \A i \in 1..n : queue[i].key # key
                 \/ \E i \in 1..n : queue[i].key = key /\ Written(n)[key] = queue[i].value
<1> DEFINE of(key) == {i \in 1..n : queue[i].key = key}
           Value(key) == IF of(key) = {} THEN stored[key]
                         ELSE queue[CHOOSE i \in of(key) : \A j \in of(key) : j <= i].value
<1>1. Len(queue) \in Nat
  BY LenProperties DEF TypeOK
<1>2. ASSUME NEW key \in Keys, of(key) # {}
      PROVE  \E i \in 1..n : queue[i].key = key /\ Value(key) = queue[i].value
  <2>1. \E i \in of(key) : \A j \in of(key) : j <= i
    <3> DEFINE T == {x \in Nat : \E i \in of(key) : x + i = n}
    <3>1. T # {} /\ T \in SUBSET Nat
      <4>1. PICK i \in of(key) : TRUE
        BY <1>2
      <4>2. n - i \in Nat /\ (n - i) + i = n
        OBVIOUS
      <4>3. QED
        BY <4>1, <4>2
    <3> HIDE DEF T
    <3>2. PICK x \in T : \A y \in T : x <= y
      BY <3>1, LeastNumber
    <3>3. PICK i \in of(key) : x + i = n /\ x \in Nat
      BY <3>2 DEF T
    <3>4. ASSUME NEW j \in of(key) PROVE j <= i
      <4>1. n - j \in Nat /\ (n - j) + j = n
        OBVIOUS
      <4>2. n - j \in T
        BY <4>1 DEF T
      <4>3. x <= n - j
        BY <3>2, <4>2
      <4>4. QED
        BY <3>3, <4>3
    <3>5. QED
      BY <3>4
  <2>2. PICK i : i = CHOOSE x \in of(key) : \A j \in of(key) : j <= x
    OBVIOUS
  <2>3. i \in of(key)
    BY <2>1, <2>2
  <2>4. Value(key) = queue[i].value
    BY <1>2, <2>2
  <2>5. QED
    BY <2>3, <2>4
<1>3. Written(n) = [key \in Keys |-> Value(key)]
  BY DEF Written
<1>4. \A key \in Keys : of(key) = {} => Value(key) = stored[key] /\ \A i \in 1..n : queue[i].key # key
  OBVIOUS
<1> HIDE DEF Value
<1>5. \A key \in Keys : Written(n)[key] = Value(key)
  BY <1>3
<1>6. stored \in Settings
  BY DEF TypeOK
<1>7. \A key \in Keys : Value(key) \in Values(key)
  <2>1. \A i \in 1..n : i \in 1..Len(queue)
    BY <1>1
  <2>2. \A key \in Keys : stored[key] \in Values(key)
    BY <1>6, SettingsAre
  <2>3. \A i \in 1..n : queue[i].value \in Values(queue[i].key)
    BY <2>1, QueueIs
  <2>4. QED
    BY <1>2, <1>4, <2>2, <2>3
<1>8. \A key \in Keys : Value(key) \in Modes \cup OnOff
  BY <1>7 DEF Values
<1>9. Written(n) \in [Keys -> Modes \cup OnOff]
  BY <1>3, <1>8
<1>10. Written(n) \in Settings
  BY <1>5, <1>7, <1>9 DEF Settings
<1>11. ASSUME NEW key \in Keys
       PROVE  \/ Written(n)[key] = stored[key] /\ \A i \in 1..n : queue[i].key # key
              \/ \E i \in 1..n : queue[i].key = key /\ Written(n)[key] = queue[i].value
  BY <1>2, <1>4, <1>5
<1>12. QED
  BY <1>10, <1>11

LEMMA ChangesIs == ASSUME TypeOK, MayChange, NEW s, Wants(s) PROVE changes' \in 0..MaxChanges
<1>1. changes \in 0..MaxChanges /\ changes < MaxChanges /\ MaxChanges \in Nat /\ changes' = changes + 1
  BY ViewAssumption DEF TypeOK, MayChange, Wants
<1>2. QED
  BY <1>1

(* A mode is chosen or applied again. *)
LEMMA FittingTurn ==
    ASSUME Fitting, UNCHANGED user, NEW e \in Open, NEW m \in Modes, MayChange,
           Becomes(ChangeViewMode(Host, e, m)), NEW s \in Settings, Wants(s)
    PROVE  Fitting'
<1>1. TypeOK /\ HostOK(Host) /\ FitsBut(Host, {e}) /\ e \in Editors
  BY HostTyped, OpenAre DEF Fitting, FitsBut
<1>2. Sound(Host, ChangeViewMode(Host, e, m))
  BY <1>1, ChangeFits
<1>3. changes' \in 0..MaxChanges /\ wanted' \in Settings /\ user' \in Users
  BY <1>1, ChangesIs DEF Wants, TypeOK
<1>4. QED
  BY <1>2, <1>3, HostNext DEF Sound

LEMMA FittingFlip ==
    ASSUME Fitting, UNCHANGED user, NEW e \in Open, NEW key \in Flags, Flip(e, key)
    PROVE  Fitting'
<1> DEFINE v == Flipped(cached[e][key])
           r == UpdateValue(Host, e, key, v)
<1>1. TypeOK /\ HostOK(Host) /\ FitsBut(Host, {}) /\ e \in Editors
  BY HostTyped, OpenAre DEF Fitting
<1>2. v \in Values(key) /\ key \in Keys /\ key # "viewMode"
  BY FlippedIs DEF Flags
<1>3. Becomes(r) /\ MayChange /\ Wants([wanted EXCEPT ![key] = v])
  BY DEF Flip
<1> HIDE DEF v
<1>4. Updated(Host, r, e, key, v)
  BY <1>1, <1>2, UpdateValueIs
<1> HIDE DEF r
<1>5. HostOK(r) /\ r.policy = policy /\ r.cached = [cached EXCEPT ![e] = [cached[e] EXCEPT ![key] = v]]
  BY <1>4, HostFields DEF Updated
<1>6. cached \in [Editors -> Settings] /\ wanted \in Settings
  BY <1>1 DEF TypeOK
<1>7. "viewMode" \in Keys /\ "viewMode" # key
  BY <1>2 DEF Keys
<1>8. \A x \in Editors : r.cached[x]["viewMode"] = cached[x]["viewMode"]
  <2>1. cached[e] \in Settings
    BY <1>1, <1>6
  <2>2. [cached[e] EXCEPT ![key] = v]["viewMode"] = cached[e]["viewMode"]
    BY <2>1, <1>2, <1>7, SettingsExcept
  <2>3. QED
    BY <1>5, <1>6, <2>2
<1>9. FitsBut(r, {})
  <2>1. \A x \in Editors : cached[x]["viewMode"] # "Custom" => policy[x] = Policy(cached[x]["viewMode"])
    BY <1>1, HostFields DEF FitsBut
  <2>2. QED
    BY <1>5, <1>8, <2>1 DEF FitsBut
<1>10. [wanted EXCEPT ![key] = v] \in Settings
  BY <1>2, <1>6, SettingsExcept
<1>11. changes' \in 0..MaxChanges /\ wanted' \in Settings /\ user' \in Users
  BY <1>1, <1>3, <1>10, ChangesIs DEF Wants, TypeOK
<1>12. QED
  BY <1>3, <1>5, <1>9, <1>11, HostNext

LEMMA FittingFires ==
    ASSUME Fitting, NEW h, HostOK(h), FitsBut(h, {}), NEW s \in Settings, Fires(h, s),
           changes' \in 0..MaxChanges, wanted' \in Settings, user' \in Users
    PROVE  Fitting'
  BY FiresFits, HostNext DEF Sound

LEMMA FittingEdit ==
    ASSUME Fitting, UNCHANGED user,
           \/ \E m \in Modes : EditMode(m)
           \/ \E key \in Flags : EditSetting(key)
    PROVE  Fitting'
<1>1. TypeOK /\ HostOK(Host) /\ FitsBut(Host, {}) /\ stored \in Settings /\ wanted \in Settings
  BY HostTyped DEF Fitting, TypeOK
<1>2. "viewMode" \in Keys /\ Values("viewMode") = Modes /\ "Custom" \in Modes
  BY DEF Keys, Values, Modes
<1>3. user' \in Users
  BY <1>1 DEF TypeOK
<1>4. ASSUME NEW m \in Modes, EditMode(m) PROVE Fitting'
  <2> DEFINE s == IF m = "Custom" THEN [wanted EXCEPT !["viewMode"] = m] ELSE View(m)
  <2>1. Fires(Host, [stored EXCEPT !["viewMode"] = m]) /\ MayChange /\ Wants(s)
    BY <1>4 DEF EditMode
  <2>2. [stored EXCEPT !["viewMode"] = m] \in Settings /\ [wanted EXCEPT !["viewMode"] = m] \in Settings
    BY <1>1, <1>2, SettingsExcept
  <2>3. s \in Settings
    BY <2>2, ViewIs
  <2> HIDE DEF s
  <2>4. changes' \in 0..MaxChanges /\ wanted' \in Settings
    BY <1>1, <2>1, <2>3, ChangesIs DEF Wants
  <2>5. QED
    BY <1>1, <1>3, <2>1, <2>2, <2>4, FittingFires
<1>5. ASSUME NEW key \in Flags, EditSetting(key) PROVE Fitting'
  <2> DEFINE v == Flipped(stored[key])
             w == [wanted EXCEPT !["viewMode"] = "Custom"]
             s == [w EXCEPT ![key] = v]
  <2>1. Fires(Host, [stored EXCEPT ![key] = v]) /\ MayChange /\ Wants(s)
    <3>1. Wants([wanted EXCEPT !["viewMode"] = "Custom", ![key] = v])
      BY <1>5 DEF EditSetting
    <3>2. QED
      BY <1>5, <3>1 DEF EditSetting
  <2>2. v \in Values(key) /\ key \in Keys
    BY FlippedIs
  <2> HIDE DEF v
  <2>3. [stored EXCEPT ![key] = v] \in Settings
    BY <1>1, <2>2, SettingsExcept
  <2>4. w \in Settings
    BY <1>1, <1>2, SettingsExcept
  <2> HIDE DEF w
  <2>5. s \in Settings
    BY <2>2, <2>4, SettingsExcept
  <2> HIDE DEF s
  <2>6. changes' \in 0..MaxChanges /\ wanted' \in Settings
    BY <1>1, <2>1, <2>5, ChangesIs DEF Wants
  <2>7. QED
    BY <1>1, <1>3, <2>1, <2>3, <2>6, FittingFires
<1>6. QED
  BY <1>4, <1>5

(* The host without the writes that are done. *)
LEMMA DoneIs ==
    ASSUME TypeOK, NEW n \in 1..Len(queue)
    PROVE  LET q == SubSeq(queue, n + 1, Len(queue))
           IN  /\ q \in Seq(Writes) /\ Len(q) = Len(queue) - n
               /\ \A i \in 1..Len(q) : n + i \in 1..Len(queue) /\ q[i] = queue[n + i]
               /\ [Host EXCEPT !.queue = q] =
                     [stored |-> stored, queue |-> q, cached |-> cached, policy |-> policy, timers |-> timers]
<1> DEFINE q == SubSeq(queue, n + 1, Len(queue))
<1>1. queue \in Seq(Writes) /\ Len(queue) \in Nat
  BY LenProperties DEF TypeOK
<1>2. n + 1 \in 1..(Len(queue) + 1) /\ Len(queue) \in n..Len(queue) /\ n \in Nat
  BY <1>1
<1>3. \A i \in (n + 1)..Len(queue) : queue[i] \in Writes
  <2>1. \A i \in (n + 1)..Len(queue) : i \in 1..Len(queue)
    BY <1>1
  <2>2. QED
    BY <1>1, <2>1, ElementOfSeq
<1>4. q \in Seq(Writes) /\ Len(q) = Len(queue) - n /\ \A i \in 1..(Len(queue) - n) : q[i] = queue[n + i]
  <2>1. /\ SubSeq(queue, n + 1, Len(queue)) \in Seq(Writes)
        /\ Len(SubSeq(queue, n + 1, Len(queue))) =
              IF n + 1 <= Len(queue) THEN Len(queue) - (n + 1) + 1 ELSE 0
        /\ \A i \in 1..(Len(queue) - (n + 1) + 1) : SubSeq(queue, n + 1, Len(queue))[i] = queue[(n + 1) + i - 1]
    BY <1>1, <1>2, <1>3, SubSeqProperties
  <2> HIDE DEF q
  <2>2. (IF n + 1 <= Len(queue) THEN Len(queue) - (n + 1) + 1 ELSE 0) = Len(queue) - n
    BY <1>1, <1>2
  <2>3. Len(queue) - (n + 1) + 1 = Len(queue) - n
    BY <1>1, <1>2
  <2>4. \A i \in 1..(Len(queue) - n) : (n + 1) + i - 1 = n + i
    BY <1>1, <1>2
  <2>5. QED
    BY <2>1, <2>2, <2>3, <2>4 DEF q
<1>5. \A i \in 1..(Len(queue) - n) : n + i \in 1..Len(queue)
  BY <1>1, <1>2
<1>6. [Host EXCEPT !.queue = q] =
         [stored |-> stored, queue |-> q, cached |-> cached, policy |-> policy, timers |-> timers]
  <2> HIDE DEF q
  <2>1. QED
    BY DEF Host
<1>7. QED
  BY <1>4, <1>5, <1>6

LEMMA FittingLands ==
    ASSUME Fitting, UNCHANGED user, NEW n \in 1..Len(queue), Lands(n)
    PROVE  Fitting'
<1> DEFINE q == SubSeq(queue, n + 1, Len(queue))
           h == [Host EXCEPT !.queue = q]
<1>1. TypeOK /\ FitsBut(Host, {})
  BY DEF Fitting
<1>2. Written(n) \in Settings
  BY <1>1, WrittenIs
<1>3. Fires(h, Written(n)) /\ UNCHANGED <<changes, wanted>>
  BY DEF Lands
<1>4. q \in Seq(Writes)
      /\ h = [stored |-> stored, queue |-> q, cached |-> cached, policy |-> policy, timers |-> timers]
  BY <1>1, DoneIs
<1> HIDE DEF h, q
<1>5. HostOK(h)
  BY <1>1, <1>4 DEF TypeOK, HostOK, Policies
<1>6. FitsBut(h, {})
  <2>1. h.cached = cached /\ h.policy = policy
    BY <1>4
  <2>2. QED
    BY <1>1, <2>1, HostFields DEF FitsBut
<1>7. changes' \in 0..MaxChanges /\ wanted' \in Settings /\ user' \in Users
  BY <1>1, <1>3 DEF TypeOK
<1>8. QED
  BY <1>2, <1>3, <1>5, <1>6, <1>7, FittingFires

(* The host of an editor whose timer is over. *)
LEMMA OverIs ==
    ASSUME TypeOK, NEW e \in Editors, timers[e] > 0
    PROVE  LET h == [Host EXCEPT !.timers[e] = @ - 1]
           IN  /\ HostOK(h)
               /\ h.stored = stored /\ h.queue = queue /\ h.cached = cached /\ h.policy = policy
               /\ h.timers = [timers EXCEPT ![e] = timers[e] - 1]
<1> DEFINE h == [Host EXCEPT !.timers[e] = @ - 1]
           u == [timers EXCEPT ![e] = timers[e] - 1]
<1>1. timers \in [Editors -> Nat]
  BY DEF TypeOK
<1>2. u \in [Editors -> Nat]
  <2>1. timers[e] - 1 \in Nat
    BY <1>1
  <2>2. QED
    BY <1>1, <2>1
<1> HIDE DEF u
<1>3. h = [Host EXCEPT !.timers = u]
  BY DEF u, Host
<1> HIDE DEF h
<1>4. h = [stored |-> stored, queue |-> queue, cached |-> cached, policy |-> policy, timers |-> u]
  BY <1>3 DEF Host
<1>5. HostOK(h)
  BY <1>2, <1>4 DEF TypeOK, HostOK, Policies
<1>6. h.stored = stored /\ h.queue = queue /\ h.cached = cached /\ h.policy = policy /\ h.timers = u
  BY <1>4
<1>7. QED
  BY <1>5, <1>6 DEF h, u

(* What a timer that is over writes into the cache. *)
Full(c) == [[c EXCEPT !["modified"] = View("Full")["modified"]] EXCEPT !["zoom"] = View("Full")["zoom"]]

LEMMA FullIs ==
    ASSUME NEW c \in Settings
    PROVE  Full(c) \in Settings /\ Full(c)["viewMode"] = c["viewMode"] /\ \A key \in Flags : Full(c)[key] = View("Full")[key]
<1> DEFINE v == View("Full")["modified"]
           w == View("Full")["zoom"]
           d == [c EXCEPT !["modified"] = v]
<1>1. "Full" \in Modes /\ "modified" \in Keys /\ "zoom" \in Keys
  BY DEF Modes, Keys
<1>2. View("Full") \in Settings
  BY <1>1, ViewIs
<1>3. v \in Values("modified") /\ w \in Values("zoom")
  BY <1>1, <1>2, SettingsAre
<1>4. Full(c) = [d EXCEPT !["zoom"] = w]
  BY DEF Full
<1> HIDE DEF v, w
<1>5. d \in Settings /\ d["modified"] = v /\ \A k \in Keys \ {"modified"} : d[k] = c[k]
  BY <1>1, <1>3, SettingsExcept
<1> HIDE DEF d
<1>6. Full(c) \in Settings /\ Full(c)["zoom"] = w /\ \A k \in Keys \ {"zoom"} : Full(c)[k] = d[k]
  <2>1. [d EXCEPT !["zoom"] = w] \in Settings /\ [d EXCEPT !["zoom"] = w]["zoom"] = w
        /\ \A k \in Keys \ {"zoom"} : [d EXCEPT !["zoom"] = w][k] = d[k]
    BY <1>1, <1>3, <1>5, SettingsExcept
  <2>2. QED
    BY <1>4, <2>1
<1>7. Full(c)["modified"] = v /\ Full(c)["viewMode"] = c["viewMode"]
  BY <1>5, <1>6 DEF Keys
<1>8. QED
  BY <1>6, <1>7 DEF Flags, Keys, v, w

LEMMA FiredIs ==
    ASSUME TypeOK, NEW e \in Editors, TimerFires(e)
    PROVE  LET t == Full(cached[e])
           IN  \E r : /\ Becomes(r) /\ HostOK(r)
                      /\ r.stored = stored /\ r.policy = policy
                      /\ r.timers = [timers EXCEPT ![e] = timers[e] - 1]
                      /\ r.cached = [cached EXCEPT ![e] = t]
                      /\ Extends(queue, r.queue, t, Flags) /\ Pends(r.queue, stored, t, Flags)
<1> DEFINE h == [Host EXCEPT !.timers[e] = @ - 1]
           t == Full(cached[e])
           r == ChangeToView(h, e, "Full")
<1>1. Becomes(r) /\ timers[e] > 0
  BY DEF TimerFires
<1>2. /\ HostOK(h)
      /\ h.stored = stored /\ h.queue = queue /\ h.cached = cached /\ h.policy = policy
      /\ h.timers = [timers EXCEPT ![e] = timers[e] - 1]
  BY <1>1, OverIs
<1>3. cached[e] \in Settings
  BY DEF TypeOK
<1>4. t \in Settings /\ t["viewMode"] = cached[e]["viewMode"] /\ \A key \in Flags : t[key] = View("Full")[key]
  BY <1>3, FullIs
<1>5. "Full" \in Modes
  BY DEF Modes
<1> HIDE DEF h, t
<1>6. /\ HostOK(r)
      /\ r.stored = h.stored /\ r.policy = h.policy /\ r.timers = h.timers
      /\ r.cached = [h.cached EXCEPT ![e] = t]
      /\ Extends(h.queue, r.queue, t, Flags) /\ Pends(r.queue, h.stored, t, Flags)
  BY <1>2, <1>4, <1>5, ChangeToViewIs
<1> HIDE DEF r
<1>7. QED
  BY <1>1, <1>2, <1>6 DEF t

LEMMA FittingFired ==
    ASSUME Fitting, UNCHANGED user, NEW e \in Open, TimerFires(e)
    PROVE  Fitting'
<1>1. TypeOK /\ FitsBut(Host, {}) /\ e \in Editors
  BY OpenAre DEF Fitting
<1> DEFINE t == Full(cached[e])
<1>2. PICK r : /\ Becomes(r) /\ HostOK(r) /\ r.policy = policy /\ r.cached = [cached EXCEPT ![e] = t]
  BY <1>1, FiredIs
<1>3. cached \in [Editors -> Settings]
  BY <1>1 DEF TypeOK
<1>4. t["viewMode"] = cached[e]["viewMode"]
  BY <1>1, <1>3, FullIs
<1> HIDE DEF t
<1>5. \A x \in Editors : r.cached[x]["viewMode"] = cached[x]["viewMode"]
  BY <1>2, <1>3, <1>4
<1>6. FitsBut(r, {})
  <2>1. \A x \in Editors : cached[x]["viewMode"] # "Custom" => policy[x] = Policy(cached[x]["viewMode"])
    BY <1>1, HostFields DEF FitsBut
  <2>2. QED
    BY <1>2, <1>5, <2>1 DEF FitsBut
<1>7. changes' \in 0..MaxChanges /\ wanted' \in Settings /\ user' \in Users
  BY <1>1 DEF TimerFires, TypeOK
<1>8. QED
  BY <1>2, <1>6, <1>7, HostNext

LEMMA FittingStep == Fitting /\ [Next]_vars => Fitting'
<1>1. SUFFICES ASSUME Fitting, [Next]_vars PROVE Fitting'
  OBVIOUS
<1>2. TypeOK /\ wanted \in Settings /\ cached \in [Editors -> Settings]
  BY <1>1 DEF Fitting, TypeOK
<1>3. CASE UNCHANGED vars
  <2>1. UNCHANGED <<stored, queue, cached, policy, timers, changes, wanted, user>>
    BY <1>3 DEF vars, hostVars
  <2>2. QED
    BY <1>1, <2>1 DEF Fitting, TypeOK, FitsBut, Host
<1>4. ASSUME UserStep, UNCHANGED user PROVE Fitting'
  <2>1. ASSUME NEW e \in Open, NEW m \in Modes, ChooseMode(e, m) PROVE Fitting'
    <3>1. MayChange /\ Becomes(ChangeViewMode(Host, e, m)) /\ Wants(View(m)) /\ View(m) \in Settings
      BY <2>1, ViewIs DEF ChooseMode
    <3>2. QED
      BY <1>1, <1>4, <3>1, FittingTurn
  <2>2. ASSUME NEW e \in Open, Escape(e) PROVE Fitting'
    <3> DEFINE s == IF wanted["viewMode"] = "Custom" THEN wanted ELSE View(wanted["viewMode"])
    <3>1. \A c \in Settings : c["viewMode"] \in Modes
      BY SettingsAre DEF Keys, Values
    <3>2. cached[e]["viewMode"] \in Modes /\ wanted["viewMode"] \in Modes
      BY <1>2, <3>1, OpenAre
    <3>3. s \in Settings
      BY <1>2, <3>2, ViewIs
    <3>4. MayChange /\ Becomes(ChangeViewMode(Host, e, cached[e]["viewMode"])) /\ Wants(s)
      BY <2>2 DEF Escape
    <3> HIDE DEF s
    <3>5. QED
      BY <1>1, <1>4, <3>2, <3>3, <3>4, FittingTurn
  <2>3. QED
    BY <1>1, <1>4, <2>1, <2>2, FittingFlip, FittingEdit DEF UserStep
<1>5. ASSUME HostStep, UNCHANGED user PROVE Fitting'
  BY <1>1, <1>5, FittingLands, FittingFired DEF HostStep
<1>6. QED
  BY <1>1, <1>3, <1>4, <1>5 DEF Next

-----------------------------------------------------------------------------
(***************************************************************************)
(* What the controllers make of an event: nothing, if they remember what   *)
(* is stored; or each of them turns, if one setting is not as it remembers. *)
(***************************************************************************)

LEMMA HearingNothing ==
    ASSUME NEW h, NEW e, NEW keys, Len(keys) \in Nat,
           \A k \in 1..Len(keys) : h.cached[e][keys[k]] = h.stored[keys[k]]
    PROVE  OnChangeConfiguration(h, e, keys) = h
<1>1. PICK g : /\ g[0] = h
               /\ \A k \in 1..Len(keys) : g[k] = Hears(g[k - 1], e, keys[k], keys)
               /\ OnChangeConfiguration(h, e, keys) = g[Len(keys)]
  BY HearingIs
<1> DEFINE T == {k \in 0..Len(keys) : g[k] # h}
<1>2. T = {}
  <2>1. SUFFICES ASSUME T # {} PROVE FALSE
    OBVIOUS
  <2>2. T \in SUBSET Nat
    OBVIOUS
  <2>3. PICK k \in T : \A y \in T : k <= y
    BY <2>1, <2>2, LeastNumber
  <2>4. k # 0
    BY <1>1
  <2>5. k \in 1..Len(keys) /\ k - 1 \in 0..Len(keys) /\ k - 1 \notin T
    BY <2>3, <2>4
  <2>6. g[k - 1] = h
    BY <2>5
  <2>7. g[k] = Hears(h, e, keys[k], keys)
    BY <1>1, <2>5, <2>6
  <2>8. g[k] = h
    BY <2>5, <2>7 DEF Hears
  <2>9. QED
    BY <2>3, <2>8
<1>3. Len(keys) \notin T
  BY <1>2
<1>4. QED
  BY <1>1, <1>3

Remembered(h, listeners, keys) ==
    \A i \in 1..Len(listeners) : \A k \in 1..Len(keys) :
        h.cached[listeners[i]][keys[k]] = h.stored[keys[k]]

LEMMA HeardNothing ==
    ASSUME NEW h, NEW listeners, Len(listeners) \in Nat, NEW keys, Len(keys) \in Nat
    PROVE  Remembered(h, listeners, keys) => Heard(h, listeners, keys) = h
<1>1. PICK g : /\ g[0] = h
               /\ \A k \in 1..Len(listeners) : g[k] = OnChangeConfiguration(g[k - 1], listeners[k], keys)
               /\ Heard(h, listeners, keys) = g[Len(listeners)]
  BY AnsweringIs
<1> SUFFICES ASSUME Remembered(h, listeners, keys) PROVE Heard(h, listeners, keys) = h
  OBVIOUS
<1> DEFINE T == {k \in 0..Len(listeners) : g[k] # h}
<1>2. T = {}
  <2>1. SUFFICES ASSUME T # {} PROVE FALSE
    OBVIOUS
  <2>2. T \in SUBSET Nat
    OBVIOUS
  <2>3. PICK k \in T : \A y \in T : k <= y
    BY <2>1, <2>2, LeastNumber
  <2>4. k # 0
    BY <1>1
  <2>5. k \in 1..Len(listeners) /\ k - 1 \in 0..Len(listeners) /\ k - 1 \notin T
    BY <2>3, <2>4
  <2>6. g[k - 1] = h
    BY <2>5
  <2>7. g[k] = OnChangeConfiguration(h, listeners[k], keys)
    BY <1>1, <2>5, <2>6
  <2>8. g[k] = h
    BY <2>5, <2>7, HearingNothing DEF Remembered
  <2>9. QED
    BY <2>3, <2>8
<1>3. Len(listeners) \notin T
  BY <1>2
<1>4. QED
  BY <1>1, <1>3

LEMMA HearsOne ==
    ASSUME NEW h, NEW e, NEW keys, Len(keys) \in Nat
    PROVE  Len(keys) = 1 => OnChangeConfiguration(h, e, keys) = Hears(h, e, keys[1], keys)
<1>1. PICK g : /\ g[0] = h
               /\ \A k \in 1..Len(keys) : g[k] = Hears(g[k - 1], e, keys[k], keys)
               /\ OnChangeConfiguration(h, e, keys) = g[Len(keys)]
  BY HearingIs
<1>2. SUFFICES ASSUME Len(keys) = 1 PROVE OnChangeConfiguration(h, e, keys) = Hears(h, e, keys[1], keys)
  OBVIOUS
<1>3. 1 \in 1..Len(keys) /\ 1 - 1 = 0
  BY <1>2
<1>4. g[1] = Hears(g[1 - 1], e, keys[1], keys)
  BY <1>1, <1>3
<1>5. QED
  BY <1>1, <1>2, <1>3, <1>4

(* The event that names one key. *)
LEMMA OneKey ==
    ASSUME NEW st \in Settings, NEW s \in Settings, NEW key \in Keys, s[key] # st[key],
           \A k \in Keys \ {key} : s[k] = st[k],
           NEW keys \in Orders({k \in Keys : s[k] # st[k]})
    PROVE  Len(keys) = 1 /\ keys[1] = key /\ Range(keys) = {key}
<1>1. {k \in Keys : s[k] # st[k]} = {key}
  OBVIOUS
<1>2. IsFiniteSet({key}) /\ Cardinality({key}) = 1
  BY FS_Singleton
<1>3. keys \in Orders({key})
  BY <1>1
<1>4. Len(keys) = 1 /\ DOMAIN keys = 1..1 /\ \A i \in 1..1 : keys[i] \in {key}
  <2> DEFINE S == {key}
  <2>1. IsFiniteSet(S) /\ Cardinality(S) = 1 /\ keys \in Orders(S)
    BY <1>2, <1>3
  <2> HIDE DEF S
  <2>2. Len(keys) = Cardinality(S) /\ DOMAIN keys = 1..Len(keys) /\ \A i \in 1..Len(keys) : keys[i] \in S
    BY <2>1, OrdersAre
  <2>3. QED
    BY <2>1, <2>2 DEF S
<1>5. keys[1] = key
  BY <1>4
<1>6. QED
  BY <1>4, <1>5 DEF Range

(* Each editor of E turns in answer to an event, before or after others have. *)
Answers(h, E, keys, t, d, K) ==
    \A g : \A e \in E :
        /\ HostOK(g) /\ g.stored = h.stored /\ g.cached[e] = h.cached[e]
        /\ Extends(h.queue, g.queue, t, K)
        => Turns(g, OnChangeConfiguration(g, e, keys), e, t, d, K)

AllTurn(h, r, E, t, d, K) ==
    /\ HostOK(r)
    /\ r.stored = h.stored
    /\ \A x \in E : r.cached[x] = t /\ r.timers[x] = h.timers[x] + d
    /\ \A x \in Editors \ E : r.cached[x] = h.cached[x] /\ r.timers[x] = h.timers[x]
    /\ Extends(h.queue, r.queue, t, K)
    /\ Pends(r.queue, h.stored, t, K)

(* The first k listeners have turned. *)
Turning(h, r, listeners, k, t, d, K) ==
    /\ HostOK(r)
    /\ r.stored = h.stored
    /\ \A i \in 1..k : r.cached[listeners[i]] = t /\ r.timers[listeners[i]] = h.timers[listeners[i]] + d
    /\ \A x \in Editors : (\A i \in 1..k : listeners[i] # x) =>
          r.cached[x] = h.cached[x] /\ r.timers[x] = h.timers[x]
    /\ Extends(h.queue, r.queue, t, K)
    /\ k > 0 => Pends(r.queue, h.stored, t, K)

LEMMA TurningStep ==
    ASSUME NEW h, HostOK(h), NEW g, NEW r, NEW n \in Nat, NEW listeners, NEW k \in 1..n,
           \A i \in 1..n : listeners[i] \in Editors,
           \A i, j \in 1..n : listeners[i] = listeners[j] => i = j,
           NEW t \in Settings, NEW d \in Nat, NEW K,
           Turning(h, g, listeners, k - 1, t, d, K), Turns(g, r, listeners[k], t, d, K)
    PROVE  Turning(h, r, listeners, k, t, d, K)
<1> DEFINE e == listeners[k]
<1>1. HostOK(g) /\ g.stored = h.stored /\ Extends(h.queue, g.queue, t, K)
  BY DEF Turning
<1>2. HostOK(r) /\ r.stored = g.stored /\ Extends(g.queue, r.queue, t, K) /\ Pends(r.queue, g.stored, t, K)
      /\ r.cached = [g.cached EXCEPT ![e] = t] /\ r.timers = [g.timers EXCEPT ![e] = g.timers[e] + d]
  BY DEF Turns
<1>3. g.cached \in [Editors -> Settings] /\ g.timers \in [Editors -> Nat] /\ g.queue \in Seq(Writes)
      /\ r.queue \in Seq(Writes) /\ h.queue \in Seq(Writes) /\ e \in Editors
  BY <1>1, <1>2, HostIs
<1>4. \A i \in 1..(k - 1) : i \in 1..n /\ i # k
  OBVIOUS
<1>5. \A i \in 1..(k - 1) : listeners[i] # e
  BY <1>4
<1>6. g.timers[e] = h.timers[e]
  BY <1>3, <1>5 DEF Turning
<1> HIDE DEF e
<1>7. ASSUME NEW i \in 1..k
      PROVE  r.cached[listeners[i]] = t /\ r.timers[listeners[i]] = h.timers[listeners[i]] + d
  <2>1. CASE i = k
    BY <1>2, <1>3, <1>6, <2>1 DEF e
  <2>2. CASE i # k
    <3>1. i \in 1..(k - 1) /\ i \in 1..n
      BY <2>2
    <3>2. listeners[i] # e /\ listeners[i] \in Editors
      BY <1>5, <3>1
    <3>3. g.cached[listeners[i]] = t /\ g.timers[listeners[i]] = h.timers[listeners[i]] + d
      BY <3>1 DEF Turning
    <3>4. r.cached[listeners[i]] = g.cached[listeners[i]] /\ r.timers[listeners[i]] = g.timers[listeners[i]]
      BY <1>2, <1>3, <3>2
    <3>5. QED
      BY <3>3, <3>4
  <2>3. QED
    BY <2>1, <2>2
<1>8. ASSUME NEW x \in Editors, \A i \in 1..k : listeners[i] # x
      PROVE  r.cached[x] = h.cached[x] /\ r.timers[x] = h.timers[x]
  <2>1. k \in 1..k /\ \A i \in 1..(k - 1) : i \in 1..k
    OBVIOUS
  <2>2. x # e /\ \A i \in 1..(k - 1) : listeners[i] # x
    BY <1>8, <2>1 DEF e
  <2>3. g.cached[x] = h.cached[x] /\ g.timers[x] = h.timers[x]
    BY <2>2 DEF Turning
  <2>4. r.cached[x] = g.cached[x] /\ r.timers[x] = g.timers[x]
    BY <1>2, <1>3, <2>2
  <2>5. QED
    BY <2>3, <2>4
<1>9. Extends(h.queue, r.queue, t, K)
  <2>1. Extends(h.queue, r.queue, t, K \cup K)
    BY <1>1, <1>2, <1>3, ExtendsTrans
  <2>2. K \cup K = K
    OBVIOUS
  <2>3. QED
    BY <2>1, <2>2
<1>10. Pends(r.queue, h.stored, t, K)
  BY <1>1, <1>2
<1>11. HostOK(r) /\ r.stored = h.stored
  BY <1>1, <1>2
<1>12. QED
  BY <1>7, <1>8, <1>9, <1>10, <1>11 DEF Turning

LEMMA HeardTurns ==
    ASSUME NEW h, HostOK(h), NEW keys, NEW E \in SUBSET Editors, IsFiniteSet(E), E # {},
           NEW listeners \in Orders(E), NEW t \in Settings, NEW d \in Nat, NEW K,
           Answers(h, E, keys, t, d, K)
    PROVE  AllTurn(h, Heard(h, listeners, keys), E, t, d, K)
<1> DEFINE n == Len(listeners)
<1>1. /\ n \in Nat
      /\ \A i \in 1..n : listeners[i] \in E
      /\ \A i, j \in 1..n : listeners[i] = listeners[j] => i = j
      /\ \A x \in E : \E i \in 1..n : listeners[i] = x
  BY OrdersAre
<1>2. PICK g : /\ g[0] = h
               /\ \A k \in 1..n : g[k] = OnChangeConfiguration(g[k - 1], listeners[k], keys)
               /\ Heard(h, listeners, keys) = g[n]
  BY <1>1, AnsweringIs
<1>3. h.queue \in Seq(Writes)
  BY HostIs
<1> HIDE DEF n
<1>4. Turning(h, g[0], listeners, 0, t, d, K)
  <2>1. Extends(h.queue, h.queue, t, K)
    BY <1>3, ExtendsSelf
  <2>2. QED
    BY <1>2, <2>1 DEF Turning
<1> DEFINE T == {k \in 0..n : ~ Turning(h, g[k], listeners, k, t, d, K)}
<1>5. T = {}
  <2>1. SUFFICES ASSUME T # {} PROVE FALSE
    OBVIOUS
  <2>2. T \in SUBSET Nat
    BY <1>1
  <2>3. PICK k \in T : \A y \in T : k <= y
    BY <2>1, <2>2, LeastNumber
  <2>4. k # 0
    BY <1>4
  <2>5. k \in 1..n /\ k - 1 \in 0..n /\ k - 1 \notin T
    BY <1>1, <2>3, <2>4
  <2>6. Turning(h, g[k - 1], listeners, k - 1, t, d, K)
    BY <2>5
  <2> HIDE DEF T
  <2>7. listeners[k] \in E /\ listeners[k] \in Editors
    BY <1>1, <2>5
  <2>8. \A i \in 1..(k - 1) : listeners[i] # listeners[k]
    <3>1. \A i \in 1..(k - 1) : i \in 1..n /\ i # k
      BY <1>1, <2>5
    <3>2. QED
      BY <1>1, <2>5, <3>1
  <2>9. HostOK(g[k - 1]) /\ g[k - 1].stored = h.stored /\ g[k - 1].cached[listeners[k]] = h.cached[listeners[k]]
        /\ Extends(h.queue, g[k - 1].queue, t, K)
    BY <2>6, <2>7, <2>8 DEF Turning
  <2>10. Turns(g[k - 1], OnChangeConfiguration(g[k - 1], listeners[k], keys), listeners[k], t, d, K)
    BY <2>7, <2>9 DEF Answers
  <2>11. Turns(g[k - 1], g[k], listeners[k], t, d, K)
    BY <1>2, <2>5, <2>10
  <2>12. Turning(h, g[k], listeners, k, t, d, K)
    <3>1. \A i \in 1..n : listeners[i] \in Editors
      BY <1>1
    <3>2. n \in Nat /\ k \in 1..n /\ \A i, j \in 1..n : listeners[i] = listeners[j] => i = j
      BY <1>1, <2>5
    <3>3. QED
      BY <2>6, <2>11, <3>1, <3>2, TurningStep
  <2>13. QED
    BY <2>3, <2>12 DEF T
<1>6. Turning(h, g[n], listeners, n, t, d, K)
  BY <1>1, <1>5
<1>7. n > 0
  BY <1>1
<1>8. \A x \in E : g[n].cached[x] = t /\ g[n].timers[x] = h.timers[x] + d
  BY <1>1, <1>6 DEF Turning
<1>9. \A x \in Editors \ E : g[n].cached[x] = h.cached[x] /\ g[n].timers[x] = h.timers[x]
  <2>1. \A x \in Editors \ E : \A i \in 1..n : listeners[i] # x
    BY <1>1
  <2>2. QED
    BY <1>6, <2>1 DEF Turning
<1>10. QED
  BY <1>2, <1>6, <1>7, <1>8, <1>9 DEF AllTurn, Turning

LEMMA TakenTurns ==
    ASSUME NEW g, HostOK(g), NEW e \in Editors, NEW key \in Keys, NEW r, NEW t, NEW d, NEW K,
           Turns(Taken(g, e, key), r, e, t, d, K)
    PROVE  Turns(g, r, e, t, d, K)
<1> DEFINE f == Taken(g, e, key)
           c == [g.cached[e] EXCEPT ![key] = g.stored[key]]
<1>1. Takes(g, f, e, key)
  BY TakenIs
<1> HIDE DEF f
<1>2. f.stored = g.stored /\ f.queue = g.queue /\ f.timers = g.timers /\ f.cached = [g.cached EXCEPT ![e] = c]
  BY <1>1 DEF Takes
<1>3. g.cached \in [Editors -> Settings]
  BY HostIs
<1> HIDE DEF c
<1>4. [f.cached EXCEPT ![e] = t] = [g.cached EXCEPT ![e] = t]
  BY <1>2, <1>3
<1>5. Turns(f, r, e, t, d, K)
  BY DEF f
<1>6. QED
  BY <1>2, <1>4, <1>5 DEF Turns

LEMMA ModeAnswers ==
    ASSUME NEW h, HostOK(h), NEW E \in SUBSET Editors,
           NEW keys, Len(keys) \in Nat, Len(keys) = 1, keys[1] = "viewMode", Range(keys) = {"viewMode"},
           NEW m \in Modes, h.stored["viewMode"] = m, NEW t \in Settings,
           \A e \in E : \/ h.cached[e]["viewMode"] # m /\ Turned(h.cached[e], m) = t
                        \/ /\ h.cached[e] = t /\ t["viewMode"] = m
                           /\ Waiting(m) = 0 /\ Pends(h.queue, h.stored, t, Named(m))
    PROVE  Answers(h, E, keys, t, Waiting(m), Named(m))
<1>1. SUFFICES ASSUME NEW g, NEW e \in E, HostOK(g), g.stored = h.stored, g.cached[e] = h.cached[e],
                      Extends(h.queue, g.queue, t, Named(m))
               PROVE  Turns(g, OnChangeConfiguration(g, e, keys), e, t, Waiting(m), Named(m))
  BY DEF Answers
<1> DEFINE c == g.cached[e]
           f == Taken(g, e, "viewMode")
           n == [c EXCEPT !["viewMode"] = m]
<1>2. OnChangeConfiguration(g, e, keys) = Hears(g, e, "viewMode", keys)
  BY HearsOne
<1>3. g.cached \in [Editors -> Settings] /\ g.queue \in Seq(Writes) /\ h.queue \in Seq(Writes)
      /\ g.timers \in [Editors -> Nat] /\ e \in Editors /\ c \in Settings
  BY <1>1, HostIs
<1>4. "viewMode" \in Keys /\ m \in Values("viewMode")
  BY DEF Keys, Values
<1>5. CASE c["viewMode"] # m /\ Turned(c, m) = t
  <2>1. Hears(g, e, "viewMode", keys) = OnUserChangeConfiguration(f, e, keys)
    BY <1>1, <1>5 DEF Hears, Taken
  <2>2. Takes(g, f, e, "viewMode")
    BY <1>1, <1>3, <1>4, TakenIs
  <2> HIDE DEF f
  <2>3. HostOK(f) /\ f.cached = [g.cached EXCEPT ![e] = n]
    BY <1>1, <2>2 DEF Takes
  <2>4. f.cached[e] = n
    BY <1>3, <2>3
  <2>5. n \in Settings /\ n["viewMode"] = m /\ \A k \in Keys \ {"viewMode"} : n[k] = c[k]
    BY <1>3, <1>4, SettingsExcept
  <2> HIDE DEF n
  <2>6. OnUserChangeConfiguration(f, e, keys) = ChangeViewMode(f, e, m)
    BY <2>4, <2>5 DEF OnUserChangeConfiguration
  <2>7. ModeTurns(f, ChangeViewMode(f, e, m), e, m)
    BY <1>3, <2>3, ChangeViewModeIs
  <2>8. Turned(n, m) = Turned(c, m)
    <3>1. CASE m \in {"Custom", "Stealth"}
      <4>1. Turned(n, m) = [n EXCEPT !["viewMode"] = m] /\ Turned(c, m) = [c EXCEPT !["viewMode"] = m]
        BY <3>1 DEF Turned
      <4>2. [n EXCEPT !["viewMode"] = m] = n
        BY <2>5, <1>3, <1>4, SettingsAre
      <4>3. QED
        BY <4>1, <4>2 DEF n
    <3>2. CASE m \notin {"Custom", "Stealth"}
      BY <3>2 DEF Turned
    <3>3. QED
      BY <3>1, <3>2
  <2>9. Turns(f, ChangeViewMode(f, e, m), e, t, Waiting(m), Named(m))
    BY <1>5, <2>4, <2>7, <2>8 DEF ModeTurns
  <2>10. Turns(g, ChangeViewMode(f, e, m), e, t, Waiting(m), Named(m))
    BY <1>1, <1>3, <1>4, <2>9, TakenTurns DEF f
  <2>11. QED
    BY <1>2, <2>1, <2>6, <2>10
<1>6. CASE c = t /\ t["viewMode"] = m /\ Waiting(m) = 0 /\ Pends(h.queue, h.stored, t, Named(m))
  <2>1. Hears(g, e, "viewMode", keys) = g
    BY <1>1, <1>6 DEF Hears
  <2>2. Extends(g.queue, g.queue, t, Named(m))
    BY <1>3, ExtendsSelf
  <2>3. Pends(g.queue, g.stored, t, Named(m))
    <3>1. Pends(g.queue, h.stored, t, Named(m))
      BY <1>1, <1>3, <1>6, PendsOn
    <3>2. QED
      BY <1>1, <3>1
  <2>4. g.cached = [g.cached EXCEPT ![e] = t]
    BY <1>3, <1>6
  <2>5. g.timers = [g.timers EXCEPT ![e] = g.timers[e] + Waiting(m)]
    <3>1. g.timers[e] + 0 = g.timers[e]
      BY <1>3
    <3>2. QED
      BY <1>3, <1>6, <3>1
  <2>6. Turns(g, g, e, t, Waiting(m), Named(m))
    BY <1>1, <2>2, <2>3, <2>4, <2>5 DEF Turns
  <2>7. QED
    BY <1>2, <2>1, <2>6
<1>7. QED
  BY <1>1, <1>5, <1>6

LEMMA FlagAnswers ==
    ASSUME NEW h, HostOK(h), NEW E \in SUBSET Editors, NEW key \in Flags,
           NEW keys, Len(keys) \in Nat, Len(keys) = 1, keys[1] = key, Range(keys) = {key},
           NEW c \in Settings, c[key] # h.stored[key], \A e \in E : h.cached[e] = c
    PROVE  Answers(h, E, keys, [[c EXCEPT ![key] = h.stored[key]] EXCEPT !["viewMode"] = "Custom"], 0, {"viewMode"})
<1> DEFINE n == [c EXCEPT ![key] = h.stored[key]]
           t == [n EXCEPT !["viewMode"] = "Custom"]
<1>1. SUFFICES ASSUME NEW g, NEW e \in E, HostOK(g), g.stored = h.stored, g.cached[e] = h.cached[e],
                      Extends(h.queue, g.queue, t, {"viewMode"})
               PROVE  Turns(g, OnChangeConfiguration(g, e, keys), e, t, 0, {"viewMode"})
  BY DEF Answers
<1> DEFINE f == Taken(g, e, key)
<1>2. OnChangeConfiguration(g, e, keys) = Hears(g, e, key, keys)
  BY HearsOne
<1>3. g.cached \in [Editors -> Settings] /\ e \in Editors /\ g.cached[e] = c
  BY <1>1, HostIs
<1>4. key \in Keys /\ key # "viewMode" /\ "Custom" \in Modes
  BY DEF Flags, Modes
<1>5. Hears(g, e, key, keys) = OnUserChangeConfiguration(f, e, keys)
  BY <1>1, <1>3 DEF Hears, Taken
<1>6. Takes(g, f, e, key)
  BY <1>1, <1>3, <1>4, TakenIs
<1> HIDE DEF f
<1>7. HostOK(f) /\ f.cached = [g.cached EXCEPT ![e] = n]
  BY <1>1, <1>3, <1>6 DEF Takes
<1>8. f.cached[e] = n
  BY <1>3, <1>7
<1> HIDE DEF n
<1>9. OnUserChangeConfiguration(f, e, keys) = ChangeViewMode(f, e, "Custom")
  BY <1>4 DEF OnUserChangeConfiguration, ChangeViewMode
<1>10. ModeTurns(f, ChangeViewMode(f, e, "Custom"), e, "Custom")
  BY <1>3, <1>4, <1>7, ChangeViewModeIs
<1>11. Turned(n, "Custom") = t /\ Waiting("Custom") = 0 /\ Named("Custom") = {"viewMode"}
  BY DEF Turned, Waiting, Named
<1> HIDE DEF t
<1>12. Turns(f, ChangeViewMode(f, e, "Custom"), e, t, 0, {"viewMode"})
  BY <1>8, <1>10, <1>11 DEF ModeTurns
<1>13. Turns(g, ChangeViewMode(f, e, "Custom"), e, t, 0, {"viewMode"})
  BY <1>1, <1>3, <1>4, <1>12, TakenTurns DEF f
<1>14. QED
  BY <1>2, <1>5, <1>9, <1>13

-----------------------------------------------------------------------------
(***************************************************************************)
(* A user who waits.  With one editor, what is queued is what its cache    *)
(* says, and the cache is what was asked for, unless the settings of       *)
(* Stealth wait for the timer.  With two, what is queued is what was asked *)
(* for; a cache is as that or as the file was before, and then the name of *)
(* the mode is the first write to come.                                    *)
(***************************************************************************)

Sole == "hurry" \notin user /\ "two" \notin user
Both == "hurry" \notin user /\ "two" \in user /\ {"stealth", "flip", "merge"} \cap user = {}

Carries(q, s) == \A i \in 1..Len(q) : q[i].value = s[q[i].key]
Only(q, K) == \A i \in 1..Len(q) : q[i].key \in K

OneOK ==
    LET c == cached[First]
    IN  /\ Carries(queue, c) /\ Pends(queue, stored, c, Keys)
        /\ \/ timers[First] = 0 /\ c = wanted
           \/ /\ timers[First] = 1 /\ wanted = View("Stealth")
              /\ c["viewMode"] = "Stealth" /\ Only(queue, {"viewMode"})

TwoOK ==
    /\ \A e \in Editors : timers[e] = 0
    /\ Carries(queue, wanted) /\ Pends(queue, stored, wanted, Keys)
    /\ wanted["viewMode"] # "Custom" => wanted = View(wanted["viewMode"])
    /\ wanted["viewMode"] # "Stealth"
    /\ \A e \in Editors :
          \/ cached[e] = wanted
          \/ /\ cached[e] = stored
             /\ wanted["viewMode"] # "Custom" /\ stored["viewMode"] # wanted["viewMode"]
    /\ stored["viewMode"] # wanted["viewMode"] => queue # <<>> /\ queue[1].key = "viewMode"

IInv == Fitting /\ (Sole => OneOK) /\ (Both => TwoOK)

LEMMA OpenIs == (Sole => Open = {First}) /\ (Both => Open = Editors)
  BY DEF Sole, Both, Open

LEMMA WaitsIs == Waits <=> Sole \/ Both
  BY DEF Waits, Sole, Both

LEMMA NonePending ==
    ASSUME NEW st \in Settings, NEW s \in Settings, Pends(<<>>, st, s, Keys)
    PROVE  st = s
<1>1. Len(<<>>) = 0
  BY EmptySeq
<1>2. \A key \in Keys : st[key] = s[key]
  BY <1>1 DEF Pends
<1>3. QED
  BY <1>2, SettingsSame

(* When nothing is to be done, file and caches are what was asked for. *)
LEMMA QuietIs ==
    ASSUME IInv, Quiet, Waits
    PROVE  /\ stored = wanted /\ queue = <<>>
           /\ \A e \in Editors : timers[e] = 0
           /\ \A e \in Open : cached[e] = wanted
<1>1. TypeOK /\ stored \in Settings /\ wanted \in Settings /\ cached \in [Editors -> Settings] /\ First \in Editors
  BY ViewAssumption DEF IInv, Fitting, TypeOK
<1>2. queue = <<>> /\ \A e \in Editors : timers[e] = 0
  BY DEF Quiet
<1>3. CASE Sole
  <2>1. Pends(queue, stored, cached[First], Keys)
    BY <1>3 DEF IInv, OneOK
  <2>2. stored = cached[First]
    BY <1>1, <1>2, <2>1, NonePending
  <2>3. timers[First] = 0
    BY <1>1, <1>2
  <2>4. cached[First] = wanted
    BY <1>3, <2>3 DEF IInv, OneOK
  <2>5. QED
    BY <1>2, <1>3, <2>2, <2>4, OpenIs
<1>4. CASE Both
  <2>1. Pends(queue, stored, wanted, Keys)
    BY <1>4 DEF IInv, TwoOK
  <2>2. stored = wanted
    BY <1>1, <1>2, <2>1, NonePending
  <2>3. \A e \in Editors : cached[e] = wanted
    BY <1>4, <2>2 DEF IInv, TwoOK
  <2>4. QED
    BY <1>2, <1>4, <2>2, <2>3, OpenIs
<1>5. QED
  BY <1>3, <1>4, WaitsIs

LEMMA IInvHolds == IInv => TypeOK /\ ModeHolds
<1>1. SUFFICES ASSUME IInv PROVE TypeOK /\ ModeHolds
  OBVIOUS
<1>2. TypeOK /\ FitsBut(Host, {})
  BY <1>1 DEF IInv, Fitting
<1>3. ASSUME Quiet, Waits
      PROVE  /\ stored = wanted
             /\ \A e \in Open : cached[e] = wanted /\
                   (wanted["viewMode"] # "Custom" => policy[e] = Policy(wanted["viewMode"]))
  <2>1. stored = wanted /\ \A e \in Open : cached[e] = wanted
    BY <1>1, <1>3, QuietIs
  <2>2. \A e \in Editors : cached[e]["viewMode"] # "Custom" => policy[e] = Policy(cached[e]["viewMode"])
    BY <1>2, HostFields DEF FitsBut
  <2>3. QED
    BY <2>1, <2>2, OpenAre
<1>4. QED
  BY <1>2, <1>3 DEF ModeHolds

LEMMA CarriesOn ==
    ASSUME NEW q \in Seq(Writes), NEW r \in Seq(Writes), NEW s, NEW K, Extends(q, r, s, K), Carries(q, s)
    PROVE  Carries(r, s)
<1>1. Len(q) \in Nat /\ Len(r) \in Nat
  BY LenProperties
<1>2. SUFFICES ASSUME NEW i \in 1..Len(r) PROVE r[i].value = s[r[i].key]
  BY DEF Carries
<1>3. CASE i > Len(q)
  BY <1>3 DEF Extends
<1>4. CASE ~(i > Len(q))
  <2>1. i \in 1..Len(q)
    BY <1>1, <1>4
  <2>2. QED
    BY <2>1 DEF Extends, Carries
<1>5. QED
  BY <1>3, <1>4

LEMMA FromNone ==
    ASSUME NEW r \in Seq(Writes), NEW s, NEW K, Extends(<<>>, r, s, K)
    PROVE  Carries(r, s) /\ Only(r, K)
<1>1. Len(<<>>) = 0
  BY EmptySeq
<1>2. Len(r) \in Nat
  BY LenProperties
<1>3. \A i \in 1..Len(r) : i > 0
  BY <1>2
<1>4. QED
  BY <1>1, <1>3 DEF Extends, Carries, Only

LEMMA PendsAll ==
    ASSUME NEW q, NEW st, NEW s, NEW K, Pends(q, st, s, K), \A key \in Keys : key \notin K => s[key] = st[key]
    PROVE  Pends(q, st, s, Keys)
  BY DEF Pends

(* Only the settings that a change of the mode writes at once are new. *)
LEMMA TurnedKeeps ==
    ASSUME NEW c \in Settings, NEW m \in Modes
    PROVE  \A key \in Keys : key \notin Named(m) => Turned(c, m)[key] = c[key]
<1>1. "viewMode" \in Keys /\ m \in Values("viewMode")
  BY DEF Keys, Values
<1>2. \A k \in Keys \ {"viewMode"} : [c EXCEPT !["viewMode"] = m][k] = c[k]
  BY <1>1, SettingsExcept
<1>3. QED
  BY <1>2 DEF Named, Turned

LEMMA FirstWrite ==
    ASSUME NEW q \in Seq(Writes), NEW K, Only(q, K), q # <<>>
    PROVE  q[1].key \in K
<1>1. Len(q) \in Nat /\ Len(q) # 0
  BY LenProperties, EmptySeq
<1>2. 1 \in 1..Len(q)
  BY <1>1
<1>3. QED
  BY <1>2 DEF Only

LEMMA SomeWrite ==
    ASSUME NEW q, NEW i \in 1..Len(q), Len(q) \in Nat
    PROVE  q # <<>>
<1>1. Len(<<>>) = 0
  BY EmptySeq
<1>2. Len(q) # 0
  OBVIOUS
<1>3. QED
  BY <1>1, <1>2

LEMMA IInvInit == Init => IInv
<1>1. SUFFICES ASSUME Init PROVE IInv
  OBVIOUS
<1>2. stored = View("Full") /\ wanted = View("Full") /\ queue = <<>>
      /\ \A e \in Editors : cached[e] = View("Full") /\ timers[e] = 0
  BY <1>1 DEF Init
<1>3. View("Full")["viewMode"] = "Full" /\ First \in Editors
  BY ViewIs, ViewAssumption DEF Modes
<1>4. Len(queue) = 0
  BY <1>2, EmptySeq
<1>5. Carries(queue, wanted)
  BY <1>4 DEF Carries
<1>6. Pends(queue, stored, wanted, Keys)
  BY <1>2 DEF Pends
<1>7. OneOK
  <2>1. cached[First] = wanted /\ timers[First] = 0
    BY <1>2, <1>3
  <2>2. QED
    BY <1>5, <1>6, <2>1 DEF OneOK
<1>8. TwoOK
  BY <1>2, <1>3, <1>5, <1>6 DEF TwoOK
<1>9. QED
  BY <1>1, <1>7, <1>8, FittingInit DEF IInv

-----------------------------------------------------------------------------
(***************************************************************************)
(* The steps.                                                              *)
(***************************************************************************)

LEMMA Waited == ASSUME MayChange, Waits PROVE Quiet
  BY DEF MayChange, Waits

(* An editor turns when nothing is to be done. *)
LEMMA TurnIs ==
    ASSUME TypeOK, queue = <<>>, NEW e \in Editors, NEW m \in Modes, Becomes(ChangeViewMode(Host, e, m))
    PROVE  LET t == Turned(cached[e], m)
           IN  /\ stored' = stored
               /\ cached' = [cached EXCEPT ![e] = t]
               /\ timers' = [timers EXCEPT ![e] = timers[e] + Waiting(m)]
               /\ Carries(queue', t) /\ Only(queue', Named(m)) /\ Pends(queue', stored, t, Named(m))
               /\ m # stored["viewMode"] => queue' # <<>> /\ queue'[1].key = "viewMode"
<1> DEFINE t == Turned(cached[e], m)
           r == ChangeViewMode(Host, e, m)
<1>1. HostOK(Host)
  BY HostTyped
<1>2. ModeTurns(Host, r, e, m)
  BY <1>1, ChangeViewModeIs
<1>3. Becomes(r)
  OBVIOUS
<1> HIDE DEF r
<1>4. stored' = r.stored /\ queue' = r.queue /\ cached' = r.cached /\ timers' = r.timers
  BY <1>3 DEF Becomes
<1>5. Turns(Host, r, e, t, Waiting(m), Named(m))
  BY <1>2, HostFields DEF ModeTurns
<1> HIDE DEF t
<1>6. HostOK(r) /\ stored' = stored /\ cached' = [cached EXCEPT ![e] = t]
      /\ timers' = [timers EXCEPT ![e] = timers[e] + Waiting(m)]
      /\ Extends(<<>>, queue', t, Named(m)) /\ Pends(queue', stored, t, Named(m))
  BY <1>4, <1>5, HostFields DEF Turns
<1>7. queue' \in Seq(Writes)
  BY <1>4, <1>6, HostIs
<1>8. Carries(queue', t) /\ Only(queue', Named(m))
  BY <1>6, <1>7, FromNone
<1>9. ASSUME m # stored["viewMode"] PROVE queue' # <<>> /\ queue'[1].key = "viewMode"
  <2>1. Len(Host.queue) + 1 \in 1..Len(r.queue) /\ r.queue[Len(Host.queue) + 1].key = "viewMode"
    BY <1>2, <1>9, HostFields DEF ModeTurns
  <2>2. Len(Host.queue) = 0
    BY HostFields, EmptySeq
  <2>3. 1 \in 1..Len(queue') /\ queue'[1].key = "viewMode"
    BY <1>4, <2>1, <2>2
  <2>4. Len(queue') \in Nat
    BY <1>7, LenProperties
  <2>5. QED
    BY <2>3, <2>4, SomeWrite
<1>10. QED
  BY <1>6, <1>8, <1>9 DEF t

(* A mode is chosen, or the mode that is asked for is applied again. *)
LEMMA TurnStep ==
    ASSUME IInv, UNCHANGED user, NEW e \in Open, NEW m \in Modes, MayChange,
           Becomes(ChangeViewMode(Host, e, m)),
           Waits => /\ m = "Custom" => wanted["viewMode"] = "Custom"
                    /\ m = "Stealth" => "two" \notin user
                    /\ wanted' = IF m = "Custom" THEN wanted ELSE View(m)
    PROVE  (Sole => OneOK') /\ (Both => TwoOK')
<1>1. SUFFICES ASSUME Waits PROVE (Sole => OneOK') /\ (Both => TwoOK')
  BY WaitsIs
<1>2. /\ stored = wanted /\ queue = <<>>
      /\ \A x \in Editors : timers[x] = 0
      /\ \A x \in Open : cached[x] = wanted
  BY <1>1, Waited, QuietIs
<1>3. TypeOK /\ wanted \in Settings /\ cached \in [Editors -> Settings] /\ timers \in [Editors -> Nat]
      /\ e \in Editors /\ First \in Editors
  BY OpenAre, ViewAssumption DEF IInv, Fitting, TypeOK
<1> DEFINE t == Turned(wanted, m)
<1>4. cached[e] = wanted
  BY <1>2
<1>5. /\ stored' = stored
      /\ cached' = [cached EXCEPT ![e] = t]
      /\ timers' = [timers EXCEPT ![e] = timers[e] + Waiting(m)]
      /\ Carries(queue', t) /\ Only(queue', Named(m)) /\ Pends(queue', stored, t, Named(m))
      /\ m # stored["viewMode"] => queue' # <<>> /\ queue'[1].key = "viewMode"
  BY <1>2, <1>3, <1>4, TurnIs
<1>6. t \in Settings /\ t["viewMode"] = m
  BY <1>3, TurnedIs
<1>7. Pends(queue', stored', t, Keys)
  <2>1. \A key \in Keys : key \notin Named(m) => t[key] = stored[key]
    BY <1>2, <1>3, TurnedKeeps
  <2> HIDE DEF t
  <2>2. Pends(queue', stored, t, Keys)
    BY <1>5, <2>1, PendsAll
  <2>3. QED
    BY <1>5, <2>2
<1>8. m # "Stealth" => wanted' = t
  <2>1. CASE m = "Custom"
    <3>1. "viewMode" \in Keys /\ "Custom" \in Values("viewMode") /\ wanted["viewMode"] = "Custom"
      BY <1>1, <2>1 DEF Keys, Values, Modes
    <3>2. t = [wanted EXCEPT !["viewMode"] = "Custom"]
      BY <2>1 DEF Turned
    <3>3. \A k \in Keys \ {"viewMode"} : [wanted EXCEPT !["viewMode"] = "Custom"][k] = wanted[k]
      BY <1>3, <3>1, SettingsExcept
    <3>4. \A k \in Keys : t[k] = wanted[k]
      BY <1>6, <2>1, <3>1, <3>2, <3>3
    <3>5. t = wanted
      BY <1>3, <1>6, <3>4, SettingsSame
    <3>6. QED
      BY <1>1, <2>1, <3>5
  <2>2. CASE m # "Custom" /\ m # "Stealth"
    BY <1>1, <2>2 DEF Turned
  <2>3. QED
    BY <2>1, <2>2
<1> HIDE DEF t
<1>9. cached'[e] = t /\ timers'[e] = Waiting(m) /\ \A x \in Editors : x # e => cached'[x] = cached[x] /\ timers'[x] = 0
  <2>1. 0 + Waiting(m) = Waiting(m)
    BY DEF Waiting
  <2>2. QED
    BY <1>2, <1>3, <1>5, <2>1
<1>10. ASSUME Sole PROVE OneOK'
  <2>1. e = First
    BY <1>10, OpenIs
  <2>2. cached'[First] = t /\ timers'[First] = Waiting(m)
    BY <1>9, <2>1
  <2>3. CASE m = "Stealth"
    <3>1. Waiting(m) = 1 /\ Named(m) = {"viewMode"} /\ wanted' = View("Stealth")
      BY <1>1, <2>3 DEF Waiting, Named
    <3>2. QED
      BY <1>5, <1>6, <1>7, <2>2, <2>3, <3>1 DEF OneOK
  <2>4. CASE m # "Stealth"
    <3>1. Waiting(m) = 0
      BY <2>4 DEF Waiting
    <3>2. QED
      BY <1>5, <1>7, <1>8, <2>2, <2>4, <3>1 DEF OneOK
  <2>5. QED
    BY <2>3, <2>4
<1>11. ASSUME Both PROVE TwoOK'
  <2>1. m # "Stealth"
    BY <1>1, <1>11 DEF Both
  <2>2. wanted' = t /\ Waiting(m) = 0
    BY <1>8, <2>1 DEF Waiting
  <2>3. wanted'["viewMode"] # "Custom" => wanted' = View(wanted'["viewMode"])
    BY <1>1, <1>6, <2>2
  <2>4. \A x \in Editors : cached[x] = wanted
    BY <1>2, <1>11, OpenIs
  <2>5. ASSUME NEW x \in Editors
        PROVE  \/ cached'[x] = wanted'
               \/ /\ cached'[x] = stored'
                  /\ wanted'["viewMode"] # "Custom" /\ stored'["viewMode"] # wanted'["viewMode"]
    <3>1. CASE x = e
      BY <1>9, <2>2, <3>1
    <3>2. CASE x # e
      <4>1. cached'[x] = wanted /\ stored' = wanted
        BY <1>2, <1>5, <1>9, <2>4, <3>2
      <4>2. CASE m = wanted["viewMode"]
        <5>1. wanted["viewMode"] # "Custom" => wanted = View(wanted["viewMode"])
          BY <1>11 DEF IInv, TwoOK
        <5>2. wanted' = wanted
          BY <1>1, <4>2, <5>1
        <5>3. QED
          BY <4>1, <5>2
      <4>3. CASE m # wanted["viewMode"]
        <5>1. m # "Custom"
          BY <1>1, <4>3
        <5>2. QED
          BY <1>6, <2>2, <4>1, <4>3, <5>1
      <4>4. QED
        BY <4>2, <4>3
    <3>3. QED
      BY <3>1, <3>2
  <2>6. stored'["viewMode"] # wanted'["viewMode"] => queue' # <<>> /\ queue'[1].key = "viewMode"
    BY <1>5, <1>6, <2>2
  <2>7. \A x \in Editors : timers'[x] = 0
    BY <1>9, <2>2
  <2>8. wanted'["viewMode"] # "Stealth"
    BY <1>6, <2>1, <2>2
  <2>9. Carries(queue', wanted') /\ Pends(queue', stored', wanted', Keys)
    BY <1>5, <1>7, <2>2
  <2>10. QED
    BY <2>3, <2>5, <2>6, <2>7, <2>8, <2>9 DEF TwoOK
<1>12. QED
  BY <1>10, <1>11

LEMMA FlipStep ==
    ASSUME IInv, UNCHANGED user, NEW e \in Open, NEW key \in Flags, Flip(e, key)
    PROVE  (Sole => OneOK') /\ (Both => TwoOK')
<1>1. ~ Both
  BY DEF Flip, Both
<1>2. SUFFICES ASSUME Sole PROVE OneOK'
  BY <1>1
<1>3. MayChange /\ Becomes(UpdateValue(Host, e, key, Flipped(cached[e][key])))
      /\ Wants([wanted EXCEPT ![key] = Flipped(cached[e][key])])
  BY DEF Flip
<1>4. Waits /\ e = First
  BY <1>2, WaitsIs, OpenIs
<1>5. /\ stored = wanted /\ queue = <<>>
      /\ timers[e] = 0 /\ cached[e] = wanted
  BY <1>3, <1>4, Waited, QuietIs, OpenAre
<1>6. TypeOK /\ wanted \in Settings /\ cached \in [Editors -> Settings] /\ e \in Editors
  BY OpenAre DEF IInv, Fitting, TypeOK
<1> DEFINE v == Flipped(cached[e][key])
           t == [wanted EXCEPT ![key] = v]
           r == UpdateValue(Host, e, key, v)
<1>7. v \in Values(key) /\ key \in Keys
  BY FlippedIs
<1>8. HostOK(Host)
  BY <1>6, HostTyped
<1>9. Becomes(r) /\ wanted' = t
  BY <1>3 DEF Wants
<1> HIDE DEF v
<1>10. Updated(Host, r, e, key, v)
  BY <1>6, <1>7, <1>8, UpdateValueIs
<1>11. t \in Settings /\ t[key] = v /\ \A k \in Keys \ {key} : t[k] = wanted[k]
  BY <1>6, <1>7, SettingsExcept
<1> HIDE DEF r
<1>12. HostOK(r) /\ stored' = stored /\ timers' = timers /\ cached' = [cached EXCEPT ![e] = t] /\ queue' = r.queue
  BY <1>5, <1>9, <1>10, HostFields DEF Updated, Becomes
<1> HIDE DEF t
<1>13. Extends(<<>>, queue', t, {key}) /\ Pends(queue', stored, t, {key})
  BY <1>5, <1>10, <1>11, <1>12, HostFields DEF Updated
<1>14. queue' \in Seq(Writes)
  BY <1>12, HostIs
<1>15. Carries(queue', t)
  BY <1>13, <1>14, FromNone
<1>16. Pends(queue', stored', t, Keys)
  <2>1. \A k \in Keys : k \notin {key} => t[k] = stored[k]
    BY <1>5, <1>11
  <2>2. QED
    BY <1>12, <1>13, <2>1, PendsAll
<1>17. cached'[First] = t /\ timers'[First] = 0
  BY <1>4, <1>5, <1>6, <1>12
<1>18. QED
  BY <1>9, <1>15, <1>16, <1>17 DEF OneOK

(* The host when the file has changed. *)
Changed(h, s, q) ==
    /\ HostOK(h) /\ h.stored = s /\ h.queue = q
    /\ h.cached = cached /\ h.policy = policy /\ h.timers = timers

LEMMA ChangedIs ==
    ASSUME TypeOK, NEW q \in Seq(Writes), NEW s \in Settings
    PROVE  Changed([[Host EXCEPT !.queue = q] EXCEPT !.stored = s], s, q)
<1> DEFINE g == [Host EXCEPT !.queue = q]
           h == [g EXCEPT !.stored = s]
<1>1. g = [stored |-> stored, queue |-> q, cached |-> cached, policy |-> policy, timers |-> timers]
  BY DEF Host
<1> HIDE DEF g
<1>2. h = [stored |-> s, queue |-> q, cached |-> cached, policy |-> policy, timers |-> timers]
  BY <1>1
<1> HIDE DEF h
<1>3. HostOK(h)
  BY <1>2 DEF TypeOK, HostOK, Policies
<1>4. Changed(h, s, q)
  BY <1>2, <1>3 DEF Changed
<1>5. QED
  BY <1>4 DEF h, g

LEMMA EditedIs ==
    ASSUME TypeOK, NEW s \in Settings
    PROVE  Changed([Host EXCEPT !.stored = s], s, queue)
<1>1. [Host EXCEPT !.queue = queue] = Host
  BY DEF Host
<1>2. queue \in Seq(Writes)
  BY DEF TypeOK
<1>3. Changed([[Host EXCEPT !.queue = queue] EXCEPT !.stored = s], s, queue)
  BY <1>2, ChangedIs
<1>4. QED
  BY <1>1, <1>3

(* Every open editor has turned, and nothing else was to be done. *)
LEMMA AllTurned ==
    ASSUME TypeOK, NEW h, h.queue = <<>>, h.timers = timers, h.cached = cached,
           NEW r, Becomes(r), NEW t \in Settings, NEW d \in Nat, NEW K,
           AllTurn(h, r, Open, t, d, K), \A x \in Editors : timers[x] = 0,
           \A key \in Keys : key \notin K => t[key] = h.stored[key]
    PROVE  /\ stored' = h.stored
           /\ \A x \in Open : cached'[x] = t /\ timers'[x] = d
           /\ Carries(queue', t) /\ Only(queue', K) /\ Pends(queue', stored', t, Keys)
           /\ queue' \in Seq(Writes)
<1>1. stored' = r.stored /\ queue' = r.queue /\ cached' = r.cached /\ timers' = r.timers
  BY DEF Becomes
<1>2. HostOK(r) /\ r.stored = h.stored /\ Extends(<<>>, r.queue, t, K) /\ Pends(r.queue, h.stored, t, K)
  BY DEF AllTurn
<1>3. r.queue \in Seq(Writes)
  BY <1>2, HostIs
<1>4. Carries(r.queue, t) /\ Only(r.queue, K)
  BY <1>2, <1>3, FromNone
<1>5. Pends(r.queue, h.stored, t, Keys)
  BY <1>2, PendsAll
<1>6. \A x \in Open : r.cached[x] = t /\ r.timers[x] = d
  <2>1. \A x \in Open : timers[x] = 0 /\ r.cached[x] = t /\ r.timers[x] = timers[x] + d
    BY OpenAre DEF AllTurn
  <2>2. 0 + d = d
    OBVIOUS
  <2>3. QED
    BY <2>1, <2>2
<1>7. QED
  BY <1>1, <1>2, <1>3, <1>4, <1>5, <1>6

LEMMA EditModeStep ==
    ASSUME IInv, UNCHANGED user, NEW m \in Modes, EditMode(m)
    PROVE  (Sole => OneOK') /\ (Both => TwoOK')
<1>1. SUFFICES ASSUME Waits PROVE (Sole => OneOK') /\ (Both => TwoOK')
  BY WaitsIs
<1> DEFINE s == [stored EXCEPT !["viewMode"] = m]
           h == [Host EXCEPT !.stored = s]
           t == Turned(wanted, m)
<1>2. /\ MayChange /\ m # stored["viewMode"] /\ (m = "Stealth" => "stealth" \in user)
      /\ Fires(Host, s)
      /\ Wants(IF m = "Custom" THEN [wanted EXCEPT !["viewMode"] = m] ELSE View(m))
  BY DEF EditMode
<1>3. /\ stored = wanted /\ queue = <<>>
      /\ \A x \in Editors : timers[x] = 0
      /\ \A x \in Open : cached[x] = wanted
  BY <1>1, <1>2, Waited, QuietIs
<1>4. TypeOK /\ wanted \in Settings /\ stored \in Settings /\ "viewMode" \in Keys /\ m \in Values("viewMode")
  BY DEF IInv, Fitting, TypeOK, Keys, Values
<1>5. s \in Settings /\ s["viewMode"] = m /\ \A k \in Keys \ {"viewMode"} : s[k] = stored[k]
  BY <1>4, SettingsExcept
<1>6. t \in Settings /\ t["viewMode"] = m
  BY <1>4, TurnedIs
<1>7. wanted' = IF m = "Custom" THEN [wanted EXCEPT !["viewMode"] = m] ELSE View(m)
  BY <1>2 DEF Wants
<1>8. m # "Stealth" => wanted' = t
  BY <1>7 DEF Turned
<1>9. \A k \in Keys : k \notin Named(m) => t[k] = s[k]
  <2>1. \A k \in Keys : k \notin Named(m) => t[k] = wanted[k] /\ k # "viewMode"
    BY <1>4, TurnedKeeps DEF Named
  <2>2. QED
    BY <1>3, <1>5, <2>1
<1> HIDE DEF s, t
<1>10. /\ HostOK(h) /\ h.stored = s /\ h.queue = queue /\ h.cached = cached /\ h.policy = policy /\ h.timers = timers
  <2>1. Changed(h, s, queue)
    BY <1>4, <1>5, EditedIs
  <2> HIDE DEF h
  <2>2. QED
    BY <2>1 DEF Changed
<1>11. PICK keys \in Orders({key \in Keys : s[key] # stored[key]}), listeners \in Orders(Open) :
          Becomes(Heard(h, listeners, keys))
  BY <1>2, HostFields DEF Fires
<1>12. Len(keys) \in Nat /\ Len(keys) = 1 /\ keys[1] = "viewMode" /\ Range(keys) = {"viewMode"}
  <2>1. Len(keys) = 1 /\ keys[1] = "viewMode" /\ Range(keys) = {"viewMode"}
    BY <1>2, <1>4, <1>5, <1>11, OneKey
  <2>2. QED
    BY <2>1
<1> HIDE DEF h
<1>13. Answers(h, Open, keys, t, Waiting(m), Named(m))
  <2>1. \A e \in Open : h.cached[e]["viewMode"] # m /\ Turned(h.cached[e], m) = t
    BY <1>2, <1>3, <1>10 DEF t
  <2>2. h.stored["viewMode"] = m /\ Open \in SUBSET Editors
    BY <1>5, <1>10, OpenAre
  <2>3. QED
    BY <1>6, <1>10, <1>12, <2>1, <2>2, ModeAnswers
<1>14. Waiting(m) \in Nat
  BY DEF Waiting
<1>15. AllTurn(h, Heard(h, listeners, keys), Open, t, Waiting(m), Named(m))
  <2>1. Open \in SUBSET Editors /\ IsFiniteSet(Open) /\ Open # {}
    BY OpenAre
  <2>2. QED
    BY <1>6, <1>10, <1>11, <1>13, <1>14, <2>1, HeardTurns
<1>16. /\ stored' = s
       /\ \A x \in Open : cached'[x] = t /\ timers'[x] = Waiting(m)
       /\ Carries(queue', t) /\ Only(queue', Named(m)) /\ Pends(queue', stored', t, Keys)
  BY <1>3, <1>4, <1>6, <1>9, <1>10, <1>11, <1>14, <1>15, AllTurned
<1>17. ASSUME Sole PROVE OneOK'
  <2>1. cached'[First] = t /\ timers'[First] = Waiting(m)
    BY <1>16, OpenAre
  <2>2. CASE m = "Stealth"
    <3>1. Waiting(m) = 1 /\ Named(m) = {"viewMode"} /\ wanted' = View("Stealth")
      BY <1>7, <2>2 DEF Waiting, Named
    <3>2. QED
      BY <1>6, <1>16, <2>1, <2>2, <3>1 DEF OneOK
  <2>3. CASE m # "Stealth"
    <3>1. Waiting(m) = 0
      BY <2>3 DEF Waiting
    <3>2. QED
      BY <1>8, <1>16, <2>1, <2>3, <3>1 DEF OneOK
  <2>4. QED
    BY <2>2, <2>3
<1>18. ASSUME Both PROVE TwoOK'
  <2>1. m # "Stealth"
    BY <1>2, <1>18 DEF Both
  <2>2. wanted' = t /\ Waiting(m) = 0 /\ Open = Editors
    BY <1>8, <1>18, <2>1, OpenIs DEF Waiting
  <2>3. wanted'["viewMode"] # "Custom" => wanted' = View(wanted'["viewMode"])
    BY <1>6, <1>7, <2>2
  <2>4. stored'["viewMode"] = wanted'["viewMode"]
    BY <1>5, <1>6, <1>16, <2>2
  <2>5. wanted'["viewMode"] # "Stealth"
    BY <1>6, <2>1, <2>2
  <2>6. QED
    BY <1>16, <2>2, <2>3, <2>4, <2>5 DEF TwoOK
<1>19. QED
  BY <1>17, <1>18

LEMMA FlippedDiffers == \A v \in OnOff : Flipped(v) # v
  BY DEF Flipped, Flag, OnOff

LEMMA EditSettingStep ==
    ASSUME IInv, UNCHANGED user, NEW key \in Flags, EditSetting(key)
    PROVE  (Sole => OneOK') /\ (Both => TwoOK')
<1>1. SUFFICES ASSUME Waits PROVE (Sole => OneOK') /\ (Both => TwoOK')
  BY WaitsIs
<1> DEFINE v == Flipped(stored[key])
           s == [stored EXCEPT ![key] = v]
           h == [Host EXCEPT !.stored = s]
           w == [wanted EXCEPT !["viewMode"] = "Custom"]
           n == [wanted EXCEPT ![key] = v]
           t == [n EXCEPT !["viewMode"] = "Custom"]
<1>2. MayChange /\ Fires(Host, s) /\ wanted' = [w EXCEPT ![key] = v]
  <2>1. wanted' = [wanted EXCEPT !["viewMode"] = "Custom", ![key] = v]
    BY DEF EditSetting, Wants
  <2>2. QED
    BY <2>1 DEF EditSetting
<1>3. /\ stored = wanted /\ queue = <<>>
      /\ \A x \in Editors : timers[x] = 0
      /\ \A x \in Open : cached[x] = wanted
  BY <1>1, <1>2, Waited, QuietIs
<1>4. TypeOK /\ wanted \in Settings /\ stored \in Settings
      /\ "viewMode" \in Keys /\ "Custom" \in Values("viewMode") /\ key \in Keys /\ key # "viewMode"
  BY DEF IInv, Fitting, TypeOK, Keys, Values, Modes, Flags
<1>5. v \in Values(key) /\ v # stored[key]
  <2>1. stored[key] \in Values(key) /\ Values(key) = OnOff
    BY <1>4, SettingsAre DEF Values
  <2>2. QED
    BY <2>1, FlippedIs, FlippedDiffers
<1> HIDE DEF v
<1>6. s \in Settings /\ s[key] = v /\ \A k \in Keys \ {key} : s[k] = stored[k]
  BY <1>4, <1>5, SettingsExcept
<1>7. w \in Settings /\ w["viewMode"] = "Custom" /\ \A k \in Keys \ {"viewMode"} : w[k] = wanted[k]
  BY <1>4, SettingsExcept
<1>8. n \in Settings /\ n[key] = v /\ \A k \in Keys \ {key} : n[k] = wanted[k]
  BY <1>4, <1>5, SettingsExcept
<1>9. n = [wanted EXCEPT ![key] = s[key]]
  BY <1>6
<1> HIDE DEF w, n, s
<1>10. t \in Settings /\ t["viewMode"] = "Custom" /\ \A k \in Keys \ {"viewMode"} : t[k] = n[k]
  BY <1>4, <1>8, SettingsExcept
<1>11. wanted' = t
  <2>1. wanted' \in Settings /\ wanted'[key] = v /\ \A k \in Keys \ {key} : wanted'[k] = w[k]
    <3>1. [w EXCEPT ![key] = v] \in Settings /\ [w EXCEPT ![key] = v][key] = v
          /\ \A k \in Keys \ {key} : [w EXCEPT ![key] = v][k] = w[k]
      BY <1>4, <1>5, <1>7, SettingsExcept
    <3>2. QED
      BY <1>2, <3>1
  <2>2. \A k \in Keys : wanted'[k] = t[k]
    BY <1>4, <1>7, <1>8, <1>10, <2>1
  <2>3. QED
    BY <1>10, <2>1, <2>2, SettingsSame
<1>12. t = [[wanted EXCEPT ![key] = s[key]] EXCEPT !["viewMode"] = "Custom"]
  BY <1>9
<1>13. \A k \in Keys : k \notin {"viewMode"} => t[k] = s[k]
  BY <1>3, <1>6, <1>8, <1>10
<1> HIDE DEF t
<1>14. /\ HostOK(h) /\ h.stored = s /\ h.queue = queue /\ h.cached = cached /\ h.policy = policy /\ h.timers = timers
  <2>1. Changed(h, s, queue)
    BY <1>4, <1>6, EditedIs
  <2> HIDE DEF h
  <2>2. QED
    BY <2>1 DEF Changed
<1>15. PICK keys \in Orders({k \in Keys : s[k] # stored[k]}), listeners \in Orders(Open) :
          Becomes(Heard(h, listeners, keys))
  BY <1>2, HostFields DEF Fires
<1>16. Len(keys) \in Nat /\ Len(keys) = 1 /\ keys[1] = key /\ Range(keys) = {key}
  <2>1. Len(keys) = 1 /\ keys[1] = key /\ Range(keys) = {key}
    BY <1>4, <1>5, <1>6, <1>15, OneKey
  <2>2. QED
    BY <2>1
<1> HIDE DEF h
<1>17. Open \in SUBSET Editors /\ IsFiniteSet(Open) /\ Open # {}
  BY OpenAre
<1>18. Answers(h, Open, keys, t, 0, {"viewMode"})
  <2>1. wanted[key] # h.stored[key] /\ \A e \in Open : h.cached[e] = wanted
    BY <1>3, <1>5, <1>6, <1>14
  <2>2. Answers(h, Open, keys, [[wanted EXCEPT ![key] = h.stored[key]] EXCEPT !["viewMode"] = "Custom"], 0, {"viewMode"})
    BY <1>4, <1>14, <1>16, <1>17, <2>1, FlagAnswers
  <2>3. QED
    BY <1>12, <1>14, <2>2
<1>19. AllTurn(h, Heard(h, listeners, keys), Open, t, 0, {"viewMode"})
  BY <1>10, <1>14, <1>15, <1>17, <1>18, HeardTurns
<1>20. /\ stored' = s
       /\ \A x \in Open : cached'[x] = t /\ timers'[x] = 0
       /\ Carries(queue', t) /\ Only(queue', {"viewMode"}) /\ Pends(queue', stored', t, Keys)
       /\ queue' \in Seq(Writes)
  BY <1>3, <1>4, <1>10, <1>13, <1>14, <1>15, <1>19, AllTurned
<1>21. ASSUME Sole PROVE OneOK'
  <2>1. cached'[First] = t /\ timers'[First] = 0
    BY <1>20, OpenAre
  <2>2. QED
    BY <1>11, <1>20, <2>1 DEF OneOK
<1>22. ASSUME Both PROVE TwoOK'
  <2>1. Open = Editors /\ wanted'["viewMode"] = "Custom"
    BY <1>10, <1>11, <1>22, OpenIs
  <2>2. ASSUME stored'["viewMode"] # wanted'["viewMode"] PROVE queue' # <<>> /\ queue'[1].key = "viewMode"
    <3>1. PICK i \in 1..Len(queue') : queue'[i].key = "viewMode"
      BY <1>4, <1>11, <1>20, <2>2 DEF Pends
    <3>2. Len(queue') \in Nat
      BY <1>20, LenProperties
    <3>3. queue' # <<>>
      BY <3>1, <3>2, SomeWrite
    <3>4. QED
      BY <1>20, <3>3, FirstWrite
  <2>3. QED
    BY <1>11, <1>20, <2>1, <2>2 DEF TwoOK
<1>23. QED
  BY <1>21, <1>22

(* What is left to write when the first n writes are done. *)
LEMMA LandsQueue ==
    ASSUME TypeOK, NEW n \in 1..Len(queue), NEW c \in Settings,
           Carries(queue, c), Pends(queue, stored, c, Keys)
    PROVE  LET q == SubSeq(queue, n + 1, Len(queue))
               s == Written(n)
           IN  /\ Carries(q, c) /\ Pends(q, s, c, Keys)
               /\ \A K : Only(queue, K) => Only(q, K)
               /\ \A key \in Keys : s[key] # stored[key] => s[key] = c[key]
<1> DEFINE q == SubSeq(queue, n + 1, Len(queue))
           s == Written(n)
<1>1. /\ q \in Seq(Writes) /\ Len(q) = Len(queue) - n
      /\ \A i \in 1..Len(q) : n + i \in 1..Len(queue) /\ q[i] = queue[n + i]
  BY DoneIs
<1>2. \A key \in Keys :
         \/ s[key] = stored[key] /\ \A i \in 1..n : queue[i].key # key
         \/ \E i \in 1..n : queue[i].key = key /\ s[key] = queue[i].value
  BY WrittenIs
<1>3. Len(queue) \in Nat /\ n \in Nat
  BY LenProperties DEF TypeOK
<1> HIDE DEF q, s
<1>4. \A i \in 1..n : i \in 1..Len(queue)
  BY <1>3
<1>5. \A key \in Keys : \/ s[key] = stored[key] /\ \A i \in 1..n : queue[i].key # key
                        \/ s[key] = c[key]
  BY <1>2, <1>4 DEF Carries
<1>6. Carries(q, c)
  BY <1>1 DEF Carries
<1>7. \A K : Only(queue, K) => Only(q, K)
  BY <1>1 DEF Only
<1>8. ASSUME NEW key \in Keys, c[key] # s[key] PROVE \E i \in 1..Len(q) : q[i].key = key
  <2>1. s[key] = stored[key] /\ \A i \in 1..n : queue[i].key # key
    BY <1>5, <1>8
  <2>2. PICK i \in 1..Len(queue) : queue[i].key = key
    BY <1>8, <2>1 DEF Pends
  <2>3. ~(i \in 1..n)
    BY <2>1, <2>2
  <2>4. PICK j \in Nat : j = i - n /\ j >= 1 /\ j <= Len(queue) - n
    BY <1>3, <2>3
  <2>5. j \in 1..Len(q) /\ n + j = i
    BY <1>1, <1>3, <2>4
  <2>6. q[j] = queue[i]
    BY <1>1, <2>5
  <2>7. QED
    BY <2>2, <2>5, <2>6
<1>9. QED
  BY <1>5, <1>6, <1>7, <1>8 DEF Pends, q, s

(* Writes that every cache remembers change no more than the file. *)
LEMMA LandsQuietly ==
    ASSUME TypeOK, NEW n \in 1..Len(queue), Lands(n), NEW c \in Settings,
           Carries(queue, c), Pends(queue, stored, c, Keys), \A e \in Open : cached[e] = c
    PROVE  /\ stored' = Written(n) /\ queue' = SubSeq(queue, n + 1, Len(queue))
           /\ cached' = cached /\ timers' = timers
<1> DEFINE q == SubSeq(queue, n + 1, Len(queue))
           s == Written(n)
           h == [[Host EXCEPT !.queue = q] EXCEPT !.stored = s]
<1>1. [Host EXCEPT !.queue = q].stored = stored
  BY DEF Host
<1>2. Fires([Host EXCEPT !.queue = q], s)
  BY DEF Lands
<1>3. q \in Seq(Writes)
  BY DoneIs
<1>4. s \in Settings
  BY WrittenIs
<1>5. \A key \in Keys : s[key] # stored[key] => s[key] = c[key]
  BY LandsQueue
<1> HIDE DEF q, s
<1>6. Changed(h, s, q)
  BY <1>3, <1>4, ChangedIs
<1>7. PICK keys \in Orders({key \in Keys : s[key] # stored[key]}), listeners \in Orders(Open) :
         Becomes(Heard(h, listeners, keys))
  BY <1>1, <1>2 DEF Fires
<1> DEFINE S == {key \in Keys : s[key] # stored[key]}
<1> HIDE DEF h
<1>8. Len(keys) \in Nat /\ \A k \in 1..Len(keys) : keys[k] \in S
  <2>1. S \in SUBSET Keys
    OBVIOUS
  <2>2. keys \in Orders(S)
    BY <1>7
  <2> HIDE DEF S
  <2>3. IsFiniteSet(S)
    BY <2>1, KeysAre
  <2>4. QED
    BY <2>2, <2>3, OrdersAre
<1>9. Len(listeners) \in Nat /\ \A k \in 1..Len(listeners) : listeners[k] \in Open
  BY <1>7, OpenAre, OrdersAre
<1>10. Remembered(h, listeners, keys)
  <2>1. \A k \in 1..Len(keys) : s[keys[k]] = c[keys[k]]
    BY <1>5, <1>8
  <2>2. \A i \in 1..Len(listeners) : cached[listeners[i]] = c
    BY <1>9
  <2>3. h.cached = cached /\ h.stored = s
    BY <1>6 DEF Changed
  <2>4. QED
    BY <2>1, <2>2, <2>3 DEF Remembered
<1> HIDE DEF S
<1>11. Heard(h, listeners, keys) = h
  <2>1. Len(keys) \in Nat /\ Len(listeners) \in Nat
    BY <1>8, <1>9
  <2>2. QED
    BY <2>1, <1>10, HeardNothing
<1>12. Becomes(h)
  BY <1>7, <1>11
<1>13. stored' = s /\ queue' = q /\ cached' = cached /\ timers' = timers
  BY <1>6, <1>12 DEF Changed, Becomes
<1>14. QED
  BY <1>13 DEF s, q

LEMMA OneLands ==
    ASSUME IInv, UNCHANGED user, NEW n \in 1..Len(queue), Lands(n), Sole
    PROVE  OneOK'
<1> DEFINE c == cached[First]
<1>1. TypeOK /\ c \in Settings
  BY ViewAssumption DEF IInv, Fitting, TypeOK
<1>2. /\ Carries(queue, c) /\ Pends(queue, stored, c, Keys)
      /\ \/ timers[First] = 0 /\ c = wanted
         \/ /\ timers[First] = 1 /\ wanted = View("Stealth")
            /\ c["viewMode"] = "Stealth" /\ Only(queue, {"viewMode"})
  BY DEF IInv, OneOK
<1>3. \A e \in Open : cached[e] = c
  BY OpenIs
<1> HIDE DEF c
<1>4. stored' = Written(n) /\ queue' = SubSeq(queue, n + 1, Len(queue)) /\ cached' = cached /\ timers' = timers
  BY <1>1, <1>2, <1>3, LandsQuietly
<1>5. Carries(queue', c) /\ Pends(queue', stored', c, Keys) /\ \A K : Only(queue, K) => Only(queue', K)
  BY <1>1, <1>2, <1>4, LandsQueue
<1>6. wanted' = wanted /\ cached'[First] = c /\ timers'[First] = timers[First]
  BY <1>4 DEF Lands, c
<1>7. QED
  BY <1>2, <1>5, <1>6 DEF OneOK

LEMMA TwoLands ==
    ASSUME IInv, UNCHANGED user, NEW n \in 1..Len(queue), Lands(n), Both
    PROVE  TwoOK'
<1> DEFINE q == SubSeq(queue, n + 1, Len(queue))
           s == Written(n)
           m == wanted["viewMode"]
<1>1. TypeOK /\ wanted \in Settings /\ stored \in Settings /\ queue \in Seq(Writes) /\ cached \in [Editors -> Settings]
  BY DEF IInv, Fitting, TypeOK
<1>2. /\ \A e \in Editors : timers[e] = 0
      /\ Carries(queue, wanted) /\ Pends(queue, stored, wanted, Keys)
      /\ m # "Custom" => wanted = View(m)
      /\ m # "Stealth"
      /\ \A e \in Editors : \/ cached[e] = wanted
                            \/ cached[e] = stored /\ m # "Custom" /\ stored["viewMode"] # m
      /\ stored["viewMode"] # m => queue # <<>> /\ queue[1].key = "viewMode"
  BY DEF IInv, TwoOK
<1>3. n = 1 /\ wanted' = wanted
  <2>1. "merge" \notin user
    BY DEF Both
  <2>2. ~(n > 1)
    BY <2>1 DEF Lands
  <2>3. QED
    BY <2>2 DEF Lands
<1>4. q \in Seq(Writes) /\ s \in Settings
  BY <1>1, DoneIs, WrittenIs
<1>5. Carries(q, wanted) /\ Pends(q, s, wanted, Keys)
      /\ \A key \in Keys : s[key] # stored[key] => s[key] = wanted[key]
  BY <1>1, <1>2, LandsQueue
<1>6. Open = Editors
  BY OpenIs
<1>7. "viewMode" \in Keys /\ m \in Modes
  BY <1>1, SettingsAre DEF Keys, Values
<1>8. \A key \in Keys : key = queue[1].key => s[key] = wanted[key]
  <2>1. 1 \in 1..Len(queue) /\ \A i \in 1..n : i = 1
    BY <1>3
  <2>2. \A key \in Keys :
           \/ s[key] = stored[key] /\ \A i \in 1..n : queue[i].key # key
           \/ \E i \in 1..n : queue[i].key = key /\ s[key] = queue[i].value
    BY <1>1, WrittenIs
  <2>3. queue[1].value = wanted[queue[1].key]
    BY <1>2, <2>1 DEF Carries
  <2>4. 1 \in 1..n
    BY <1>3
  <2>5. QED
    BY <2>1, <2>2, <2>3, <2>4
<1>9. \A key \in Keys : key # queue[1].key => s[key] = stored[key]
  <2>1. \A i \in 1..n : i = 1
    BY <1>3
  <2>2. \A key \in Keys :
           \/ s[key] = stored[key] /\ \A i \in 1..n : queue[i].key # key
           \/ \E i \in 1..n : queue[i].key = key /\ s[key] = queue[i].value
    BY <1>1, WrittenIs
  <2>3. QED
    BY <2>1, <2>2
<1>10. s["viewMode"] = m
  <2>1. CASE stored["viewMode"] = m
    BY <1>5, <1>7, <2>1
  <2>2. CASE stored["viewMode"] # m
    BY <1>2, <1>7, <1>8, <2>2
  <2>3. QED
    BY <2>1, <2>2
<1>11. CASE \A e \in Editors : cached[e] = wanted
  <2>1. stored' = s /\ queue' = q /\ cached' = cached /\ timers' = timers
    BY <1>1, <1>2, <1>6, <1>11, LandsQuietly
  <2> HIDE DEF s, q, m
  <2>2. stored'["viewMode"] = m
    BY <1>10, <2>1
  <2>3. wanted["viewMode"] = m
    BY DEF m
  <2>4. QED
    BY <1>2, <1>3, <1>5, <1>11, <2>1, <2>2, <2>3 DEF TwoOK
<1>12. CASE \E e \in Editors : cached[e] # wanted
  <2>1. m # "Custom" /\ stored["viewMode"] # m
    BY <1>2, <1>12
  <2>2. queue[1].key = "viewMode" /\ wanted = View(m)
    BY <1>2, <2>1
  <2> DEFINE h == [[Host EXCEPT !.queue = q] EXCEPT !.stored = s]
  <2>3. [Host EXCEPT !.queue = q].stored = stored
    BY DEF Host
  <2>4. Fires([Host EXCEPT !.queue = q], s)
    BY DEF Lands
  <2> HIDE DEF q, s
  <2>5. Changed(h, s, q)
    BY <1>1, <1>4, ChangedIs
  <2>6. PICK keys \in Orders({key \in Keys : s[key] # stored[key]}), listeners \in Orders(Open) :
           Becomes(Heard(h, listeners, keys))
    BY <2>3, <2>4 DEF Fires
  <2> HIDE DEF h
  <2>7. HostOK(h) /\ h.stored = s /\ h.queue = q /\ h.cached = cached /\ h.timers = timers
    BY <2>5 DEF Changed
  <2>8. Len(keys) \in Nat /\ Len(keys) = 1 /\ keys[1] = "viewMode" /\ Range(keys) = {"viewMode"}
    <3>1. s["viewMode"] # stored["viewMode"] /\ \A k \in Keys \ {"viewMode"} : s[k] = stored[k]
      BY <1>9, <1>10, <2>1, <2>2
    <3>2. Len(keys) = 1 /\ keys[1] = "viewMode" /\ Range(keys) = {"viewMode"}
      BY <1>1, <1>4, <1>7, <2>6, <3>1, OneKey
    <3>3. QED
      BY <3>2
  <2>9. Waiting(m) = 0 /\ Named(m) = Keys
    BY <1>2, <2>1 DEF Waiting, Named
  <2>10. Open \in SUBSET Editors /\ IsFiniteSet(Open) /\ Open # {}
    BY OpenAre
  <2>11. Answers(h, Open, keys, wanted, 0, Keys)
    <3>1. \A c : Turned(c, m) = wanted
      BY <1>2, <2>1, <2>2 DEF Turned
    <3>2. \A e \in Open : \/ h.cached[e]["viewMode"] # m /\ Turned(h.cached[e], m) = wanted
                          \/ /\ h.cached[e] = wanted /\ wanted["viewMode"] = m
                             /\ Waiting(m) = 0 /\ Pends(h.queue, h.stored, wanted, Named(m))
      BY <1>2, <1>5, <1>6, <2>7, <2>9, <3>1
    <3>3. h.stored["viewMode"] = m
      BY <1>10, <2>7
    <3> HIDE DEF m
    <3>4. Answers(h, Open, keys, wanted, Waiting(m), Named(m))
      BY <1>1, <1>7, <2>7, <2>8, <2>10, <3>2, <3>3, ModeAnswers
    <3>5. QED
      BY <2>9, <3>4
  <2>12. AllTurn(h, Heard(h, listeners, keys), Open, wanted, 0, Keys)
    BY <1>1, <2>6, <2>7, <2>10, <2>11, HeardTurns
  <2> DEFINE r == Heard(h, listeners, keys)
  <2>13. Becomes(r) /\ AllTurn(h, r, Open, wanted, 0, Keys)
    BY <2>6, <2>12
  <2> HIDE DEF r
  <2>14. stored' = r.stored /\ queue' = r.queue /\ cached' = r.cached /\ timers' = r.timers
    BY <2>13 DEF Becomes
  <2>15. HostOK(r) /\ stored' = s /\ Extends(q, queue', wanted, Keys) /\ Pends(queue', stored', wanted, Keys)
    BY <2>7, <2>13, <2>14 DEF AllTurn
  <2>16. queue' \in Seq(Writes)
    BY <2>14, <2>15, HostIs
  <2>17. Carries(queue', wanted)
    BY <1>4, <1>5, <2>15, <2>16, CarriesOn
  <2>18. \A x \in Editors : cached'[x] = wanted /\ timers'[x] = 0
    <3>1. \A x \in Editors : r.cached[x] = wanted /\ r.timers[x] = timers[x] + 0
      BY <1>6, <2>7, <2>13 DEF AllTurn
    <3>2. 0 + 0 = 0
      OBVIOUS
    <3>3. QED
      BY <1>2, <2>14, <3>1, <3>2
  <2>19. stored'["viewMode"] = wanted["viewMode"]
    BY <1>10, <2>15
  <2>20. QED
    BY <1>2, <1>3, <2>15, <2>17, <2>18, <2>19 DEF TwoOK
<1>13. QED
  BY <1>11, <1>12

LEMMA FiredStep ==
    ASSUME IInv, UNCHANGED user, NEW e \in Open, TimerFires(e)
    PROVE  (Sole => OneOK') /\ (Both => TwoOK')
<1>1. timers[e] > 0 /\ wanted' = wanted
  BY DEF TimerFires
<1>2. ~ Both
  BY <1>1, OpenAre DEF IInv, TwoOK
<1>3. SUFFICES ASSUME Sole PROVE OneOK'
  BY <1>2
<1> DEFINE c == cached[First]
           t == Full(c)
<1>4. e = First /\ First \in Editors
  BY <1>3, OpenIs, ViewAssumption
<1>5. TypeOK /\ c \in Settings /\ cached \in [Editors -> Settings] /\ timers \in [Editors -> Nat] /\ queue \in Seq(Writes)
  BY <1>4 DEF IInv, Fitting, TypeOK
<1>6. /\ Carries(queue, c) /\ Pends(queue, stored, c, Keys)
      /\ timers[First] = 1 /\ wanted = View("Stealth")
      /\ c["viewMode"] = "Stealth" /\ Only(queue, {"viewMode"})
  BY <1>1, <1>3, <1>4 DEF IInv, OneOK
<1>7. t \in Settings /\ t["viewMode"] = "Stealth" /\ \A key \in Flags : t[key] = View("Full")[key]
  BY <1>5, <1>6, FullIs
<1>8. PICK r : /\ Becomes(r) /\ HostOK(r)
               /\ r.stored = stored /\ r.policy = policy
               /\ r.timers = [timers EXCEPT ![First] = timers[First] - 1]
               /\ r.cached = [cached EXCEPT ![First] = t]
               /\ Extends(queue, r.queue, t, Flags) /\ Pends(r.queue, stored, t, Flags)
  BY <1>4, <1>5, FiredIs
<1>9. t = wanted
  <2>1. View("Stealth") \in Settings /\ View("Stealth")["viewMode"] = "Stealth"
    BY ViewIs DEF Modes
  <2>2. \A key \in Keys : t[key] = View("Stealth")[key]
    BY <1>7, <2>1, StealthIsFull DEF Flags
  <2> HIDE DEF t
  <2>3. QED
    BY <1>6, <1>7, <2>1, <2>2, SettingsSame
<1> HIDE DEF t, c
<1>10. stored' = stored /\ queue' = r.queue /\ cached'[First] = t /\ timers'[First] = 0
  BY <1>4, <1>5, <1>6, <1>8 DEF Becomes
<1>11. r.queue \in Seq(Writes)
  BY <1>8, HostIs
<1>12. Carries(queue, t)
  BY <1>6, <1>7 DEF Carries, Only
<1>13. Carries(r.queue, t)
  BY <1>5, <1>8, <1>11, <1>12, CarriesOn
<1>14. Pends(queue, stored, t, {"viewMode"})
  <2>1. "viewMode" \in Keys
    BY DEF Keys
  <2>2. QED
    BY <1>6, <1>7, <2>1 DEF Pends
<1>15. Pends(r.queue, stored, t, {"viewMode"})
  BY <1>5, <1>8, <1>11, <1>14, PendsOn
<1>16. Pends(r.queue, stored, t, Keys)
  BY <1>8, <1>15 DEF Pends, Flags
<1>17. QED
  BY <1>1, <1>9, <1>10, <1>13, <1>16 DEF OneOK

LEMMA IInvStep == IInv /\ [Next]_vars => IInv'
<1>1. SUFFICES ASSUME IInv, [Next]_vars PROVE IInv'
  OBVIOUS
<1>2. Fitting'
  BY <1>1, FittingStep DEF IInv
<1>3. user' = user
  BY <1>1 DEF Next, vars
<1>4. (Sole' <=> Sole) /\ (Both' <=> Both)
  BY <1>3 DEF Sole, Both
<1>5. SUFFICES (Sole => OneOK') /\ (Both => TwoOK')
  BY <1>2, <1>4 DEF IInv
<1>6. CASE UNCHANGED vars
  <2>1. UNCHANGED <<stored, queue, cached, policy, timers, changes, wanted, user>>
    BY <1>6 DEF vars, hostVars
  <2>2. QED
    BY <1>1, <2>1 DEF IInv, OneOK, TwoOK
<1>7. CASE UserStep
  <2>1. ASSUME NEW e \in Open, NEW m \in Modes, ChooseMode(e, m) PROVE (Sole => OneOK') /\ (Both => TwoOK')
    <3>1. /\ MayChange /\ m # "Custom" /\ (m = "Stealth" => "stealth" \in user)
          /\ Becomes(ChangeViewMode(Host, e, m)) /\ wanted' = View(m)
      BY <2>1 DEF ChooseMode, Wants
    <3>2. Waits => /\ m = "Custom" => wanted["viewMode"] = "Custom"
                   /\ m = "Stealth" => "two" \notin user
                   /\ wanted' = IF m = "Custom" THEN wanted ELSE View(m)
      BY <3>1 DEF Waits
    <3>3. QED
      BY <1>1, <1>3, <3>1, <3>2, TurnStep
  <2>2. ASSUME NEW e \in Open, Escape(e) PROVE (Sole => OneOK') /\ (Both => TwoOK')
    <3> DEFINE m == cached[e]["viewMode"]
    <3>1. /\ MayChange /\ Becomes(ChangeViewMode(Host, e, m))
          /\ wanted' = IF wanted["viewMode"] = "Custom" THEN wanted ELSE View(wanted["viewMode"])
      BY <2>2 DEF Escape, Wants
    <3>2. m \in Modes
      <4>1. cached[e] \in Settings
        BY <1>1, OpenAre DEF IInv, Fitting, TypeOK
      <4>2. QED
        BY <4>1, SettingsAre DEF Keys, Values
    <3>3. ASSUME Waits
          PROVE  /\ m = "Custom" => wanted["viewMode"] = "Custom"
                 /\ m = "Stealth" => "two" \notin user
                 /\ wanted' = IF m = "Custom" THEN wanted ELSE View(m)
      <4>1. cached[e] = wanted
        BY <1>1, <3>1, <3>3, Waited, QuietIs
      <4>2. m = "Stealth" => "two" \notin user
        <5>1. Both => wanted["viewMode"] # "Stealth"
          BY <1>1 DEF IInv, TwoOK
        <5>2. Sole => "two" \notin user
          BY DEF Sole
        <5>3. QED
          BY <3>3, <4>1, <5>1, <5>2, WaitsIs
      <4>3. QED
        BY <3>1, <4>1, <4>2
    <3> HIDE DEF m
    <3>4. QED
      BY <1>1, <1>3, <3>1, <3>2, <3>3, TurnStep
  <2>3. QED
    BY <1>1, <1>3, <1>7, <2>1, <2>2, FlipStep, EditModeStep, EditSettingStep DEF UserStep
<1>8. CASE HostStep
  BY <1>1, <1>3, <1>8, OneLands, TwoLands, FiredStep DEF HostStep
<1>9. QED
  BY <1>1, <1>6, <1>7, <1>8 DEF Next

-----------------------------------------------------------------------------
(***************************************************************************)
(* The theorems.                                                           *)
(***************************************************************************)

LEMMA IInvAlways == Spec => []IInv
<1>1. Init => IInv
  BY IInvInit
<1>2. IInv /\ [Next]_vars => IInv'
  BY IInvStep
<1>3. QED
  BY <1>1, <1>2, PTL DEF Spec

(* Every variable keeps its type, whatever the user does: no write, event or  *)
(* timer puts a value into a setting that it cannot have, however the caches  *)
(* answer each other.                                                         *)
THEOREM TypeCorrect == Spec => []TypeOK
<1>1. IInv => TypeOK
  BY IInvHolds
<1>2. QED
  BY <1>1, IInvAlways, PTL

(* For a user who waits until a change is written, the settings come to be    *)
(* what was asked for, in the file and in the cache of each open editor, and  *)
(* the boxes are as visible as the mode says, however many editors and        *)
(* changes there are: changeViewMode, the timer of Stealth and the answers of *)
(* onChangeConfiguration leave nothing behind.                                *)
THEOREM ModeIsHeld == Spec => []ModeHolds
<1>1. IInv => ModeHolds
  BY IInvHolds
<1>2. QED
  BY <1>1, IInvAlways, PTL
=============================================================================
