--------------------------- MODULE BoxListProofs ---------------------------
(***************************************************************************)
(* Theorems about BoxList, for texts and events of any length.             *)
(***************************************************************************)
EXTENDS BoxList, SequenceTheorems, FiniteSetTheorems, WellFoundedInduction, TLAPS

-----------------------------------------------------------------------------
(***************************************************************************)
(* Numbers and sequences.                                                  *)
(***************************************************************************)

LEMMA LeastNumber ==
    ASSUME NEW T \in SUBSET Nat, T # {}
    PROVE  \E x \in T : \A y \in T : x <= y
<1> DEFINE up(x) == 1..x
           U == {up(x) : x \in T}
<1>1. U \subseteq FiniteSubsetsOf(Nat) /\ U # {}
  <2>1. ASSUME NEW x \in T PROVE up(x) \in FiniteSubsetsOf(Nat)
    <3>1. x \in Int /\ 1 \in Int
      OBVIOUS
    <3>2. IsFiniteSet(1..x)
      BY <3>1, FS_Interval
    <3>3. QED
      BY <3>2 DEF FiniteSubsetsOf
  <2>2. QED
    BY <2>1
<1>2. IsWellFoundedOn(StrictSubsetOrdering(Nat), FiniteSubsetsOf(Nat))
  BY FS_StrictSubsetOrderingWellFounded
<1>3. PICK s \in U : \A r \in U : ~ (<<r, s>> \in StrictSubsetOrdering(Nat))
  BY <1>1, <1>2, WFMin
<1>4. PICK x \in T : s = up(x)
  OBVIOUS
<1>5. ASSUME NEW y \in T, y < x PROVE FALSE
  <2>1. up(y) \subseteq up(x) /\ up(y) # up(x) /\ up(y) \in SUBSET Nat /\ up(x) \in SUBSET Nat
    <3>1. x \in up(x) /\ x \notin up(y)
      BY <1>5
    <3>2. QED
      BY <1>5, <3>1
  <2>2. <<up(y), up(x)>> \in StrictSubsetOrdering(Nat)
    BY <2>1 DEF StrictSubsetOrdering
  <2>3. QED
    BY <1>3, <1>4, <2>2
<1>6. QED
  BY <1>5

LEMMA FunctionIsSeq ==
    ASSUME NEW S, NEW n \in Nat, NEW s \in [1..n -> S]
    PROVE  s \in Seq(S) /\ Len(s) = n /\ DOMAIN s = 1..n
  OBVIOUS

ConcatIs(u, s, t) ==
    /\ Len(u) = Len(s) + Len(t) /\ DOMAIN u = 1..(Len(s) + Len(t))
    /\ \A i \in 1..Len(s) : u[i] = s[i]
    /\ \A i \in 1..Len(t) : u[Len(s) + i] = t[i]

LEMMA ConcatElements ==
    ASSUME NEW S, NEW s \in Seq(S), NEW t \in Seq(S)
    PROVE  s \o t \in Seq(S) /\ ConcatIs(s \o t, s, t)
<1> DEFINE u == s \o t
<1>1. /\ u \in Seq(S) /\ Len(u) = Len(s) + Len(t)
      /\ \A i \in 1..(Len(s) + Len(t)) : u[i] = IF i <= Len(s) THEN s[i] ELSE t[i - Len(s)]
  BY ConcatProperties
<1>2. Len(s) \in Nat /\ Len(t) \in Nat
  BY LenProperties
<1> HIDE DEF u
<1>3. DOMAIN u = 1..(Len(s) + Len(t))
  BY <1>1, LenProperties
<1>4. \A i \in 1..Len(s) : u[i] = s[i]
  BY <1>1, <1>2
<1>5. ASSUME NEW i \in 1..Len(t) PROVE u[Len(s) + i] = t[i]
  <2>1. Len(s) + i \in 1..(Len(s) + Len(t)) /\ ~(Len(s) + i <= Len(s)) /\ Len(s) + i - Len(s) = i
    BY <1>2
  <2>2. QED
    BY <1>1, <2>1
<1>6. QED
  BY <1>1, <1>3, <1>4, <1>5 DEF ConcatIs, u

-----------------------------------------------------------------------------
(***************************************************************************)
(* Loops: what is defined by recursion over the changes of an event is     *)
(* what its equations say.                                                 *)
(***************************************************************************)

IsAdded(e, m, g) == g = [k \in 0..m |-> IF k = 0 THEN 0 ELSE g[k - 1] + Delta(e[k])]

LEMMA AddedExists ==
    ASSUME NEW e, NEW n \in Nat
    PROVE  \E g : IsAdded(e, n, g)
<1> DEFINE T == {m \in Nat : ~ \E g : IsAdded(e, m, g)}
<1>1. SUFFICES ASSUME T # {} PROVE FALSE
  OBVIOUS
<1>2. PICK m \in T : \A y \in T : m <= y
  BY <1>1, LeastNumber
<1>3. m # 0
  <2>1. IsAdded(e, 0, [k \in 0..0 |-> 0])
    BY DEF IsAdded
  <2>2. QED
    BY <2>1
<1>4. m - 1 \in Nat /\ m - 1 \notin T
  BY <1>2, <1>3
<1>5. PICK g : IsAdded(e, m - 1, g)
  BY <1>4
<1> DEFINE h == [k \in 0..m |-> IF k = m THEN g[m - 1] + Delta(e[m]) ELSE g[k]]
<1>6. \A k \in 0..m : h[k] = IF k = 0 THEN 0 ELSE h[k - 1] + Delta(e[k])
  <2>1. ASSUME NEW k \in 0..m PROVE h[k] = IF k = 0 THEN 0 ELSE h[k - 1] + Delta(e[k])
    <3>1. CASE k = m
      <4>1. m - 1 \in 0..m /\ m - 1 # m
        BY <1>3
      <4>2. h[m] = g[m - 1] + Delta(e[m]) /\ h[m - 1] = g[m - 1]
        BY <4>1
      <4>3. QED
        BY <1>3, <3>1, <4>2
    <3>2. CASE k # m
      <4>1. k \in 0..(m - 1) /\ (k # 0 => k - 1 \in 0..m /\ k - 1 # m)
        BY <3>2
      <4>2. h[k] = g[k] /\ (k # 0 => h[k - 1] = g[k - 1])
        BY <3>2, <4>1
      <4>3. g[k] = IF k = 0 THEN 0 ELSE g[k - 1] + Delta(e[k])
        BY <1>5, <4>1 DEF IsAdded
      <4>4. QED
        BY <4>2, <4>3
    <3>3. QED
      BY <3>1, <3>2
  <2>2. QED
    BY <2>1
<1>7. h = [k \in 0..m |-> IF k = 0 THEN 0 ELSE h[k - 1] + Delta(e[k])]
  BY <1>6
<1>8. IsAdded(e, m, h)
  BY <1>7 DEF IsAdded
<1>9. QED
  BY <1>8

LEMMA AddedIs ==
    ASSUME NEW e, Len(e) \in Nat
    PROVE  /\ Added(e, 0) = 0
           /\ \A k \in 1..Len(e) : Added(e, k) = Added(e, k - 1) + Delta(e[k])
<1> DEFINE g == CHOOSE f : f = [k \in 0..Len(e) |-> IF k = 0 THEN 0 ELSE f[k - 1] + Delta(e[k])]
<1>1. g = [k \in 0..Len(e) |-> IF k = 0 THEN 0 ELSE g[k - 1] + Delta(e[k])]
  <2>1. \E f : f = [k \in 0..Len(e) |-> IF k = 0 THEN 0 ELSE f[k - 1] + Delta(e[k])]
    BY AddedExists DEF IsAdded
  <2>2. QED
    BY <2>1
<1>2. \A k : Added(e, k) = g[k]
  BY DEF Added
<1> HIDE DEF g
<1>3. 0 \in 0..Len(e) /\ \A k \in 1..Len(e) : k \in 0..Len(e) /\ k # 0
  OBVIOUS
<1>4. g[0] = 0 /\ \A k \in 1..Len(e) : g[k] = g[k - 1] + Delta(e[k])
  BY <1>1, <1>3
<1>5. QED
  BY <1>2, <1>4

IsLoop(e, orig, lines, m, g) ==
    g = [k \in 0..m |-> IF k = 0 THEN Start ELSE Step(orig, lines, g[k - 1], e[k])]

LEMMA LoopExists ==
    ASSUME NEW e, NEW orig, NEW lines, NEW n \in Nat
    PROVE  \E g : IsLoop(e, orig, lines, n, g)
<1> DEFINE T == {m \in Nat : ~ \E g : IsLoop(e, orig, lines, m, g)}
<1>1. SUFFICES ASSUME T # {} PROVE FALSE
  OBVIOUS
<1>2. PICK m \in T : \A y \in T : m <= y
  BY <1>1, LeastNumber
<1>3. m # 0
  <2>1. IsLoop(e, orig, lines, 0, [k \in 0..0 |-> Start])
    BY DEF IsLoop
  <2>2. QED
    BY <2>1
<1>4. m - 1 \in Nat /\ m - 1 \notin T
  BY <1>2, <1>3
<1>5. PICK g : IsLoop(e, orig, lines, m - 1, g)
  BY <1>4
<1> DEFINE h == [k \in 0..m |-> IF k = m THEN Step(orig, lines, g[m - 1], e[m]) ELSE g[k]]
<1>6. \A k \in 0..m : h[k] = IF k = 0 THEN Start ELSE Step(orig, lines, h[k - 1], e[k])
  <2>1. ASSUME NEW k \in 0..m PROVE h[k] = IF k = 0 THEN Start ELSE Step(orig, lines, h[k - 1], e[k])
    <3>1. CASE k = m
      <4>1. m - 1 \in 0..m /\ m - 1 # m
        BY <1>3
      <4>2. h[m] = Step(orig, lines, g[m - 1], e[m]) /\ h[m - 1] = g[m - 1]
        BY <4>1
      <4>3. QED
        BY <1>3, <3>1, <4>2
    <3>2. CASE k # m
      <4>1. k \in 0..(m - 1) /\ (k # 0 => k - 1 \in 0..m /\ k - 1 # m)
        BY <3>2
      <4>2. h[k] = g[k] /\ (k # 0 => h[k - 1] = g[k - 1])
        BY <3>2, <4>1
      <4>3. g[k] = IF k = 0 THEN Start ELSE Step(orig, lines, g[k - 1], e[k])
        BY <1>5, <4>1 DEF IsLoop
      <4>4. QED
        BY <4>2, <4>3
    <3>3. QED
      BY <3>1, <3>2
  <2>2. QED
    BY <2>1
<1>7. h = [k \in 0..m |-> IF k = 0 THEN Start ELSE Step(orig, lines, h[k - 1], e[k])]
  BY <1>6
<1>8. IsLoop(e, orig, lines, m, h)
  BY <1>7 DEF IsLoop
<1>9. QED
  BY <1>8

(* The states of the loop, one after each change. *)
Rounds(g, e, orig, lines) ==
    /\ g[0] = Start
    /\ \A k \in 1..Len(e) : g[k] = Step(orig, lines, g[k - 1], e[k])
    /\ Loop(e, orig, lines) = g[Len(e)]

LEMMA LoopIs ==
    ASSUME NEW e, Len(e) \in Nat, NEW orig, NEW lines
    PROVE  \E g : Rounds(g, e, orig, lines)
<1> DEFINE g == CHOOSE f : f = [k \in 0..Len(e) |-> IF k = 0 THEN Start ELSE Step(orig, lines, f[k - 1], e[k])]
<1>1. g = [k \in 0..Len(e) |-> IF k = 0 THEN Start ELSE Step(orig, lines, g[k - 1], e[k])]
  <2>1. \E f : f = [k \in 0..Len(e) |-> IF k = 0 THEN Start ELSE Step(orig, lines, f[k - 1], e[k])]
    <3>1. \E f : IsLoop(e, orig, lines, Len(e), f)
      BY LoopExists
    <3>2. QED
      BY <3>1 DEF IsLoop
  <2>2. QED
    BY <2>1
<1>2. Loop(e, orig, lines) = g[Len(e)]
  BY DEF Loop
<1> HIDE DEF g
<1>3. 0 \in 0..Len(e) /\ \A k \in 1..Len(e) : k \in 0..Len(e) /\ k # 0
  OBVIOUS
<1>4. g[0] = Start /\ \A k \in 1..Len(e) : g[k] = Step(orig, lines, g[k - 1], e[k])
  BY <1>1, <1>3
<1>5. QED
  BY <1>2, <1>4 DEF Rounds

-----------------------------------------------------------------------------
(***************************************************************************)
(* Names.  A new box is none that there is: there are always more.         *)
(***************************************************************************)

EnoughNames == \A S \in SUBSET Boxes : IsFiniteSet(S) => Boxes \ S # {}

LEMMA RangeFinite ==
    ASSUME NEW S, NEW s \in Seq(S)
    PROVE  IsFiniteSet(Range(s)) /\ Range(s) \subseteq S
<1>1. Len(s) \in Nat /\ DOMAIN s = 1..Len(s) /\ \A i \in 1..Len(s) : s[i] \in S
  BY LenProperties, ElementOfSeq
<1>2. s \in Surjection(1..Len(s), Range(s))
  BY <1>1 DEF Surjection, Range
<1>3. IsFiniteSet(1..Len(s))
  BY <1>1, FS_Interval
<1>4. IsFiniteSet(Range(s))
  BY <1>2, <1>3, FS_Surjection
<1>5. QED
  BY <1>1, <1>4 DEF Range

Rank(S, b) == Cardinality({x \in S : x < b})

LEMMA RanksExist ==
    ASSUME EnoughNames, NEW U, IsFiniteSet(U), NEW n \in Nat
    PROVE  \E b \in Boxes \ U : Rank(Boxes \ U, b) = n
<1> DEFINE S == Boxes \ U
           T == {k \in Nat : ~ \E b \in S : Rank(S, b) = k}
<1>1. SUFFICES ASSUME T # {} PROVE FALSE
  OBVIOUS
<1>2. PICK k \in T : \A y \in T : k <= y
  BY <1>1, LeastNumber
<1>3. S \subseteq Nat
  BY ListAssumption
<1>4. ASSUME NEW m \in Nat PROVE \E b \in S : b > m
  <2>1. IsFiniteSet(0..m)
    BY FS_Interval
  <2>2. IsFiniteSet(U \cup (0..m))
    BY <2>1, FS_Union
  <2>3. IsFiniteSet(Boxes \cap (U \cup (0..m)))
    BY <2>2, FS_Subset
  <2>4. PICK b \in Boxes : b \notin U /\ b \notin 0..m
    BY <2>3 DEF EnoughNames
  <2>5. b \in Nat
    BY ListAssumption
  <2>6. QED
    BY <2>4, <2>5
<1> HIDE DEF S
<1>5. CASE k = 0
  <2>1. S # {}
    BY <1>4
  <2>2. PICK b \in S : \A y \in S : b <= y
    BY <1>3, <2>1, LeastNumber
  <2>3. {x \in S : x < b} = {}
    <3>1. \A x \in S : ~(x < b)
      BY <1>3, <2>2
    <3>2. QED
      BY <3>1, Zenon
  <2>4. Rank(S, b) = 0
    BY <2>3, FS_EmptySet DEF Rank
  <2>5. QED
    BY <1>2, <1>5, <2>4
<1>6. CASE k # 0
  <2>1. k - 1 \in Nat /\ k - 1 \notin T
    BY <1>2, <1>6
  <2>2. PICK a \in S : Rank(S, a) = k - 1
    BY <2>1
  <2>3. a \in Nat
    BY <1>3
  <2> DEFINE R == {x \in S : x > a}
  <2>4. R # {} /\ R \in SUBSET Nat
    BY <1>3, <1>4, <2>3
  <2>5. PICK b \in R : \A y \in R : b <= y
    BY <2>4, LeastNumber
  <2>6. {x \in S : x < b} = {x \in S : x < a} \cup {a}
    <3>1. b \in S /\ b \in Nat /\ b > a
      BY <1>3, <2>5
    <3>2. \A y \in S : y > a => b <= y
      BY <2>5
    <3>3. \A x \in S : x < b <=> x < a \/ x = a
      BY <1>3, <2>3, <3>1, <3>2
    <3>4. QED
      BY <2>2, <3>3, Zenon
  <2>7. IsFiniteSet({x \in S : x < a})
    <3>1. {x \in S : x < a} \subseteq 0..a
      <4>1. \A x \in S : x < a => x \in 0..a
        BY <1>3, <2>3
      <4>2. QED
        BY <4>1
    <3>2. IsFiniteSet(0..a)
      BY <2>3, FS_Interval
    <3>3. QED
      BY <3>1, <3>2, FS_Subset
  <2>8. a \notin {x \in S : x < a}
    BY <2>3
  <2>9. Cardinality({x \in S : x < a} \cup {a}) = Cardinality({x \in S : x < a}) + 1
    BY <2>7, <2>8, FS_AddElement
  <2>10. Rank(S, b) = k
    <3>1. Rank(S, b) = Rank(S, a) + 1
      BY <2>6, <2>9, Zenon DEF Rank
    <3>2. QED
      BY <1>2, <2>2, <3>1
  <2>11. QED
    BY <1>2, <2>5, <2>10
<1>7. QED
  BY <1>5, <1>6

LEMMA FreshIs ==
    ASSUME EnoughNames, boxes \in Seq(Boxes), own \in Seq(Boxes \cup {0}), IsFiniteSet(showing),
           NEW used, IsFiniteSet(used), NEW count \in Nat
    PROVE  /\ Fresh(used, count) \in Seq(Boxes) /\ Len(Fresh(used, count)) = count
           /\ \A k \in 1..count : Fresh(used, count)[k] \notin Listed \cup showing \cup used
           /\ \A i, j \in 1..count : Fresh(used, count)[i] = Fresh(used, count)[j] => i = j
<1> DEFINE U == Listed \cup showing \cup Range(own) \cup used
           S == Boxes \ U
           s == Fresh(used, count)
<1>1. IsFiniteSet(U)
  BY RangeFinite, FS_Union DEF Listed
<1>2. Free(used) = S
  BY DEF Free
<1>3. \A k \in 1..count : s[k] = CHOOSE b \in S : Rank(S, b) = k - 1
  BY <1>2 DEF Fresh, Rank
<1>4. \A k \in 1..count : s[k] \in S /\ Rank(S, s[k]) = k - 1
  <2>1. \A k \in 1..count : k - 1 \in Nat
    OBVIOUS
  <2>2. \A k \in 1..count : \E b \in S : Rank(S, b) = k - 1
    BY <1>1, <2>1, RanksExist
  <2> HIDE DEF S, s
  <2>3. QED
    BY <1>3, <2>2
<1>5. s \in [1..count -> Boxes]
  <2>1. s = [k \in 1..count |-> CHOOSE b \in Free(used) : Cardinality({x \in Free(used) : x < b}) = k - 1]
    BY DEF Fresh
  <2> HIDE DEF s
  <2>2. \A k \in 1..count : s[k] \in Boxes
    BY <1>4
  <2>3. QED
    BY <2>1, <2>2
<1> HIDE DEF s
<1>6. s \in Seq(Boxes) /\ Len(s) = count
  BY <1>5, FunctionIsSeq
<1>7. \A i, j \in 1..count : s[i] = s[j] => i = j
  BY <1>4
<1>8. QED
  BY <1>4, <1>6, <1>7 DEF s

-----------------------------------------------------------------------------
(***************************************************************************)
(* Lists of boxes.                                                         *)
(***************************************************************************)

Distinct(s) == \A i, j \in 1..Len(s) : s[i] = s[j] => i = j

(* What is known of the names of boxes. *)
Named ==
    /\ boxes \in Seq(Boxes) /\ Distinct(boxes)
    /\ own \in Seq(Boxes \cup {0})
    /\ IsFiniteSet(showing)

LEMMA RangeIs ==
    ASSUME NEW S, NEW s \in Seq(S)
    PROVE  /\ \A x : x \in Range(s) <=> \E i \in 1..Len(s) : x = s[i]
           /\ Len(s) \in Nat /\ DOMAIN s = 1..Len(s) /\ \A i \in 1..Len(s) : s[i] \in S
<1>1. Len(s) \in Nat /\ DOMAIN s = 1..Len(s) /\ \A i \in 1..Len(s) : s[i] \in S
  BY LenProperties, ElementOfSeq
<1>2. QED
  BY <1>1 DEF Range

LEMMA CopiedIs ==
    ASSUME NEW S, NEW orig \in Seq(S), NEW t \in Nat, NEW n \in Nat, t + n <= Len(orig)
    PROVE  /\ Copied(orig, t, n) \in Seq(S) /\ Len(Copied(orig, t, n)) = n
           /\ \A k \in 1..n : Copied(orig, t, n)[k] = orig[t + k] /\ t + k \in 1..Len(orig)
<1> DEFINE s == Copied(orig, t, n)
<1>1. Len(orig) \in Nat /\ DOMAIN orig = 1..Len(orig) /\ \A i \in 1..Len(orig) : orig[i] \in S
  BY RangeIs
<1>2. \A k \in 1..n : t + k \in 1..Len(orig)
  BY <1>1
<1>3. s = [k \in 1..n |-> orig[t + k]]
  BY <1>1, <1>2 DEF Copied
<1> HIDE DEF s
<1>4. s \in [1..n -> S]
  BY <1>1, <1>2, <1>3
<1>5. s \in Seq(S) /\ Len(s) = n
  BY <1>4, FunctionIsSeq
<1>6. QED
  BY <1>2, <1>3, <1>5 DEF s

LEMMA AppendDistinct ==
    ASSUME NEW S, NEW s \in Seq(S), NEW t \in Seq(S), Distinct(s), Distinct(t),
           \A i \in 1..Len(s) : s[i] \notin Range(t)
    PROVE  /\ s \o t \in Seq(S) /\ ConcatIs(s \o t, s, t) /\ Distinct(s \o t)
           /\ \A x : x \in Range(s \o t) <=> x \in Range(s) \/ x \in Range(t)
<1> DEFINE u == s \o t
           n == Len(s)
           m == Len(t)
<1>1. n \in Nat /\ m \in Nat
  BY RangeIs
<1>2. u \in Seq(S) /\ ConcatIs(u, s, t)
  BY ConcatElements
<1> HIDE DEF u
<1>3. Len(u) = n + m /\ (\A i \in 1..n : u[i] = s[i]) /\ (\A i \in 1..m : u[n + i] = t[i])
  BY <1>2 DEF ConcatIs
<1>4. \A i \in 1..Len(u) : i \in 1..n \/ (i > n /\ i - n \in 1..m /\ u[i] = t[i - n])
  <2>1. ASSUME NEW i \in 1..Len(u), i > n PROVE i - n \in 1..m /\ u[i] = t[i - n]
    <3>1. i - n \in 1..m /\ n + (i - n) = i
      BY <1>1, <1>3, <2>1
    <3>2. QED
      BY <1>3, <3>1
  <2>2. QED
    BY <1>1, <1>3, <2>1
<1>5. \A x : x \in Range(u) <=> x \in Range(s) \/ x \in Range(t)
  <2>1. \A x : x \in Range(u) <=> \E i \in 1..Len(u) : x = u[i]
    BY <1>2, RangeIs
  <2>2. \A x : x \in Range(s) <=> \E i \in 1..n : x = s[i]
    BY RangeIs
  <2>3. \A x : x \in Range(t) <=> \E i \in 1..m : x = t[i]
    BY RangeIs
  <2>4. ASSUME NEW x, x \in Range(u) PROVE x \in Range(s) \/ x \in Range(t)
    <3>1. PICK i \in 1..Len(u) : x = u[i]
      BY <2>1, <2>4
    <3>2. QED
      BY <1>3, <1>4, <2>2, <2>3, <3>1
  <2>5. \A i \in 1..n : i \in 1..Len(u)
    BY <1>1, <1>3
  <2>6. \A i \in 1..m : n + i \in 1..Len(u)
    BY <1>1, <1>3
  <2>7. ASSUME NEW x, x \in Range(s) \/ x \in Range(t) PROVE x \in Range(u)
    <3>1. CASE x \in Range(s)
      BY <1>3, <2>1, <2>2, <2>5, <3>1
    <3>2. CASE x \in Range(t)
      <4>1. PICK i \in 1..m : x = t[i]
        BY <2>3, <3>2
      <4>2. u[n + i] = x /\ n + i \in 1..Len(u)
        BY <1>3, <2>6, <4>1
      <4>3. QED
        BY <2>1, <4>2
    <3>3. QED
      BY <2>7, <3>1, <3>2
  <2>8. QED
    BY <2>4, <2>7
<1>6. Distinct(u)
  <2>1. ASSUME NEW i \in 1..Len(u), NEW j \in 1..Len(u), i <= j, u[i] = u[j]
        PROVE  i = j
    <3>1. CASE i \in 1..n /\ j \in 1..n
      BY <1>3, <2>1, <3>1 DEF Distinct
    <3>2. CASE i > n /\ j > n
      <4>1. i - n \in 1..m /\ j - n \in 1..m /\ t[i - n] = t[j - n]
        BY <1>1, <1>4, <2>1, <3>2
      <4>2. i - n = j - n
        BY <4>1 DEF Distinct
      <4>3. QED
        BY <1>1, <4>2
    <3>3. CASE i \in 1..n /\ j > n
      <4>1. j - n \in 1..m /\ s[i] = t[j - n]
        BY <1>1, <1>3, <1>4, <2>1, <3>3
      <4>2. t[j - n] \in Range(t)
        BY <4>1, RangeIs
      <4>3. QED
        BY <3>3, <4>1, <4>2
    <3>4. QED
      BY <1>1, <1>4, <2>1, <3>1, <3>2, <3>3
  <2>2. \A i, j \in 1..Len(u) : i <= j \/ j <= i
    BY <1>1, <1>3
  <2>3. QED
    BY <2>1, <2>2 DEF Distinct
<1>7. QED
  BY <1>2, <1>5, <1>6 DEF u

(* A list with new boxes at its end. *)
PaddedIs(orig, list, lines) ==
    /\ orig \in Seq(Boxes) /\ Distinct(orig)
    /\ Len(orig) = IF lines > Len(list) THEN lines ELSE Len(list)
    /\ \A i \in 1..Len(list) : orig[i] = list[i]

LEMMA PaddedList ==
    ASSUME EnoughNames, Named, NEW list \in Seq(Boxes), Distinct(list), Range(list) \subseteq Listed, NEW lines \in Nat
    PROVE  PaddedIs(Padded(list, lines), list, lines)
<1> DEFINE n == Len(list)
           m == Missing(list, lines)
           new == Fresh({}, m)
           orig == list \o new
<1>1. n \in Nat /\ DOMAIN list = 1..n /\ \A i \in 1..n : list[i] \in Range(list)
  BY RangeIs
<1>2. m \in Nat /\ n + m = IF lines > n THEN lines ELSE n
  BY <1>1 DEF Missing
<1>3. IsFiniteSet({})
  BY FS_EmptySet
<1> HIDE DEF m
<1>4. /\ new \in Seq(Boxes) /\ Len(new) = m
      /\ \A k \in 1..m : new[k] \notin Listed
      /\ \A i, j \in 1..m : new[i] = new[j] => i = j
  BY <1>2, <1>3, FreshIs DEF Named
<1> HIDE DEF new
<1>5. Distinct(new)
  BY <1>4 DEF Distinct
<1>6. \A i \in 1..n : list[i] \notin Range(new)
  <2>1. \A x : x \in Range(new) => x \notin Listed
    BY <1>4, RangeIs
  <2>2. QED
    BY <1>1, <2>1
<1>7. orig \in Seq(Boxes) /\ ConcatIs(orig, list, new) /\ Distinct(orig)
  BY <1>4, <1>5, <1>6, AppendDistinct
<1> HIDE DEF orig
<1>8. QED
  BY <1>2, <1>4, <1>7 DEF ConcatIs, PaddedIs, Padded, orig, new, m

(* A list with the first t boxes of the old one, and with the n after them.   *)
Holds(list, orig, t) == \A j \in 1..Len(orig) : orig[j] \in Range(list) <=> j <= t

LEMMA CopiedAdds ==
    ASSUME NEW orig \in Seq(Boxes), Distinct(orig), NEW list \in Seq(Boxes), Distinct(list),
           NEW t \in Nat, NEW n \in Nat, t + n <= Len(orig), Holds(list, orig, t)
    PROVE  LET s == list \o Copied(orig, t, n)
           IN  s \in Seq(Boxes) /\ Len(s) = Len(list) + n /\ Distinct(s) /\ Holds(s, orig, t + n)
<1> DEFINE more == Copied(orig, t, n)
           s == list \o more
<1>1. /\ more \in Seq(Boxes) /\ Len(more) = n
      /\ \A k \in 1..n : more[k] = orig[t + k] /\ t + k \in 1..Len(orig)
  BY CopiedIs
<1>2. Len(orig) \in Nat /\ Len(list) \in Nat
  BY RangeIs
<1> HIDE DEF more
<1>3. Distinct(more)
  <2>1. ASSUME NEW i \in 1..n, NEW j \in 1..n, more[i] = more[j] PROVE i = j
    <3>1. t + i = t + j
      BY <1>1, <2>1 DEF Distinct
    <3>2. QED
      BY <3>1
  <2>2. QED
    BY <1>1, <2>1 DEF Distinct
<1>4. \A x : x \in Range(more) <=> \E k \in 1..n : x = more[k]
  BY <1>1, RangeIs
<1>5. \A i \in 1..Len(list) : list[i] \in Range(list)
  BY RangeIs
<1>6. \A k \in 1..n : more[k] \notin Range(list)
  <2>1. ASSUME NEW k \in 1..n PROVE more[k] \notin Range(list)
    <3>1. ~(t + k <= t)
      OBVIOUS
    <3>2. QED
      BY <1>1, <3>1 DEF Holds
  <2>2. QED
    BY <2>1
<1>7. \A i \in 1..Len(list) : list[i] \notin Range(more)
  BY <1>4, <1>5, <1>6
<1>8. /\ s \in Seq(Boxes) /\ ConcatIs(s, list, more) /\ Distinct(s)
      /\ \A x : x \in Range(s) <=> x \in Range(list) \/ x \in Range(more)
  BY <1>1, <1>3, <1>7, AppendDistinct
<1> HIDE DEF s
<1>9. ASSUME NEW j \in 1..Len(orig) PROVE orig[j] \in Range(s) <=> j <= t + n
  <2>1. orig[j] \in Range(list) <=> j <= t
    BY DEF Holds
  <2>2. orig[j] \in Range(more) <=> j > t /\ j <= t + n
    <3>1. ASSUME NEW k \in 1..n, orig[j] = more[k] PROVE j > t /\ j <= t + n
      <4>1. j = t + k
        BY <1>1, <3>1 DEF Distinct
      <4>2. QED
        BY <4>1
    <3>2. ASSUME j > t, j <= t + n PROVE orig[j] \in Range(more)
      <4>1. j - t \in 1..n /\ t + (j - t) = j
        BY <1>2, <3>2
      <4>2. QED
        BY <1>1, <1>4, <4>1
    <3>3. QED
      BY <1>4, <3>1, <3>2
  <2>3. QED
    BY <1>2, <1>8, <2>1, <2>2
<1>10. QED
  BY <1>1, <1>8, <1>9 DEF ConcatIs, Holds, s, more

-----------------------------------------------------------------------------
(***************************************************************************)
(* Events of changes that add or replace lines: the loop never meets an    *)
(* undefined box, and no box is lost.                                      *)
(***************************************************************************)

IsChange(c) ==
    /\ {c.start, c.end} \subseteq 1..Lines /\ c.start <= c.end
    /\ c.added \in Nat /\ (c.start = c.end => c.added > 0)

(* The loop, when the changes so far have added b lines. *)
Filled(s, orig, b) ==
    /\ s \in [stuck : BOOLEAN, list : Seq(Boxes), taken : Nat, gone : {{}}]
    /\ s.taken <= Len(s.list) /\ Len(s.list) <= Lines + b /\ Len(s.list) - s.taken <= b
    /\ Distinct(s.list) /\ Holds(s.list, orig, s.taken)

LEMMA StartFilled ==
    ASSUME Lines \in Nat, NEW orig \in Seq(Boxes)
    PROVE  Filled(Start, orig, 0)
<1>1. PICK none \in Seq(Boxes) : none = <<>>
  BY EmptySeq
<1>2. Len(none) = 0 /\ 1..0 = {}
  BY <1>1
<1>3. \A x : x \notin Range(none)
  <2>1. \A x : x \in Range(none) <=> \E i \in 1..Len(none) : x = none[i]
    BY RangeIs
  <2>2. QED
    BY <1>2, <2>1
<1>4. Distinct(none) /\ Holds(none, orig, 0)
  BY <1>2, <1>3, RangeIs DEF Distinct, Holds
<1>5. Start = [stuck |-> FALSE, list |-> none, taken |-> 0, gone |-> {}]
  BY <1>1 DEF Start
<1> HIDE DEF Start
<1>6. QED
  BY <1>2, <1>4, <1>5 DEF Filled

LEMMA FilledRecord ==
    ASSUME NEW list \in Seq(Boxes), NEW taken \in Nat, NEW orig, NEW n,
           taken <= Len(list), Len(list) <= Lines + n, Len(list) - taken <= n,
           Distinct(list), Holds(list, orig, taken)
    PROVE  Filled([stuck |-> FALSE, list |-> list, taken |-> taken, gone |-> {}], orig, n)
<1> DEFINE s == [stuck |-> FALSE, list |-> list, taken |-> taken, gone |-> {}]
<1>1. s.list = list /\ s.taken = taken /\ s \in [stuck : BOOLEAN, list : Seq(Boxes), taken : Nat, gone : {{}}]
  OBVIOUS
<1> HIDE DEF s
<1>2. QED
  BY <1>1 DEF Filled, s

LEMMA StepFills ==
    ASSUME EnoughNames, Named, Lines \in Nat, Len(boxes) = Lines, NEW lines \in Nat, Lines <= lines,
           NEW orig, PaddedIs(orig, boxes, lines), NEW b \in Nat, NEW s, Filled(s, orig, b),
           NEW c, IsChange(c), Delta(c) \in Nat
    PROVE  Filled(Step(orig, lines, s, c), orig, b + Delta(c))
<1> DEFINE d == Delta(c)
           t == Trigger(c)
           r == Step(orig, lines, s, c)
           count == t - 1 - Len(s.list)
           old == s.list \o Copied(orig, s.taken, count)
           news == Fresh(Range(orig) \cup Range(s.list), d)
<1>1. /\ s.list \in Seq(Boxes) /\ s.taken \in Nat /\ s.gone = {} /\ Len(s.list) \in Nat
      /\ s.taken <= Len(s.list) /\ Len(s.list) <= Lines + b /\ Len(s.list) - s.taken <= b
      /\ Distinct(s.list) /\ Holds(s.list, orig, s.taken)
  BY RangeIs DEF Filled
<1>2. orig \in Seq(Boxes) /\ Distinct(orig) /\ Len(orig) = lines
  BY DEF PaddedIs
<1>3. CASE s.stuck \/ t <= Len(s.list) \/ t > lines
  <2>1. r = [s EXCEPT !.stuck = TRUE]
    BY <1>3 DEF Step
  <2> HIDE DEF r
  <2>2. r.list = s.list /\ r.taken = s.taken /\ r \in [stuck : BOOLEAN, list : Seq(Boxes), taken : Nat, gone : {{}}]
    BY <2>1 DEF Filled
  <2>3. Len(s.list) <= Lines + (b + d) /\ Len(s.list) - s.taken <= b + d
    BY <1>1
  <2>4. QED
    BY <1>1, <2>2, <2>3 DEF Filled, r
<1>4. CASE ~(s.stuck \/ t <= Len(s.list) \/ t > lines)
  <2>1. t \in Nat /\ t - 1 <= Lines
    BY DEF Trigger, IsChange
  <2>2. count \in Nat /\ s.taken + count <= Len(orig) /\ Len(s.list) + count = t - 1
    BY <1>1, <1>2, <1>4, <2>1, SMTT(20)
  <2> HIDE DEF count
  <2>3. old \in Seq(Boxes) /\ Len(old) = Len(s.list) + count /\ Distinct(old) /\ Holds(old, orig, s.taken + count)
    BY <1>1, <1>2, <2>2, CopiedAdds
  <2>4. Copied(orig, s.taken, count) \in Seq(Boxes)
    BY <1>2, <1>1, <2>2, CopiedIs
  <2>5. \A x : x \in Range(old) => x \in Range(s.list) \cup Range(orig)
    <3>1. \A k \in 1..count : Copied(orig, s.taken, count)[k] \in Range(orig)
      <4>1. \A j \in 1..Len(orig) : orig[j] \in Range(orig)
        BY <1>2, RangeIs
      <4>2. \A k \in 1..count : /\ Copied(orig, s.taken, count)[k] = orig[s.taken + k]
                                /\ s.taken + k \in 1..Len(orig)
        BY <1>1, <1>2, <2>2, CopiedIs
      <4>3. QED
        BY <4>1, <4>2
    <3>2. Len(Copied(orig, s.taken, count)) = count
      BY <1>1, <1>2, <2>2, CopiedIs
    <3>3. ConcatIs(old, s.list, Copied(orig, s.taken, count))
      BY <1>1, <2>4, ConcatElements
    <3> HIDE DEF old
    <3>4. ASSUME NEW i \in 1..Len(old) PROVE old[i] \in Range(s.list) \cup Range(orig)
      <4>1. CASE i <= Len(s.list)
        <5>1. i \in 1..Len(s.list)
          BY <1>1, <4>1
        <5>2. s.list[i] \in Range(s.list)
          BY <1>1, <5>1, RangeIs
        <5>3. QED
          BY <3>3, <5>1, <5>2 DEF ConcatIs
      <4>2. CASE i > Len(s.list)
        <5>1. i - Len(s.list) \in 1..count /\ Len(s.list) + (i - Len(s.list)) = i
          BY <1>1, <2>2, <2>3, <4>2, SMTT(20)
        <5>2. QED
          BY <3>1, <3>2, <3>3, <5>1 DEF ConcatIs
      <4>3. QED
        BY <1>1, <2>3, <4>1, <4>2
    <3>5. QED
      BY <2>3, <3>4, RangeIs
  <2>6. IsFiniteSet(Range(orig) \cup Range(s.list))
    BY <1>1, <1>2, RangeFinite, FS_Union
  <2>7. /\ news \in Seq(Boxes) /\ Len(news) = d
        /\ \A k \in 1..d : news[k] \notin Range(orig) \cup Range(s.list)
        /\ \A i, j \in 1..d : news[i] = news[j] => i = j
    BY <2>6, FreshIs DEF Named
  <2> HIDE DEF old, news
  <2>8. Distinct(news) /\ \A x : x \in Range(news) => x \notin Range(orig) \cup Range(s.list)
    BY <2>7, RangeIs DEF Distinct
  <2>9. \A i \in 1..Len(old) : old[i] \notin Range(news)
    BY <2>3, <2>5, <2>8, RangeIs
  <2>10. /\ old \o news \in Seq(Boxes) /\ ConcatIs(old \o news, old, news) /\ Distinct(old \o news)
         /\ \A x : x \in Range(old \o news) <=> x \in Range(old) \/ x \in Range(news)
    BY <2>3, <2>7, <2>8, <2>9, AppendDistinct
  <2>11. Holds(old \o news, orig, s.taken + count)
    <3>1. \A j \in 1..Len(orig) : orig[j] \in Range(orig)
      BY <1>2, RangeIs
    <3>2. QED
      BY <2>3, <2>8, <2>10, <3>1 DEF Holds
  <2>12. r = [stuck |-> FALSE, list |-> old \o news, taken |-> s.taken + count, gone |-> {}]
    <3>1. Taken(s.taken + count, c) = s.taken + count
      BY DEF Taken
    <3>2. (IF d > 0 THEN d ELSE 0) = d
      OBVIOUS
    <3>3. PICK x \in Nat : x = s.taken + count
      BY <1>1, <2>2
    <3>4. PICK y : y = d
      OBVIOUS
    <3>5. Range(Copied(orig, x, x - s.taken - count)) = {}
      <4>1. x - s.taken - count = 0
        BY <1>1, <2>2, <3>3
      <4>2. Copied(orig, x, 0) \in Seq(Boxes) /\ Len(Copied(orig, x, 0)) = 0
        BY <1>2, <2>2, <3>3, CopiedIs
      <4>3. QED
        BY <4>1, <4>2, RangeIs
    <3>6. Taken(x, c) = x /\ (IF Delta(c) > 0 THEN Delta(c) ELSE 0) = y
      BY <3>1, <3>2, <3>3, <3>4
    <3>7. r = [stuck |-> FALSE,
               list  |-> s.list \o Copied(orig, s.taken, count)
                           \o Fresh(Range(orig) \cup Range(s.list), IF Delta(c) > 0 THEN Delta(c) ELSE 0),
               taken |-> Taken(s.taken + count, c),
               gone  |-> s.gone \cup Range(Copied(orig, s.taken + count, Taken(s.taken + count, c) - s.taken - count))]
      BY <1>4 DEF Step, count
    <3> HIDE DEF r, d
    <3>8. r = [stuck |-> FALSE, list |-> s.list \o Copied(orig, s.taken, count) \o Fresh(Range(orig) \cup Range(s.list), y),
               taken |-> x, gone |-> s.gone \cup Range(Copied(orig, x, x - s.taken - count))]
      BY <3>3, <3>6, <3>7
    <3>9. r = [stuck |-> FALSE, list |-> old \o news, taken |-> x, gone |-> {}]
      BY <1>1, <3>4, <3>5, <3>8 DEF old, news
    <3>10. QED
      BY <3>3, <3>9
  <2> HIDE DEF r
  <2>13. Len(old \o news) = Len(s.list) + count + d
    BY <2>3, <2>7, <2>10 DEF ConcatIs
  <2>14. s.taken + count \in Nat
    BY <1>1, <2>2
  <2>15. PICK l \in Seq(Boxes), k \in Nat : l = old \o news /\ k = s.taken + count
    BY <2>10, <2>14
  <2>16. /\ k <= Len(l) /\ Len(l) <= Lines + (b + d) /\ Len(l) - k <= b + d
         /\ Distinct(l) /\ Holds(l, orig, k)
    <3>1. Len(l) = Len(s.list) + count + d
      BY <2>13, <2>15
    <3>2. Distinct(l) /\ Holds(l, orig, k)
      BY <2>10, <2>11, <2>15
    <3>3. PICK n \in Nat : n = Len(l)
      BY RangeIs
    <3>4. k <= n /\ n <= Lines + (b + d) /\ n - k <= b + d
      <4>1. PICK l0 \in Nat, k0 \in Nat, m0 \in Nat, n0 \in Nat :
               l0 = Len(s.list) /\ k0 = s.taken /\ m0 = count /\ n0 = Lines
        BY <1>1, <2>2
      <4>2. PICK a \in Nat : a = d
        OBVIOUS
      <4>3. n = l0 + m0 + a /\ k = k0 + m0
        BY <2>15, <3>1, <3>3, <4>1, <4>2
      <4>4. l0 + m0 <= n0 /\ k0 <= l0 /\ l0 - k0 <= b
        BY <1>1, <2>1, <2>2, <4>1
      <4>5. k <= n /\ n <= n0 + (b + a) /\ n - k <= b + a
        BY <4>3, <4>4
      <4>6. QED
        BY <4>1, <4>2, <4>5
    <3>5. QED
      BY <3>2, <3>3, <3>4
  <2>17. Filled([stuck |-> FALSE, list |-> l, taken |-> k, gone |-> {}], orig, b + d)
    BY <2>16, FilledRecord
  <2>18. QED
    BY <2>12, <2>15, <2>17 DEF r
<1>5. QED
  BY <1>3, <1>4

EventIs(e, lines) ==
    /\ Len(e) \in Nat \ {0} /\ \A k \in 1..Len(e) : IsChange(e[k])
    /\ lines = Lines + Added(e, Len(e)) /\ lines \in 1..MaxLines

LEMMA MayComeIs ==
    ASSUME Lines \in 1..MaxLines, NEW e \in MayCome[Lines]
    PROVE  EventIs(e, Lines + Added(e, Len(e)))
<1>1. /\ e \in UNION {[1..k -> Changes] : k \in 1..Carets}
      /\ \A k \in 1..Len(e) : e[k].end <= Lines
      /\ Lines + Added(e, Len(e)) \in 1..MaxLines
  BY DEF MayCome
<1>2. PICK m \in 1..Carets : e \in [1..m -> Changes]
  BY <1>1
<1>3. m \in Nat \ {0}
  BY ListAssumption
<1>4. Len(e) = m
  BY <1>2, <1>3, FunctionIsSeq
<1>5. ASSUME NEW k \in 1..m PROVE IsChange(e[k])
  <2>1. e[k] \in Changes /\ e[k].end <= Lines
    BY <1>1, <1>2, <1>4
  <2>2. MaxLines \in Nat /\ MaxAdded \in Nat
    BY ListAssumption
  <2>3. PICK c \in Changes : c = e[k]
    BY <2>1
  <2>4. /\ c.start \in 1..MaxLines /\ c.end \in 1..MaxLines /\ c.added \in 0..MaxAdded
        /\ c.start <= c.end /\ (c.start = c.end => c.added > 0)
    BY DEF Changes
  <2>5. c.start \in 1..Lines /\ c.end \in 1..Lines /\ c.added \in Nat
    BY <2>1, <2>2, <2>3, <2>4
  <2>6. QED
    BY <2>3, <2>4, <2>5 DEF IsChange
<1>6. QED
  BY <1>1, <1>3, <1>4, <1>5 DEF EventIs

LEMMA AddsGrow ==
    ASSUME NEW e, NEW lines, EventIs(e, lines), \A k \in 1..Len(e) : Delta(e[k]) \in Nat
    PROVE  \A k \in 0..Len(e) : Added(e, k) \in Nat
<1> DEFINE T == {k \in 0..Len(e) : Added(e, k) \notin Nat}
<1>1. SUFFICES ASSUME T # {} PROVE FALSE
  OBVIOUS
<1>2. Len(e) \in Nat
  BY DEF EventIs
<1>3. PICK m \in T : \A y \in T : m <= y
  <2>1. T \in SUBSET Nat
    BY <1>2
  <2> HIDE DEF T
  <2>2. QED
    BY <1>1, <2>1, LeastNumber
<1>4. /\ Added(e, 0) = 0
      /\ \A k \in 1..Len(e) : Added(e, k) = Added(e, k - 1) + Delta(e[k])
  BY <1>2, AddedIs
<1>5. m \in 1..Len(e) /\ m - 1 \in 0..Len(e) /\ ~(m <= m - 1)
  <2>1. m # 0
    BY <1>4
  <2>2. QED
    BY <1>2, <2>1
<1>6. Added(e, m - 1) \in Nat
  BY <1>3, <1>5
<1>7. QED
  BY <1>3, <1>4, <1>5, <1>6

LEMMA RoundsFill ==
    ASSUME EnoughNames, Named, Lines \in Nat, Len(boxes) = Lines,
           NEW e, NEW lines \in Nat, EventIs(e, lines), \A k \in 1..Len(e) : Delta(e[k]) \in Nat,
           Lines <= lines, NEW orig, PaddedIs(orig, boxes, lines)
    PROVE  Filled(Loop(e, orig, lines), orig, Added(e, Len(e)))
<1>1. Len(e) \in Nat
  BY DEF EventIs
<1>2. PICK g : Rounds(g, e, orig, lines)
  BY <1>1, LoopIs
<1> DEFINE T == {k \in 0..Len(e) : ~Filled(g[k], orig, Added(e, k))}
<1>3. T = {}
  <2>1. SUFFICES ASSUME T # {} PROVE FALSE
    OBVIOUS
  <2>2. PICK m \in T : \A y \in T : m <= y
    <3>1. T \in SUBSET Nat
      BY <1>1
    <3> HIDE DEF T
    <3>2. QED
      BY <2>1, <3>1, LeastNumber
  <2>3. /\ Added(e, 0) = 0
        /\ \A k \in 1..Len(e) : Added(e, k) = Added(e, k - 1) + Delta(e[k])
    BY <1>1, AddedIs
  <2>4. Filled(g[0], orig, Added(e, 0))
    <3>1. orig \in Seq(Boxes)
      BY DEF PaddedIs
    <3>2. Filled(Start, orig, 0)
      BY <3>1, StartFilled
    <3>3. QED
      BY <1>2, <2>3, <3>2 DEF Rounds
  <2>5. m \in 1..Len(e) /\ m - 1 \in 0..Len(e) /\ ~(m <= m - 1)
    <3>1. m # 0
      BY <2>4
    <3>2. QED
      BY <1>1, <3>1
  <2>6. Filled(g[m - 1], orig, Added(e, m - 1))
    BY <2>2, <2>5
  <2>7. Added(e, m - 1) \in Nat
    BY <2>5, AddsGrow
  <2>8. IsChange(e[m]) /\ Delta(e[m]) \in Nat
    BY <2>5 DEF EventIs
  <2>9. Filled(Step(orig, lines, g[m - 1], e[m]), orig, Added(e, m - 1) + Delta(e[m]))
    BY <2>6, <2>7, <2>8, StepFills
  <2>10. g[m] = Step(orig, lines, g[m - 1], e[m])
    BY <1>2, <2>5 DEF Rounds
  <2>11. Filled(g[m], orig, Added(e, m))
    BY <2>3, <2>5, <2>9, <2>10
  <2>12. QED
    BY <2>2, <2>11
<1>4. Filled(g[Len(e)], orig, Added(e, Len(e)))
  BY <1>1, <1>3
<1>5. QED
  BY <1>2, <1>4 DEF Rounds

LEMMA NoBoxIsZero == 0 \notin Boxes
  BY ListAssumption

LEMMA AddsEdit ==
    ASSUME EnoughNames, Named, Lines \in 1..MaxLines, Len(boxes) = Lines,
           NEW e, NEW lines, EventIs(e, lines), \A k \in 1..Len(e) : Delta(e[k]) \in Nat,
           AddRemoveBoxes(e, lines)
    PROVE  /\ boxes' \in Seq(Boxes) /\ Len(boxes') = lines /\ Distinct(boxes')
           /\ Listed \subseteq Range(boxes') /\ showing' = showing /\ ~thrown'
<1> DEFINE b == Added(e, Len(e))
           orig == Padded(boxes, lines)
           s == Loop(e, orig, lines)
           n == Missing(s.list, lines)
<1>1. b \in Nat /\ lines = Lines + b /\ Lines \in Nat /\ lines \in Nat
  <2>1. Len(e) \in 0..Len(e) /\ lines = Lines + b /\ lines \in 1..MaxLines
    BY DEF EventIs
  <2>2. b \in Nat
    BY <2>1, AddsGrow
  <2>3. QED
    BY <2>1, <2>2
<1>2. PaddedIs(orig, boxes, lines)
  BY <1>1, PaddedList DEF Named, Listed
<1> HIDE DEF b, orig
<1>3. Filled(s, orig, b)
  <2>1. Lines <= lines
    BY <1>1
  <2>2. QED
    BY <1>1, <1>2, <2>1, RoundsFill DEF b
<1>4. boxes' = s.list \o Copied(orig, s.taken, n) /\ showing' = showing \ s.gone /\ thrown' = (0 \in Range(boxes') \cup s.gone)
  BY DEF AddRemoveBoxes, orig
<1> HIDE DEF s, n
<1>5. orig \in Seq(Boxes) /\ Distinct(orig) /\ Len(orig) = lines /\ \A i \in 1..Lines : orig[i] = boxes[i]
  BY <1>1, <1>2 DEF PaddedIs
<1>6. /\ s.list \in Seq(Boxes) /\ s.taken \in Nat /\ s.gone = {}
      /\ s.taken <= Len(s.list) /\ Len(s.list) <= Lines + b /\ Len(s.list) - s.taken <= b
      /\ Distinct(s.list) /\ Holds(s.list, orig, s.taken) /\ Len(s.list) \in Nat
  BY <1>3, RangeIs DEF Filled
<1>7. n \in Nat /\ Len(s.list) + n = lines /\ s.taken + n <= Len(orig) /\ Lines <= s.taken + n
  <2>1. PICK l \in Nat, t \in Nat : l = Len(s.list) /\ t = s.taken
    BY <1>6
  <2>2. PICK m \in Nat : m = b
    BY <1>1
  <2>3. PICK i \in Nat : i = Lines
    BY <1>1
  <2>4. t <= l /\ l <= i + m /\ l - t <= m /\ lines = i + m
    BY <1>1, <1>6, <2>1, <2>2, <2>3
  <2>5. n = IF lines > l THEN lines - l ELSE 0
    BY <2>1 DEF n, Missing
  <2>6. n = lines - l /\ n \in Nat
    BY <1>1, <2>4, <2>5
  <2>7. l + n = lines /\ t + n <= lines /\ i <= t + n
    BY <1>1, <2>4, <2>6
  <2>8. QED
    BY <1>5, <2>1, <2>3, <2>6, <2>7
<1>8. boxes' \in Seq(Boxes) /\ Len(boxes') = lines /\ Distinct(boxes') /\ Holds(boxes', orig, s.taken + n)
  BY <1>4, <1>5, <1>6, <1>7, CopiedAdds
<1>9. Listed \subseteq Range(boxes')
  <2>1. \A i \in 1..Lines : boxes[i] \in Range(boxes')
    <3>1. \A i \in 1..Lines : i \in 1..Len(orig) /\ i <= s.taken + n
      BY <1>1, <1>5, <1>6, <1>7
    <3>2. QED
      BY <1>5, <1>8, <3>1 DEF Holds
  <2>2. QED
    BY <2>1, RangeIs DEF Listed, Named
<1>10. 0 \notin Range(boxes')
  BY <1>8, RangeIs, NoBoxIsZero
<1>11. showing' = showing
  BY <1>4, <1>6
<1>12. ~thrown'
  <2>1. 0 \notin Range(boxes') \cup s.gone
    BY <1>6, <1>10
  <2>2. QED
    BY <1>4, <2>1, Zenon
<1>13. QED
  BY <1>8, <1>9, <1>11, <1>12

-----------------------------------------------------------------------------
(***************************************************************************)
(* Events of one change: the boxes before and behind it stay where their   *)
(* lines are.                                                              *)
(***************************************************************************)

More(c) == IF Delta(c) > 0 THEN Delta(c) ELSE 0
Less(c) == IF Delta(c) < 0 THEN -Delta(c) ELSE 0

(* What the loop does for the one change c. *)
OneRound(s, orig, lines, c) ==
    /\ s.list \in Seq(Boxes) /\ Len(s.list) = Trigger(c) - 1 + More(c) /\ s.taken = Trigger(c) - 1 + Less(c)
    /\ \A k \in 1..(Trigger(c) - 1) : s.list[k] = orig[k]
    /\ s.gone = {orig[k] : k \in Trigger(c)..(Trigger(c) - 1 + Less(c))}

LEMMA OneNumbers ==
    ASSUME Lines \in 1..MaxLines, NEW c, IsChange(c), NEW lines \in 1..MaxLines, lines = Lines + Delta(c)
    PROVE  /\ Trigger(c) \in Nat \ {0} /\ More(c) \in Nat /\ Less(c) \in Nat /\ Delta(c) \in Int
           /\ lines \in Nat /\ Lines \in Nat
           /\ Delta(c) = More(c) - Less(c) /\ Trigger(c) <= lines
           /\ Trigger(c) - 1 + More(c) <= lines /\ Trigger(c) - 1 + Less(c) <= Lines
<1>1. PICK st \in Nat, en \in Nat, ad \in Nat, n \in Nat : st = c.start /\ en = c.end /\ ad = c.added /\ n = Lines
  BY DEF IsChange
<1>2. st >= 1 /\ en <= n /\ st <= en /\ (st = en => ad > 0) /\ n >= 1 /\ lines >= 1 /\ lines \in Nat
  BY <1>1 DEF IsChange
<1>3. PICK d \in Int : d = ad - (en - st)
  OBVIOUS
<1>4. Delta(c) = d
  BY <1>1, <1>3 DEF Delta
<1>5. lines = n + d
  BY <1>1, <1>4
<1>6. PICK t \in Nat : t = (IF d > 0 /\ c.from = "after" THEN st + 1 ELSE st)
  OBVIOUS
<1>7. Trigger(c) = t
  BY <1>1, <1>4, <1>6 DEF Trigger
<1>8. t = st \/ (t = st + 1 /\ d > 0)
  BY <1>6
<1>9. CASE d > 0
  <2>1. More(c) = d /\ Less(c) = 0
    BY <1>4, <1>9 DEF More, Less
  <2>2. t # 0 /\ d \in Nat /\ t <= lines /\ t - 1 + d <= lines /\ t - 1 + 0 <= n /\ d = d - 0
    BY <1>2, <1>5, <1>8, <1>9
  <2>3. QED
    BY <1>1, <1>2, <1>4, <1>7, <2>1, <2>2
<1>10. CASE d <= 0
  <2>1. More(c) = 0 /\ Less(c) = -d
    BY <1>4, <1>10 DEF More, Less
  <2>2. t # 0 /\ -d \in Nat /\ t <= lines /\ t - 1 + 0 <= lines /\ t - 1 + (-d) <= n /\ d = 0 - (-d)
    BY <1>2, <1>3, <1>5, <1>8, <1>10
  <2>3. QED
    BY <1>1, <1>2, <1>4, <1>7, <2>1, <2>2
<1>11. QED
  BY <1>9, <1>10

LEMMA OneLoop ==
    ASSUME NEW e, Len(e) = 1, NEW orig, NEW lines
    PROVE  Loop(e, orig, lines) = Step(orig, lines, Start, e[1]) /\ Added(e, 1) = 0 + Delta(e[1])
<1>1. PICK g : Rounds(g, e, orig, lines)
  BY LoopIs
<1>2. 1 \in 1..Len(e) /\ 1 - 1 = 0
  OBVIOUS
<1>3. g[1] = Step(orig, lines, Start, e[1]) /\ Loop(e, orig, lines) = g[1]
  BY <1>1, <1>2 DEF Rounds
<1>4. Added(e, 1) = Added(e, 0) + Delta(e[1]) /\ Added(e, 0) = 0
  BY <1>2, AddedIs
<1>5. QED
  BY <1>3, <1>4

LEMMA OneStep ==
    ASSUME EnoughNames, Named, Lines \in 1..MaxLines, NEW c, IsChange(c),
           NEW lines \in 1..MaxLines, lines = Lines + Delta(c),
           NEW orig \in Seq(Boxes), Len(orig) = IF lines > Lines THEN lines ELSE Lines
    PROVE  OneRound(Step(orig, lines, Start, c), orig, lines, c)
<1> DEFINE t == Trigger(c)
           r == Step(orig, lines, Start, c)
           head == Copied(orig, 0, t - 1)
           news == Fresh(Range(orig), More(c))
           last == Copied(orig, t - 1, Less(c))
<1>1. /\ t \in Nat \ {0} /\ More(c) \in Nat /\ Less(c) \in Nat /\ t <= lines
      /\ t - 1 + Less(c) <= Lines /\ lines \in Nat /\ Lines \in Nat
  BY OneNumbers
<1> HIDE DEF t
<1>2. t - 1 \in Nat /\ 0 + (t - 1) <= Len(orig) /\ t - 1 + Less(c) <= Len(orig)
  BY <1>1
<1>3. /\ head \in Seq(Boxes) /\ Len(head) = t - 1
      /\ \A k \in 1..(t - 1) : head[k] = orig[k]
  <2>1. PICK z \in Nat, i \in Nat : z = 0 /\ i = t - 1 /\ z + i <= Len(orig)
    BY <1>2
  <2>2. /\ Copied(orig, z, i) \in Seq(Boxes) /\ Len(Copied(orig, z, i)) = i
        /\ \A k \in 1..i : Copied(orig, z, i)[k] = orig[z + k] /\ z + k \in 1..Len(orig)
    BY <2>1, CopiedIs
  <2>3. \A k \in 1..i : z + k = k
    BY <2>1
  <2>4. head = Copied(orig, z, i)
    BY <2>1
  <2> HIDE DEF head
  <2>5. QED
    BY <2>1, <2>2, <2>3, <2>4
<1>4. /\ last \in Seq(Boxes) /\ Len(last) = Less(c)
      /\ \A k \in 1..Less(c) : last[k] = orig[t - 1 + k]
  <2>1. PICK z \in Nat, i \in Nat : z = t - 1 /\ i = Less(c) /\ z + i <= Len(orig)
    BY <1>1, <1>2
  <2>2. /\ Copied(orig, z, i) \in Seq(Boxes) /\ Len(Copied(orig, z, i)) = i
        /\ \A k \in 1..i : Copied(orig, z, i)[k] = orig[z + k] /\ z + k \in 1..Len(orig)
    <3>1. z + i <= Len(orig)
      BY <2>1
    <3>2. QED
      BY <3>1, CopiedIs
  <2>3. last = Copied(orig, z, i)
    BY <2>1
  <2> HIDE DEF last
  <2>4. QED
    BY <2>1, <2>2, <2>3
<1>5. news \in Seq(Boxes) /\ Len(news) = More(c)
  <2>1. IsFiniteSet(Range(orig))
    BY RangeFinite
  <2>2. QED
    BY <1>1, <2>1, FreshIs DEF Named
<1>6. r.list = head \o news /\ r.taken = t - 1 + Less(c) /\ r.gone = Range(last)
  <2>1. PICK none \in Seq(Boxes) : none = <<>>
    BY EmptySeq
  <2>2. Start = [stuck |-> FALSE, list |-> none, taken |-> 0, gone |-> {}] /\ Len(none) = 0
    BY <2>1 DEF Start
  <2>3. PICK s : s = Start
    OBVIOUS
  <2>4. s.stuck = FALSE /\ s.list = none /\ s.taken = 0 /\ s.gone = {}
    BY <2>2, <2>3
  <2>5. ~(s.stuck \/ t <= Len(s.list) \/ t > lines)
    BY <1>1, <2>2, <2>4
  <2>6. PICK count \in Nat : count = t - 1
    BY <1>2
  <2>7. PICK a : a = t - 1 - Len(s.list)
    OBVIOUS
  <2>8. a = count
    BY <1>1, <2>2, <2>4, <2>6, <2>7
  <2>9. PICK x : x = Taken(s.taken + a, c)
    OBVIOUS
  <2>10. x = count + Less(c)
    <3>1. PICK st \in Int, en \in Int, ad \in Int : st = c.start /\ en = c.end /\ ad = c.added
      BY DEF IsChange
    <3>2. PICK d \in Int : d = Delta(c) /\ d = ad - (en - st)
      BY <3>1 DEF Delta
    <3>3. PICK i : i = s.taken + a
      OBVIOUS
    <3>4. i = count
      BY <2>4, <2>8, <3>3
    <3>5. x = IF d < 0 THEN i + (en - st) - ad ELSE i
      BY <2>9, <3>1, <3>2, <3>3 DEF Taken
    <3>6. Less(c) = IF d < 0 THEN -d ELSE 0
      BY <3>2 DEF Less
    <3>7. QED
      BY <3>2, <3>4, <3>5, <3>6
  <2>11. PICK y : y = Fresh(Range(orig) \cup Range(s.list), More(c))
    OBVIOUS
  <2>12. y = news
    <3>1. \A z : z \notin Range(none)
      <4>1. \A z : z \in Range(none) <=> \E i \in 1..Len(none) : z = none[i]
        BY RangeIs
      <4>2. 1..0 = {}
        OBVIOUS
      <4>3. QED
        BY <2>2, <4>1, <4>2
    <3>2. Range(orig) \cup Range(s.list) = Range(orig)
      BY <2>4, <3>1
    <3>3. QED
      BY <2>11, <3>2
  <2> DEFINE q == Step(orig, lines, s, c)
  <2>13. q = [stuck |-> FALSE, list |-> s.list \o Copied(orig, s.taken, a) \o y, taken |-> x,
              gone |-> s.gone \cup Range(Copied(orig, s.taken + a, x - s.taken - a))]
    BY <2>5, <2>7, <2>9, <2>11 DEF Step, More, t
  <2> HIDE DEF q
  <2>14. q.list = s.list \o Copied(orig, s.taken, a) \o y /\ q.taken = x
         /\ q.gone = s.gone \cup Range(Copied(orig, s.taken + a, x - s.taken - a))
    BY <2>13
  <2>15. q.list = head \o news
    <3>1. Copied(orig, s.taken, a) = head
      BY <2>4, <2>6, <2>8
    <3>2. s.list \o head = head
      BY <1>3, <2>1, <2>4, ConcatEmptySeq
    <3>3. QED
      BY <2>12, <2>14, <3>1, <3>2
  <2>16. q.gone = Range(last)
    <3>1. s.taken + a = t - 1 /\ x - s.taken - a = Less(c)
      BY <1>1, <2>4, <2>6, <2>8, <2>10
    <3>2. QED
      BY <2>4, <2>14, <3>1
  <2>17. QED
    BY <2>3, <2>6, <2>10, <2>14, <2>15, <2>16 DEF q
<1> HIDE DEF r, head, news, last
<1>7. r.list \in Seq(Boxes) /\ ConcatIs(r.list, head, news)
  BY <1>3, <1>5, <1>6, ConcatElements
<1>8. Len(r.list) = t - 1 + More(c) /\ \A k \in 1..(t - 1) : r.list[k] = orig[k]
  BY <1>3, <1>5, <1>7 DEF ConcatIs
<1>9. r.gone = {orig[k] : k \in t..(t - 1 + Less(c))}
  <2>1. \A z : z \in Range(last) <=> \E k \in 1..Less(c) : z = last[k]
    BY <1>4, RangeIs
  <2>2. \A k \in 1..Less(c) : t - 1 + k \in t..(t - 1 + Less(c))
    BY <1>1
  <2>3. \A k \in t..(t - 1 + Less(c)) : k - (t - 1) \in 1..Less(c) /\ t - 1 + (k - (t - 1)) = k
    BY <1>1
  <2>4. ASSUME NEW z, z \in Range(last) PROVE z \in {orig[k] : k \in t..(t - 1 + Less(c))}
    BY <1>4, <2>1, <2>2, <2>4
  <2>5. ASSUME NEW k \in t..(t - 1 + Less(c)) PROVE orig[k] \in Range(last)
    <3>1. last[k - (t - 1)] = orig[k]
      BY <1>4, <2>3
    <3>2. QED
      BY <2>1, <2>3, <3>1
  <2>6. QED
    BY <1>6, <2>4, <2>5
<1>10. QED
  BY <1>6, <1>7, <1>8, <1>9 DEF OneRound, r, t

(* The list after an event of one change. *)
OneEdit(new, c) ==
    /\ new \in Seq(Boxes) /\ Len(new) = Lines + Delta(c)
    /\ \A k \in 1..Len(new) : k < Trigger(c) => k \in 1..Lines /\ new[k] = boxes[k]
    /\ \A k \in 1..Len(new) : k >= Trigger(c) + More(c) =>
           k - Delta(c) \in 1..Lines /\ new[k] = boxes[k - Delta(c)]

LEMMA OneChange ==
    ASSUME EnoughNames, Named, Lines \in 1..MaxLines, Len(boxes) = Lines,
           NEW e, NEW lines, EventIs(e, lines), Len(e) = 1, AddRemoveBoxes(e, lines)
    PROVE  /\ OneEdit(boxes', e[1]) /\ lines = Lines + Delta(e[1]) /\ ~thrown'
           /\ showing' = showing \ {boxes[k] : k \in Trigger(e[1])..(Trigger(e[1]) - 1 + Less(e[1]))}
<1> DEFINE c == e[1]
           orig == Padded(boxes, lines)
           s == Loop(e, orig, lines)
           n == Missing(s.list, lines)
           rest == Copied(orig, s.taken, n)
<1>1. IsChange(c) /\ lines = Lines + Added(e, 1) /\ lines \in 1..MaxLines
  <2>1. 1 \in 1..Len(e)
    OBVIOUS
  <2>2. QED
    BY <2>1 DEF EventIs
<1>2. lines = Lines + Delta(c)
  <2>1. Added(e, 1) = 0 + Delta(c)
    BY OneLoop
  <2>2. 0 + Delta(c) = Delta(c)
    BY <1>1 DEF IsChange, Delta
  <2>3. QED
    BY <1>1, <2>1, <2>2
<1> HIDE DEF c
<1>21. PICK t \in Nat, up \in Nat, down \in Nat, d \in Int, N \in Nat :
          t = Trigger(c) /\ up = More(c) /\ down = Less(c) /\ d = Delta(c) /\ N = Lines
  BY <1>1, <1>2, OneNumbers
<1>3. t # 0 /\ lines \in Nat /\ d = up - down /\ t <= lines /\ t - 1 + up <= lines /\ t - 1 + down <= N /\ lines = N + d
  BY <1>1, <1>2, <1>21, OneNumbers
<1>4. PaddedIs(orig, boxes, lines)
  BY <1>3, PaddedList DEF Named, Listed
<1>5. boxes' = s.list \o rest /\ showing' = showing \ s.gone /\ thrown' = (0 \in Range(boxes') \cup s.gone)
  BY DEF AddRemoveBoxes
<1>6. s = Step(orig, lines, Start, c)
  BY OneLoop DEF c
<1> HIDE DEF orig, s, n, rest
<1>7. /\ orig \in Seq(Boxes) /\ Len(orig) = IF lines > N THEN lines ELSE N
      /\ \A i \in 1..N : orig[i] = boxes[i]
  BY <1>4, <1>21 DEF PaddedIs
<1>8. OneRound(s, orig, lines, c)
  BY <1>1, <1>2, <1>6, <1>7, <1>21, OneStep
<1>9. /\ s.list \in Seq(Boxes) /\ Len(s.list) = t - 1 + up /\ s.taken = t - 1 + down
      /\ \A k \in 1..(t - 1) : s.list[k] = orig[k]
      /\ s.gone = {orig[k] : k \in t..(t - 1 + down)}
  BY <1>8, <1>21 DEF OneRound
<1>10. n \in Nat /\ n = lines - (t - 1 + up) /\ s.taken \in Nat /\ s.taken + n = N
  <2>1. PICK l \in Nat : l = t - 1 + up /\ l = Len(s.list)
    BY <1>3, <1>9, SMTT(20)
  <2>2. n = IF lines > l THEN lines - l ELSE 0
    BY <2>1 DEF n, Missing
  <2>3. n = lines - l /\ n \in Nat
    <3>1. l <= lines
      BY <1>3, <2>1
    <3>2. PICK x \in Int : x = lines - l
      BY <1>3
    <3>3. n = x /\ x \in Nat
      BY <1>3, <2>2, <3>1, <3>2
    <3>4. QED
      BY <3>2, <3>3
  <2>4. s.taken \in Nat /\ s.taken + n = N
    <3>1. PICK x \in Nat : x = t - 1 + down /\ x = s.taken
      BY <1>3, <1>9
    <3>2. x + n = N
      BY <1>3, <2>1, <2>3, <3>1
    <3>3. QED
      BY <3>1, <3>2
  <2>5. QED
    BY <2>1, <2>3, <2>4
<1>11. /\ rest \in Seq(Boxes) /\ Len(rest) = n
       /\ \A k \in 1..n : rest[k] = orig[s.taken + k]
  <2>1. s.taken + n <= Len(orig)
    <3>1. PICK x \in Nat : x = Len(orig)
      BY <1>7, RangeIs
    <3>2. N <= x
      BY <1>3, <1>7, <3>1
    <3>3. QED
      BY <1>10, <3>1, <3>2
  <2>2. s.taken \in Nat /\ n \in Nat /\ orig \in Seq(Boxes)
    BY <1>7, <1>10
  <2>3. PICK x \in Nat, m \in Nat : x = s.taken /\ m = n
    BY <2>2
  <2>4. x + m <= Len(orig)
    BY <2>1, <2>3
  <2>5. /\ Copied(orig, x, m) \in Seq(Boxes) /\ Len(Copied(orig, x, m)) = m
        /\ \A k \in 1..m : Copied(orig, x, m)[k] = orig[x + k] /\ x + k \in 1..Len(orig)
    BY <2>2, <2>4, CopiedIs
  <2>6. rest = Copied(orig, x, m)
    BY <2>3 DEF rest
  <2>7. QED
    BY <2>3, <2>5, <2>6
<1>12. boxes' \in Seq(Boxes) /\ ConcatIs(boxes', s.list, rest)
  BY <1>5, <1>9, <1>11, ConcatElements
<1>13. Len(boxes') = lines
  <2>1. Len(boxes') = Len(s.list) + Len(rest)
    BY <1>12 DEF ConcatIs
  <2>2. PICK l \in Nat : l = t - 1 + up /\ l = Len(s.list)
    BY <1>3, <1>9, SMTT(20)
  <2>3. l + n = lines
    BY <1>3, <1>10, <2>2
  <2>4. QED
    BY <1>11, <2>1, <2>2, <2>3
<1>14. ASSUME NEW k \in 1..lines, k < t PROVE k \in 1..N /\ boxes'[k] = boxes[k]
  <2>1. k \in 1..(t - 1) /\ k \in 1..Len(s.list) /\ k \in 1..N
    BY <1>3, <1>9, <1>14
  <2>2. QED
    BY <1>7, <1>9, <1>12, <2>1 DEF ConcatIs
<1>15. ASSUME NEW k \in 1..lines, k >= t + up
       PROVE  k - d \in 1..N /\ boxes'[k] = boxes[k - d]
  <2>1. PICK l \in Nat : l = t - 1 + up /\ l = Len(s.list)
    BY <1>3, <1>9
  <2>2. k - l \in 1..n /\ l + (k - l) = k
    BY <1>3, <1>10, <1>15, <2>1
  <2>3. s.taken + (k - l) = k - d /\ k - d \in 1..N
    <3>1. PICK x \in Nat : x = t - 1 + down /\ x = s.taken
      BY <1>3, <1>9, SMTT(20)
    <3>2. x + (k - l) = k - d /\ k - d \in 1..N
      BY <1>3, <1>15, <2>1, <3>1
    <3>3. QED
      BY <3>1, <3>2
  <2>4. boxes'[k] = rest[k - l]
    BY <1>11, <1>12, <2>1, <2>2 DEF ConcatIs
  <2>5. QED
    BY <1>7, <1>11, <2>2, <2>3, <2>4
<1>16. s.gone = {boxes[k] : k \in t..(t - 1 + down)} /\ s.gone \subseteq Boxes
  <2>1. \A k \in t..(t - 1 + down) : k \in 1..N
    BY <1>3
  <2>2. \A k \in t..(t - 1 + down) : orig[k] = boxes[k]
    BY <1>7, <2>1
  <2>3. \A k \in 1..N : boxes[k] \in Boxes
    BY <1>21, RangeIs DEF Named
  <2>4. QED
    BY <1>9, <2>1, <2>2, <2>3
<1>17. ~thrown'
  <2>1. 0 \notin Range(boxes') \cup s.gone
    BY <1>12, <1>16, RangeIs, NoBoxIsZero
  <2>2. QED
    BY <1>5, <2>1, Zenon
<1>18. OneEdit(boxes', c)
  BY <1>2, <1>12, <1>13, <1>14, <1>15, <1>21 DEF OneEdit
<1>19. showing' = showing \ {boxes[k] : k \in t..(t - 1 + down)}
  BY <1>5, <1>16
<1>20. QED
  BY <1>2, <1>17, <1>18, <1>19, <1>21 DEF c

(* A line that the change is not about keeps its box. *)
LEMMA OneKeeps ==
    ASSUME Lines \in 1..MaxLines, NEW c, IsChange(c), own = boxes, boxes \in Seq(Boxes),
           NEW lines \in 1..MaxLines, lines = Lines + Delta(c),
           NEW new, OneEdit(new, c), NEW k \in 1..lines, Replaced(c, own)[k] # 0
    PROVE  Replaced(c, own)[k] = new[k]
<1>1. PICK st \in Nat, en \in Nat, ad \in Nat, N \in Nat : st = c.start /\ en = c.end /\ ad = c.added /\ N = Lines
  BY DEF IsChange
<1>2. st >= 1 /\ en <= N /\ st <= en /\ (st = en => ad > 0) /\ N >= 1 /\ lines \in Nat
  BY <1>1 DEF IsChange
<1>3. PICK d \in Int : d = ad - (en - st)
  OBVIOUS
<1>4. Delta(c) = d
  BY <1>1, <1>3 DEF Delta
<1>5. lines = N + d
  BY <1>1, <1>4
<1>6. PICK t \in Nat : t = (IF d > 0 /\ c.from = "after" THEN st + 1 ELSE st)
  OBVIOUS
<1>7. Trigger(c) = t
  BY <1>1, <1>4, <1>6 DEF Trigger
<1>8. PICK up \in Nat : up = (IF d > 0 THEN d ELSE 0)
  OBVIOUS
<1>9. More(c) = up
  BY <1>4, <1>8 DEF More
<1>10. /\ Len(new) = lines
       /\ (k < t => k \in 1..N /\ new[k] = boxes[k])
       /\ (k >= t + up => k - d \in 1..N /\ new[k] = boxes[k - d])
  BY <1>1, <1>4, <1>7, <1>9 DEF OneEdit
<1> DEFINE old == IF k < st THEN boxes[k] ELSE IF k > st + ad THEN boxes[k - d] ELSE Replacing(c, boxes, k)
<1>11. Replaced(c, own)[k] = old
  <2>1. Len(own) = N
    BY <1>1 DEF Lines
  <2>2. k \in 1..(Len(own) + Delta(c))
    BY <1>4, <1>5, <2>1
  <2>3. Replaced(c, own)[k] = IF k < c.start THEN own[k] ELSE IF k > c.start + c.added THEN own[k - Delta(c)] ELSE Replacing(c, own, k)
    BY <2>2 DEF Replaced
  <2>4. QED
    BY <1>1, <1>4, <2>3
<1>12. Replacing(c, boxes, k) = IF k = st /\ c.from = "after" /\ d >= 0 THEN boxes[st]
                                ELSE IF k = st + ad /\ c.from = "before" /\ st = en THEN boxes[en] ELSE 0
  BY <1>1, <1>4 DEF Replacing
<1>13. CASE k < st
  <2>1. k < t
    BY <1>6, <1>13
  <2>2. QED
    BY <1>10, <1>11, <1>13, <2>1
<1>14. CASE k > st + ad
  <2>1. k >= t + up /\ ~(k < st)
    BY <1>2, <1>3, <1>6, <1>8, <1>14
  <2>2. QED
    BY <1>10, <1>11, <1>14, <2>1
<1>15. CASE ~(k < st) /\ ~(k > st + ad)
  <2>1. Replacing(c, boxes, k) # 0 /\ Replaced(c, own)[k] = Replacing(c, boxes, k)
    BY <1>11, <1>15
  <2>2. CASE k = st /\ c.from = "after" /\ d >= 0
    <3>1. Replacing(c, boxes, k) = boxes[k]
      BY <1>12, <2>2
    <3>2. k < t \/ (k >= t + up /\ k - d = k)
      BY <1>3, <1>6, <1>8, <2>2
    <3>3. QED
      BY <1>10, <2>1, <3>1, <3>2
  <2>3. CASE ~(k = st /\ c.from = "after" /\ d >= 0) /\ k = st + ad /\ c.from = "before" /\ st = en
    <3>1. Replacing(c, boxes, k) = boxes[en]
      BY <1>12, <2>3
    <3>2. k >= t + up /\ k - d = en
      BY <1>3, <1>6, <1>8, <2>3
    <3>3. QED
      BY <1>10, <2>1, <3>1, <3>2
  <2>4. QED
    BY <1>12, <2>1, <2>2, <2>3
<1>16. QED
  BY <1>13, <1>14, <1>15

(* A change that takes lines away loses only the boxes it destroys. *)
LEMMA OneShorter ==
    ASSUME Lines \in 1..MaxLines, Len(boxes) = Lines, boxes \in Seq(Boxes), Distinct(boxes),
           NEW c, IsChange(c), Delta(c) < 0, NEW lines \in 1..MaxLines, lines = Lines + Delta(c),
           NEW new, OneEdit(new, c)
    PROVE  /\ Distinct(new)
           /\ Listed \ {boxes[k] : k \in Trigger(c)..(Trigger(c) - 1 + Less(c))} \subseteq Range(new)
<1>1. PICK t \in Nat, less \in Nat, d \in Int, N \in Nat :
         t = Trigger(c) /\ less = Less(c) /\ d = Delta(c) /\ N = Lines
  BY OneNumbers
<1>2. More(c) = 0 /\ less = -d /\ lines \in Nat /\ lines = N + d /\ t # 0 /\ d < 0
  <2>1. More(c) = 0
    BY <1>1 DEF More
  <2>2. Less(c) = -d
    BY <1>1 DEF Less
  <2>3. Trigger(c) # 0 /\ lines \in Nat
    BY OneNumbers
  <2>4. QED
    BY <1>1, <2>1, <2>2, <2>3
<1>3. /\ new \in Seq(Boxes) /\ Len(new) = lines
      /\ \A k \in 1..lines : k < t => k \in 1..N /\ new[k] = boxes[k]
      /\ \A k \in 1..lines : k >= t => k - d \in 1..N /\ new[k] = boxes[k - d]
  <2>1. t + More(c) = t
    BY <1>2
  <2>2. QED
    BY <1>1, <1>2, <2>1 DEF OneEdit
<1>4. \A k \in 1..lines : \E i \in 1..N : new[k] = boxes[i] /\ ((k < t /\ i = k) \/ (k >= t /\ i = k - d))
  BY <1>2, <1>3
<1>5. ASSUME NEW i \in 1..lines, NEW j \in 1..lines, new[i] = new[j] PROVE i = j
  <2>1. PICK a \in 1..N : new[i] = boxes[a] /\ ((i < t /\ a = i) \/ (i >= t /\ a = i - d))
    BY <1>4
  <2>2. PICK b \in 1..N : new[j] = boxes[b] /\ ((j < t /\ b = j) \/ (j >= t /\ b = j - d))
    BY <1>4
  <2>3. a = b
    BY <1>1, <1>5, <2>1, <2>2 DEF Distinct
  <2>4. QED
    BY <1>2, <2>1, <2>2, <2>3
<1>6. Distinct(new)
  BY <1>3, <1>5 DEF Distinct
<1>7. ASSUME NEW x, x \in Listed, x \notin {boxes[k] : k \in t..(t - 1 + less)} PROVE x \in Range(new)
  <2>1. PICK i \in 1..N : x = boxes[i]
    BY <1>1, <1>7, RangeIs DEF Listed
  <2>2. i \notin t..(t - 1 + less)
    BY <1>7, <2>1
  <2>3. CASE i < t
    <3>1. i \in 1..lines
      BY <1>1, <1>2, <2>2, <2>3, OneNumbers
    <3>2. new[i] = x
      BY <1>3, <2>1, <2>3, <3>1
    <3>3. QED
      BY <1>3, <3>1, <3>2, RangeIs
  <2>4. CASE i >= t
    <3>1. i + d \in 1..lines /\ i + d >= t /\ i + d - d = i
      BY <1>2, <2>2, <2>4
    <3>2. new[i + d] = x
      BY <1>3, <2>1, <3>1
    <3>3. QED
      BY <1>3, <3>1, <3>2, RangeIs
  <2>5. QED
    BY <2>3, <2>4
<1>8. QED
  BY <1>1, <1>6, <1>7

-----------------------------------------------------------------------------
(***************************************************************************)
(* The invariant.  Between Disable and Enable a fragment only adds lines,  *)
(* so that there are boxes for the first of them at most.                  *)
(***************************************************************************)

(* Events whose changes may take lines away and add some are left out: for    *)
(* them addRemoveBoxes does come upon an undefined box.                       *)
NoAny == \A S \in Sessions : "any" \notin S

IInv ==
    /\ TypeOK
    /\ IsFiniteSet(showing)
    /\ Distinct(boxes)
    /\ LineKeepsBox
    /\ ~enabled => Len(boxes) <= Lines
    /\ OrphansShowNothing

LEMMA InitInv == Init => IInv
<1> SUFFICES ASSUME Init PROVE IInv
  OBVIOUS
<1>1. MaxLines \in Nat /\ 1..MaxLines \subseteq Boxes
  BY ListAssumption
<1>2. PICK n \in 1..MaxLines : boxes = Same(n)
  BY DEF Init
<1>3. boxes = [k \in 1..n |-> k]
  BY <1>2 DEF Same
<1>4. boxes \in [1..n -> Boxes] /\ n \in Nat
  BY <1>1, <1>3
<1>5. boxes \in Seq(Boxes) /\ Len(boxes) = n
  BY <1>4, FunctionIsSeq
<1>6. own = boxes /\ showing = {} /\ enabled = TRUE /\ thrown = FALSE /\ events \in Sessions
  BY DEF Init
<1>7. own \in Seq(Boxes \cup {0})
  <2>1. boxes \in [1..n -> Boxes \cup {0}]
    BY <1>4
  <2>2. QED
    BY <1>4, <1>6, <2>1, FunctionIsSeq
<1>8. TypeOK
  BY <1>5, <1>6, <1>7 DEF TypeOK, Lines
<1>9. Distinct(boxes)
  BY <1>3, <1>5 DEF Distinct
<1>10. QED
  BY <1>6, <1>8, <1>9, FS_EmptySet DEF IInv, LineKeepsBox, OrphansShowNothing

LEMMA InvNamed ==
    ASSUME IInv
    PROVE  /\ Named /\ Lines \in 1..MaxLines /\ Lines \in Nat /\ Len(boxes) \in Nat
           /\ enabled => own = boxes /\ Len(boxes) = Lines
<1>1. MaxLines \in Nat
  BY ListAssumption
<1>2. Lines \in 1..MaxLines /\ Named /\ (enabled => own = boxes)
  BY DEF IInv, TypeOK, Named, LineKeepsBox
<1>3. Lines \in Nat
  BY <1>1, <1>2
<1>4. Len(boxes) \in Nat
  BY <1>2, RangeIs DEF Named
<1>5. QED
  BY <1>2, <1>3, <1>4 DEF Lines

LEMMA SeqOf ==
    ASSUME NEW s \in Seq(Boxes)
    PROVE  s \in Seq(Boxes \cup {0})
<1>1. Len(s) \in Nat /\ s \in [1..Len(s) -> Boxes]
  BY LenProperties
<1>2. s \in [1..Len(s) -> Boxes \cup {0}]
  BY <1>1
<1>3. QED
  BY <1>1, <1>2, FunctionIsSeq

(* What an event keeps, with a list of boxes for the lines that there are now. *)
LEMMA ListStays ==
    ASSUME IInv, enabled, UNCHANGED <<enabled, events>>, NEW lines \in 1..MaxLines,
           boxes' \in Seq(Boxes), Len(boxes') = lines, Distinct(boxes'), own' = boxes', ~thrown',
           showing' \subseteq showing,
           "model" \notin events => showing' \subseteq Range(boxes')
    PROVE  IInv'
<1>1. own' \in Seq(Boxes \cup {0})
  BY SeqOf
<1>2. showing' \subseteq Boxes /\ IsFiniteSet(showing')
  BY FS_Subset DEF IInv, TypeOK
<1>3. Lines' = lines
  BY DEF Lines
<1>4. TypeOK'
  BY <1>1, <1>2, <1>3 DEF IInv, TypeOK
<1>5. Distinct(boxes)'
  BY DEF Distinct
<1>6. LineKeepsBox' /\ OrphansShowNothing'
  BY DEF LineKeepsBox, OrphansShowNothing, Listed
<1>7. QED
  BY <1>2, <1>4, <1>5, <1>6 DEF IInv

LEMMA ContentInv ==
    ASSUME EnoughNames, NoAny, IInv, NEW e \in MayCome[Lines], OnDidChangeModelContent(e), UNCHANGED events
    PROVE  IInv'
<1> DEFINE lines == Lines + Added(e, Len(e))
           c == e[1]
<1>1. Named /\ Lines \in 1..MaxLines /\ own = boxes /\ Len(boxes) = Lines /\ enabled
  BY InvNamed DEF OnDidChangeModelContent
<1>2. EventIs(e, lines)
  BY <1>1, MayComeIs
<1>3. /\ AddRemoveBoxes(e, lines) /\ Allowed(e) /\ UNCHANGED enabled
      /\ own' = [k \in 1..lines |-> IF Len(e) = 1 /\ Replaced(c, own)[k] # 0 THEN Replaced(c, own)[k] ELSE boxes'[k]]
  BY DEF OnDidChangeModelContent
<1>4. "any" \notin events
  BY DEF IInv, TypeOK, NoAny
<1>5. Len(e) = 1 \/ \A k \in 1..Len(e) : Delta(e[k]) >= 0
  BY <1>3, <1>4 DEF Allowed
<1> HIDE DEF lines
<1>6. lines \in 1..MaxLines /\ lines \in Nat
  BY <1>2, ListAssumption DEF EventIs
<1>7. boxes \in Seq(Boxes) /\ Distinct(boxes)
  BY <1>1 DEF Named
<1>8. /\ boxes' \in Seq(Boxes) /\ Len(boxes') = lines /\ Distinct(boxes') /\ ~thrown'
      /\ showing' \subseteq showing
      /\ "model" \notin events => showing' \subseteq Range(boxes')
  <2>1. CASE \A k \in 1..Len(e) : Delta(e[k]) \in Nat
    <3>1. /\ boxes' \in Seq(Boxes) /\ Len(boxes') = lines /\ Distinct(boxes')
          /\ Listed \subseteq Range(boxes') /\ showing' = showing /\ ~thrown'
      BY <1>1, <1>2, <1>3, <2>1, AddsEdit
    <3>2. "model" \notin events => showing \subseteq Listed
      BY DEF IInv, OrphansShowNothing
    <3>3. QED
      BY <3>1, <3>2
  <2>2. CASE Len(e) = 1 /\ Delta(c) < 0
    <3>1. 1 \in 1..Len(e)
      BY <2>2
    <3>2. IsChange(c)
      BY <1>2, <3>1 DEF EventIs
    <3>3. /\ OneEdit(boxes', c) /\ lines = Lines + Delta(c) /\ ~thrown'
          /\ showing' = showing \ {boxes[k] : k \in Trigger(c)..(Trigger(c) - 1 + Less(c))}
      BY <1>1, <1>2, <1>3, <2>2, OneChange
    <3>4. /\ Distinct(boxes')
          /\ Listed \ {boxes[k] : k \in Trigger(c)..(Trigger(c) - 1 + Less(c))} \subseteq Range(boxes')
      BY <1>1, <1>6, <1>7, <2>2, <3>2, <3>3, OneShorter
    <3>5. boxes' \in Seq(Boxes) /\ Len(boxes') = lines
      BY <3>3 DEF OneEdit
    <3>6. "model" \notin events => showing \subseteq Listed
      BY DEF IInv, OrphansShowNothing
    <3>7. QED
      BY <3>3, <3>4, <3>5, <3>6
  <2>3. \A k \in 1..Len(e) : Delta(e[k]) \in Int
    BY <1>2 DEF EventIs, IsChange, Delta
  <2>4. CASE \A k \in 1..Len(e) : Delta(e[k]) >= 0
    BY <2>1, <2>3, <2>4
  <2>5. CASE Len(e) = 1 /\ ~(Delta(c) < 0)
    <3>1. \A k \in 1..Len(e) : k = 1
      BY <2>5
    <3>2. \A k \in 1..Len(e) : Delta(e[k]) >= 0
      BY <2>3, <2>5, <3>1
    <3>3. QED
      BY <2>4, <3>2
  <2>6. QED
    BY <1>5, <2>2, <2>4, <2>5
<1>9. own' = boxes'
  <2>1. ASSUME NEW k \in 1..lines, Len(e) = 1, Replaced(c, own)[k] # 0 PROVE Replaced(c, own)[k] = boxes'[k]
    <3>1. 1 \in 1..Len(e)
      BY <2>1
    <3>2. IsChange(c)
      BY <1>2, <3>1 DEF EventIs
    <3>3. OneEdit(boxes', c) /\ lines = Lines + Delta(c)
      BY <1>1, <1>2, <1>3, <2>1, OneChange
    <3>4. QED
      BY <1>1, <1>6, <1>7, <2>1, <3>2, <3>3, OneKeeps
  <2>2. own' = [k \in 1..lines |-> boxes'[k]]
    BY <1>3, <2>1
  <2>3. boxes' = [k \in 1..lines |-> boxes'[k]]
    BY <1>8
  <2>4. QED
    BY <2>2, <2>3
<1>10. QED
  BY <1>1, <1>3, <1>6, <1>8, <1>9, ListStays

LEMMA UpdateInv ==
    ASSUME IInv, UpdateContent, UNCHANGED events
    PROVE  IInv'
<1>1. Named /\ Lines \in 1..MaxLines
  BY InvNamed
<1>2. PICK S \in {Listed, {}} : showing' = S \cup (showing \ Listed)
  BY DEF UpdateContent
<1>3. IsFiniteSet(Listed) /\ Listed \subseteq Boxes
  BY <1>1, RangeFinite DEF Listed, Named
<1>4. IsFiniteSet(showing') /\ showing' \subseteq Boxes
  <2>1. showing' \subseteq Listed \cup showing /\ showing \subseteq Boxes
    BY <1>2 DEF IInv, TypeOK
  <2>2. IsFiniteSet(Listed \cup showing)
    BY <1>3, FS_Union DEF IInv
  <2>3. QED
    BY <1>3, <2>1, <2>2, FS_Subset
<1>5. UNCHANGED <<boxes, enabled, thrown, own, events>>
  BY DEF UpdateContent
<1>6. TypeOK'
  BY <1>4, <1>5 DEF IInv, TypeOK, Lines
<1>7. OrphansShowNothing'
  BY <1>2, <1>5 DEF IInv, OrphansShowNothing, Listed
<1>8. QED
  BY <1>4, <1>5, <1>6, <1>7 DEF IInv, LineKeepsBox, Distinct, Lines

LEMMA DisableInv ==
    ASSUME IInv, Disable, UNCHANGED events
    PROVE  IInv'
<1>1. UNCHANGED <<boxes, showing, thrown, own, events>> /\ enabled' = FALSE
  BY DEF Disable
<1>2. Len(boxes) <= Lines
  BY InvNamed DEF Disable
<1>3. QED
  BY <1>1, <1>2 DEF IInv, TypeOK, LineKeepsBox, OrphansShowNothing, Distinct, Lines, Listed

LEMMA InsertInv ==
    ASSUME IInv, InsertFragment, UNCHANGED events
    PROVE  IInv'
<1>1. own \in Seq(Boxes \cup {0}) /\ Lines \in 1..MaxLines /\ Lines \in Nat /\ Len(boxes) \in Nat /\ MaxLines \in Nat
  BY InvNamed, ListAssumption DEF Named
<1>2. PICK c \in Changes : c.start = c.end /\ c.end <= Lines /\ Lines + c.added <= MaxLines /\ own' = Replaced(c, own)
  BY DEF InsertFragment
<1>3. c.start \in 1..MaxLines /\ c.end \in 1..MaxLines /\ c.added \in 0..MaxAdded /\ c.added > 0 /\ MaxAdded \in Nat
  BY <1>2, ListAssumption DEF Changes
<1>4. PICK st \in Nat, ad \in Nat, N \in Nat : st = c.start /\ st = c.end /\ ad = c.added /\ N = Lines /\ st >= 1 /\ st <= N /\ ad > 0
  BY <1>1, <1>2, <1>3
<1>5. Delta(c) = ad
  BY <1>4 DEF Delta
<1>6. \A i \in 1..N : own[i] \in Boxes \cup {0}
  BY <1>1, <1>4, ElementOfSeq DEF Lines
<1>7. own' = [k \in 1..(N + ad) |->
                 IF k < st THEN own[k] ELSE IF k > st + ad THEN own[k - ad] ELSE Replacing(c, own, k)]
  <2>1. Len(own) = N
    BY <1>4 DEF Lines
  <2>2. QED
    BY <1>2, <1>4, <1>5, <2>1 DEF Replaced
<1>8. ASSUME NEW k \in 1..(N + ad)
      PROVE  (IF k < st THEN own[k] ELSE IF k > st + ad THEN own[k - ad] ELSE Replacing(c, own, k)) \in Boxes \cup {0}
  <2>1. k < st => k \in 1..N
    BY <1>4
  <2>2. k > st + ad => k - ad \in 1..N
    BY <1>4
  <2>3. st \in 1..N
    BY <1>4
  <2>4. Replacing(c, own, k) \in {own[st], 0}
    BY <1>4 DEF Replacing
  <2>5. QED
    BY <1>6, <2>1, <2>2, <2>3, <2>4
<1>9. own' \in [1..(N + ad) -> Boxes \cup {0}]
  BY <1>7, <1>8
<1>10. own' \in Seq(Boxes \cup {0}) /\ Len(own') = N + ad
  <2>1. N + ad \in Nat
    OBVIOUS
  <2>2. QED
    BY <1>9, <2>1, FunctionIsSeq
<1>11. Lines' \in 1..MaxLines /\ Len(boxes) <= Lines'
  <2>1. Lines' = N + ad
    BY <1>10 DEF Lines
  <2>2. PICK l \in Nat : l = Len(boxes)
    BY <1>1
  <2>3. l <= N
    BY <1>4, <2>2 DEF IInv, InsertFragment
  <2>4. N + ad \in 1..MaxLines /\ l <= N + ad
    BY <1>1, <1>2, <1>4, <2>3
  <2>5. QED
    BY <2>1, <2>2, <2>4
<1>12. UNCHANGED <<boxes, showing, enabled, thrown, events>> /\ ~enabled
  BY DEF InsertFragment
<1>13. QED
  BY <1>10, <1>11, <1>12 DEF IInv, TypeOK, LineKeepsBox, OrphansShowNothing, Distinct, Listed

(* The boxes of a text are its lines' own, as far as there are lines. *)
LEMMA CopiedAll ==
    ASSUME NEW s \in Seq(Boxes)
    PROVE  Copied(s, 0, Len(s)) = s
<1>1. Len(s) \in Nat /\ DOMAIN s = 1..Len(s)
  BY LenProperties
<1>2. \A k \in 1..Len(s) : 0 + k = k
  BY <1>1
<1>3. Copied(s, 0, Len(s)) = [k \in 1..Len(s) |-> s[k]]
  BY <1>1, <1>2 DEF Copied
<1>4. QED
  BY <1>1, <1>3

LEMMA EnableInv ==
    ASSUME EnoughNames, IInv, Enable, UNCHANGED events
    PROVE  IInv'
<1>1. Named /\ Lines \in 1..MaxLines /\ Lines \in Nat /\ Len(boxes) \in Nat /\ MaxLines \in Nat
  BY InvNamed, ListAssumption
<1>2. boxes' = Padded(boxes, Lines) /\ own' = Copied(boxes', 0, Lines) /\ enabled' = TRUE
      /\ UNCHANGED <<showing, thrown, events>>
  BY DEF Enable, PadBoxArray
<1>3. PaddedIs(boxes', boxes, Lines)
  BY <1>1, <1>2, PaddedList DEF Named, Listed
<1>4. Len(boxes) <= Lines
  BY DEF IInv, Enable
<1>5. boxes' \in Seq(Boxes) /\ Distinct(boxes') /\ Len(boxes') = Lines /\ \A i \in 1..Len(boxes) : boxes'[i] = boxes[i]
  BY <1>1, <1>3, <1>4 DEF PaddedIs
<1>6. own' = boxes'
  BY <1>2, <1>5, CopiedAll
<1>7. own' \in Seq(Boxes \cup {0})
  BY <1>5, <1>6, SeqOf
<1>8. Lines' = Lines
  BY <1>5, <1>6 DEF Lines
<1>9. TypeOK'
  BY <1>2, <1>5, <1>7, <1>8 DEF IInv, TypeOK
<1>10. Listed \subseteq Range(boxes')
  <2>1. \A i \in 1..Len(boxes) : i \in 1..Len(boxes')
    BY <1>1, <1>4, <1>5
  <2>2. \A i \in 1..Len(boxes) : boxes[i] \in Range(boxes')
    BY <1>5, <2>1, RangeIs
  <2>3. QED
    BY <1>1, <2>2, RangeIs DEF Listed, Named
<1>11. OrphansShowNothing'
  BY <1>2, <1>10 DEF IInv, OrphansShowNothing, Listed
<1>12. Distinct(boxes)'
  BY <1>5 DEF Distinct
<1>13. QED
  BY <1>2, <1>6, <1>9, <1>11, <1>12 DEF IInv, LineKeepsBox

LEMMA ModelInv ==
    ASSUME EnoughNames, IInv, OnDidChangeModel, UNCHANGED events
    PROVE  IInv'
<1>1. Named /\ MaxLines \in Nat
  BY InvNamed, ListAssumption
<1>2. PICK n \in 1..MaxLines : /\ IF enabled THEN PadBoxArray(<<>>, n) ELSE boxes' = <<>>
                               /\ own' = Copied(boxes', 0, n)
  BY DEF OnDidChangeModel
<1>3. n \in Nat /\ n >= 1
  BY <1>1
<1>4. PICK none \in Seq(Boxes) : none = <<>>
  BY EmptySeq
<1>5. Len(none) = 0 /\ Distinct(none) /\ Range(none) \subseteq Listed
  <2>1. Len(none) = 0 /\ 1..0 = {}
    BY <1>4
  <2>2. \A x : x \in Range(none) <=> \E i \in 1..Len(none) : x = none[i]
    BY RangeIs
  <2>3. QED
    BY <2>1, <2>2 DEF Distinct
<1>6. UNCHANGED <<showing, enabled, thrown, events>> /\ "model" \in events
  BY DEF OnDidChangeModel
<1>7. OrphansShowNothing'
  BY <1>6 DEF OrphansShowNothing
<1>8. CASE enabled
  <2>1. boxes' = Padded(none, n)
    BY <1>2, <1>4, <1>8 DEF PadBoxArray
  <2>2. PaddedIs(boxes', none, n)
    BY <1>1, <1>3, <1>5, <2>1, PaddedList
  <2>3. boxes' \in Seq(Boxes) /\ Distinct(boxes') /\ Len(boxes') = n
    BY <1>3, <1>5, <2>2 DEF PaddedIs
  <2>4. own' = boxes'
    BY <1>2, <2>3, CopiedAll
  <2>5. own' \in Seq(Boxes \cup {0})
    BY <2>3, <2>4, SeqOf
  <2>6. TypeOK'
    BY <1>6, <2>3, <2>4, <2>5 DEF IInv, TypeOK, Lines
  <2>7. Distinct(boxes)'
    BY <2>3 DEF Distinct
  <2>8. QED
    BY <1>6, <1>7, <1>8, <2>4, <2>6, <2>7 DEF IInv, LineKeepsBox
<1>9. CASE ~enabled
  <2>1. boxes' = none
    BY <1>2, <1>4, <1>9
  <2>2. own' = [k \in 1..n |-> 0]
    <3>1. DOMAIN none = {}
      BY <1>4
    <3>2. QED
      BY <1>2, <2>1, <3>1 DEF Copied
  <2>3. own' \in [1..n -> Boxes \cup {0}]
    BY <2>2
  <2>4. own' \in Seq(Boxes \cup {0}) /\ Len(own') = n
    BY <1>3, <2>3, FunctionIsSeq
  <2>5. TypeOK'
    BY <1>6, <2>1, <2>4 DEF IInv, TypeOK, Lines
  <2>6. Distinct(boxes)'
    BY <1>5, <2>1 DEF Distinct
  <2>7. Len(boxes') <= Lines'
    BY <1>3, <1>5, <2>1, <2>4 DEF Lines
  <2>8. QED
    BY <1>6, <1>7, <1>9, <2>5, <2>6, <2>7 DEF IInv, LineKeepsBox
<1>10. QED
  BY <1>8, <1>9

-----------------------------------------------------------------------------
(***************************************************************************)
(* The theorems.  EnoughNames: a box is an object, and none is made twice. *)
(***************************************************************************)

LEMMA NextInv ==
    ASSUME EnoughNames, NoAny, IInv, [Next]_vars
    PROVE  IInv'
<1>1. CASE UNCHANGED vars
  BY <1>1 DEF vars, IInv, TypeOK, Distinct, LineKeepsBox, OrphansShowNothing, Lines, Listed
<1>2. ASSUME Next, NEW e \in MayCome[Lines], OnDidChangeModelContent(e) PROVE IInv'
  BY <1>2, ContentInv DEF Next
<1>3. CASE Next /\ UpdateContent
  BY <1>3, UpdateInv DEF Next
<1>4. CASE Next /\ Disable
  BY <1>4, DisableInv DEF Next
<1>5. CASE Next /\ InsertFragment
  BY <1>5, InsertInv DEF Next
<1>6. CASE Next /\ Enable
  BY <1>6, EnableInv DEF Next
<1>7. CASE Next /\ OnDidChangeModel
  BY <1>7, ModelInv DEF Next
<1>8. QED
  BY <1>1, <1>2, <1>3, <1>4, <1>5, <1>6, <1>7 DEF Next

LEMMA Inductive ==
    ASSUME EnoughNames, NoAny
    PROVE  Spec => []IInv
<1>1. Init => IInv
  BY InitInv
<1>2. IInv /\ [Next]_vars => IInv'
  BY NextInv
<1>3. QED
  BY <1>1, <1>2, PTL DEF Spec

(* Every variable keeps its type, and addRemoveBoxes never comes upon an      *)
(* undefined box, for a text, an event and a change of any size: an event of  *)
(* one change, or of any number of changes that add or replace lines, up to   *)
(* the last caret.                                                            *)
THEOREM TypeCorrect ==
    ASSUME EnoughNames, NoAny
    PROVE  Spec => []TypeOK
<1>1. IInv => TypeOK
  BY DEF IInv
<1>2. QED
  BY <1>1, Inductive, PTL

(* While the boxes are enabled there is one for every line of the text, and   *)
(* no two lines have the same.                                                *)
THEOREM EveryLineHasOne ==
    ASSUME EnoughNames, NoAny
    PROVE  Spec => []OneBoxPerLine
<1>1. IInv => OneBoxPerLine
  <2>1. SUFFICES ASSUME IInv, enabled PROVE Len(boxes) = Lines /\ IsInjective(boxes)
    BY DEF OneBoxPerLine
  <2>2. Len(boxes) = Lines /\ boxes \in Seq(Boxes) /\ Distinct(boxes)
    BY <2>1, InvNamed DEF Named
  <2>3. DOMAIN boxes = 1..Len(boxes)
    BY <2>2, RangeIs
  <2>4. QED
    BY <2>2, <2>3 DEF Distinct, IsInjective
<1>2. QED
  BY <1>1, Inductive, PTL

(* The boxes are those that the ranges of the edits say: a line that no       *)
(* change is about keeps its own, wherever it goes.                           *)
THEOREM LinesKeepBoxes ==
    ASSUME EnoughNames, NoAny
    PROVE  Spec => []LineKeepsBox
<1>1. IInv => LineKeepsBox
  BY DEF IInv
<1>2. QED
  BY <1>1, Inductive, PTL

(* No box shows anything that the list has lost, as long as the text is one.  *)
THEOREM OrphansGone ==
    ASSUME EnoughNames, NoAny
    PROVE  Spec => []OrphansShowNothing
<1>1. IInv => OrphansShowNothing
  BY DEF IInv
<1>2. QED
  BY <1>1, Inductive, PTL
=============================================================================
