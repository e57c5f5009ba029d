------------------------- MODULE LeapSessionProofs -------------------------
(***************************************************************************)
(* Theorems about LeapSession, for every value of its constants.           *)
(***************************************************************************)
EXTENDS LeapSession, SequenceTheorems, FiniteSetTheorems, WellFoundedInduction, TLAPS

-----------------------------------------------------------------------------
(***************************************************************************)
(* The text.  Whatever is done to it replaces the pieces f + 1 .. g by     *)
(* others.                                                                 *)
(***************************************************************************)

Splice(t, f, g, m) == SubSeq(t, 1, f) \o m \o SubSeq(t, g + 1, Len(t))

IsSplice(u, t, f, g, m) ==
    /\ u \in Seq(Pieces)
    /\ Len(u) = f + Len(m) + (Len(t) - g)
    /\ DOMAIN u = 1..(f + Len(m) + (Len(t) - g))
    /\ \A j \in 1..(f + Len(m) + (Len(t) - g)) :
          u[j] = IF j <= f THEN t[j]
                 ELSE IF j <= f + Len(m) THEN m[j - f]
                 ELSE t[j - (f + Len(m)) + g]

LEMMA SpliceElements ==
    ASSUME NEW t \in Seq(Pieces), NEW m \in Seq(Pieces),
           NEW f \in 0..Len(t), NEW g \in f..Len(t)
    PROVE  IsSplice(Splice(t, f, g, m), t, f, g, m)
<1> DEFINE head == SubSeq(t, 1, f)
           tail == SubSeq(t, g + 1, Len(t))
           both == head \o m
<1>1. f \in Nat /\ g \in Nat /\ Len(t) \in Nat /\ Len(m) \in Nat /\ f <= g /\ g <= Len(t)
  BY LenProperties
<1>2. \A i \in 1..Len(t) : t[i] \in Pieces
  BY ElementOfSeq
<1>3. /\ head \in Seq(Pieces) /\ Len(head) = f
      /\ \A i \in 1..f : head[i] = t[i]
  <2>1. \A i \in 1..f : t[i] \in Pieces
    BY <1>1, <1>2
  <2>2. /\ head \in Seq(Pieces) /\ Len(head) = IF 1 <= f THEN f - 1 + 1 ELSE 0
        /\ \A i \in 1..(f - 1 + 1) : head[i] = t[1 + i - 1]
    BY <1>1, <2>1, SubSeqProperties
  <2>3. QED
    BY <1>1, <2>2
<1>4. /\ tail \in Seq(Pieces) /\ Len(tail) = Len(t) - g
      /\ \A i \in 1..(Len(t) - g) : tail[i] = t[i + g]
  <2>1. \A i \in (g + 1)..Len(t) : t[i] \in Pieces
    BY <1>1, <1>2
  <2>2. /\ tail \in Seq(Pieces)
        /\ Len(tail) = IF g + 1 <= Len(t) THEN Len(t) - (g + 1) + 1 ELSE 0
        /\ \A i \in 1..(Len(t) - (g + 1) + 1) : tail[i] = t[(g + 1) + i - 1]
    BY <1>1, <2>1, SubSeqProperties
  <2>3. QED
    BY <1>1, <2>2
<1>5. /\ both \in Seq(Pieces) /\ Len(both) = f + Len(m)
      /\ \A i \in 1..(f + Len(m)) : both[i] = IF i <= f THEN t[i] ELSE m[i - f]
  <2>1. /\ both \in Seq(Pieces) /\ Len(both) = Len(head) + Len(m)
        /\ \A i \in 1..(Len(head) + Len(m)) : both[i] = IF i <= Len(head) THEN head[i] ELSE m[i - Len(head)]
    BY <1>3, ConcatProperties
  <2>2. QED
    BY <1>1, <1>3, <2>1
<1>6. Splice(t, f, g, m) = both \o tail
  BY DEF Splice
<1> HIDE DEF head, tail, both
<1>7. /\ both \o tail \in Seq(Pieces) /\ Len(both \o tail) = Len(both) + Len(tail)
      /\ \A i \in 1..(Len(both) + Len(tail)) :
            (both \o tail)[i] = IF i <= Len(both) THEN both[i] ELSE tail[i - Len(both)]
  BY <1>4, <1>5, ConcatProperties
<1>8. ASSUME NEW j \in 1..(f + Len(m) + (Len(t) - g))
      PROVE  Splice(t, f, g, m)[j] = IF j <= f THEN t[j]
                                     ELSE IF j <= f + Len(m) THEN m[j - f]
                                     ELSE t[j - (f + Len(m)) + g]
  <2>1. j \in 1..(Len(both) + Len(tail))
    BY <1>1, <1>4, <1>5
  <2>2. CASE j <= f + Len(m)
    BY <1>1, <1>5, <1>6, <1>7, <2>1, <2>2
  <2>3. CASE j > f + Len(m)
    <3>1. j - (f + Len(m)) \in 1..(Len(t) - g) /\ ~(j <= f + Len(m)) /\ ~(j <= f)
      BY <1>1, <2>3
    <3>2. (both \o tail)[j] = tail[j - Len(both)]
      BY <1>5, <1>7, <2>1, <3>1
    <3>3. tail[j - (f + Len(m))] = t[j - (f + Len(m)) + g]
      BY <1>4, <3>1
    <3>4. (both \o tail)[j] = t[j - (f + Len(m)) + g]
      BY <1>5, <3>2, <3>3
    <3>5. QED
      BY <1>6, <3>1, <3>4
  <2>4. QED
    BY <1>1, <2>2, <2>3
<1>9. Len(Splice(t, f, g, m)) = f + Len(m) + (Len(t) - g)
  BY <1>1, <1>4, <1>5, <1>6, <1>7
<1>10. QED
  BY <1>6, <1>7, <1>8, <1>9, LenProperties DEF IsSplice

(* A nonempty set of places in a text has a first and a last one. *)
LEMMA LeastNumber ==
    ASSUME NEW T \in SUBSET Nat, T # {}
    PROVE  \E x \in T : \A y \in T : x <= y
<1> DEFINE up(x) == 1..x
           U == {up(x) : x \in T}
<1>1. U \subseteq FiniteSubsetsOf(Nat) /\ U # {}
  <2>1. ASSUME NEW x \in T PROVE up(x) \in FiniteSubsetsOf(Nat)
    <3>1. x \in Int /\ 1 \in Int
      OBVIOUS
    <3>2. IsFiniteSet(1..x)
      BY <3>1, FS_Interval
    <3>3. QED
      BY <3>2 DEF FiniteSubsetsOf
  <2>2. QED
    BY <2>1
<1>2. IsWellFoundedOn(StrictSubsetOrdering(Nat), FiniteSubsetsOf(Nat))
  BY FS_StrictSubsetOrderingWellFounded
<1>3. PICK s \in U : \A r \in U : ~ (<<r, s>> \in StrictSubsetOrdering(Nat))
  BY <1>1, <1>2, WFMin
<1>4. PICK x \in T : s = up(x)
  OBVIOUS
<1>5. ASSUME NEW y \in T, y < x PROVE FALSE
  <2>1. up(y) \subseteq up(x) /\ up(y) # up(x) /\ up(y) \in SUBSET Nat /\ up(x) \in SUBSET Nat
    <3>1. x \in up(x) /\ x \notin up(y)
      BY <1>5
    <3>2. QED
      BY <1>5, <3>1
  <2>2. <<up(y), up(x)>> \in StrictSubsetOrdering(Nat)
    BY <2>1 DEF StrictSubsetOrdering
  <2>3. QED
    BY <1>3, <1>4, <2>2
<1>6. QED
  BY <1>5

LEMMA PieceFacts ==
    /\ Marker \in Pieces
    /\ \A r \in Requests : Code(r) \in Pieces /\ Code(r) # Marker /\ Code(r).by = "model"
    /\ \A n \in 1..MaxTyped : Typed(n) \in Pieces /\ Typed(n) # Marker /\ Typed(n).by # "model"
    /\ Marker.by # "model"
  BY DEF Pieces, Marker, Code, Typed

LEMMA MarksBounded ==
    ASSUME NEW t \in Seq(Pieces), Marks(t) # {}
    PROVE  /\ First(t) \in 1..Len(t) /\ Last(t) \in 1..Len(t) /\ First(t) <= Last(t)
           /\ First(t) \in Marks(t) /\ Last(t) \in Marks(t)
           /\ \A j \in Marks(t) : First(t) <= j /\ j <= Last(t)
<1>1. Marks(t) \subseteq 1..Len(t) /\ Len(t) \in Nat
  BY LenProperties DEF Marks
<1>2. \E i \in Marks(t) : \A j \in Marks(t) : i <= j
  <2>1. Marks(t) \in SUBSET Nat
    BY <1>1
  <2>2. QED
    BY <2>1, LeastNumber
<1>3. \E i \in Marks(t) : \A j \in Marks(t) : j <= i
  <2> DEFINE T == {Len(t) - i : i \in Marks(t)}
  <2>1. T \in SUBSET Nat /\ T # {}
    BY <1>1
  <2>2. PICK x \in T : \A y \in T : x <= y
    BY <2>1, LeastNumber
  <2>3. PICK i \in Marks(t) : x = Len(t) - i
    OBVIOUS
  <2>4. ASSUME NEW j \in Marks(t) PROVE j <= i
    <3>1. Len(t) - i <= Len(t) - j
      BY <2>2, <2>3
    <3>2. i \in Nat /\ j \in Nat
      BY <1>1
    <3>3. QED
      BY <1>1, <3>1, <3>2
  <2>5. QED
    BY <2>4
<1>4. First(t) \in Marks(t) /\ \A j \in Marks(t) : First(t) <= j
  BY <1>2 DEF First
<1>5. Last(t) \in Marks(t) /\ \A j \in Marks(t) : j <= Last(t)
  BY <1>3 DEF Last
<1>6. QED
  BY <1>1, <1>4, <1>5

LEMMA PairBounds ==
    ASSUME NEW t \in Seq(Pieces), NEW a \in DOMAIN t, NEW b \in DOMAIN t, a < b, Marks(t) = {a, b}
    PROVE  First(t) = a /\ Last(t) = b /\ Cardinality(Marks(t)) = 2
<1>1. a \in Nat /\ b \in Nat
  BY LenProperties
<1>2. First(t) = a /\ Last(t) = b
  <2>1. /\ First(t) \in {a, b} /\ Last(t) \in {a, b}
        /\ First(t) <= a /\ b <= Last(t)
    BY MarksBounded
  <2>2. QED
    BY <1>1, <2>1
<1>3. IsFiniteSet({a}) /\ Cardinality({a}) = 1
  BY FS_Singleton
<1>4. Cardinality({a} \cup {b}) = 2
  <2>1. b \notin {a}
    BY <1>1
  <2>2. Cardinality({a} \cup {b}) = IF b \in {a} THEN Cardinality({a}) ELSE Cardinality({a}) + 1
    BY <1>3, FS_AddElement
  <2>3. QED
    BY <1>3, <2>1, <2>2
<1>5. {a, b} = {a} \cup {b}
  OBVIOUS
<1>6. QED
  BY <1>2, <1>4, <1>5

LEMMA InsertIsSplice ==
    ASSUME NEW t, NEW i, NEW m
    PROVE  Insert(t, i, m) = Splice(t, i, i, m)
  BY DEF Insert, Splice

LEMMA ReplaceIsSplice ==
    ASSUME NEW t \in Seq(Pieces), Marks(t) # {}, NEW m
    PROVE  /\ Before(t) \o m \o Behind(t) = Splice(t, First(t) - 1, Last(t), m)
           /\ First(t) - 1 \in 0..Len(t) /\ Last(t) \in (First(t) - 1)..Len(t)
<1>1. First(t) \in Nat /\ Len(t) \in Nat /\ Last(t) \in Nat
  BY MarksBounded, LenProperties
<1>2. QED
  BY <1>1, MarksBounded DEF Before, Behind, Splice

LEMMA BetweenElements ==
    ASSUME NEW t \in Seq(Pieces), Marks(t) # {}
    PROVE  /\ Between(t) \in Seq(Pieces)
           /\ Len(Between(t)) = IF First(t) < Last(t) THEN Last(t) - First(t) - 1 ELSE 0
           /\ \A j \in 1..(Last(t) - First(t) - 1) : Between(t)[j] = t[First(t) + j]
<1>1. /\ First(t) \in Int /\ Last(t) \in Int /\ Len(t) \in Nat
      /\ 1 <= First(t) /\ First(t) <= Last(t) /\ Last(t) <= Len(t)
  BY MarksBounded, LenProperties
<1>2. \A i \in (First(t) + 1)..(Last(t) - 1) : t[i] \in Pieces
  BY <1>1, ElementOfSeq
<1>3. /\ Between(t) \in Seq(Pieces)
      /\ Len(Between(t)) = IF First(t) + 1 <= Last(t) - 1 THEN (Last(t) - 1) - (First(t) + 1) + 1 ELSE 0
      /\ \A j \in 1..((Last(t) - 1) - (First(t) + 1) + 1) : Between(t)[j] = t[(First(t) + 1) + j - 1]
  BY <1>1, <1>2, SubSeqProperties DEF Between
<1>4. Len(Between(t)) = IF First(t) < Last(t) THEN Last(t) - First(t) - 1 ELSE 0
  BY <1>1, <1>3
<1>5. ASSUME NEW j \in 1..(Last(t) - First(t) - 1) PROVE Between(t)[j] = t[First(t) + j]
  <2>1. j \in 1..((Last(t) - 1) - (First(t) + 1) + 1) /\ (First(t) + 1) + j - 1 = First(t) + j
    BY <1>1
  <2>2. QED
    BY <1>3, <2>1
<1>6. QED
  BY <1>3, <1>4, <1>5

(* What the two functions and the user make of a text is a text. *)
LEMMA TextTypes ==
    ASSUME NEW t \in Seq(Pieces)
    PROVE  /\ \A i \in 0..Len(t), p \in Pieces : Insert(t, i, <<p>>) \in Seq(Pieces)
           /\ \A i \in Marks(t) : SubSeq(t, 1, i - 1) \o SubSeq(t, i + 1, Len(t)) \in Seq(Pieces)
           /\ \A commentOnly \in BOOLEAN : WithoutSuggestion(t, commentOnly) \in Seq(Pieces)
           /\ \A r \in Requests : cursor \in Nat => WithSuggestion(t, Code(r)) \in Seq(Pieces)
<1>1. Len(t) \in Nat /\ <<>> \in Seq(Pieces)
  BY LenProperties, EmptySeq
<1>2. ASSUME NEW i \in 0..Len(t), NEW m \in Seq(Pieces) PROVE Insert(t, i, m) \in Seq(Pieces)
  <2>1. i \in i..Len(t)
    BY <1>1
  <2>2. IsSplice(Splice(t, i, i, m), t, i, i, m)
    BY <2>1, SpliceElements
  <2>3. QED
    BY <2>2, InsertIsSplice DEF IsSplice
<1>3. ASSUME NEW i \in Marks(t)
      PROVE  SubSeq(t, 1, i - 1) \o SubSeq(t, i + 1, Len(t)) \in Seq(Pieces)
  <2>1. i \in 1..Len(t)
    BY LenProperties DEF Marks
  <2>2. \A j \in 1..Len(t) : t[j] \in Pieces
    BY ElementOfSeq
  <2>3. SubSeq(t, 1, i - 1) \in Seq(Pieces) /\ SubSeq(t, i + 1, Len(t)) \in Seq(Pieces)
    <3>1. (\A j \in 1..(i - 1) : t[j] \in Pieces) /\ (\A j \in (i + 1)..Len(t) : t[j] \in Pieces)
      BY <1>1, <2>1, <2>2
    <3>2. i - 1 \in Int /\ i + 1 \in Int /\ 1 \in Int /\ Len(t) \in Int
      BY <1>1, <2>1
    <3>3. QED
      BY <3>1, <3>2, SubSeqProperties
  <2>4. QED
    BY <2>3, ConcatProperties
<1>4. ASSUME NEW commentOnly \in BOOLEAN
      PROVE  WithoutSuggestion(t, commentOnly) \in Seq(Pieces)
  <2>1. CASE Marks(t) = {}
    BY <2>1 DEF WithoutSuggestion
  <2>2. CASE Marks(t) # {}
    <3> DEFINE m == IF commentOnly THEN Between(t) ELSE <<>>
    <3>1. m \in Seq(Pieces)
      BY <1>1, <2>2, BetweenElements
    <3>2. WithoutSuggestion(t, commentOnly) = Splice(t, First(t) - 1, Last(t), m)
      BY <2>2, ReplaceIsSplice DEF WithoutSuggestion
    <3> HIDE DEF m
    <3>3. First(t) - 1 \in 0..Len(t) /\ Last(t) \in (First(t) - 1)..Len(t)
      BY <2>2, ReplaceIsSplice
    <3>4. Splice(t, First(t) - 1, Last(t), m) \in Seq(Pieces)
      BY <3>1, <3>3, SpliceElements DEF IsSplice
    <3>5. QED
      BY <3>2, <3>4
  <2>3. QED
    BY <2>1, <2>2
<1>5. ASSUME NEW r \in Requests, cursor \in Nat
      PROVE  WithSuggestion(t, Code(r)) \in Seq(Pieces)
  <2> DEFINE m == <<Marker, Code(r), Marker>>
  <2>1. m \in Seq(Pieces)
    BY PieceFacts
  <2>2. CASE Cardinality(Marks(t)) >= 2
    <3>1. Marks(t) # {}
      <4>1. Cardinality({}) = 0
        BY FS_EmptySet
      <4>2. Marks(t) = {} => Cardinality(Marks(t)) = 0
        BY <4>1
      <4>3. ~(0 >= 2)
        OBVIOUS
      <4>4. QED
        BY <2>2, <4>2, <4>3
    <3>2. t # <<>> => WithSuggestion(t, Code(r)) = Splice(t, First(t) - 1, Last(t), m)
      BY <2>2, <3>1, ReplaceIsSplice DEF WithSuggestion
    <3>3. t = <<>> => WithSuggestion(t, Code(r)) = t
      BY DEF WithSuggestion
    <3> HIDE DEF m
    <3>4. First(t) - 1 \in 0..Len(t) /\ Last(t) \in (First(t) - 1)..Len(t)
      BY <3>1, ReplaceIsSplice
    <3>5. Splice(t, First(t) - 1, Last(t), m) \in Seq(Pieces)
      BY <2>1, <3>4, SpliceElements DEF IsSplice
    <3>6. QED
      BY <3>2, <3>3, <3>5
  <2>3. CASE ~(Cardinality(Marks(t)) >= 2)
    <3>1. (IF cursor < Len(t) THEN cursor ELSE Len(t)) \in 0..Len(t)
      BY <1>1, <1>5
    <3>2. Insert(t, IF cursor < Len(t) THEN cursor ELSE Len(t), m) \in Seq(Pieces)
      BY <1>2, <2>1, <3>1
    <3>3. QED
      BY <2>3, <3>2 DEF WithSuggestion
  <2>4. QED
    BY <2>2, <2>3
<1>6. \A p \in Pieces : <<p>> \in Seq(Pieces)
  OBVIOUS
<1>7. QED
  BY <1>2, <1>3, <1>4, <1>5, <1>6

-----------------------------------------------------------------------------
(***************************************************************************)
(* The suggestion.  There is no completion comment, or there are two that  *)
(* enclose suggested code, all of it in C.                                 *)
(***************************************************************************)

Encloses(t, a, b, C) ==
    /\ a < b /\ Marks(t) = {a, b}
    /\ \E j \in (a + 1)..(b - 1) : t[j].by = "model"
    /\ \A j \in (a + 1)..(b - 1) : t[j].by = "model" => t[j] \in C

Suggestion(t, C) == Marks(t) = {} \/ \E a, b \in 1..Len(t) : Encloses(t, a, b, C)

LEMMA EnclosesFacts ==
    ASSUME NEW t \in Seq(Pieces), NEW C, NEW a \in 1..Len(t), NEW b \in 1..Len(t), Encloses(t, a, b, C)
    PROVE  /\ a < b /\ First(t) = a /\ Last(t) = b /\ Cardinality(Marks(t)) = 2 /\ Marks(t) # {}
           /\ \A j \in 1..Len(t) : t[j] = Marker <=> j \in {a, b}
<1>1. a \in DOMAIN t /\ b \in DOMAIN t /\ a < b /\ Marks(t) = {a, b}
  BY LenProperties DEF Encloses
<1>2. \A j \in 1..Len(t) : t[j] = Marker <=> j \in Marks(t)
  BY LenProperties DEF Marks
<1>3. QED
  BY <1>1, <1>2, PairBounds

(* A piece the user types stays in or out of the suggestion. *)
LEMMA TypedBeside ==
    ASSUME NEW t \in Seq(Pieces), NEW C, Suggestion(t, C), NEW i \in 0..Len(t),
           NEW p \in Pieces, p # Marker, p.by # "model"
    PROVE  Suggestion(Insert(t, i, <<p>>), C)
<1> DEFINE m == <<p>>
           u == Insert(t, i, m)
<1>1. Len(t) \in Nat /\ i \in Nat /\ i <= Len(t) /\ m \in Seq(Pieces) /\ Len(m) = 1 /\ m[1] = p
  BY LenProperties
<1> HIDE DEF m
<1>2. /\ u \in Seq(Pieces) /\ Len(u) = Len(t) + 1 /\ DOMAIN u = 1..(Len(t) + 1)
      /\ \A j \in 1..(Len(t) + 1) :
            u[j] = IF j <= i THEN t[j] ELSE IF j = i + 1 THEN p ELSE t[j - 1]
  <2>1. u = Splice(t, i, i, m) /\ i \in i..Len(t)
    BY <1>1, InsertIsSplice
  <2> HIDE DEF u
  <2>2. i + Len(m) + (Len(t) - i) = Len(t) + 1
    BY <1>1
  <2>3. /\ u \in Seq(Pieces)
        /\ Len(u) = i + Len(m) + (Len(t) - i)
        /\ DOMAIN u = 1..(i + Len(m) + (Len(t) - i))
        /\ \A j \in 1..(i + Len(m) + (Len(t) - i)) :
              u[j] = IF j <= i THEN t[j]
                     ELSE IF j <= i + Len(m) THEN m[j - i] ELSE t[j - (i + Len(m)) + i]
    <3>1. IsSplice(Splice(t, i, i, m), t, i, i, m)
      BY <1>1, <2>1, SpliceElements
    <3>2. QED
      BY <2>1, <3>1 DEF IsSplice
  <2>4. ASSUME NEW j \in 1..(Len(t) + 1)
        PROVE  u[j] = IF j <= i THEN t[j] ELSE IF j = i + 1 THEN p ELSE t[j - 1]
    <3>1. u[j] = IF j <= i THEN t[j]
                 ELSE IF j <= i + Len(m) THEN m[j - i] ELSE t[j - (i + Len(m)) + i]
      BY <2>2, <2>3
    <3>2. j - (i + Len(m)) + i = j - 1 /\ (~(j <= i) => (j <= i + Len(m) <=> j = i + 1))
      BY <1>1
    <3>3. j = i + 1 => j - i = 1
      BY <1>1
    <3>4. QED
      BY <1>1, <3>1, <3>2, <3>3
  <2>5. QED
    BY <2>2, <2>3, <2>4
<1> HIDE DEF u
<1>3. CASE Marks(t) = {}
  <2>1. \A j \in 1..Len(t) : t[j] # Marker
    BY <1>3, LenProperties DEF Marks
  <2>2. ASSUME NEW j \in 1..(Len(t) + 1) PROVE u[j] # Marker
    <3>1. (j <= i => j \in 1..Len(t)) /\ (~(j <= i) /\ j # i + 1 => j - 1 \in 1..Len(t))
      BY <1>1
    <3>2. u[j] = IF j <= i THEN t[j] ELSE IF j = i + 1 THEN p ELSE t[j - 1]
      BY <1>2
    <3>3. QED
      BY <2>1, <3>1, <3>2
  <2>3. Marks(u) = {}
    BY <1>2, <2>2 DEF Marks
  <2>4. QED
    BY <2>3 DEF Suggestion, u, m
<1>4. CASE \E a, b \in 1..Len(t) : Encloses(t, a, b, C)
  <2>1. PICK a \in 1..Len(t), b \in 1..Len(t) : Encloses(t, a, b, C)
    BY <1>4
  <2>2. /\ a < b /\ \A j \in 1..Len(t) : t[j] = Marker <=> j \in {a, b}
        /\ \A j \in (a + 1)..(b - 1) : t[j].by = "model" => t[j] \in C
    BY <2>1, EnclosesFacts DEF Encloses
  <2>3. PICK k \in (a + 1)..(b - 1) : t[k].by = "model"
    BY <2>1 DEF Encloses
  <2> DEFINE moved(j) == IF j <= i THEN j ELSE j + 1
  <2>4. /\ moved(a) \in 1..Len(u) /\ moved(b) \in 1..Len(u) /\ moved(a) < moved(b)
        /\ moved(k) \in (moved(a) + 1)..(moved(b) - 1)
    BY <1>1, <1>2, <2>2
  <2>5. ASSUME NEW j \in 1..Len(u) PROVE u[j] = Marker <=> j \in {moved(a), moved(b)}
    <3>1. CASE j <= i
      <4>1. j \in 1..Len(t) /\ u[j] = t[j]
        BY <1>1, <1>2, <3>1
      <4>2. j \in {a, b} <=> j \in {moved(a), moved(b)}
        BY <1>1, <3>1
      <4>3. QED
        BY <2>2, <4>1, <4>2
    <3>2. CASE j = i + 1
      BY <1>1, <1>2, <3>2
    <3>3. CASE j > i + 1
      <4>1. j - 1 \in 1..Len(t) /\ u[j] = t[j - 1]
        BY <1>1, <1>2, <3>3
      <4>2. j - 1 \in {a, b} <=> j \in {moved(a), moved(b)}
        BY <1>1, <3>3
      <4>3. QED
        BY <2>2, <4>1, <4>2
    <3>4. QED
      BY <1>1, <1>2, <3>1, <3>2, <3>3
  <2>6. Marks(u) = {moved(a), moved(b)}
    <3>1. Marks(u) = {j \in 1..Len(u) : u[j] = Marker}
      BY <1>2 DEF Marks
    <3> HIDE DEF moved
    <3>2. QED
      BY <2>4, <2>5, <3>1
  <2>7. u[moved(k)] = t[k]
    <3>1. moved(k) \in 1..(Len(t) + 1) /\ (~(k <= i) => moved(k) - 1 = k /\ moved(k) # i + 1 /\ ~(moved(k) <= i))
      BY <1>1, <1>2, <2>4
    <3>2. QED
      BY <1>2, <3>1
  <2>8. ASSUME NEW j \in (moved(a) + 1)..(moved(b) - 1), u[j].by = "model"
        PROVE  u[j] \in C
    <3>1. j \in 1..(Len(t) + 1) /\ j # i + 1
      BY <1>1, <1>2, <2>4, <2>8
    <3>2. CASE j <= i
      <4>1. j \in (a + 1)..(b - 1) /\ u[j] = t[j]
        BY <1>1, <1>2, <3>1, <3>2
      <4>2. QED
        BY <2>2, <2>8, <4>1
    <3>3. CASE j > i + 1
      <4>1. j - 1 \in (a + 1)..(b - 1) /\ u[j] = t[j - 1]
        BY <1>1, <1>2, <3>1, <3>3
      <4>2. QED
        BY <2>2, <2>8, <4>1
    <3>4. QED
      BY <1>1, <3>1, <3>2, <3>3
  <2>9. Encloses(u, moved(a), moved(b), C)
    BY <2>3, <2>4, <2>6, <2>7, <2>8 DEF Encloses
  <2>10. QED
    BY <2>4, <2>9 DEF Suggestion, u, m
<1>5. QED
  BY <1>3, <1>4 DEF Suggestion

(* removeCompletion leaves no completion comment. *)
LEMMA SuggestionRemoved ==
    ASSUME NEW t \in Seq(Pieces), NEW C, Suggestion(t, C), NEW commentOnly \in BOOLEAN
    PROVE  Marks(WithoutSuggestion(t, commentOnly)) = {}
<1>1. CASE Marks(t) = {}
  BY <1>1 DEF WithoutSuggestion
<1>2. CASE Marks(t) # {}
  <2>1. PICK a \in 1..Len(t), b \in 1..Len(t) : Encloses(t, a, b, C)
    BY <1>2 DEF Suggestion
  <2>2. /\ a < b /\ First(t) = a /\ Last(t) = b
        /\ \A j \in 1..Len(t) : t[j] = Marker <=> j \in {a, b}
    BY <2>1, EnclosesFacts DEF Encloses
  <2>3. Len(t) \in Nat
    BY LenProperties
  <2> DEFINE m == IF commentOnly THEN Between(t) ELSE <<>>
             u == Splice(t, a - 1, b, m)
  <2>4. /\ m \in Seq(Pieces)
        /\ \A j \in 1..Len(m) : m[j] # Marker
    <3>1. CASE commentOnly
      <4>1. /\ Between(t) \in Seq(Pieces) /\ Len(Between(t)) = b - a - 1
            /\ \A j \in 1..(b - a - 1) : Between(t)[j] = t[a + j]
        BY <1>2, <2>2, BetweenElements
      <4>2. \A j \in 1..(b - a - 1) : a + j \in 1..Len(t) /\ a + j \notin {a, b}
        BY <2>2, <2>3
      <4>3. ASSUME NEW j \in 1..(b - a - 1) PROVE Between(t)[j] # Marker
        BY <2>2, <4>1, <4>2
      <4>4. QED
        BY <3>1, <4>1, <4>3
    <3>2. CASE ~commentOnly
      BY <3>2, EmptySeq
    <3>3. QED
      BY <3>1, <3>2
  <2>5. WithoutSuggestion(t, commentOnly) = u
    BY <1>2, <2>2, ReplaceIsSplice DEF WithoutSuggestion
  <2> HIDE DEF m
  <2>6. Len(m) \in Nat
    BY <2>4, LenProperties
  <2>7. /\ DOMAIN u = 1..((a - 1) + Len(m) + (Len(t) - b))
        /\ \A j \in 1..((a - 1) + Len(m) + (Len(t) - b)) :
              u[j] = IF j <= a - 1 THEN t[j]
                     ELSE IF j <= (a - 1) + Len(m) THEN m[j - (a - 1)]
                     ELSE t[j - ((a - 1) + Len(m)) + b]
    <3>1. a - 1 \in 0..Len(t) /\ b \in (a - 1)..Len(t)
      BY <2>2, <2>3
    <3> DEFINE f == a - 1
    <3>2. f \in 0..Len(t) /\ b \in f..Len(t) /\ u = Splice(t, f, b, m)
      BY <3>1
    <3> HIDE DEF f
    <3>3. IsSplice(Splice(t, f, b, m), t, f, b, m)
      BY <2>4, <3>2, SpliceElements
    <3>4. QED
      BY <3>2, <3>3 DEF IsSplice, f
  <2> HIDE DEF u
  <2>8. ASSUME NEW j \in DOMAIN u PROVE u[j] # Marker
    <3>1. CASE j <= a - 1
      <4>1. j \in 1..Len(t) /\ j \notin {a, b} /\ u[j] = t[j]
        BY <2>2, <2>3, <2>6, <2>7, <3>1
      <4>2. QED
        BY <2>2, <4>1
    <3>2. CASE j > a - 1 /\ j <= (a - 1) + Len(m)
      <4>1. j - (a - 1) \in 1..Len(m) /\ u[j] = m[j - (a - 1)]
        BY <2>6, <2>7, <3>2
      <4>2. QED
        BY <2>4, <4>1
    <3>3. CASE j > (a - 1) + Len(m)
      <4>1. /\ j - ((a - 1) + Len(m)) + b \in 1..Len(t)
            /\ j - ((a - 1) + Len(m)) + b \notin {a, b}
        BY <2>2, <2>3, <2>6, <2>7, <3>3
      <4>2. ~(j <= a - 1) /\ ~(j <= (a - 1) + Len(m))
        BY <2>6, <2>7, <3>3
      <4>3. u[j] = t[j - ((a - 1) + Len(m)) + b]
        BY <2>7, <4>2
      <4>4. QED
        BY <2>2, <4>1, <4>3
    <3>4. QED
      BY <2>6, <2>7, <3>1, <3>2, <3>3
  <2>9. Marks(u) = {}
    BY <2>8 DEF Marks
  <2>10. QED
    BY <2>5, <2>9
<1>3. QED
  BY <1>1, <1>2

(* A suggestion that takes the place of all completion comments. *)
LEMMA SuggestionSpliced ==
    ASSUME NEW t \in Seq(Pieces), NEW f \in 0..Len(t), NEW g \in f..Len(t), NEW r \in Requests,
           \A j \in 1..Len(t) : t[j] = Marker => f < j /\ j <= g
    PROVE  Suggestion(Splice(t, f, g, <<Marker, Code(r), Marker>>), {Code(r)})
<1> DEFINE m == <<Marker, Code(r), Marker>>
           u == Splice(t, f, g, m)
<1>1. /\ m \in Seq(Pieces) /\ Len(m) = 3
      /\ m[1] = Marker /\ m[2] = Code(r) /\ m[3] = Marker
  BY PieceFacts
<1>2. Len(t) \in Nat /\ f \in Nat /\ g \in Nat /\ f <= g /\ g <= Len(t)
  BY LenProperties
<1> HIDE DEF m
<1>3. IsSplice(u, t, f, g, m)
  BY <1>1, SpliceElements
<1> HIDE DEF u
<1>4. /\ u \in Seq(Pieces) /\ Len(u) = f + 3 + (Len(t) - g) /\ DOMAIN u = 1..(f + 3 + (Len(t) - g))
      /\ \A j \in 1..(f + 3 + (Len(t) - g)) :
            u[j] = IF j <= f THEN t[j] ELSE IF j <= f + 3 THEN m[j - f] ELSE t[j - (f + 3) + g]
  BY <1>1, <1>3 DEF IsSplice
<1>5. /\ f + 1 \in 1..Len(u) /\ f + 2 \in 1..Len(u) /\ f + 3 \in 1..Len(u)
      /\ u[f + 1] = Marker /\ u[f + 2] = Code(r) /\ u[f + 3] = Marker
  <2>1. f + 1 \in 1..Len(u) /\ f + 2 \in 1..Len(u) /\ f + 3 \in 1..Len(u)
    BY <1>2, <1>4
  <2>2. u[f + 1] = m[(f + 1) - f] /\ u[f + 2] = m[(f + 2) - f] /\ u[f + 3] = m[(f + 3) - f]
    BY <1>2, <1>4, <2>1
  <2>3. (f + 1) - f = 1 /\ (f + 2) - f = 2 /\ (f + 3) - f = 3
    BY <1>2
  <2>4. QED
    BY <1>1, <2>1, <2>2, <2>3
<1>6. ASSUME NEW j \in 1..Len(u), j \notin {f + 1, f + 3} PROVE u[j] # Marker
  <2>1. CASE j <= f
    <3>1. j \in 1..Len(t) /\ ~(f < j) /\ u[j] = t[j]
      BY <1>2, <1>4, <2>1
    <3>2. QED
      BY <3>1
  <2>2. CASE j = f + 2
    BY <1>5, <2>2, PieceFacts
  <2>3. CASE j > f + 3
    <3>1. /\ ~(j <= f) /\ ~(j <= f + 3)
          /\ j - (f + 3) + g \in 1..Len(t) /\ ~(j - (f + 3) + g <= g)
      BY <1>2, <1>4, <2>3
    <3>2. u[j] = t[j - (f + 3) + g]
      BY <1>4, <3>1
    <3>3. QED
      BY <3>1, <3>2
  <2>4. QED
    BY <1>2, <1>4, <1>6, <2>1, <2>2, <2>3
<1>7. Marks(u) = {f + 1, f + 3}
  BY <1>4, <1>5, <1>6 DEF Marks
<1>8. (f + 1) + 1 = f + 2 /\ (f + 3) - 1 = f + 2 /\ f + 1 < f + 3 /\ (f + 2)..(f + 2) = {f + 2}
  BY <1>2
<1>9. u[f + 2].by = "model"
  BY <1>5, PieceFacts
<1>10. Encloses(u, f + 1, f + 3, {Code(r)})
  BY <1>5, <1>7, <1>8, <1>9 DEF Encloses
<1>11. QED
  BY <1>5, <1>10 DEF Suggestion, u, m

(* previewCompletion leaves a suggestion of what it was given, whatever was   *)
(* suggested before.                                                          *)
LEMMA SuggestionShown ==
    ASSUME NEW t \in Seq(Pieces), NEW C, Suggestion(t, C), cursor \in Nat, NEW r \in Requests
    PROVE  Suggestion(WithSuggestion(t, Code(r)), {Code(r)})
<1> DEFINE m == <<Marker, Code(r), Marker>>
           i == IF cursor < Len(t) THEN cursor ELSE Len(t)
<1>1. Len(t) \in Nat /\ DOMAIN t = 1..Len(t)
  BY LenProperties
<1>2. CASE t = <<>>
  <2>1. Marks(<<>>) = {}
    BY DEF Marks
  <2>2. QED
    BY <1>2, <2>1 DEF WithSuggestion, Suggestion
<1>3. CASE t # <<>> /\ Marks(t) = {}
  <2>1. ~(Cardinality(Marks(t)) >= 2)
    <3>1. Cardinality(Marks(t)) = 0
      BY <1>3, FS_EmptySet
    <3>2. QED
      BY <3>1
  <2>2. WithSuggestion(t, Code(r)) = Splice(t, i, i, m)
    BY <1>3, <2>1, InsertIsSplice DEF WithSuggestion
  <2>3. i \in 0..Len(t) /\ i \in i..Len(t)
    BY <1>1
  <2>4. \A j \in 1..Len(t) : t[j] # Marker
    BY <1>1, <1>3 DEF Marks
  <2> HIDE DEF i
  <2>5. QED
    BY <2>2, <2>3, <2>4, SuggestionSpliced
<1>4. CASE t # <<>> /\ Marks(t) # {}
  <2>1. PICK a \in 1..Len(t), b \in 1..Len(t) : Encloses(t, a, b, C)
    BY <1>4 DEF Suggestion
  <2>2. /\ a < b /\ First(t) = a /\ Last(t) = b /\ Cardinality(Marks(t)) = 2
        /\ \A j \in 1..Len(t) : t[j] = Marker <=> j \in {a, b}
    BY <2>1, EnclosesFacts DEF Encloses
  <2>3. WithSuggestion(t, Code(r)) = Splice(t, a - 1, b, m)
    <3>1. Cardinality(Marks(t)) >= 2
      BY <2>2
    <3>2. QED
      BY <1>4, <2>2, <3>1, ReplaceIsSplice DEF WithSuggestion
  <2>4. /\ a - 1 \in 0..Len(t) /\ b \in (a - 1)..Len(t)
        /\ \A j \in 1..Len(t) : t[j] = Marker => a - 1 < j /\ j <= b
    BY <1>1, <2>2
  <2>5. QED
    BY <2>3, <2>4, SuggestionSpliced
<1>5. QED
  BY <1>2, <1>3, <1>4

(* A replacement keeps the own text that it does not take the place of. *)
Elements(t) == {t[i] : i \in DOMAIN t}

LEMMA OwnTextSpliced ==
    ASSUME NEW t \in Seq(Pieces), NEW m \in Seq(Pieces),
           NEW f \in 0..Len(t), NEW g \in f..Len(t),
           \A j \in (f + 1)..g : t[j] = Marker \/ Suggested(t, j)
    PROVE  OwnText(t) \subseteq Elements(Splice(t, f, g, m))
<1> DEFINE u == Splice(t, f, g, m)
<1>1. /\ Len(t) \in Nat /\ Len(m) \in Nat /\ DOMAIN t = 1..Len(t)
      /\ f \in Nat /\ g \in Nat /\ f <= g /\ g <= Len(t)
  BY LenProperties
<1>2. IsSplice(u, t, f, g, m)
  BY SpliceElements
<1> HIDE DEF u
<1> SUFFICES ASSUME NEW j \in DOMAIN t, t[j] # Marker, ~Suggested(t, j)
             PROVE  t[j] \in Elements(u)
  BY DEF OwnText, u
<1>3. CASE j <= f
  <2>1. j \in DOMAIN u /\ u[j] = t[j]
    BY <1>1, <1>2, <1>3 DEF IsSplice
  <2>2. QED
    BY <2>1 DEF Elements
<1>4. CASE j > g
  <2> DEFINE k == j - g + (f + Len(m))
  <2>1. /\ k \in 1..(f + Len(m) + (Len(t) - g)) /\ ~(k <= f) /\ ~(k <= f + Len(m))
        /\ k - (f + Len(m)) + g = j
    BY <1>1, <1>4
  <2> HIDE DEF k
  <2>2. k \in DOMAIN u /\ u[k] = t[j]
    BY <1>2, <2>1 DEF IsSplice
  <2>3. QED
    BY <2>2 DEF Elements
<1>5. QED
  BY <1>1, <1>3, <1>4

LEMMA EnclosedIsSuggested ==
    ASSUME NEW t \in Seq(Pieces), NEW C, NEW a \in 1..Len(t), NEW b \in 1..Len(t), Encloses(t, a, b, C)
    PROVE  \A j \in ((a - 1) + 1)..b : t[j] = Marker \/ Suggested(t, j)
<1>1. /\ a \in Nat /\ b \in Nat /\ a < b /\ Marks(t) = {a, b}
      /\ t[a] = Marker /\ t[b] = Marker
  BY LenProperties DEF Encloses, Marks
<1>2. PICK k \in (a + 1)..(b - 1) : t[k].by = "model"
  BY DEF Encloses
<1>3. k \in a..b /\ \A j \in ((a - 1) + 1)..b : j = a \/ j = b \/ (a < j /\ j < b)
  BY <1>1
<1>4. ASSUME NEW j \in Int, a < j, j < b PROVE Suggested(t, j)
  <2>1. a \in Marks(t) /\ b \in Marks(t) /\ \A x \in Marks(t) : x <= a \/ b <= x
    BY <1>1
  <2>2. QED
    BY <1>2, <1>3, <1>4, <2>1 DEF Suggested
<1>5. QED
  BY <1>1, <1>3, <1>4

(* Neither function takes own text out of a text with such a suggestion. *)
LEMMA OwnTextStays ==
    ASSUME NEW t \in Seq(Pieces), NEW C, Suggestion(t, C), cursor \in Nat
    PROVE  /\ \A i \in 0..Len(t), p \in Pieces : OwnText(t) \subseteq Elements(Insert(t, i, <<p>>))
           /\ \A commentOnly \in BOOLEAN : OwnText(t) \subseteq Elements(WithoutSuggestion(t, commentOnly))
           /\ \A r \in Requests : OwnText(t) \subseteq Elements(WithSuggestion(t, Code(r)))
<1>1. Len(t) \in Nat /\ DOMAIN t = 1..Len(t) /\ <<>> \in Seq(Pieces)
  BY LenProperties, EmptySeq
<1>2. ASSUME NEW i \in 0..Len(t), NEW m \in Seq(Pieces)
      PROVE  OwnText(t) \subseteq Elements(Insert(t, i, m))
  <2>1. i \in i..Len(t) /\ (i + 1)..i = {}
    BY <1>1
  <2>2. QED
    BY <2>1, OwnTextSpliced, InsertIsSplice
<1>3. OwnText(t) \subseteq Elements(t)
  BY DEF OwnText, Elements
<1>4. ASSUME Marks(t) # {}, NEW m \in Seq(Pieces)
      PROVE  OwnText(t) \subseteq Elements(Before(t) \o m \o Behind(t))
  <2>1. PICK a \in 1..Len(t), b \in 1..Len(t) : Encloses(t, a, b, C)
    BY <1>4 DEF Suggestion
  <2>2. a < b /\ First(t) = a /\ Last(t) = b
    BY <2>1, EnclosesFacts
  <2>3. a - 1 \in 0..Len(t) /\ b \in (a - 1)..Len(t)
    BY <1>1, <2>2
  <2>4. OwnText(t) \subseteq Elements(Splice(t, a - 1, b, m))
    BY <2>1, <2>3, EnclosedIsSuggested, OwnTextSpliced
  <2>5. QED
    BY <1>4, <2>2, <2>4, ReplaceIsSplice
<1>5. ASSUME NEW commentOnly \in BOOLEAN
      PROVE  OwnText(t) \subseteq Elements(WithoutSuggestion(t, commentOnly))
  <2>1. CASE Marks(t) = {}
    BY <1>3, <2>1 DEF WithoutSuggestion
  <2>2. CASE Marks(t) # {}
    <3> DEFINE m == IF commentOnly THEN Between(t) ELSE <<>>
    <3>1. m \in Seq(Pieces)
      BY <1>1, <2>2, BetweenElements
    <3>2. WithoutSuggestion(t, commentOnly) = Before(t) \o m \o Behind(t)
      BY <2>2 DEF WithoutSuggestion
    <3> HIDE DEF m
    <3>3. QED
      BY <1>4, <2>2, <3>1, <3>2
  <2>3. QED
    BY <2>1, <2>2
<1>6. ASSUME NEW r \in Requests
      PROVE  OwnText(t) \subseteq Elements(WithSuggestion(t, Code(r)))
  <2> DEFINE m == <<Marker, Code(r), Marker>>
             i == IF cursor < Len(t) THEN cursor ELSE Len(t)
  <2>1. m \in Seq(Pieces) /\ i \in 0..Len(t)
    BY <1>1, PieceFacts
  <2>2. WithSuggestion(t, Code(r)) = IF t = <<>> THEN t
                                     ELSE IF Cardinality(Marks(t)) >= 2
                                       THEN Before(t) \o m \o Behind(t) ELSE Insert(t, i, m)
    BY DEF WithSuggestion
  <2>3. Cardinality(Marks(t)) >= 2 => Marks(t) # {}
    <3>1. Marks(t) = {} => Cardinality(Marks(t)) = 0
      BY FS_EmptySet
    <3>2. ~(0 >= 2)
      OBVIOUS
    <3>3. QED
      BY <3>1, <3>2
  <2> HIDE DEF m, i
  <2>4. QED
    BY <1>2, <1>3, <1>4, <2>1, <2>2, <2>3
<1>7. \A p \in Pieces : <<p>> \in Seq(Pieces)
  OBVIOUS
<1>8. QED
  BY <1>2, <1>5, <1>6, <1>7

-----------------------------------------------------------------------------
(* Type correctness *)

RequestTypes ==
    /\ asked \in [Requests -> {Unused} \cup [kind : RequestKinds, about : 0..MaxRequests]]
    /\ open \subseteq {r \in Requests : asked[r] # Unused}

(* A request gets a number that no other has. *)
LEMMA Asks ==
    ASSUME TypeOK, NEW kind \in RequestKinds, NEW about \in 0..MaxRequests, Ask(kind, about)
    PROVE  /\ RequestTypes'
           /\ \E r \in Requests : /\ r \notin open
                                  /\ asked' = [asked EXCEPT ![r] = [kind |-> kind, about |-> about]]
                                  /\ open' = open \cup {r}
<1>1. 1..user.asks \subseteq Requests
  BY LeapAssumption DEF TypeOK, AllUsers, Requests
<1>2. PICK r \in Requests : /\ asked[r] = Unused
                            /\ asked' = [asked EXCEPT ![r] = [kind |-> kind, about |-> about]]
                            /\ open' = open \cup {r}
  BY <1>1 DEF Ask
<1>3. r \notin open
  BY <1>2 DEF TypeOK
<1>4. [kind |-> kind, about |-> about] # Unused
  BY DEF Unused, RequestKinds
<1>5. asked' \in [Requests -> {Unused} \cup [kind : RequestKinds, about : 0..MaxRequests]]
  BY <1>2 DEF TypeOK
<1>6. open' \subseteq {q \in Requests : asked'[q] # Unused}
  BY <1>2, <1>4 DEF TypeOK
<1>7. QED
  BY <1>2, <1>3, <1>5, <1>6 DEF RequestTypes

LEMMA CompletionTypes ==
    ASSUME TypeOK
    PROVE  /\ completions # Undefined => completions.req \in Requests /\ completions.kind \in {"code", "error"}
           /\ completions = Undefined => completions.req = 0 /\ completions.kind = "none"
           /\ completions.req \in 0..MaxRequests /\ Requests \subseteq 0..MaxRequests
           /\ \A r \in Requests : ShownCode(r) \in Requests
           /\ \A r \in open : r \in Requests /\ asked[r].about \in 0..MaxRequests
<1>1. MaxRequests \in Nat \ {0}
  BY LeapAssumption
<1>2. Undefined.req = 0 /\ Undefined.kind = "none"
  BY DEF Undefined
<1>3. Requests \subseteq 0..MaxRequests /\ 0 \in 0..MaxRequests
  BY <1>1 DEF Requests
<1>4. completions # Undefined => completions.req \in Requests /\ completions.kind \in {"code", "error"}
  BY DEF TypeOK
<1>5. \A r \in Requests : ShownCode(r) \in Requests
  BY <1>1 DEF ShownCode, TypeOK, Requests
<1>6. ASSUME NEW r \in open PROVE r \in Requests /\ asked[r].about \in 0..MaxRequests
  BY DEF TypeOK
<1>7. QED
  BY <1>2, <1>3, <1>4, <1>5, <1>6

(* Every step makes a text of the pieces there are. *)
Rewrites ==
    \/ text' = text
    \/ \E r \in Requests : text' = WithSuggestion(text, Code(r))
    \/ \E commentOnly \in BOOLEAN : text' = WithoutSuggestion(text, commentOnly)
    \/ \E i \in 0..Len(text), n \in 1..MaxTyped : text' = Insert(text, i, <<Typed(n)>>)

LEMMA PreviewRewrites ==
    ASSUME TypeOK, PreviewCompletion
    PROVE  Rewrites
<1>1. Undefined.kind # "code"
  BY DEF Undefined
<1>2. completions.kind = "code" => ShownCode(completions.req) \in Requests
  BY <1>1, CompletionTypes
<1>3. QED
  BY <1>2 DEF PreviewCompletion, Rewrites

LEMMA RemoveRewrites ==
    ASSUME NEW commentOnly \in BOOLEAN, RemoveCompletion(commentOnly)
    PROVE  Rewrites
  BY DEF RemoveCompletion, Rewrites

LEMMA UserRewrites ==
    ASSUME TypeOK, UserStep, ~Tamper
    PROVE  Rewrites
<1>1. CASE Toggle
  <2>1. CASE text' = text
    BY <2>1 DEF Rewrites
  <2>2. CASE RemoveCompletion(TRUE)
    BY <2>2, RemoveRewrites
  <2>3. QED
    BY <1>1, <2>1, <2>2 DEF Toggle, HideCompletions
<1>2. CASE Escape
  <2>1. CASE text' = text
    BY <2>1 DEF Rewrites
  <2>2. CASE RemoveCompletion(FALSE)
    BY <2>2, RemoveRewrites
  <2>3. QED
    BY <1>2, <2>1, <2>2 DEF Escape, HideCompletions
<1>3. CASE CopyToEditor
  BY <1>3, PreviewRewrites DEF CopyToEditor
<1>4. CASE Revert
  <2>1. RemoveCompletion(FALSE)
    BY <1>4 DEF Revert
  <2>2. QED
    BY <2>1, RemoveRewrites
<1>5. CASE AddLineComments \/ ToggleLineComments \/ SendMessage
  BY <1>5 DEF AddLineComments, ToggleLineComments, SendMessage, textVars, Rewrites
<1>6. CASE Type
  <2>1. user.types \in 1..MaxTyped /\ typed \in 1..MaxTyped /\ MaxTyped \in Nat
    BY LeapAssumption DEF TypeOK, AllUsers
  <2>2. typed' \in 1..MaxTyped
    BY <1>6, <2>1 DEF Type
  <2>3. QED
    BY <1>6, <2>2 DEF Type, Rewrites
<1>7. QED
  BY <1>1, <1>2, <1>3, <1>4, <1>5, <1>6 DEF UserStep

LEMMA AnswerRewrites ==
    ASSUME TypeOK, NEW r \in Requests, RequestEnds(r)
    PROVE  Rewrites
<1>1. ASSUME NEW kind \in {"code", "error"}, CompletionEnds(r, kind)
      PROVE  Rewrites
  BY <1>1, CompletionTypes DEF CompletionEnds, Rewrites
<1>2. CASE text' = text
  BY <1>2 DEF Rewrites
<1>3. QED
  BY <1>1, <1>2 DEF RequestEnds, CommentsEnd, ChatEnds, SummaryEnds, RequestFails

LEMMA RewritesType ==
    ASSUME TypeOK, Rewrites
    PROVE  text' \in Seq(Pieces)
<1>1. text \in Seq(Pieces) /\ cursor \in Nat
  BY DEF TypeOK
<1>2. QED
  BY <1>1, TextTypes, PieceFacts DEF Rewrites

LEMMA TamperType ==
    ASSUME TypeOK, Tamper
    PROVE  text' \in Seq(Pieces)
<1>1. text \in Seq(Pieces)
  BY DEF TypeOK
<1>2. QED
  BY <1>1, TextTypes, PieceFacts DEF Tamper

Talk == Seq([role : {"system", "user", "assistant"}, about : 0..MaxRequests])

(* A conversation goes on with messages. *)
LEMMA TalkOn ==
    ASSUME NEW c \in Talk, NEW n \in 0..MaxRequests
    PROVE  /\ c \o <<Message("system", n), Message("user", n), Message("assistant", n)>> \in Talk
           /\ c \o <<Message("user", n), Message("assistant", n)>> \in Talk
<1>1. \A role \in {"system", "user", "assistant"} :
          Message(role, n) \in [role : {"system", "user", "assistant"}, about : 0..MaxRequests]
  BY DEF Message
<1>2. /\ <<Message("system", n), Message("user", n), Message("assistant", n)>> \in Talk
      /\ <<Message("user", n), Message("assistant", n)>> \in Talk
  BY <1>1 DEF Talk
<1>3. QED
  BY <1>2, ConcatProperties DEF Talk

(* The variables of the session, apart from the text and the requests. *)
SessionTypes ==
    /\ state \in {"Off", "Loading", "Shown"}
    /\ panel \in {"none", "blank", "code", "commented", "error"}
    /\ completions \in {Undefined} \cup [req : Requests, kind : {"code", "error"}]
    /\ lineComments \in 0..MaxRequests
    /\ viewing \in BOOLEAN
    /\ convo \in Talk

LEMMA TypeParts ==
    TypeOK <=> /\ SessionTypes /\ RequestTypes
               /\ user \in Users /\ aborted \in BOOLEAN
               /\ text \in Seq(Pieces) /\ cursor \in Nat /\ typed \in 1..MaxTyped
  BY DEF TypeOK, SessionTypes, RequestTypes, Talk

LEMMA TypePartsNext ==
    TypeOK' <=> /\ SessionTypes' /\ RequestTypes'
                /\ user' \in Users /\ aborted' \in BOOLEAN
                /\ text' \in Seq(Pieces) /\ cursor' \in Nat /\ typed' \in 1..MaxTyped
  BY DEF TypeOK, SessionTypes, RequestTypes, Talk

LEMMA UserTypes ==
    ASSUME TypeOK, UserStep, UNCHANGED user
    PROVE  TypeOK'
<1>1. text' \in Seq(Pieces)
  BY UserRewrites, RewritesType, TamperType
<1>2. Len(text) \in Nat
  BY LenProperties DEF TypeOK
<1>3. 0 \in 0..MaxRequests /\ completions.req \in 0..MaxRequests
  BY CompletionTypes, LeapAssumption
<1>4. SessionTypes /\ RequestTypes /\ user' \in Users /\ typed \in 1..MaxTyped /\ cursor \in Nat
      /\ aborted \in BOOLEAN
  BY TypeParts
<1>5. RequestTypes'
  <2>1. ASSUME UNCHANGED requestVars PROVE RequestTypes'
    BY <1>4, <2>1 DEF RequestTypes, requestVars
  <2>2. ASSUME NEW kind \in RequestKinds, NEW about \in 0..MaxRequests, Ask(kind, about)
        PROVE  RequestTypes'
    BY <2>2, Asks
  <2>3. {"summary", "complete", "comments", "chat"} \subseteq RequestKinds
    BY DEF RequestKinds
  <2>4. ASSUME Dispose PROVE RequestTypes'
    BY <1>3, <2>1, <2>2, <2>3, <2>4 DEF Dispose
  <2>5. CASE Toggle \/ Escape
    BY <1>3, <2>1, <2>2, <2>3, <2>4, <2>5
       DEF Toggle, Escape, StartCompletion, HideCompletions, requestVars
  <2>6. CASE AddLineComments \/ SendMessage
    BY <1>3, <2>1, <2>2, <2>3, <2>6 DEF AddLineComments, SendMessage
  <2>7. CASE CopyToEditor \/ Revert \/ ToggleLineComments \/ Type \/ Tamper
    BY <2>1, <2>7 DEF CopyToEditor, Revert, ToggleLineComments, Type, Tamper
  <2>8. QED
    BY <2>5, <2>6, <2>7 DEF UserStep
<1>6. SessionTypes'
  <2>1. CASE Toggle \/ Escape
    BY <1>4, <2>1
       DEF Toggle, Escape, StartCompletion, HideCompletions, Dispose, SessionTypes
  <2>2. CASE AddLineComments \/ ToggleLineComments
    BY <1>4, <2>2 DEF AddLineComments, ToggleLineComments, SessionTypes
  <2>3. CASE SendMessage \/ CopyToEditor \/ Revert \/ Type \/ Tamper
    BY <1>4, <2>3 DEF SendMessage, CopyToEditor, Revert, Type, Tamper, SessionTypes, sessionVars
  <2>4. QED
    BY <2>1, <2>2, <2>3 DEF UserStep
<1>7. aborted' \in BOOLEAN /\ cursor' \in Nat /\ typed' \in 1..MaxTyped
  <2>1. CASE Toggle \/ Escape
    <3>1. cursor' \in 0..Len(text) \/ cursor' = cursor
      BY <2>1 DEF Toggle, Escape, StartCompletion
    <3>2. aborted' \in BOOLEAN /\ typed' = typed
      BY <2>1 DEF Toggle, Escape
    <3>3. QED
      BY <1>2, <1>4, <3>1, <3>2
  <2>2. CASE Type \/ Tamper
    <3>1. user.types \in 1..MaxTyped /\ MaxTyped \in Nat
      BY LeapAssumption DEF TypeOK, AllUsers
    <3>2. QED
      BY <1>4, <2>2, <3>1 DEF Type, Tamper
  <2>3. CASE AddLineComments \/ ToggleLineComments \/ SendMessage \/ CopyToEditor \/ Revert
    BY <1>4, <2>3 DEF AddLineComments, ToggleLineComments, SendMessage, CopyToEditor, Revert, textVars
  <2>4. QED
    BY <2>1, <2>2, <2>3 DEF UserStep
<1>8. QED
  BY <1>1, <1>4, <1>5, <1>6, <1>7, TypePartsNext

LEMMA AnswerTypes ==
    ASSUME TypeOK, NEW r \in Requests, RequestEnds(r)
    PROVE  TypeOK'
<1>1. text' \in Seq(Pieces)
  BY AnswerRewrites, RewritesType
<1>2. SessionTypes /\ RequestTypes
  BY TypeParts
<1>3. /\ r \in open /\ open' = open \ {r}
      /\ UNCHANGED <<user, asked, aborted, typed, cursor>>
  BY DEF RequestEnds, CompletionEnds, CommentsEnd, ChatEnds, SummaryEnds, RequestFails, Ends
<1>4. RequestTypes'
  BY <1>2, <1>3 DEF RequestTypes
<1>5. SessionTypes'
  <2>1. ASSUME NEW kind \in {"code", "error"}, CompletionEnds(r, kind) PROVE SessionTypes'
    <3>1. r \in 0..MaxRequests
      BY CompletionTypes
    <3>2. convo' \in Talk
      BY <1>2, <2>1, <3>1, TalkOn DEF CompletionEnds, SessionTypes
    <3>3. [req |-> r, kind |-> kind] \in [req : Requests, kind : {"code", "error"}]
      OBVIOUS
    <3>4. Page(kind) \in {"code", "commented", "error"}
      BY DEF Page
    <3>5. QED
      BY <1>2, <2>1, <3>2, <3>3, <3>4 DEF CompletionEnds, SessionTypes
  <2>2. asked[r].about \in 0..MaxRequests
    BY <1>3, CompletionTypes
  <2>3. CASE CommentsEnd(r)
    BY <1>2, <2>2, <2>3 DEF CommentsEnd, SessionTypes
  <2>4. CASE ChatEnds(r)
    <3>1. convo' \in Talk
      BY <1>2, <2>2, <2>4, TalkOn DEF ChatEnds, SessionTypes
    <3>2. QED
      BY <1>2, <2>4, <3>1 DEF ChatEnds, SessionTypes
  <2>5. CASE SummaryEnds(r)
    <3>1. <<>> \in Talk /\ 0 \in 0..MaxRequests
      BY EmptySeq, LeapAssumption DEF Talk
    <3>2. QED
      BY <1>2, <2>5, <3>1 DEF SummaryEnds, SessionTypes
  <2>6. CASE RequestFails(r)
    BY <1>2, <2>6 DEF RequestFails, SessionTypes, sessionVars
  <2>7. QED
    BY <2>1, <2>3, <2>4, <2>5, <2>6 DEF RequestEnds
<1>6. QED
  BY <1>1, <1>3, <1>4, <1>5, TypeParts, TypePartsNext

(* Every variable of the session keeps its type: the text stays a sequence of *)
(* pieces, and what is awaited was asked (Leap.ts, Chat.ts).                  *)
THEOREM TypeCorrect == Spec => []TypeOK
<1>1. Init => TypeOK
  <2> SUFFICES ASSUME Init PROVE TypeOK
    OBVIOUS
  <2>1. 0 \in 0..MaxRequests /\ 1 \in 1..MaxTyped
    BY LeapAssumption
  <2>2. text \in Seq(Pieces)
    <3>1. Typed(1) \in Pieces
      BY <2>1, PieceFacts
    <3>2. <<Typed(1)>> \in Seq(Pieces) /\ <<>> \in Seq(Pieces)
      BY <3>1, EmptySeq
    <3>3. text \in {<<>>, <<Typed(1)>>}
      BY DEF Init
    <3>4. QED
      BY <3>2, <3>3
  <2>3. <<>> \in Talk
    BY EmptySeq DEF Talk
  <2>4. SessionTypes
    BY <2>1, <2>3 DEF Init, SessionTypes
  <2>5. RequestTypes
    BY DEF Init, RequestTypes
  <2>6. user \in Users /\ aborted \in BOOLEAN /\ cursor \in Nat /\ typed \in 1..MaxTyped
    BY <2>1 DEF Init
  <2>7. QED
    BY <2>2, <2>4, <2>5, <2>6, TypeParts
<1>2. TypeOK /\ [Next]_vars => TypeOK'
  <2>1. TypeOK /\ UNCHANGED vars => TypeOK'
    BY DEF TypeOK, vars, sessionVars, requestVars, textVars
  <2>2. QED
    BY <2>1, UserTypes, AnswerTypes DEF Next
<1>3. QED
  BY <1>1, <1>2, PTL DEF Spec

-----------------------------------------------------------------------------
(* The panel *)

LEMMA PanelNext ==
    ASSUME TypeOK, PanelFollowsState, [Next]_vars
    PROVE  PanelFollowsState'
<1>1. CASE UNCHANGED vars
  BY <1>1 DEF vars, sessionVars, PanelFollowsState
<1>2. CASE Toggle \/ Escape
  BY <1>2 DEF Toggle, Escape, StartCompletion, HideCompletions, Dispose, PanelFollowsState
<1>3. CASE AddLineComments \/ ToggleLineComments
  BY <1>3 DEF AddLineComments, ToggleLineComments, PanelFollowsState
<1>4. CASE SendMessage \/ CopyToEditor \/ Revert \/ Type \/ Tamper
  BY <1>4 DEF SendMessage, CopyToEditor, Revert, Type, Tamper, sessionVars, PanelFollowsState
<1>5. ASSUME NEW r \in Requests, RequestEnds(r) PROVE PanelFollowsState'
  <2>1. ASSUME NEW kind \in {"code", "error"}, CompletionEnds(r, kind) PROVE PanelFollowsState'
    BY <2>1 DEF CompletionEnds, PanelFollowsState, Page
  <2>2. CASE CommentsEnd(r)
    BY <2>2 DEF CommentsEnd, Buttons, PanelFollowsState, TypeOK
  <2>3. CASE ChatEnds(r) \/ SummaryEnds(r) \/ RequestFails(r)
    BY <2>3 DEF ChatEnds, SummaryEnds, RequestFails, sessionVars, PanelFollowsState
  <2>4. QED
    BY <1>5, <2>1, <2>2, <2>3 DEF RequestEnds
<1>6. QED
  BY <1>1, <1>2, <1>3, <1>4, <1>5 DEF Next, UserStep

(* However toggles, escapes and answers interleave, the panel is there while  *)
(* a completion is loading, gone when the session is off, and no longer blank *)
(* when one is shown (Leap.ts, startCompletion, hideCompletionsAndSave,       *)
(* dispose and renderCompletionPage).                                         *)
THEOREM PanelThere == Spec => []PanelFollowsState
<1>1. Init => PanelFollowsState
  BY DEF Init, PanelFollowsState
<1>2. QED
  BY <1>1, PanelNext, TypeCorrect, PTL DEF Spec

-----------------------------------------------------------------------------
(***************************************************************************)
(* One suggestion.  OneSuggestion is not inductive: two comments that      *)
(* enclose nothing the model wrote would have their own text taken out.    *)
(***************************************************************************)

CodeOf(R) == {Code(r) : r \in R}

OnePair == ~user.tampers => Suggestion(text, CodeOf(Requests))

LEMMA SuggestionMore ==
    ASSUME NEW t, NEW C, NEW D, C \subseteq D, Suggestion(t, C)
    PROVE  Suggestion(t, D)
  BY DEF Suggestion, Encloses

LEMMA SuggestionRewritten ==
    ASSUME TypeOK, Rewrites, Suggestion(text, CodeOf(Requests))
    PROVE  Suggestion(text', CodeOf(Requests)) /\ OwnText(text) \subseteq Elements(text')
<1> DEFINE C == CodeOf(Requests)
<1>1. text \in Seq(Pieces) /\ cursor \in Nat
  BY DEF TypeOK
<1>2. CASE text' = text
  BY <1>2 DEF OwnText, Elements
<1>3. CASE \E r \in Requests : text' = WithSuggestion(text, Code(r))
  <2>1. PICK r \in Requests : text' = WithSuggestion(text, Code(r))
    BY <1>3
  <2>2. Suggestion(text', {Code(r)})
    BY <1>1, <2>1, SuggestionShown
  <2>3. {Code(r)} \subseteq C
    BY DEF CodeOf
  <2>4. QED
    BY <1>1, <2>1, <2>2, <2>3, SuggestionMore, OwnTextStays
<1>4. CASE \E commentOnly \in BOOLEAN : text' = WithoutSuggestion(text, commentOnly)
  <2>1. PICK commentOnly \in BOOLEAN : text' = WithoutSuggestion(text, commentOnly)
    BY <1>4
  <2>2. Marks(text') = {}
    BY <1>1, <2>1, SuggestionRemoved
  <2>3. QED
    BY <1>1, <2>1, <2>2, OwnTextStays DEF Suggestion
<1>5. CASE \E i \in 0..Len(text), n \in 1..MaxTyped : text' = Insert(text, i, <<Typed(n)>>)
  <2>1. PICK i \in 0..Len(text), n \in 1..MaxTyped : text' = Insert(text, i, <<Typed(n)>>)
    BY <1>5
  <2>2. Typed(n) \in Pieces /\ Typed(n) # Marker /\ Typed(n).by # "model"
    BY PieceFacts
  <2>3. QED
    BY <1>1, <2>1, <2>2, TypedBeside, OwnTextStays
<1>6. QED
  BY <1>2, <1>3, <1>4, <1>5 DEF Rewrites

LEMMA StepRewrites ==
    ASSUME TypeOK, [Next]_vars, ~user.tampers
    PROVE  Rewrites /\ user' = user
<1>1. ~Tamper
  BY DEF Tamper
<1>2. CASE UNCHANGED vars
  BY <1>2 DEF vars, textVars, Rewrites
<1>3. CASE UserStep /\ UNCHANGED user
  BY <1>1, <1>3, UserRewrites
<1>4. ASSUME NEW r \in Requests, RequestEnds(r) PROVE Rewrites /\ user' = user
  <2>1. user' = user
    BY <1>4 DEF RequestEnds, CompletionEnds, CommentsEnd, ChatEnds, SummaryEnds, RequestFails, Ends
  <2>2. QED
    BY <1>4, <2>1, AnswerRewrites
<1>5. QED
  BY <1>2, <1>3, <1>4 DEF Next

LEMMA PairInvariant == Spec => []OnePair
<1>1. Init => OnePair
  <2> SUFFICES ASSUME Init PROVE Marks(text) = {}
    BY DEF OnePair, Suggestion
  <2>1. Typed(1) # Marker
    BY DEF Typed, Marker
  <2>2. Marks(<<>>) = {} /\ Marks(<<Typed(1)>>) = {}
    BY <2>1 DEF Marks
  <2>3. QED
    BY <2>2 DEF Init
<1>2. ASSUME TypeOK, OnePair, [Next]_vars PROVE OnePair'
  <2>1. user' = user
    BY <1>2 DEF Next, vars, RequestEnds, CompletionEnds, CommentsEnd, ChatEnds, SummaryEnds,
                RequestFails, Ends
  <2>2. QED
    BY <1>2, <2>1, StepRewrites, SuggestionRewritten DEF OnePair
<1>3. QED
  BY <1>1, <1>2, TypeCorrect, PTL DEF Spec

(* While nobody else writes completion comments there is none or one pair of  *)
(* them in the text, whatever late answers, copies and reverts do (Leap.ts,   *)
(* previewCompletion and removeCompletion).                                   *)
THEOREM AtMostOneSuggestion == Spec => []OneSuggestion
<1>1. TypeOK /\ OnePair => OneSuggestion
  <2> SUFFICES ASSUME TypeOK, OnePair, ~user.tampers PROVE Cardinality(Marks(text)) \in {0, 2}
    BY DEF OneSuggestion
  <2>1. text \in Seq(Pieces) /\ Suggestion(text, CodeOf(Requests))
    BY DEF TypeOK, OnePair
  <2>2. CASE Marks(text) = {}
    BY <2>2, FS_EmptySet
  <2>3. CASE Marks(text) # {}
    BY <2>1, <2>3, EnclosesFacts DEF Suggestion
  <2>4. QED
    BY <2>2, <2>3
<1>2. QED
  BY <1>1, PairInvariant, TypeCorrect, PTL

-----------------------------------------------------------------------------
(***************************************************************************)
(* What is written besides completion comments: it is put together from    *)
(* the first piece to the last, and a comment adds nothing to it.          *)
(***************************************************************************)

IsWriting(t, m, g) ==
    g = [n \in 0..m |-> IF n = 0 THEN <<>>
                        ELSE IF t[n] = Marker THEN g[n - 1] ELSE Append(g[n - 1], t[n])]

LEMMA WritingExists ==
    ASSUME NEW t, NEW n \in Nat
    PROVE  \E g : IsWriting(t, n, g)
<1> DEFINE T == {m \in Nat : ~ \E g : IsWriting(t, m, g)}
<1>1. SUFFICES ASSUME T # {} PROVE FALSE
  OBVIOUS
<1>2. PICK m \in T : \A y \in T : m <= y
  BY <1>1, LeastNumber
<1>3. m # 0
  <2>1. IsWriting(t, 0, [k \in 0..0 |-> <<>>])
    BY DEF IsWriting
  <2>2. QED
    BY <2>1
<1>4. m - 1 \in Nat /\ m - 1 \notin T
  BY <1>2, <1>3
<1>5. PICK g : IsWriting(t, m - 1, g)
  BY <1>4
<1> DEFINE last == IF t[m] = Marker THEN g[m - 1] ELSE Append(g[m - 1], t[m])
           f == [k \in 0..m |-> IF k = m THEN last ELSE g[k]]
<1>6. ASSUME NEW k \in 0..m
      PROVE  f[k] = IF k = 0 THEN <<>> ELSE IF t[k] = Marker THEN f[k - 1] ELSE Append(f[k - 1], t[k])
  <2>1. CASE k = m
    <3>1. m - 1 \in 0..m /\ m - 1 # m
      BY <1>3
    <3>2. f[m] = last /\ f[m - 1] = g[m - 1]
      BY <3>1
    <3>3. QED
      BY <1>3, <2>1, <3>2
  <2>2. CASE k # m
    <3>1. k \in 0..(m - 1) /\ (k # 0 => k - 1 \in 0..m /\ k - 1 # m)
      BY <2>2
    <3>2. f[k] = g[k] /\ (k # 0 => f[k - 1] = g[k - 1])
      BY <2>2, <3>1
    <3>3. g[k] = IF k = 0 THEN <<>> ELSE IF t[k] = Marker THEN g[k - 1] ELSE Append(g[k - 1], t[k])
      BY <1>5, <3>1 DEF IsWriting
    <3>4. QED
      BY <3>2, <3>3
  <2>3. QED
    BY <2>1, <2>2
<1>7. f = [k \in 0..m |-> IF k = 0 THEN <<>>
                         ELSE IF t[k] = Marker THEN f[k - 1] ELSE Append(f[k - 1], t[k])]
  BY <1>6
<1>8. IsWriting(t, m, f)
  BY <1>7 DEF IsWriting
<1>9. QED
  BY <1>8

LEMMA WritingIs ==
    ASSUME NEW t, Len(t) \in Nat
    PROVE  \E g : /\ g[0] = <<>>
                  /\ \A n \in 1..Len(t) : g[n] = IF t[n] = Marker THEN g[n - 1] ELSE Append(g[n - 1], t[n])
                  /\ Written(t) = g[Len(t)]
<1> DEFINE g == CHOOSE f : f = [n \in 0..Len(t) |->
                                  IF n = 0 THEN <<>>
                                  ELSE IF t[n] = Marker THEN f[n - 1] ELSE Append(f[n - 1], t[n])]
<1>1. g = [n \in 0..Len(t) |-> IF n = 0 THEN <<>>
                               ELSE IF t[n] = Marker THEN g[n - 1] ELSE Append(g[n - 1], t[n])]
  <2>1. \E f : f = [n \in 0..Len(t) |-> IF n = 0 THEN <<>>
                                        ELSE IF t[n] = Marker THEN f[n - 1] ELSE Append(f[n - 1], t[n])]
    <3>1. \E f : IsWriting(t, Len(t), f)
      BY WritingExists
    <3>2. QED
      BY <3>1 DEF IsWriting
  <2>2. QED
    BY <2>1
<1>2. Written(t) = g[Len(t)]
  BY DEF Written
<1> HIDE DEF g
<1>3. 0 \in 0..Len(t) /\ \A n \in 1..Len(t) : n \in 0..Len(t) /\ n # 0
  OBVIOUS
<1>4. g[0] = <<>> /\ \A n \in 1..Len(t) : g[n] = IF t[n] = Marker THEN g[n - 1] ELSE Append(g[n - 1], t[n])
  BY <1>1, <1>3
<1>5. QED
  BY <1>2, <1>4

(* u is t without the comment at i. *)
WithoutMark(u, t, i) ==
    /\ t[i] = Marker
    /\ Len(u) = Len(t) - 1
    /\ \A j \in 1..(i - 1) : u[j] = t[j]
    /\ \A j \in i..(Len(t) - 1) : u[j] = t[j + 1]

LEMMA MarkWritesNothing ==
    ASSUME NEW t, NEW u, Len(t) \in Nat, NEW i \in 1..Len(t), WithoutMark(u, t, i)
    PROVE  Written(u) = Written(t)
<1>1. Len(u) \in Nat /\ Len(u) = Len(t) - 1 /\ i \in Nat /\ 1 <= i /\ i <= Len(t)
  BY DEF WithoutMark
<1>2. PICK g : /\ g[0] = <<>>
               /\ \A n \in 1..Len(t) : g[n] = IF t[n] = Marker THEN g[n - 1] ELSE Append(g[n - 1], t[n])
               /\ Written(t) = g[Len(t)]
  BY WritingIs
<1>3. PICK h : /\ h[0] = <<>>
               /\ \A n \in 1..Len(u) : h[n] = IF u[n] = Marker THEN h[n - 1] ELSE Append(h[n - 1], u[n])
               /\ Written(u) = h[Len(u)]
  BY <1>1, WritingIs
<1> DEFINE Same(n) == h[n] = IF n < i THEN g[n] ELSE g[n + 1]
           T == {n \in 0..Len(u) : ~Same(n)}
<1>4. g[i] = g[i - 1]
  BY <1>2 DEF WithoutMark
<1>5. SUFFICES T = {}
  <2>1. Len(u) \in 0..Len(u) /\ ~(Len(u) < i - 1)
    BY <1>1
  <2>2. Same(Len(u))
    BY <1>5, <2>1
  <2>3. h[Len(u)] = g[Len(t)]
    <3>1. CASE Len(u) < i
      <4>1. Len(u) = i - 1 /\ Len(t) = i
        BY <1>1, <3>1
      <4>2. QED
        BY <1>4, <2>2, <3>1, <4>1
    <3>2. CASE ~(Len(u) < i)
      <4>1. Len(u) + 1 = Len(t)
        BY <1>1
      <4>2. QED
        BY <2>2, <3>2, <4>1
    <3>3. QED
      BY <3>1, <3>2
  <2>4. QED
    BY <1>2, <1>3, <2>3
<1>6. SUFFICES ASSUME T # {} PROVE FALSE
  OBVIOUS
<1>7. PICK n \in T : \A y \in T : n <= y
  <2>1. T \in SUBSET Nat
    BY <1>1
  <2>2. QED
    BY <1>6, <2>1, LeastNumber
<1>8. n \in 0..Len(u) /\ ~Same(n)
  OBVIOUS
<1>9. n # 0
  <2>1. Same(0)
    BY <1>1, <1>2, <1>3
  <2>2. QED
    BY <1>8, <2>1
<1>10. n - 1 \in 0..Len(u) /\ ~(n <= n - 1) /\ n \in 1..Len(u) /\ n \in Nat
  BY <1>1, <1>8, <1>9
<1>11. Same(n - 1)
  BY <1>7, <1>10
<1>12. h[n] = IF u[n] = Marker THEN h[n - 1] ELSE Append(h[n - 1], u[n])
  BY <1>3, <1>10
<1>13. CASE n < i
  <2>1. n \in 1..(i - 1) /\ n \in 1..Len(t) /\ n - 1 < i
    BY <1>1, <1>10, <1>13
  <2>2. u[n] = t[n] /\ h[n - 1] = g[n - 1]
    BY <1>11, <2>1 DEF WithoutMark
  <2>3. g[n] = IF t[n] = Marker THEN g[n - 1] ELSE Append(g[n - 1], t[n])
    BY <1>2, <2>1
  <2>4. QED
    BY <1>8, <1>12, <1>13, <2>2, <2>3
<1>14. CASE n >= i
  <2>1. /\ n \in i..(Len(t) - 1) /\ n + 1 \in 1..Len(t) /\ (n + 1) - 1 = n /\ ~(n < i)
        /\ (n - 1 < i => n = i /\ n - 1 = i - 1) /\ (n - 1) + 1 = n
    BY <1>1, <1>10, <1>14
  <2>2. u[n] = t[n + 1]
    BY <2>1 DEF WithoutMark
  <2>3. h[n - 1] = g[n]
    BY <1>4, <1>11, <2>1
  <2>4. g[n + 1] = IF t[n + 1] = Marker THEN g[n] ELSE Append(g[n], t[n + 1])
    BY <1>2, <2>1
  <2>5. QED
    BY <1>8, <1>12, <2>1, <2>2, <2>3, <2>4
<1>15. QED
  BY <1>1, <1>10, <1>13, <1>14

(* A piece that is taken out, and one that is put in. *)
LEMMA MarkTakenOut ==
    ASSUME NEW t \in Seq(Pieces), NEW i \in Marks(t)
    PROVE  WithoutMark(Splice(t, i - 1, i, <<>>), t, i)
<1>1. i \in 1..Len(t) /\ Len(t) \in Nat /\ t[i] = Marker
  BY LenProperties DEF Marks
<1> DEFINE f == i - 1
<1>2. f \in 0..Len(t) /\ i \in f..Len(t) /\ f \in Nat /\ i = f + 1
  BY <1>1
<1>3. <<>> \in Seq(Pieces) /\ Len(<<>>) = 0
  BY EmptySeq
<1> HIDE DEF f
<1>4. IsSplice(Splice(t, f, i, <<>>), t, f, i, <<>>)
  BY <1>2, <1>3, SpliceElements
<1> DEFINE u == Splice(t, f, i, <<>>)
<1> HIDE DEF u
<1>5. /\ Len(u) = Len(t) - 1
      /\ \A j \in 1..(Len(t) - 1) : u[j] = IF j <= f THEN t[j] ELSE t[j + 1]
  <2>1. f + Len(<<>>) + (Len(t) - i) = Len(t) - 1 /\ f + Len(<<>>) = f
    BY <1>1, <1>2, <1>3
  <2>2. /\ Len(u) = Len(t) - 1
        /\ \A j \in 1..(Len(t) - 1) :
              u[j] = IF j <= f THEN t[j] ELSE IF j <= f THEN <<>>[j - f] ELSE t[j - f + i]
    BY <1>4, <2>1 DEF IsSplice, u
  <2>3. \A j \in 1..(Len(t) - 1) : j - f + i = j + 1
    BY <1>1, <1>2
  <2>4. QED
    BY <2>2, <2>3
<1>6. WithoutMark(u, t, i)
  <2>1. \A j \in 1..(i - 1) : j \in 1..(Len(t) - 1) /\ j <= f
    BY <1>1, <1>2
  <2>2. \A j \in i..(Len(t) - 1) : j \in 1..(Len(t) - 1) /\ ~(j <= f)
    BY <1>1, <1>2
  <2>3. QED
    BY <1>1, <1>5, <2>1, <2>2 DEF WithoutMark
<1>7. QED
  BY <1>6 DEF u, f

LEMMA MarkDeleted ==
    ASSUME NEW t \in Seq(Pieces), NEW i \in Marks(t)
    PROVE  Written(SubSeq(t, 1, i - 1) \o SubSeq(t, i + 1, Len(t))) = Written(t)
<1>1. i \in 1..Len(t) /\ Len(t) \in Nat
  BY LenProperties DEF Marks
<1>2. SubSeq(t, 1, i - 1) \in Seq(Pieces)
  <2>1. \A j \in 1..(i - 1) : t[j] \in Pieces
    BY <1>1, ElementOfSeq
  <2>2. QED
    BY <1>1, <2>1, SubSeqProperties
<1>3. SubSeq(t, 1, i - 1) \o <<>> = SubSeq(t, 1, i - 1)
  BY <1>2, ConcatEmptySeq
<1>4. SubSeq(t, 1, i - 1) \o SubSeq(t, i + 1, Len(t)) = Splice(t, i - 1, i, <<>>)
  BY <1>3 DEF Splice
<1>5. QED
  BY <1>1, <1>4, MarkTakenOut, MarkWritesNothing

(* Accepting a suggestion: the first and the last comment are taken out. *)
LEMMA AcceptingWrites ==
    ASSUME NEW t \in Seq(Pieces)
    PROVE  Written(WithoutSuggestion(t, TRUE)) = Written(t)
<1>1. CASE Marks(t) = {}
  BY <1>1 DEF WithoutSuggestion
<1>2. CASE Marks(t) # {}
  <2> DEFINE a == First(t)
             b == Last(t)
             m == Between(t)
             f == a - 1
             v == Splice(t, b - 1, b, <<>>)
             u == Splice(t, f, b, m)
  <2>1. /\ a \in 1..Len(t) /\ b \in 1..Len(t) /\ a <= b /\ Len(t) \in Nat
        /\ a \in Marks(t) /\ b \in Marks(t) /\ t[a] = Marker /\ t[b] = Marker
    BY <1>2, MarksBounded, LenProperties DEF Marks
  <2>2. WithoutSuggestion(t, TRUE) = u
    BY <1>2, ReplaceIsSplice DEF WithoutSuggestion
  <2>3. /\ m \in Seq(Pieces) /\ Len(m) = IF a < b THEN b - a - 1 ELSE 0
        /\ \A j \in 1..(b - a - 1) : m[j] = t[a + j]
    BY <1>2, BetweenElements
  <2>4. WithoutMark(v, t, b)
    BY <2>1, MarkTakenOut
  <2>5. Written(v) = Written(t)
    BY <2>1, <2>4, MarkWritesNothing
  <2>6. CASE a = b
    <3>1. m = <<>>
      BY <2>1, <2>3, <2>6, EmptySeq
    <3>2. u = v
      BY <2>6, <3>1
    <3>3. QED
      BY <2>2, <2>5, <3>2
  <2>7. CASE a < b
    <3>1. f \in 0..Len(t) /\ b \in f..Len(t) /\ f \in Nat /\ a = f + 1
      BY <2>1
    <3> HIDE DEF a, b, m, f, v
    <3>2. IsSplice(u, t, f, b, m)
      BY <2>3, <3>1, SpliceElements
    <3> HIDE DEF u
    <3>3. f + Len(m) = b - 2 /\ f + Len(m) + (Len(t) - b) = Len(t) - 2
      BY <2>1, <2>3, <2>7, <3>1
    <3>4. /\ Len(u) = Len(t) - 2
          /\ \A j \in 1..(Len(t) - 2) : u[j] = IF j <= f THEN t[j]
                                               ELSE IF j <= b - 2 THEN m[j - f] ELSE t[j - (b - 2) + b]
      BY <3>2, <3>3 DEF IsSplice
    <3>5. ASSUME NEW j \in 1..(Len(t) - 2) PROVE u[j] = IF j < a THEN v[j] ELSE v[j + 1]
      <4>1. CASE j < a
        <5>1. j <= f /\ j \in 1..(b - 1)
          BY <2>1, <2>7, <3>1, <4>1
        <5>2. QED
          BY <2>4, <3>4, <4>1, <5>1 DEF WithoutMark
      <4>2. CASE j >= a /\ j <= b - 2
        <5>1. /\ ~(j <= f) /\ ~(j < a) /\ j - f \in 1..(b - a - 1)
              /\ a + (j - f) = j + 1 /\ j + 1 \in 1..(b - 1)
          BY <2>1, <3>1, <4>2
        <5>2. v[j + 1] = t[j + 1]
          BY <2>4, <5>1 DEF WithoutMark
        <5>3. m[j - f] = t[j + 1]
          BY <2>3, <5>1
        <5>4. QED
          BY <3>4, <4>2, <5>1, <5>2, <5>3
      <4>3. CASE j > b - 2
        <5>1. /\ ~(j <= f) /\ ~(j < a) /\ ~(j <= b - 2) /\ j + 1 \in b..(Len(t) - 1)
              /\ j - (b - 2) + b = (j + 1) + 1
          BY <2>1, <2>7, <3>1, <4>3
        <5>2. v[j + 1] = t[(j + 1) + 1]
          BY <2>4, <5>1 DEF WithoutMark
        <5>3. u[j] = t[(j + 1) + 1]
          BY <3>4, <5>1
        <5>4. QED
          BY <5>1, <5>2, <5>3
      <4>4. QED
        BY <2>1, <4>1, <4>2, <4>3
    <3>6. WithoutMark(u, v, a)
      <4>1. Len(v) = Len(t) - 1 /\ v[a] = Marker
        <5>1. a \in 1..(b - 1)
          BY <2>1, <2>7
        <5>2. QED
          BY <2>1, <2>4, <5>1 DEF WithoutMark
      <4>2. \A j \in 1..(a - 1) : j \in 1..(Len(t) - 2) /\ j < a
        BY <2>1, <2>7
      <4>3. \A j \in a..(Len(v) - 1) : j \in 1..(Len(t) - 2) /\ ~(j < a)
        BY <2>1, <4>1
      <4>4. Len(u) = Len(v) - 1
        BY <2>1, <3>4, <4>1
      <4>5. QED
        BY <3>5, <4>1, <4>2, <4>3, <4>4 DEF WithoutMark
    <3>7. Len(v) \in Nat /\ a \in 1..Len(v)
      BY <2>1, <2>4, <2>7 DEF WithoutMark
    <3>8. Written(u) = Written(v)
      BY <3>6, <3>7, MarkWritesNothing
    <3>9. QED
      BY <2>2, <2>5, <3>8
  <2>8. First(t) \in Nat /\ Last(t) \in Nat /\ First(t) <= Last(t)
    BY <2>1
  <2>9. First(t) = Last(t) \/ First(t) < Last(t)
    BY <2>8
  <2>10. QED
    BY <2>6, <2>7, <2>9
<1>3. QED
  BY <1>1, <1>2

(* A comment without its pair is removed alone. *)
LEMMA SingleMark ==
    ASSUME NEW t \in Seq(Pieces), Cardinality(Marks(t)) = 1
    PROVE  \E i \in DOMAIN t : Marks(t) = {i}
<1>1. IsFiniteSet(Marks(t))
  <2>1. Len(t) \in Nat /\ Marks(t) \subseteq 1..Len(t)
    BY LenProperties DEF Marks
  <2>2. IsFiniteSet(1..Len(t))
    BY <2>1, FS_Interval
  <2>3. QED
    BY <2>1, <2>2, FS_Subset
<1>2. PICK i : Marks(t) = {i}
  BY <1>1, FS_Singleton
<1>3. QED
  BY <1>2 DEF Marks

LEMMA SingleMarkRemoved ==
    ASSUME NEW t \in Seq(Pieces), Cardinality(Marks(t)) = 1, NEW commentOnly \in BOOLEAN
    PROVE  Written(WithoutSuggestion(t, commentOnly)) = Written(t)
<1>1. PICK i \in DOMAIN t : Marks(t) = {i}
  BY SingleMark
<1>2. Marks(t) # {} /\ First(t) = i /\ Last(t) = i
  BY <1>1, MarksBounded
<1> DEFINE m == IF commentOnly THEN Between(t) ELSE <<>>
<1>3. m = <<>>
  <2>1. i \in Nat
    BY LenProperties
  <2>2. Between(t) \in Seq(Pieces) /\ Len(Between(t)) = 0
    BY <1>2, <2>1, BetweenElements
  <2>3. QED
    BY <2>2, EmptySeq
<1>4. WithoutSuggestion(t, commentOnly) = Before(t) \o m \o Behind(t)
  BY <1>2 DEF WithoutSuggestion
<1> HIDE DEF m
<1>5. WithoutSuggestion(t, commentOnly) = Splice(t, i - 1, i, <<>>)
  BY <1>2, <1>3, <1>4, ReplaceIsSplice
<1>6. Len(t) \in Nat /\ i \in 1..Len(t)
  BY LenProperties
<1>7. QED
  BY <1>1, <1>5, <1>6, MarkTakenOut, MarkWritesNothing

(* A piece that is put in leaves the comments there are. *)
LEMMA MarkStays ==
    ASSUME NEW t \in Seq(Pieces), NEW k \in Marks(t), NEW i \in 0..Len(t), NEW m \in Seq(Pieces)
    PROVE  Marks(Insert(t, i, m)) # {}
<1>1. /\ Len(t) \in Nat /\ Len(m) \in Nat /\ k \in 1..Len(t) /\ t[k] = Marker
      /\ i \in Nat /\ i \in i..Len(t) /\ i <= Len(t)
  BY LenProperties DEF Marks
<1> DEFINE u == Insert(t, i, m)
<1>2. IsSplice(u, t, i, i, m)
  BY <1>1, SpliceElements, InsertIsSplice
<1> HIDE DEF u
<1> DEFINE j == IF k <= i THEN k ELSE k + Len(m)
<1>3. /\ j \in 1..(i + Len(m) + (Len(t) - i))
      /\ k <= i => j = k /\ j <= i
      /\ ~(k <= i) => ~(j <= i) /\ ~(j <= i + Len(m)) /\ j - (i + Len(m)) + i = k
  BY <1>1
<1> HIDE DEF j
<1>4. j \in DOMAIN u /\ u[j] = t[k]
  BY <1>2, <1>3 DEF IsSplice
<1>5. QED
  BY <1>1, <1>4 DEF Marks, u

(* A suggestion is accepted only by the toggle that hides it. *)
LEMMA OnlyToggleAccepts ==
    ASSUME TypeOK, [Next]_vars, state = "Shown", state' = "Off", ~aborted'
    PROVE  Written(text') = Written(text)
<1>1. Toggle
  <2>1. ~UNCHANGED vars
    BY DEF vars, sessionVars
  <2>2. ASSUME NEW r \in Requests PROVE ~RequestEnds(r)
    BY DEF RequestEnds, CompletionEnds, CommentsEnd, ChatEnds, SummaryEnds, RequestFails, sessionVars
  <2>3. UserStep
    BY <2>1, <2>2 DEF Next
  <2>4. ~Escape
    BY DEF Escape
  <2>5. /\ ~CopyToEditor /\ ~Revert /\ ~AddLineComments /\ ~ToggleLineComments
        /\ ~SendMessage /\ ~Type /\ ~Tamper
    BY DEF CopyToEditor, Revert, AddLineComments, ToggleLineComments, SendMessage, Type, Tamper, sessionVars
  <2>6. QED
    BY <2>3, <2>4, <2>5 DEF UserStep
<1>2. RemoveCompletion(TRUE)
  BY <1>1 DEF Toggle, HideCompletions
<1>3. text' = text \/ text' = WithoutSuggestion(text, TRUE)
  BY <1>2 DEF RemoveCompletion
<1>4. QED
  BY <1>3, AcceptingWrites DEF TypeOK

(* A comment without its pair goes when it is removed or deleted. *)
LEMMA SingleMarkGoes ==
    ASSUME TypeOK, [Next]_vars, Cardinality(Marks(text)) = 1, Marks(text') = {}
    PROVE  Written(text') = Written(text)
<1>1. PICK k \in DOMAIN text : Marks(text) = {k}
  BY SingleMark DEF TypeOK
<1>2. text \in Seq(Pieces) /\ cursor \in Nat /\ Len(text) \in Nat
  BY LenProperties DEF TypeOK
<1>3. CASE Tamper
  <2>1. PICK i \in Marks(text) : text' = SubSeq(text, 1, i - 1) \o SubSeq(text, i + 1, Len(text))
    BY <1>1, <1>3 DEF Tamper
  <2>2. QED
    BY <1>2, <2>1, MarkDeleted
<1>4. CASE ~Tamper
  <2>1. Rewrites
    <3>1. CASE UNCHANGED vars
      BY <3>1 DEF vars, textVars, Rewrites
    <3>2. QED
      BY <1>4, <3>1, UserRewrites, AnswerRewrites DEF Next
  <2>2. ASSUME NEW i \in 0..Len(text), NEW m \in Seq(Pieces)
        PROVE  text' # Insert(text, i, m)
    <3>1. Marks(Insert(text, i, m)) # {}
      BY <1>1, <1>2, MarkStays
    <3>2. QED
      BY <3>1
  <2>3. CASE \E r \in Requests : text' = WithSuggestion(text, Code(r))
    <3>1. PICK r \in Requests : text' = WithSuggestion(text, Code(r))
      BY <2>3
    <3> DEFINE m == <<Marker, Code(r), Marker>>
               i == IF cursor < Len(text) THEN cursor ELSE Len(text)
    <3>2. m \in Seq(Pieces) /\ i \in 0..Len(text)
      BY <1>2, PieceFacts
    <3>3. text' = IF text = <<>> THEN text ELSE Insert(text, i, m)
      <4>1. ~(Cardinality(Marks(text)) >= 2)
        OBVIOUS
      <4>2. QED
        BY <3>1, <4>1 DEF WithSuggestion
    <3> HIDE DEF m, i
    <3>4. QED
      BY <2>2, <3>2, <3>3
  <2>4. CASE \E commentOnly \in BOOLEAN : text' = WithoutSuggestion(text, commentOnly)
    BY <1>2, <2>4, SingleMarkRemoved
  <2>5. CASE \E i \in 0..Len(text), n \in 1..MaxTyped : text' = Insert(text, i, <<Typed(n)>>)
    <3>1. PICK i \in 0..Len(text), n \in 1..MaxTyped : text' = Insert(text, i, <<Typed(n)>>)
      BY <2>5
    <3>2. <<Typed(n)>> \in Seq(Pieces)
      BY PieceFacts
    <3>3. QED
      BY <2>2, <3>1, <3>2
  <2>6. QED
    BY <2>1, <2>3, <2>4, <2>5 DEF Rewrites
<1>5. QED
  BY <1>3, <1>4

(* No step of a user who writes no completion comments takes anything out of  *)
(* the text but completion comments and what was suggested between them: what *)
(* he typed, and the code he accepted, stays.  And whoever writes them,       *)
(* accepting a suggestion, or removing or deleting a comment without its      *)
(* pair, takes out comments only and leaves the rest in its order (Leap.ts,   *)
(* previewCompletion and removeCompletion in every step).                     *)
THEOREM OwnTextIsKept == Spec => OwnTextKept
<1>1. TypeOK /\ OnePair /\ [Next]_vars =>
          [/\ ~user.tampers => OwnText(text) \subseteq {text'[i] : i \in DOMAIN text'}
           /\ \/ state = "Shown" /\ state' = "Off" /\ ~aborted'
              \/ Cardinality(Marks(text)) = 1 /\ Marks(text') = {}
              => Written(text') = Written(text)]_<<state, aborted, text>>
  <2> SUFFICES ASSUME TypeOK, OnePair, [Next]_vars
               PROVE  /\ ~user.tampers => OwnText(text) \subseteq {text'[i] : i \in DOMAIN text'}
                      /\ \/ state = "Shown" /\ state' = "Off" /\ ~aborted'
                         \/ Cardinality(Marks(text)) = 1 /\ Marks(text') = {}
                         => Written(text') = Written(text)
    OBVIOUS
  <2>1. ~user.tampers => OwnText(text) \subseteq {text'[i] : i \in DOMAIN text'}
    BY StepRewrites, SuggestionRewritten DEF OnePair, Elements
  <2>2. QED
    BY <2>1, OnlyToggleAccepts, SingleMarkGoes
<1>2. QED
  BY <1>1, PairInvariant, TypeCorrect, PTL DEF Spec, OwnTextKept

-----------------------------------------------------------------------------
(***************************************************************************)
(* A patient user.  What is shown, and about which completion, follows     *)
(* from what may be awaited in which state: nothing but summaries when the *)
(* session is off, the one completion that is loading, and questions about *)
(* the completion that is shown.                                           *)
(***************************************************************************)

(* A conversation about completion q. *)
Told(c, q) ==
    \A i \in 1..Len(c) :
        /\ c[i].about = q
        /\ c[i].role = IF i = 1 THEN "system" ELSE IF i % 2 = 0 THEN "user" ELSE "assistant"

Over ==
    state = "Off" =>
        /\ Marks(text) = {}
        /\ \A r \in open : asked[r].kind = "summary"
        /\ open = {} => completions = Undefined /\ lineComments = 0 /\ convo = <<>>

Loads ==
    state = "Loading" =>
        /\ Marks(text) = {}
        /\ completions = Undefined /\ lineComments = 0 /\ convo = <<>>
        /\ \E r \in Requests : open = {r} /\ asked[r].kind = "complete"

Shows ==
    state = "Shown" =>
        /\ completions # Undefined
        /\ panel = Page(completions.kind)
        /\ lineComments \in {0, completions.req}
        /\ Len(convo) % 2 = 1 /\ Told(convo, completions.req)
        /\ \A r \in open : asked[r].kind \in {"chat", "comments"} /\ asked[r].about = completions.req
        /\ Suggestion(text, {Code(completions.req)})
        /\ completions.kind = "error" => Marks(text) = {}

OneSession == Over /\ Loads /\ Shows /\ (\E q \in 0..MaxRequests : Told(convo, q))

LEMMA NothingSuggested ==
    ASSUME NEW t
    PROVE  Suggestion(t, {}) <=> Marks(t) = {}
  BY DEF Suggestion, Encloses

LEMMA TalkBegins ==
    ASSUME NEW q \in 0..MaxRequests
    PROVE  /\ Told(<<>> \o <<Message("system", q), Message("user", q), Message("assistant", q)>>, q)
           /\ Len(<<>> \o <<Message("system", q), Message("user", q), Message("assistant", q)>>) % 2 = 1
<1> DEFINE c == <<Message("system", q), Message("user", q), Message("assistant", q)>>
<1>1. <<>> \o c = c
  OBVIOUS
<1>2. Len(c) = 3 /\ c[1] = Message("system", q) /\ c[2] = Message("user", q)
      /\ c[3] = Message("assistant", q)
  OBVIOUS
<1>3. 1..3 = {1, 2, 3} /\ 2 % 2 = 0 /\ 3 % 2 = 1
  OBVIOUS
<1> HIDE DEF c
<1>4. \A i \in 1..3 : /\ c[i].about = q
                      /\ c[i].role = IF i = 1 THEN "system" ELSE IF i % 2 = 0 THEN "user" ELSE "assistant"
  BY <1>2, <1>3 DEF Message
<1>5. QED
  BY <1>1, <1>2, <1>3, <1>4 DEF Told, c

LEMMA TalkGoesOn ==
    ASSUME NEW c \in Talk, NEW q \in 0..MaxRequests, Told(c, q), Len(c) % 2 = 1
    PROVE  /\ Told(c \o <<Message("user", q), Message("assistant", q)>>, q)
           /\ Len(c \o <<Message("user", q), Message("assistant", q)>>) % 2 = 1
<1> DEFINE m == <<Message("user", q), Message("assistant", q)>>
           d == c \o m
<1>1. /\ m \in Talk /\ Len(m) = 2 /\ m[1] = Message("user", q) /\ m[2] = Message("assistant", q)
      /\ Len(c) \in Nat
  BY LenProperties DEF Message, Talk
<1> HIDE DEF m
<1>2. Len(d) = Len(c) + 2 /\ \A i \in 1..(Len(c) + 2) : d[i] = IF i <= Len(c) THEN c[i] ELSE m[i - Len(c)]
  <2>1. /\ Len(c \o m) = Len(c) + Len(m)
        /\ \A i \in 1..(Len(c) + Len(m)) : (c \o m)[i] = IF i <= Len(c) THEN c[i] ELSE m[i - Len(c)]
    <3>1. ASSUME NEW S, NEW x \in Seq(S), NEW y \in Seq(S)
          PROVE  /\ Len(x \o y) = Len(x) + Len(y)
                 /\ \A i \in 1..(Len(x) + Len(y)) : (x \o y)[i] = IF i <= Len(x) THEN x[i] ELSE y[i - Len(x)]
      BY ConcatProperties
    <3>2. QED
      BY <1>1, <3>1 DEF Talk
  <2>2. QED
    BY <1>1, <2>1
<1> HIDE DEF d
<1>3. (Len(c) + 1) % 2 = 0 /\ (Len(c) + 2) % 2 = 1 /\ Len(c) # 0
  BY <1>1
<1>4. ASSUME NEW i \in 1..(Len(c) + 2)
      PROVE  /\ d[i].about = q
             /\ d[i].role = IF i = 1 THEN "system" ELSE IF i % 2 = 0 THEN "user" ELSE "assistant"
  <2>1. CASE i <= Len(c)
    BY <1>1, <1>2, <2>1 DEF Told
  <2>2. CASE i = Len(c) + 1
    <3>1. d[i] = m[1] /\ i # 1 /\ i % 2 = 0
      BY <1>1, <1>2, <1>3, <2>2
    <3>2. QED
      BY <1>1, <3>1 DEF Message
  <2>3. CASE i = Len(c) + 2
    <3>1. d[i] = m[2] /\ i # 1 /\ i % 2 = 1
      BY <1>1, <1>2, <1>3, <2>3
    <3>2. QED
      BY <1>1, <3>1 DEF Message
  <2>4. QED
    BY <1>1, <2>1, <2>2, <2>3
<1>5. QED
  BY <1>2, <1>3, <1>4 DEF Told, d, m

(* A patient user toggles and escapes when nothing is awaited. *)
LEMMA NothingAwaited ==
    ASSUME TypeOK, Patient, MayCommand
    PROVE  open = {}
<1>1. \A r \in open : asked[r].kind \in RequestKinds
  BY DEF TypeOK
<1>2. QED
  BY <1>1 DEF Patient, MayCommand, Pending

LEMMA Removed ==
    ASSUME TypeOK, OneSession, state = "Shown", NEW commentOnly \in BOOLEAN, RemoveCompletion(commentOnly)
    PROVE  Marks(text') = {}
<1>1. text \in Seq(Pieces)
  BY DEF TypeOK
<1>2. QED
  BY <1>1, SuggestionRemoved DEF RemoveCompletion, OneSession, Shows

LEMMA SessionEnds ==
    ASSUME TypeOK, OneSession, state = "Shown", open = {}, NEW commentOnly \in BOOLEAN,
           HideCompletions(commentOnly), UNCHANGED <<completions, lineComments, convo>>
    PROVE  OneSession'
<1>1. Marks(text') = {}
  BY Removed DEF HideCompletions
<1>2. convo # <<>>
  <2>1. Len(<<>>) = 0 /\ 0 % 2 # 1
    OBVIOUS
  <2>2. QED
    BY <2>1 DEF OneSession, Shows
<1>3. Ask("summary", 0) /\ state' = "Off"
  BY <1>2 DEF HideCompletions, Dispose
<1>4. PICK r \in Requests : /\ asked' = [asked EXCEPT ![r] = [kind |-> "summary", about |-> 0]]
                            /\ open' = {r}
  <2>1. "summary" \in RequestKinds /\ 0 \in 0..MaxRequests
    BY LeapAssumption DEF RequestKinds
  <2>2. QED
    BY <1>3, <2>1, Asks
<1>5. asked'[r].kind = "summary"
  BY <1>4 DEF TypeOK
<1>6. QED
  BY <1>1, <1>3, <1>4, <1>5 DEF OneSession, Over, Loads, Shows

LEMMA CommandKeepsSession ==
    ASSUME TypeOK, OneSession, Patient, Toggle \/ Escape
    PROVE  OneSession'
<1>1. open = {}
  BY NothingAwaited DEF Toggle, Escape
<1>2. state # "Loading" /\ state \in {"Off", "Loading", "Shown"}
  BY <1>1 DEF OneSession, Loads, TypeOK
<1>3. UNCHANGED <<completions, lineComments, convo>>
  BY DEF Toggle, Escape
<1>4. CASE state = "Shown"
  <2>1. HideCompletions(TRUE) \/ HideCompletions(FALSE)
    BY <1>4 DEF Toggle, Escape
  <2>2. QED
    BY <1>1, <1>3, <1>4, <2>1, SessionEnds
<1>5. CASE state = "Off" /\ Escape
  BY <1>3, <1>5 DEF Escape, OneSession, Over, Loads, Shows, requestVars
<1>6. CASE state = "Off" /\ Toggle
  <2>1. StartCompletion /\ text' = text
    BY <1>6 DEF Toggle
  <2>2. PICK r \in Requests : /\ asked' = [asked EXCEPT ![r] = [kind |-> "complete", about |-> 0]]
                              /\ open' = {r}
    <3>1. "complete" \in RequestKinds /\ 0 \in 0..MaxRequests
      BY LeapAssumption DEF RequestKinds
    <3>2. QED
      BY <1>1, <2>1, <3>1, Asks DEF StartCompletion
  <2>3. asked'[r].kind = "complete"
    BY <2>2 DEF TypeOK
  <2>4. QED
    BY <1>1, <1>3, <1>6, <2>1, <2>2, <2>3 DEF StartCompletion, OneSession, Over, Loads, Shows
<1>7. QED
  BY <1>2, <1>4, <1>5, <1>6

LEMMA ButtonsShown ==
    ASSUME TypeOK, PanelFollowsState, OneSession, Buttons
    PROVE  state = "Shown" /\ completions.kind = "code" /\ completions.req \in Requests
<1>1. state = "Shown"
  BY DEF Buttons, PanelFollowsState, TypeOK
<1>2. QED
  BY <1>1, CompletionTypes DEF OneSession, Shows, Buttons, Page

LEMMA ButtonKeepsSession ==
    ASSUME TypeOK, PanelFollowsState, OneSession,
           CopyToEditor \/ Revert \/ AddLineComments \/ ToggleLineComments \/ SendMessage
    PROVE  OneSession'
<1>1. Buttons
  BY DEF CopyToEditor, Revert, AddLineComments, ToggleLineComments, SendMessage, Buttons
<1>2. state = "Shown" /\ completions.kind = "code" /\ completions.req \in Requests
  BY <1>1, ButtonsShown
<1>3. UNCHANGED <<state, panel, completions, lineComments, convo>>
  BY DEF CopyToEditor, Revert, AddLineComments, ToggleLineComments, SendMessage, sessionVars
<1>4. /\ completions # Undefined /\ panel = Page(completions.kind)
      /\ lineComments \in {0, completions.req}
      /\ Len(convo) % 2 = 1 /\ Told(convo, completions.req)
      /\ \A r \in open : asked[r].kind \in {"chat", "comments"} /\ asked[r].about = completions.req
      /\ Suggestion(text, {Code(completions.req)})
  BY <1>2 DEF OneSession, Shows
<1>5. \A r \in open' : asked'[r].kind \in {"chat", "comments"} /\ asked'[r].about = completions.req
  <2>1. CASE UNCHANGED requestVars
    BY <1>4, <2>1 DEF requestVars
  <2>2. ASSUME NEW kind \in {"chat", "comments"}, Ask(kind, completions.req)
        PROVE  \A r \in open' : asked'[r].kind \in {"chat", "comments"} /\ asked'[r].about = completions.req
    <3>1. kind \in RequestKinds /\ completions.req \in 0..MaxRequests
      BY CompletionTypes DEF RequestKinds
    <3>2. PICK r \in Requests : /\ r \notin open
                                /\ asked' = [asked EXCEPT ![r] = [kind |-> kind, about |-> completions.req]]
                                /\ open' = open \cup {r}
      BY <2>2, <3>1, Asks
    <3>3. QED
      BY <1>4, <3>2 DEF TypeOK
  <2>3. QED
    BY <2>1, <2>2 DEF CopyToEditor, Revert, AddLineComments, ToggleLineComments, SendMessage
<1>6. Suggestion(text', {Code(completions.req)})
  <2>1. text \in Seq(Pieces) /\ cursor \in Nat
    BY DEF TypeOK
  <2>2. CASE CopyToEditor
    <3>1. ShownCode(completions.req) = completions.req
      BY <1>4 DEF ShownCode
    <3>2. text' = WithSuggestion(text, Code(completions.req))
      BY <1>2, <2>2, <3>1 DEF CopyToEditor, PreviewCompletion
    <3>3. QED
      BY <1>2, <1>4, <2>1, <3>2, SuggestionShown
  <2>3. CASE Revert
    <3>1. RemoveCompletion(FALSE)
      BY <2>3 DEF Revert
    <3>2. Marks(text') = {}
      BY <1>2, <3>1, Removed
    <3>3. QED
      BY <3>2 DEF Suggestion
  <2>4. CASE AddLineComments \/ ToggleLineComments \/ SendMessage
    BY <1>4, <2>4 DEF AddLineComments, ToggleLineComments, SendMessage, textVars
  <2>5. QED
    BY <2>2, <2>3, <2>4
<1>7. Shows'
  BY <1>2, <1>3, <1>4, <1>5, <1>6 DEF Shows, Page
<1>8. QED
  BY <1>2, <1>3, <1>7 DEF OneSession, Over, Loads

LEMMA TypingKeepsSession ==
    ASSUME TypeOK, OneSession, Type
    PROVE  OneSession'
<1>1. text \in Seq(Pieces)
  BY DEF TypeOK
<1>2. PICK i \in 0..Len(text) : text' = Insert(text, i, <<Typed(typed')>>)
  BY DEF Type
<1>3. typed' \in 1..MaxTyped
  BY LeapAssumption DEF Type, TypeOK, AllUsers
<1>4. \A C : Suggestion(text, C) => Suggestion(text', C)
  BY <1>1, <1>2, <1>3, TypedBeside, PieceFacts
<1>5. Marks(text) = {} => Marks(text') = {}
  BY <1>4, NothingSuggested
<1>6. UNCHANGED <<state, panel, completions, lineComments, convo, asked, open>>
  BY DEF Type, sessionVars, requestVars
<1>7. QED
  BY <1>4, <1>5, <1>6 DEF OneSession, Over, Loads, Shows, Page

LEMMA AnswerKeepsSession ==
    ASSUME TypeOK, PanelFollowsState, OneSession, Patient, NEW r \in Requests, RequestEnds(r)
    PROVE  OneSession'
<1>1. /\ r \in open /\ open' = open \ {r} /\ UNCHANGED <<asked, cursor>>
  BY DEF RequestEnds, CompletionEnds, CommentsEnd, ChatEnds, SummaryEnds, RequestFails, Ends
<1>2. state \in {"Off", "Loading", "Shown"}
  BY DEF TypeOK
<1>3. /\ asked[r].kind = "summary" => state = "Off"
      /\ asked[r].kind = "complete" => state = "Loading"
      /\ asked[r].kind \in {"chat", "comments"} => state = "Shown"
  BY <1>1, <1>2 DEF OneSession, Over, Loads, Shows
<1>4. ASSUME NEW kind \in {"code", "error"}, CompletionEnds(r, kind)
      PROVE  OneSession'
  <2>1. state = "Loading"
    BY <1>3, <1>4 DEF CompletionEnds, Ends
  <2>2. /\ Marks(text) = {} /\ lineComments = 0 /\ convo = <<>> /\ open = {r} /\ panel = "blank"
    BY <1>1, <2>1 DEF OneSession, Loads, PanelFollowsState
  <2>3. /\ completions' = [req |-> r, kind |-> kind] /\ state' = "Shown"
        /\ panel' = Page(kind) /\ lineComments' = 0 /\ open' = {}
        /\ convo' = <<>> \o <<Message("system", r), Message("user", r), Message("assistant", r)>>
        /\ text' = IF kind = "code" THEN WithSuggestion(text, Code(r)) ELSE text
    BY <1>1, <1>4, <2>2 DEF CompletionEnds, ShownCode
  <2>4. r \in 0..MaxRequests
    BY CompletionTypes
  <2>5. Told(convo', r) /\ Len(convo') % 2 = 1
    BY <2>3, <2>4, TalkBegins
  <2>6. Suggestion(text', {Code(r)}) /\ (kind = "error" => Marks(text') = {})
    <3>1. text \in Seq(Pieces) /\ cursor \in Nat /\ Suggestion(text, {})
      BY <2>2, NothingSuggested DEF TypeOK
    <3>2. Suggestion(WithSuggestion(text, Code(r)), {Code(r)})
      BY <3>1, SuggestionShown
    <3>3. QED
      BY <2>2, <2>3, <3>2 DEF Suggestion
  <2>7. completions' # Undefined /\ completions'.req = r /\ completions'.kind = kind
    BY <2>3 DEF Undefined
  <2>8. Page(kind)' = Page(kind)
    BY <2>2, <2>3 DEF Page
  <2>9. Shows'
    BY <2>2, <2>3, <2>5, <2>6, <2>7 DEF Shows, Page
  <2>10. QED
    BY <2>3, <2>4, <2>5, <2>9 DEF OneSession, Over, Loads
<1>5. CASE CommentsEnd(r)
  <2>1. state = "Shown" /\ asked[r].about = completions.req
    BY <1>1, <1>3, <1>5 DEF CommentsEnd, Ends, OneSession, Shows
  <2>2. completions # Undefined => completions.req # 0
    BY CompletionTypes DEF Requests
  <2>3. Shows'
    BY <1>1, <1>5, <2>1, <2>2 DEF CommentsEnd, OneSession, Shows, Page, Buttons
  <2>4. QED
    BY <1>5, <2>1, <2>3 DEF CommentsEnd, OneSession, Over, Loads
<1>6. CASE ChatEnds(r)
  <2>1. state = "Shown" /\ asked[r].about = completions.req
    BY <1>1, <1>3, <1>6 DEF ChatEnds, Ends, OneSession, Shows
  <2>2. convo \in Talk /\ completions.req \in 0..MaxRequests
    BY CompletionTypes DEF TypeOK, Talk
  <2>3. Told(convo, completions.req) /\ Len(convo) % 2 = 1
    BY <2>1 DEF OneSession, Shows
  <2>4. Told(convo', completions.req) /\ Len(convo') % 2 = 1
    BY <1>6, <2>1, <2>2, <2>3, TalkGoesOn DEF ChatEnds
  <2>5. UNCHANGED <<state, panel, completions, lineComments, text>>
    BY <1>6 DEF ChatEnds
  <2>6. Shows'
    BY <1>1, <2>1, <2>4, <2>5 DEF OneSession, Shows, Page
  <2>7. QED
    BY <2>1, <2>2, <2>4, <2>5, <2>6 DEF OneSession, Over, Loads
<1>7. CASE SummaryEnds(r)
  <2>1. state = "Off"
    BY <1>3, <1>7 DEF SummaryEnds, Ends
  <2>2. Told(<<>>, 0) /\ 0 \in 0..MaxRequests
    <3>1. Len(<<>>) = 0 /\ 1..0 = {}
      OBVIOUS
    <3>2. QED
      BY <3>1, LeapAssumption DEF Told
  <2>3. QED
    BY <1>1, <1>7, <2>1, <2>2 DEF SummaryEnds, OneSession, Over, Loads, Shows
<1>8. CASE RequestFails(r)
  <2>1. asked[r].kind \in RequestKinds \ {"complete", "summary"}
    BY <1>8 DEF RequestFails, Ends, Patient, TypeOK
  <2>2. state = "Shown"
    BY <1>3, <2>1 DEF RequestKinds
  <2>3. UNCHANGED <<state, panel, completions, lineComments, convo, text>>
    BY <1>8 DEF RequestFails, sessionVars
  <2>4. QED
    BY <1>1, <2>2, <2>3 DEF OneSession, Over, Loads, Shows, Page
<1>9. QED
  BY <1>4, <1>5, <1>6, <1>7, <1>8 DEF RequestEnds

PatientSession == Patient => OneSession

LEMMA SessionInvariant == Spec => []PatientSession
<1>1. Init => PatientSession
  <2> SUFFICES ASSUME Init PROVE OneSession
    BY DEF PatientSession
  <2>1. Typed(1) # Marker
    BY DEF Typed, Marker
  <2>2. Marks(<<>>) = {} /\ Marks(<<Typed(1)>>) = {}
    BY <2>1 DEF Marks
  <2>3. Told(<<>>, 0) /\ 0 \in 0..MaxRequests
    <3>1. Len(<<>>) = 0 /\ 1..0 = {}
      OBVIOUS
    <3>2. QED
      BY <3>1, LeapAssumption DEF Told
  <2>4. QED
    BY <2>2, <2>3 DEF Init, OneSession, Over, Loads, Shows
<1>2. ASSUME TypeOK, PanelFollowsState, PatientSession, [Next]_vars
      PROVE  PatientSession'
  <2>1. user' = user
    BY <1>2 DEF Next, vars, RequestEnds, CompletionEnds, CommentsEnd, ChatEnds, SummaryEnds,
                RequestFails, Ends
  <2> SUFFICES ASSUME Patient, OneSession PROVE OneSession'
    BY <1>2, <2>1 DEF PatientSession, Patient
  <2>2. CASE UNCHANGED vars
    BY <2>2 DEF vars, sessionVars, requestVars, textVars, OneSession, Over, Loads, Shows, Page
  <2>3. ~Tamper
    BY DEF Tamper, Patient
  <2>4. QED
    BY <1>2, <2>2, <2>3, CommandKeepsSession, ButtonKeepsSession, TypingKeepsSession,
       AnswerKeepsSession DEF Next, UserStep
<1>3. QED
  BY <1>1, <1>2, TypeCorrect, PanelThere, PTL DEF Spec

(* To one who waits for the answers, a completion that is shown has its panel *)
(* and is there for the panel's buttons, and a session that is over leaves no *)
(* completion comment in the text (Leap.ts, "This should open a side panel    *)
(* containing code suggestions"; renderCompletionPage, dispose).              *)
THEOREM WholeIsShown == Spec => []ShownIsWhole
<1>1. TypeOK /\ PanelFollowsState /\ PatientSession => ShownIsWhole
  <2> SUFFICES ASSUME TypeOK, PanelFollowsState, OneSession
               PROVE  /\ state = "Shown" => panel # "none" /\ completions # Undefined
                      /\ Buttons => completions.kind = "code"
                      /\ panel = "commented" <=> Buttons /\ lineComments # 0
                      /\ state = "Off" => Marks(text) = {}
    BY DEF PatientSession, ShownIsWhole
  <2>1. state = "Off" => Marks(text) = {}
    BY DEF OneSession, Over
  <2>2. Buttons => completions.kind = "code"
    BY ButtonsShown
  <2>3. state = "Shown" => /\ completions # Undefined
                           /\ panel = Page(completions.kind) /\ completions.kind \in {"code", "error"}
    BY CompletionTypes DEF OneSession, Shows
  <2>4. QED
    BY <2>1, <2>2, <2>3 DEF Page, Buttons, PanelFollowsState, TypeOK
<1>2. QED
  BY <1>1, SessionInvariant, TypeCorrect, PanelThere, PTL

(* To one who waits for the answers, everything is about one completion: the  *)
(* code between the completion comments is the code that the panel shows, and *)
(* the conversation is one system message, then questions and answers, all    *)
(* about it (Leap.ts, previewCompletion, addToConvo, dispose).                *)
THEOREM AboutOneCompletion == Spec => []OneCompletion
<1>1. TypeOK /\ PatientSession => OneCompletion
  <2> SUFFICES ASSUME TypeOK, OneSession
               PROVE  /\ state = "Shown" /\ completions.kind = "code" =>
                            \A i \in DOMAIN text :
                                Suggested(text, i) /\ text[i].by = "model" => text[i] = Code(completions.req)
                      /\ \A i \in DOMAIN convo :
                            /\ convo[i].about = convo[1].about
                            /\ convo[i].role = IF i = 1 THEN "system"
                                               ELSE IF i % 2 = 0 THEN "user" ELSE "assistant"
    BY DEF PatientSession, OneCompletion
  <2>1. ASSUME state = "Shown", NEW i \in DOMAIN text, Suggested(text, i), text[i].by = "model"
        PROVE  text[i] = Code(completions.req)
    <3>1. PICK a \in Marks(text), b \in Marks(text) : a < i /\ i < b
      BY <2>1 DEF Suggested
    <3>2. PICK x \in 1..Len(text), y \in 1..Len(text) : Encloses(text, x, y, {Code(completions.req)})
      BY <2>1, <3>1 DEF OneSession, Shows, Suggestion
    <3>3. i \in 1..Len(text)
      BY LenProperties DEF TypeOK
    <3>4. i \in (x + 1)..(y - 1)
      BY <3>1, <3>2, <3>3 DEF Encloses
    <3>5. QED
      BY <2>1, <3>2, <3>4 DEF Encloses
  <2>2. PICK q \in 0..MaxRequests : Told(convo, q)
    BY DEF OneSession
  <2>3. DOMAIN convo = 1..Len(convo) /\ Len(convo) \in Nat
    BY LenProperties DEF TypeOK
  <2>4. QED
    BY <2>1, <2>2, <2>3 DEF Told
<1>2. QED
  BY <1>1, SessionInvariant, TypeCorrect, PTL
=============================================================================
