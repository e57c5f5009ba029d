-------------------------- MODULE RunLoggerProofs --------------------------
(***************************************************************************)
(* Theorems about RunLogger, for every program of any length.              *)
(***************************************************************************)
EXTENDS RunLogger, SequenceTheorems, FiniteSetTheorems, WellFoundedInduction, TLAPS

-----------------------------------------------------------------------------
(***************************************************************************)
(* Numbers: a set of naturals with a bound has a greatest element.         *)
(***************************************************************************)

LEMMA LeastNumber ==
    ASSUME NEW T \in SUBSET Nat, T # {}
    PROVE  \E x \in T : \A y \in T : x <= y
<1> DEFINE up(x) == 1..x
           U == {up(x) : x \in T}
<1>1. U \subseteq FiniteSubsetsOf(Nat) /\ U # {}
  <2>1. ASSUME NEW x \in T PROVE up(x) \in FiniteSubsetsOf(Nat)
    <3>1. x \in Int /\ 1 \in Int
      OBVIOUS
    <3>2. IsFiniteSet(1..x)
      BY <3>1, FS_Interval
    <3>3. QED
      BY <3>2 DEF FiniteSubsetsOf
  <2>2. QED
    BY <2>1
<1>2. IsWellFoundedOn(StrictSubsetOrdering(Nat), FiniteSubsetsOf(Nat))
  BY FS_StrictSubsetOrderingWellFounded
<1>3. PICK s \in U : \A r \in U : ~ (<<r, s>> \in StrictSubsetOrdering(Nat))
  BY <1>1, <1>2, WFMin
<1>4. PICK x \in T : s = up(x)
  OBVIOUS
<1>5. ASSUME NEW y \in T, y < x PROVE FALSE
  <2>1. up(y) \subseteq up(x) /\ up(y) # up(x) /\ up(y) \in SUBSET Nat /\ up(x) \in SUBSET Nat
    <3>1. x \in up(x) /\ x \notin up(y)
      BY <1>5
    <3>2. QED
      BY <1>5, <3>1
  <2>2. <<up(y), up(x)>> \in StrictSubsetOrdering(Nat)
    BY <2>1 DEF StrictSubsetOrdering
  <2>3. QED
    BY <1>3, <1>4, <2>2
<1>6. QED
  BY <1>5

LEMMA GreatestNumber ==
    ASSUME NEW n \in Nat, NEW S \in SUBSET (0..n), S # {}
    PROVE  Greatest(S) \in S /\ \A y \in S : y <= Greatest(S)
<1> DEFINE T == {n - i : i \in S}
<1>1. T \in SUBSET Nat /\ T # {}
  <2>1. \A i \in S : i \in Nat /\ i <= n
    OBVIOUS
  <2>2. \A i \in S : n - i \in Nat
    BY <2>1
  <2>3. QED
    BY <2>2
<1>2. PICK x \in T : \A y \in T : x <= y
  BY <1>1, LeastNumber
<1>3. PICK i \in S : x = n - i
  OBVIOUS
<1>4. ASSUME NEW j \in S PROVE j <= i
  <2>1. n - i <= n - j
    BY <1>2, <1>3
  <2>2. QED
    BY <2>1
<1>5. QED
  BY <1>4 DEF Greatest

LEMMA GreatestIs ==
    ASSUME NEW S \in SUBSET Nat, NEW x \in S, \A y \in S : y <= x
    PROVE  Greatest(S) = x
<1>1. ASSUME NEW z \in S, \A y \in S : y <= z PROVE z = x
  <2>1. z <= x /\ x <= z /\ z \in Nat /\ x \in Nat
    BY <1>1
  <2>2. QED
    BY <2>1
<1>2. QED
  BY <1>1 DEF Greatest

-----------------------------------------------------------------------------
(***************************************************************************)
(* Programs: bodies are intervals, and nested or apart.                    *)
(***************************************************************************)

LEMMA ProgramFacts ==
    ASSUME program \in Programs
    PROVE  /\ program \in Seq(Lines) /\ WellFormed(program)
           /\ Len(program) \in Nat /\ DOMAIN program = 1..Len(program)
           /\ \A l \in DOMAIN program : Indent(l) \in Nat /\ Does(l) \in Kinds
           /\ 1 \in DOMAIN program
<1>1. program \in Seq(Lines) /\ WellFormed(program)
  BY LoggerAssumption
<1>2. /\ Len(program) \in Nat /\ DOMAIN program = 1..Len(program)
      /\ \A l \in DOMAIN program : program[l] \in Lines
  BY <1>1, LenProperties, ElementOfSeq
<1>3. Len(program) # 0
  BY <1>1, EmptySeq DEF WellFormed
<1>4. QED
  BY <1>1, <1>2, <1>3 DEF Lines, Indent, Does

(* k is in the body of l. *)
LEMMA BodyIs ==
    ASSUME NEW l, NEW k
    PROVE  k \in Body(l) <=> k \in DOMAIN program /\ k > l /\ \A j \in (l + 1)..k : Indent(j) > Indent(l)
  BY DEF Body, BodyOf, Indent

LEMMA BodyBounds ==
    ASSUME program \in Programs, NEW l \in DOMAIN program
    PROVE  /\ Body(l) \subseteq DOMAIN program
           /\ \A k \in Body(l) : k > l /\ Indent(k) > Indent(l)
<1>1. \A k \in Body(l) : k \in DOMAIN program /\ k > l /\ k \in (l + 1)..k
  BY BodyIs, ProgramFacts
<1>2. QED
  BY <1>1, BodyIs

LEMMA BodyNests ==
    ASSUME program \in Programs, NEW h \in DOMAIN program, NEW l \in Body(h)
    PROVE  Body(l) \subseteq Body(h)
<1> SUFFICES ASSUME NEW k \in Body(l) PROVE k \in Body(h)
  OBVIOUS
<1>1. /\ l \in DOMAIN program /\ k \in DOMAIN program /\ l > h /\ k > l /\ Indent(l) > Indent(h)
  BY BodyBounds
<1>2. ASSUME NEW j \in (h + 1)..k PROVE Indent(j) > Indent(h)
  <2>1. j \in DOMAIN program
    BY <1>1, ProgramFacts
  <2>2. CASE j <= l
    <3>1. j \in (h + 1)..l
      BY <1>1, <2>2, ProgramFacts
    <3>2. QED
      BY <3>1, BodyIs
  <2>3. CASE ~(j <= l)
    <3>1. j \in (l + 1)..k
      BY <1>1, <2>3, ProgramFacts
    <3>2. Indent(j) > Indent(l)
      BY <3>1, BodyIs
    <3>3. QED
      BY <1>1, <2>1, <3>2, ProgramFacts
  <2>4. QED
    BY <2>2, <2>3
<1>3. QED
  BY <1>1, <1>2, BodyIs, ProgramFacts

LEMMA BodyPrefix ==
    ASSUME program \in Programs, NEW h \in DOMAIN program, NEW l \in Body(h),
           NEW k \in DOMAIN program, h < k, k <= l
    PROVE  k \in Body(h)
<1>1. l \in DOMAIN program /\ l > h
  BY BodyBounds
<1>2. \A j \in (h + 1)..k : j \in (h + 1)..l
  BY <1>1, ProgramFacts
<1>3. QED
  BY <1>2, BodyIs

(* Two headers around a line: the later one is in the body of the other. *)
LEMMA HeadersNest ==
    ASSUME program \in Programs, NEW g \in DOMAIN program, NEW h \in DOMAIN program,
           NEW l \in Body(g), l = h \/ l \in Body(h), g < h
    PROVE  h \in Body(g)
<1>1. h <= l
  BY BodyBounds, ProgramFacts
<1>2. QED
  BY <1>1, BodyPrefix

(* The line below the body of line l. *)
Below(l) == l + 1 + Cardinality(Body(l))

LEMMA BodyInterval ==
    ASSUME program \in Programs, NEW l \in DOMAIN program
    PROVE  /\ Below(l) \in Nat /\ Below(l) > l
           /\ \A k \in DOMAIN program : k \in Body(l) <=> l < k /\ k < Below(l)
           /\ Below(l) \in DOMAIN program => Indent(Below(l)) <= Indent(l)
<1> DEFINE n == Len(program)
<1>0. n \in Nat /\ DOMAIN program = 1..n /\ l \in 1..n
  BY ProgramFacts
<1>1. CASE Body(l) = {}
  <2>1. Below(l) = l + 1
    BY <1>0, <1>1, FS_EmptySet DEF Below
  <2>2. l + 1 \in DOMAIN program => ~(Indent(l + 1) > Indent(l))
    <3>1. ASSUME l + 1 \in DOMAIN program, Indent(l + 1) > Indent(l) PROVE FALSE
      <4>1. \A j \in (l + 1)..(l + 1) : j = l + 1
        BY <1>0
      <4>2. l + 1 \in Body(l)
        BY <1>0, <3>1, <4>1, BodyIs
      <4>3. QED
        BY <1>1, <4>2
    <3>2. QED
      BY <3>1
  <2>3. QED
    BY <1>0, <1>1, <2>1, <2>2, ProgramFacts
<1>2. CASE Body(l) # {}
  <2> DEFINE m == Greatest(Body(l))
  <2>1. Body(l) \in SUBSET (0..n)
    BY <1>0, BodyBounds
  <2>2. m \in Body(l) /\ \A y \in Body(l) : y <= m
    BY <1>0, <1>2, <2>1, GreatestNumber
  <2> HIDE DEF m
  <2>3. m \in 1..n /\ l < m
    BY <1>0, <2>2, BodyBounds
  <2>4. Body(l) = (l + 1)..m
    <3>1. ASSUME NEW k \in (l + 1)..m PROVE k \in Body(l)
      <4>1. k \in DOMAIN program /\ l < k /\ k <= m
        BY <1>0, <2>3
      <4>2. QED
        BY <2>2, <4>1, BodyPrefix
    <3>2. ASSUME NEW k \in Body(l) PROVE k \in (l + 1)..m
      <4>1. k \in 1..n /\ l < k
        BY <1>0, BodyBounds
      <4>2. QED
        BY <1>0, <2>2, <2>3, <4>1
    <3>3. QED
      BY <3>1, <3>2
  <2>5. Cardinality(Body(l)) = m - l
    <3>1. l + 1 \in Int /\ m \in Int
      BY <1>0, <2>3
    <3>2. Cardinality((l + 1)..m) = m - (l + 1) + 1
      BY <1>0, <2>3, <3>1, FS_Interval
    <3>3. QED
      BY <1>0, <2>3, <2>4, <3>2
  <2>6. Below(l) = m + 1
    BY <1>0, <2>3, <2>5 DEF Below
  <2>7. ASSUME m + 1 \in DOMAIN program PROVE ~(Indent(m + 1) > Indent(l))
    <3> SUFFICES ASSUME Indent(m + 1) > Indent(l) PROVE FALSE
      OBVIOUS
    <3>1. \A j \in (l + 1)..(m + 1) : Indent(j) > Indent(l)
      <4>1. ASSUME NEW j \in (l + 1)..(m + 1), j # m + 1 PROVE j \in Body(l)
        BY <1>0, <2>3, <2>4, <4>1
      <4>2. QED
        BY <4>1, BodyBounds
    <3>2. m + 1 \in Body(l)
      BY <1>0, <2>3, <2>7, <3>1, BodyIs
    <3>3. QED
      BY <2>2, <2>3, <3>2
  <2>8. QED
    BY <1>0, <2>3, <2>4, <2>6, <2>7, ProgramFacts
<1>3. QED
  BY <1>1, <1>2

-----------------------------------------------------------------------------
(***************************************************************************)
(* Control flow: where a line may go to.                                   *)
(***************************************************************************)

LEMMA InnermostIs ==
    ASSUME program \in Programs, NEW l, NEW kinds, Around(l, kinds) # {}
    PROVE  /\ Innermost(Around(l, kinds)) \in Around(l, kinds)
           /\ \A h \in Around(l, kinds) : h <= Innermost(Around(l, kinds))
<1>1. Around(l, kinds) \in SUBSET (0..Len(program)) /\ Len(program) \in Nat
  BY ProgramFacts DEF Around
<1>2. QED
  BY <1>1, GreatestNumber DEF Innermost

Scopes(l) == Around(l, {"loop", "def"})

(* What comes after a line is the line below its body, if that is still in    *)
(* the innermost loop or function, or the header of that loop, or nothing.    *)
LEMMA AfterIs ==
    ASSUME program \in Programs, NEW l \in DOMAIN program
    PROVE  \/ /\ After(l) = Below(l) /\ Below(l) \in DOMAIN program
              /\ Scopes(l) # {} => Below(l) \in Body(Innermost(Scopes(l)))
           \/ /\ After(l) = Innermost(Scopes(l))
              /\ Scopes(l) # {} /\ Does(Innermost(Scopes(l))) = "loop"
           \/ /\ After(l) = 0
              /\ Scopes(l) # {} => Does(Innermost(Scopes(l))) = "def"
<1>1. CASE Scopes(l) = {}
  BY <1>1 DEF After, Scopes, Below
<1>2. CASE Scopes(l) # {}
  <2>1. Innermost(Scopes(l)) \in Scopes(l)
    BY <1>2, InnermostIs DEF Scopes
  <2>2. Innermost(Scopes(l)) \in DOMAIN program /\ Does(Innermost(Scopes(l))) \in {"loop", "def"}
    BY <2>1 DEF Scopes, Around
  <2>3. Below(l) \in Body(Innermost(Scopes(l))) => Below(l) \in DOMAIN program
    BY <2>2, BodyBounds
  <2>4. After(l) = IF Below(l) \in Body(Innermost(Scopes(l))) THEN Below(l)
                   ELSE IF Does(Innermost(Scopes(l))) = "loop" THEN Innermost(Scopes(l)) ELSE 0
    BY <1>2 DEF After, Scopes, Below
  <2>5. QED
    BY <1>2, <2>2, <2>3, <2>4
<1>3. QED
  BY <1>1, <1>2

LEMMA AfterType ==
    ASSUME program \in Programs, NEW l \in DOMAIN program
    PROVE  After(l) \in {0} \cup DOMAIN program
<1>1. Scopes(l) # {} => Innermost(Scopes(l)) \in DOMAIN program
  BY InnermostIs DEF Scopes, Around
<1>2. QED
  BY <1>1, AfterIs

(* Control does not leave a loop or a function before the header or the end.  *)
LEMMA AfterStays ==
    ASSUME program \in Programs, NEW l \in DOMAIN program, NEW g \in Scopes(l)
    PROVE  After(l) \in Body(g) \/ After(l) = 0 \/ (After(l) = g /\ Does(g) = "loop")
<1> DEFINE i == Innermost(Scopes(l))
<1>1. Scopes(l) # {} /\ i \in Scopes(l) /\ g <= i
  BY InnermostIs DEF Scopes
<1> HIDE DEF i
<1>2. i \in DOMAIN program /\ g \in DOMAIN program /\ l \in Body(i) /\ l \in Body(g)
  BY <1>1 DEF Scopes, Around
<1>3. i = g \/ i \in Body(g)
  BY <1>1, <1>2, HeadersNest, ProgramFacts
<1>4. Body(i) \subseteq Body(g)
  BY <1>2, <1>3, BodyNests
<1>5. QED
  BY <1>1, <1>3, <1>4, AfterIs DEF i

(* What comes after a line is outside of it.                                  *)
LEMMA AfterOut ==
    ASSUME program \in Programs, NEW l \in DOMAIN program, After(l) # 0
    PROVE  /\ After(l) \in DOMAIN program
           /\ After(l) \notin Body(l) /\ After(l) # l
           /\ Indent(After(l)) <= Indent(l)
<1>1. After(l) \in DOMAIN program
  BY AfterType
<1>2. CASE After(l) = Below(l)
  BY <1>1, <1>2, BodyInterval, ProgramFacts
<1>3. CASE After(l) = Innermost(Scopes(l)) /\ Scopes(l) # {}
  <2>1. l \in Body(After(l))
    BY <1>3, InnermostIs DEF Scopes, Around
  <2>2. After(l) < l /\ Indent(l) > Indent(After(l))
    BY <1>1, <2>1, BodyBounds
  <2>3. After(l) \notin Body(l)
    BY <1>1, <2>2, BodyBounds, ProgramFacts
  <2>4. QED
    BY <1>1, <2>2, <2>3, ProgramFacts
<1>4. QED
  BY <1>2, <1>3, AfterIs

(* It is in no loop and no function that the line is not in.                  *)
LEMMA AfterNoJump ==
    ASSUME program \in Programs, NEW l \in DOMAIN program,
           NEW h \in DOMAIN program, After(l) \in Body(h)
    PROVE  l \in Body(h)
<1>1. After(l) \in DOMAIN program /\ h < After(l)
  BY BodyBounds
<1>2. After(l) # 0
  BY <1>1, ProgramFacts
<1>3. h # l
  BY <1>2, AfterOut
<1>4. CASE After(l) = Below(l)
  <2>1. l < Below(l) /\ \A k \in DOMAIN program : k \in Body(l) <=> l < k /\ k < Below(l)
    BY BodyInterval
  <2>2. CASE h < l
    BY <1>1, <1>4, <2>1, <2>2, BodyPrefix, ProgramFacts
  <2>3. CASE l < h
    <3>1. h \in Body(l)
      BY <1>1, <1>4, <2>1, <2>3
    <3>2. Indent(h) > Indent(l) /\ Indent(After(l)) > Indent(h)
      BY <3>1, BodyBounds
    <3>3. Indent(After(l)) <= Indent(l)
      BY <1>2, AfterOut
    <3>4. QED
      BY <1>1, <3>2, <3>3, ProgramFacts
  <2>4. QED
    BY <1>3, <2>2, <2>3, ProgramFacts
<1>5. CASE After(l) = Innermost(Scopes(l)) /\ Scopes(l) # {}
  <2>1. l \in Body(After(l))
    BY <1>5, InnermostIs DEF Scopes, Around
  <2>2. QED
    BY <2>1, BodyNests
<1>6. QED
  BY <1>2, <1>4, <1>5, AfterIs

LEMMA SuccessorIs ==
    ASSUME NEW l, NEW n \in Successors(l)
    PROVE  \/ n = After(l)
           \/ Does(l) \in {"loop", "if"} /\ n = l + 1
           \/ Does(l) = "break" /\ n = After(Innermost(Around(l, {"loop"})))
           \/ Does(l) = "return" /\ n = 0
<1>1. CASE Does(l) \in {"loop", "if"}
  BY <1>1 DEF Successors
<1>2. CASE Does(l) = "break"
  BY <1>2 DEF Successors
<1>3. CASE Does(l) = "return"
  BY <1>3 DEF Successors
<1>4. CASE Does(l) \notin {"loop", "if", "break", "return"}
  BY <1>4 DEF Successors
<1>5. QED
  BY <1>1, <1>2, <1>3, <1>4

(* What Python's parser sees to. *)
LEMMA HeaderHasBody ==
    ASSUME program \in Programs, NEW l \in DOMAIN program, Does(l) \in {"loop", "if", "def"}
    PROVE  l + 1 \in Body(l) /\ l + 1 \in DOMAIN program
<1>1. l + 1 \in Body(l)
  BY ProgramFacts DEF WellFormed, Does, Body
<1>2. QED
  BY <1>1, BodyBounds

LEMMA BreakHasLoop ==
    ASSUME program \in Programs, NEW l \in DOMAIN program, Does(l) = "break"
    PROVE  /\ Innermost(Around(l, {"loop"})) \in DOMAIN program
           /\ Does(Innermost(Around(l, {"loop"}))) = "loop"
           /\ l \in Body(Innermost(Around(l, {"loop"})))
           /\ \A h \in DOMAIN program :
                 Does(h) = "loop" /\ l \in Body(h) => h <= Innermost(Around(l, {"loop"}))
           /\ \A d \in DOMAIN program :
                 Does(d) = "def" /\ l \in Body(d) => Innermost(Around(l, {"loop"})) \in Body(d)
<1> DEFINE w == Innermost(Around(l, {"loop"}))
<1>1. PICK h \in DOMAIN program :
         /\ Does(h) = "loop" /\ l \in Body(h)
         /\ \A d \in DOMAIN program : Does(d) = "def" /\ l \in Body(d) => h \in Body(d)
  BY ProgramFacts DEF WellFormed, Does, Body
<1>2. h \in Around(l, {"loop"})
  BY <1>1 DEF Around
<1>3. w \in Around(l, {"loop"}) /\ \A k \in Around(l, {"loop"}) : k <= w
  BY <1>2, InnermostIs
<1> HIDE DEF w
<1>4. w \in DOMAIN program /\ Does(w) = "loop" /\ l \in Body(w)
  BY <1>3 DEF Around
<1>5. \A k \in DOMAIN program : Does(k) = "loop" /\ l \in Body(k) => k <= w
  BY <1>3 DEF Around
<1>6. ASSUME NEW d \in DOMAIN program, Does(d) = "def", l \in Body(d) PROVE w \in Body(d)
  <2>1. h \in Body(d)
    BY <1>1, <1>6
  <2>2. d < h
    BY <2>1, BodyBounds
  <2>3. h <= w /\ w < l
    BY <1>1, <1>4, <1>5, BodyBounds
  <2>4. QED
    BY <1>4, <1>6, <2>2, <2>3, BodyPrefix, ProgramFacts
<1>7. QED
  BY <1>4, <1>5, <1>6 DEF w

LEMMA SuccessorType ==
    ASSUME program \in Programs, NEW l \in DOMAIN program
    PROVE  Successors(l) \subseteq {0} \cup DOMAIN program
<1> SUFFICES ASSUME NEW n \in Successors(l) PROVE n \in {0} \cup DOMAIN program
  OBVIOUS
<1>1. Does(l) = "break" => Innermost(Around(l, {"loop"})) \in DOMAIN program
  BY BreakHasLoop
<1>2. Does(l) \in {"loop", "if"} => l + 1 \in DOMAIN program
  BY HeaderHasBody
<1>3. QED
  BY <1>1, <1>2, AfterType, SuccessorIs

LEMMA NoJumpIn ==
    ASSUME program \in Programs, NEW l \in DOMAIN program, NEW n \in Successors(l),
           NEW h \in DOMAIN program, n \in Body(h)
    PROVE  l = h \/ l \in Body(h)
<1>1. n \in DOMAIN program /\ n # 0 /\ h < n
  BY BodyBounds, ProgramFacts
<1>2. CASE n = After(l)
  BY <1>2, AfterNoJump
<1>3. CASE n = l + 1
  BY <1>1, <1>3, BodyPrefix, ProgramFacts
<1>4. CASE Does(l) = "break" /\ n = After(Innermost(Around(l, {"loop"})))
  <2> DEFINE w == Innermost(Around(l, {"loop"}))
  <2>1. w \in DOMAIN program /\ l \in Body(w)
    BY <1>4, BreakHasLoop
  <2>2. w \in Body(h)
    BY <1>4, <2>1, AfterNoJump
  <2>3. QED
    BY <2>1, <2>2, BodyNests
<1>5. QED
  BY <1>1, <1>2, <1>3, <1>4, SuccessorIs

LEMMA SuccessorDiffers ==
    ASSUME program \in Programs, NEW l \in DOMAIN program, NEW n \in Successors(l), n # 0
    PROVE  /\ n # l
           /\ Does(l) = "loop" => (n \in Body(l) <=> n = l + 1)
<1>1. CASE n = After(l)
  <2>1. n \notin Body(l) /\ n # l
    BY <1>1, AfterOut
  <2>2. QED
    BY <2>1, HeaderHasBody
<1>2. CASE n = l + 1 /\ Does(l) \in {"loop", "if"}
  BY <1>2, HeaderHasBody, ProgramFacts
<1>3. CASE Does(l) = "break" /\ n = After(Innermost(Around(l, {"loop"})))
  BY <1>3, BreakHasLoop, AfterOut
<1>4. QED
  BY <1>1, <1>2, <1>3, SuccessorIs

(* The lines of a function, or of the module, which is function 0. *)
Defs == {d \in DOMAIN program : Does(d) = "def"}
Region(name) == IF name = 0 THEN {l \in DOMAIN program : \A d \in Defs : l \notin Body(d)} ELSE Body(name)

LEMMA StaysInRegion ==
    ASSUME program \in Programs, NEW name \in {0} \cup Defs, NEW l \in Region(name),
           NEW n \in Successors(l), n # 0
    PROVE  n \in Region(name) /\ l \in DOMAIN program
<1>0. l \in DOMAIN program /\ 0 \notin DOMAIN program
  BY BodyBounds, ProgramFacts DEF Region, Defs
<1>1. n \in DOMAIN program
  BY <1>0, SuccessorType
<1>2. CASE name = 0
  <2> SUFFICES ASSUME NEW d \in Defs, n \in Body(d) PROVE FALSE
    BY <1>1, <1>2 DEF Region
  <2>1. d \in DOMAIN program /\ Does(d) = "def"
    BY DEF Defs
  <2>2. l = d \/ l \in Body(d)
    BY <1>0, <2>1, NoJumpIn
  <2>3. l = d
    BY <1>2, <2>2 DEF Region
  <2>4. n = After(d)
    BY <2>1, <2>3, SuccessorIs
  <2>5. QED
    BY <2>1, <2>4, AfterOut
<1>3. CASE name \in Defs
  <2>1. name \in DOMAIN program /\ Does(name) = "def" /\ name # 0 /\ l \in Body(name)
    BY <1>0, <1>3 DEF Defs, Region
  <2>2. ASSUME NEW k \in DOMAIN program, k \in Body(name), After(k) # 0 PROVE After(k) \in Body(name)
    BY <2>1, <2>2, AfterStays DEF Scopes, Around
  <2>3. ASSUME n = After(l) PROVE n \in Body(name)
    BY <1>0, <2>1, <2>2, <2>3
  <2>4. ASSUME n = l + 1, Does(l) \in {"loop", "if"} PROVE n \in Body(name)
    BY <1>0, <2>1, <2>4, HeaderHasBody, BodyNests
  <2>5. ASSUME Does(l) = "break", n = After(Innermost(Around(l, {"loop"}))) PROVE n \in Body(name)
    BY <1>0, <2>1, <2>2, <2>5, BreakHasLoop
  <2>6. n \in Body(name)
    BY <2>3, <2>4, <2>5, SuccessorIs
  <2>7. QED
    BY <1>0, <2>1, <2>6 DEF Region
<1>4. QED
  BY <1>2, <1>3

(* The loops of function name that line l belongs to. *)
LoopsAt(name, l) == {h \in Region(name) : Does(h) = "loop" /\ (l = h \/ l \in Body(h))}

LEMMA NoNewLoops ==
    ASSUME program \in Programs, NEW name \in {0} \cup Defs, NEW l \in Region(name),
           NEW n \in Successors(l), n # 0, NEW h \in LoopsAt(name, n)
    PROVE  h = n \/ h \in LoopsAt(name, l)
<1>1. h \in Region(name) /\ Does(h) = "loop" /\ (n = h \/ n \in Body(h))
  BY DEF LoopsAt
<1>2. h \in DOMAIN program /\ l \in DOMAIN program
  BY <1>1, BodyBounds, ProgramFacts DEF Region, Defs
<1>3. n \in Body(h) => l = h \/ l \in Body(h)
  BY <1>2, NoJumpIn
<1>4. QED
  BY <1>1, <1>3 DEF LoopsAt

(* A step out of a loop is out of the innermost one only, it is from its      *)
(* header or a break, and goes to a line that is indented no more.            *)
LEMMA Leaving ==
    ASSUME program \in Programs, NEW l \in DOMAIN program, NEW n \in Successors(l), n # 0,
           NEW g \in DOMAIN program, Does(g) = "loop", l = g \/ l \in Body(g),
           n # g, n \notin Body(g)
    PROVE  /\ \A k \in DOMAIN program : Does(k) = "loop" /\ (l = k \/ l \in Body(k)) => k <= g
           /\ Indent(n) <= Indent(g)
           /\ Does(l) # "break" => l = g
<1>1. ASSUME NEW k \in DOMAIN program, l \in Body(k) PROVE k < l
  BY <1>1, BodyBounds
<1>2. CASE n = After(l)
  <2>1. l = g
    BY <1>2, AfterStays DEF Scopes, Around
  <2>2. Indent(n) <= Indent(g)
    BY <1>2, <2>1, AfterOut
  <2>3. QED
    BY <1>1, <2>1, <2>2, ProgramFacts
<1>3. CASE n = l + 1 /\ Does(l) \in {"loop", "if"}
  BY <1>3, HeaderHasBody, BodyNests
<1>4. CASE Does(l) = "break" /\ n = After(Innermost(Around(l, {"loop"})))
  <2> DEFINE w == Innermost(Around(l, {"loop"}))
  <2>1. w \in DOMAIN program /\ Does(w) = "loop" /\ l \in Body(w)
    BY <1>4, BreakHasLoop
  <2>2. \A k \in DOMAIN program : Does(k) = "loop" /\ l \in Body(k) => k <= w
    BY <1>4, BreakHasLoop
  <2>3. n = After(w)
    BY <1>4
  <2> HIDE DEF w
  <2>4. l \in Body(g) /\ g <= w
    BY <1>4, <2>2
  <2>5. w = g
    <3>1. ASSUME w # g PROVE FALSE
      <4>1. w \in Body(g)
        BY <2>1, <2>4, <3>1, HeadersNest, ProgramFacts
      <4>2. g \in Scopes(w)
        BY <4>1 DEF Scopes, Around
      <4>3. QED
        BY <2>1, <2>3, <4>2, AfterStays
    <3>2. QED
      BY <3>1
  <2>6. Indent(n) <= Indent(g)
    BY <2>1, <2>3, <2>5, AfterOut
  <2>7. QED
    BY <1>4, <2>2, <2>5, <2>6
<1>5. QED
  BY <1>2, <1>3, <1>4, SuccessorIs

(* While the logger can follow, a function ends outside of its loops.         *)
LEMMA EndsOutside ==
    ASSUME program \in Programs, Followed, NEW d \in Defs, NEW l \in Body(d), 0 \in Successors(l)
    PROVE  LoopsAt(d, l) = {}
<1> SUFFICES ASSUME NEW h \in LoopsAt(d, l) PROVE FALSE
  OBVIOUS
<1>1. d \in DOMAIN program /\ Does(d) = "def" /\ d # 0
  BY ProgramFacts DEF Defs
<1>2. h \in Body(d) /\ Does(h) = "loop" /\ (l = h \/ l \in Body(h))
  BY <1>1 DEF LoopsAt, Region
<1>3. l \in DOMAIN program /\ h \in DOMAIN program /\ d < h
  BY <1>1, <1>2, BodyBounds
<1>4. ASSUME NEW k \in DOMAIN program, k \in Body(d), Does(k) = "loop"
      PROVE  After(k) # 0 /\ \A j \in Body(k) : Does(j) \notin {"return", "raise", "call"}
  BY <1>1, <1>4 DEF Followed, LoopsOfFunction, Around
<1>5. CASE 0 = After(l)
  <2>1. l \in Body(h)
    BY <1>2, <1>3, <1>4, <1>5
  <2>2. h \in Scopes(l)
    BY <1>2, <1>3, <2>1 DEF Scopes, Around
  <2> DEFINE i == Innermost(Scopes(l))
  <2>3. i \in Scopes(l) /\ h <= i
    BY <2>2, InnermostIs DEF Scopes
  <2>4. Does(i) = "def"
    <3>1. i \in DOMAIN program /\ Scopes(l) # {}
      BY <2>3 DEF Scopes, Around
    <3>2. i # 0 /\ 0 \notin DOMAIN program
      BY <3>1, ProgramFacts
    <3>3. QED
      BY <1>3, <1>5, <3>1, <3>2, AfterIs
  <2> HIDE DEF i
  <2>5. i \in DOMAIN program /\ l \in Body(i) /\ i # h
    BY <1>2, <2>3, <2>4 DEF Scopes, Around
  <2>6. i \in Body(h)
    BY <1>3, <2>1, <2>3, <2>5, HeadersNest, ProgramFacts
  <2>7. i \in Body(d)
    BY <1>1, <1>2, <2>6, BodyNests
  <2>8. QED
    BY <1>1, <2>4, <2>5, <2>7, ProgramFacts DEF WellFormed, Does, Body
<1>6. CASE Does(l) = "break" /\ 0 = After(Innermost(Around(l, {"loop"})))
  BY <1>1, <1>3, <1>4, <1>6, BreakHasLoop
<1>7. CASE Does(l) = "return"
  BY <1>2, <1>3, <1>4, <1>7
<1>8. CASE 0 = l + 1
  BY <1>3, <1>8, ProgramFacts
<1>9. QED
  BY <1>5, <1>6, <1>7, <1>8, SuccessorIs

-----------------------------------------------------------------------------
(***************************************************************************)
(* Sequences: what the steps do to the stack, the active loops and the     *)
(* log, element by element.                                                *)
(***************************************************************************)

LEMMA FunctionIsSeq ==
    ASSUME NEW S, NEW n \in Nat, NEW s \in [1..n -> S]
    PROVE  s \in Seq(S) /\ Len(s) = n /\ DOMAIN s = 1..n
  OBVIOUS

LEMMA PrefixElements ==
    ASSUME NEW S, NEW s \in Seq(S), NEW k \in 0..Len(s)
    PROVE  /\ SubSeq(s, 1, k) \in Seq(S) /\ Len(SubSeq(s, 1, k)) = k
           /\ DOMAIN SubSeq(s, 1, k) = 1..k
           /\ \A i \in 1..k : SubSeq(s, 1, k)[i] = s[i]
<1> DEFINE t == SubSeq(s, 1, k)
<1>1. Len(s) \in Nat /\ k \in Nat /\ \A i \in 1..k : i \in 1..Len(s)
  BY LenProperties
<1>2. \A i \in 1..k : s[i] \in S
  BY <1>1, ElementOfSeq
<1>3. /\ t \in Seq(S) /\ Len(t) = IF 1 <= k THEN k - 1 + 1 ELSE 0
      /\ \A i \in 1..(k - 1 + 1) : t[i] = s[1 + i - 1]
  BY <1>1, <1>2, SubSeqProperties
<1> HIDE DEF t
<1>4. Len(t) = k /\ \A i \in 1..k : t[i] = s[i]
  BY <1>1, <1>3
<1>5. DOMAIN t = 1..k
  BY <1>3, <1>4, LenProperties
<1>6. QED
  BY <1>3, <1>4, <1>5 DEF t

LEMMA WholePrefix ==
    ASSUME NEW S, NEW s \in Seq(S)
    PROVE  SubSeq(s, 1, Len(s)) = s
  BY SubSeqFull

LEMMA PopElements ==
    ASSUME NEW S, NEW s \in Seq(S), s # <<>>
    PROVE  /\ Pop(s) \in Seq(S) /\ Len(Pop(s)) = Len(s) - 1
           /\ Len(s) \in Nat \ {0} /\ DOMAIN s = 1..Len(s) /\ Top(s) \in S
           /\ DOMAIN Pop(s) = 1..(Len(s) - 1)
           /\ \A i \in 1..(Len(s) - 1) : Pop(s)[i] = s[i]
<1>1. Len(s) \in Nat \ {0} /\ DOMAIN s = 1..Len(s)
  BY EmptySeq, LenProperties
<1>2. Len(s) - 1 \in 0..Len(s)
  BY <1>1
<1>3. Top(s) \in S
  BY <1>1, ElementOfSeq DEF Top
<1>4. QED
  BY <1>1, <1>2, <1>3, PrefixElements DEF Pop

AppendIs(t, s, e) ==
    /\ Len(t) = Len(s) + 1 /\ DOMAIN t = 1..(Len(s) + 1) /\ t # <<>>
    /\ \A i \in 1..Len(s) : t[i] = s[i]
    /\ t[Len(s) + 1] = e /\ Top(t) = e

LEMMA AppendElements ==
    ASSUME NEW S, NEW s \in Seq(S), NEW e \in S
    PROVE  Append(s, e) \in Seq(S) /\ AppendIs(Append(s, e), s, e)
<1> DEFINE t == Append(s, e)
<1>1. /\ t \in Seq(S) /\ t # <<>> /\ Len(t) = Len(s) + 1
      /\ \A i \in 1..Len(s) : t[i] = s[i]
      /\ t[Len(s) + 1] = e
  BY AppendProperties
<1> HIDE DEF t
<1>2. DOMAIN t = 1..(Len(s) + 1)
  BY <1>1, LenProperties
<1>3. QED
  BY <1>1, <1>2 DEF AppendIs, Top, t

(* The top of a stack is replaced. *)
Replaced(t, s, e) ==
    /\ Len(t) = Len(s) /\ DOMAIN t = 1..Len(s) /\ t # <<>>
    /\ \A i \in 1..(Len(s) - 1) : t[i] = s[i]
    /\ t[Len(s)] = e /\ Top(t) = e

LEMMA ReplaceTop ==
    ASSUME NEW S, NEW s \in Seq(S), s # <<>>, NEW e \in S
    PROVE  Append(Pop(s), e) \in Seq(S) /\ Replaced(Append(Pop(s), e), s, e)
<1>1. /\ Pop(s) \in Seq(S) /\ Len(Pop(s)) = Len(s) - 1 /\ Len(s) \in Nat \ {0}
      /\ \A i \in 1..(Len(s) - 1) : Pop(s)[i] = s[i]
  BY PopElements
<1>2. Append(Pop(s), e) \in Seq(S) /\ AppendIs(Append(Pop(s), e), Pop(s), e)
  BY <1>1, AppendElements
<1>3. Len(s) - 1 + 1 = Len(s)
  BY <1>1
<1>4. QED
  BY <1>1, <1>2, <1>3 DEF AppendIs, Replaced

ConcatIs(u, s, t) ==
    /\ Len(u) = Len(s) + Len(t) /\ DOMAIN u = 1..(Len(s) + Len(t))
    /\ \A i \in 1..Len(s) : u[i] = s[i]
    /\ \A i \in 1..Len(t) : u[Len(s) + i] = t[i]

LEMMA ConcatElements ==
    ASSUME NEW S, NEW s \in Seq(S), NEW t \in Seq(S)
    PROVE  s \o t \in Seq(S) /\ ConcatIs(s \o t, s, t)
<1> DEFINE u == s \o t
<1>1. /\ u \in Seq(S) /\ Len(u) = Len(s) + Len(t)
      /\ \A i \in 1..(Len(s) + Len(t)) : u[i] = IF i <= Len(s) THEN s[i] ELSE t[i - Len(s)]
  BY ConcatProperties
<1>2. Len(s) \in Nat /\ Len(t) \in Nat
  BY LenProperties
<1> HIDE DEF u
<1>3. DOMAIN u = 1..(Len(s) + Len(t))
  BY <1>1, LenProperties
<1>4. \A i \in 1..Len(s) : u[i] = s[i]
  BY <1>1, <1>2
<1>5. ASSUME NEW i \in 1..Len(t) PROVE u[Len(s) + i] = t[i]
  <2>1. Len(s) + i \in 1..(Len(s) + Len(t)) /\ ~(Len(s) + i <= Len(s)) /\ Len(s) + i - Len(s) = i
    BY <1>2
  <2>2. QED
    BY <1>1, <2>1
<1>6. QED
  BY <1>1, <1>3, <1>4, <1>5 DEF ConcatIs, u

(* A log that has grown by some records, an environment and more records. *)
Grown(t, s, a, e, b) ==
    /\ Len(t) = Len(s) + Len(a) + 1 + Len(b) /\ DOMAIN t = 1..(Len(s) + Len(a) + 1 + Len(b))
    /\ \A i \in 1..Len(s) : t[i] = s[i]
    /\ \A i \in 1..Len(a) : t[Len(s) + i] = a[i]
    /\ t[Len(s) + Len(a) + 1] = e
    /\ \A i \in 1..Len(b) : t[Len(s) + Len(a) + 1 + i] = b[i]

LEMMA LogGrows ==
    ASSUME NEW S, NEW s \in Seq(S), NEW a \in Seq(S), NEW e \in S, NEW b \in Seq(S)
    PROVE  s \o a \o <<e>> \o b \in Seq(S) /\ Grown(s \o a \o <<e>> \o b, s, a, e, b)
<1> DEFINE c == <<e>>
           u == s \o a
           v == u \o c
           w == v \o b
<1>1. c \in Seq(S) /\ Len(c) = 1 /\ c[1] = e
  OBVIOUS
<1> HIDE DEF c
<1>2. u \in Seq(S) /\ ConcatIs(u, s, a)
  BY ConcatElements
<1> HIDE DEF u
<1>3. v \in Seq(S) /\ ConcatIs(v, u, c)
  BY <1>1, <1>2, ConcatElements
<1> HIDE DEF v
<1>4. w \in Seq(S) /\ ConcatIs(w, v, b)
  BY <1>3, ConcatElements
<1> HIDE DEF w
<1>5. Len(s) \in Nat /\ Len(a) \in Nat /\ Len(b) \in Nat
  BY LenProperties
<1>6. Len(u) = Len(s) + Len(a) /\ Len(v) = Len(s) + Len(a) + 1 /\ Len(w) = Len(s) + Len(a) + 1 + Len(b)
  BY <1>1, <1>2, <1>3, <1>4, <1>5 DEF ConcatIs
<1>7. \A i \in 1..Len(s) : w[i] = s[i]
  <2>1. ASSUME NEW i \in 1..Len(s) PROVE w[i] = s[i]
    <3>1. i \in 1..Len(u) /\ i \in 1..Len(v)
      BY <1>5, <1>6
    <3>2. QED
      BY <1>2, <1>3, <1>4, <3>1 DEF ConcatIs
  <2>2. QED
    BY <2>1
<1>8. \A i \in 1..Len(a) : w[Len(s) + i] = a[i]
  <2>1. ASSUME NEW i \in 1..Len(a) PROVE w[Len(s) + i] = a[i]
    <3>1. Len(s) + i \in 1..Len(u) /\ Len(s) + i \in 1..Len(v)
      BY <1>5, <1>6
    <3>2. QED
      BY <1>2, <1>3, <1>4, <3>1 DEF ConcatIs
  <2>2. QED
    BY <2>1
<1>9. w[Len(s) + Len(a) + 1] = e
  <2>1. Len(u) + 1 \in 1..Len(v) /\ 1 \in 1..Len(c)
    BY <1>1, <1>5, <1>6
  <2>2. w[Len(u) + 1] = v[Len(u) + 1] /\ v[Len(u) + 1] = c[1]
    BY <1>3, <1>4, <2>1 DEF ConcatIs
  <2>3. QED
    BY <1>1, <1>6, <2>2
<1>10. \A i \in 1..Len(b) : w[Len(s) + Len(a) + 1 + i] = b[i]
  BY <1>4, <1>6 DEF ConcatIs
<1>11. DOMAIN w = 1..(Len(s) + Len(a) + 1 + Len(b))
  BY <1>4, <1>6 DEF ConcatIs
<1>12. w = s \o a \o <<e>> \o b
  BY DEF c, u, v, w
<1>13. QED
  BY <1>4, <1>6, <1>7, <1>8, <1>9, <1>10, <1>11, <1>12 DEF Grown

-----------------------------------------------------------------------------
(***************************************************************************)
(* Types.  TypeOK is inductive together with what the log holds, with the  *)
(* lines frames go to being lines of the program, and with the clock of    *)
(* set_quit.                                                               *)
(***************************************************************************)

Places  == [line : Nat, iter : Nat]
Rounds  == [line : Nat, iter : Nat, begun : Nat]
Frames  == [id : Nat, name : Nat, at : Nat, next : Nat, raised : BOOLEAN,
            loops : Seq(Rounds), outer : Seq(Places)]
Actives == [frame : Nat, line : DOMAIN program, iter : Nat]

EnvRecords == [kind : {"env"}, line : Nat, ret : BOOLEAN, frame : Nat, name : Nat,
               loops : Seq(Places), really : Seq(Places),
               says : {"state", "limit", "thrown", "value"}, raised : BOOLEAN]
EdgeRecords == [kind : {"end"}, line : Nat, iter : Nat, begun : SUBSET Nat]
                 \cup [kind : {"begin"}, line : Nat, iter : Nat]
Records    == EnvRecords \cup EdgeRecords

TypeInv ==
    /\ program \in Programs
    /\ TypeOK
    /\ log \in Seq(Records)
    /\ \A i \in DOMAIN stack : stack[i].next \in {0} \cup DOMAIN program
    /\ quitting <=> time >= Limit

LEMMA TypeFacts ==
    ASSUME TypeInv
    PROVE  /\ program \in Programs
           /\ stack \in Seq(Frames) /\ Len(stack) \in Nat /\ DOMAIN stack = 1..Len(stack)
           /\ \A i \in DOMAIN stack : stack[i] \in Frames
           /\ active \in Seq(Actives) /\ Len(active) \in Nat /\ DOMAIN active = 1..Len(active)
           /\ log \in Seq(Records) /\ Len(log) \in Nat /\ DOMAIN log = 1..Len(log)
           /\ time \in Nat /\ time <= Limit /\ Limit \in Nat \ {0}
<1>1. stack \in Seq(Frames) /\ active \in Seq(Actives) /\ log \in Seq(Records)
  BY DEF TypeInv, TypeOK, Frames, Actives, Places, Rounds
<1>2. /\ Len(stack) \in Nat /\ DOMAIN stack = 1..Len(stack)
      /\ Len(active) \in Nat /\ DOMAIN active = 1..Len(active)
      /\ Len(log) \in Nat /\ DOMAIN log = 1..Len(log)
  BY <1>1, LenProperties
<1>3. \A i \in DOMAIN stack : stack[i] \in Frames
  BY <1>1, <1>2, ElementOfSeq
<1>4. Envs \in SUBSET (1..Len(log)) /\ IsFiniteSet(1..Len(log))
  BY <1>2, FS_Interval DEF Envs
<1>5. time \in Nat
  BY <1>4, FS_Subset, FS_CardinalityType DEF TypeInv, TypeOK
<1>6. QED
  BY <1>1, <1>2, <1>3, <1>5, LoggerAssumption DEF TypeInv, TypeOK

LEMMA IterationsIs ==
    ASSUME NEW S, NEW s \in Seq(S), \A x \in S : x.line \in Nat /\ x.iter \in Nat
    PROVE  /\ Iterations(s) \in Seq(Places) /\ Len(Iterations(s)) = Len(s)
           /\ DOMAIN Iterations(s) = 1..Len(s)
           /\ \A i \in 1..Len(s) : Iterations(s)[i] = [line |-> s[i].line, iter |-> s[i].iter]
<1>1. Len(s) \in Nat /\ DOMAIN s = 1..Len(s) /\ \A i \in 1..Len(s) : s[i] \in S
  BY LenProperties, ElementOfSeq
<1>2. Iterations(s) \in [1..Len(s) -> Places]
  BY <1>1 DEF Iterations, Places
<1>3. \A i \in 1..Len(s) : Iterations(s)[i] = [line |-> s[i].line, iter |-> s[i].iter]
  BY <1>1 DEF Iterations
<1>4. QED
  BY <1>1, <1>2, <1>3, FunctionIsSeq

LEMMA RoundsHaveNumbers ==
    /\ \A x \in Rounds : x.line \in Nat /\ x.iter \in Nat /\ x.begun \in Nat
    /\ program \in Programs => \A x \in Actives : x.line \in Nat /\ x.iter \in Nat /\ x.frame \in Nat
<1>1. program \in Programs => DOMAIN program \subseteq Nat
  BY ProgramFacts
<1>2. QED
  BY <1>1 DEF Rounds, Actives

(* How many of the loops of f line l is in. *)
Leading(f, l) == {k \in 0..Len(f.loops) : \A j \in 1..k : l = f.loops[j].line \/ l \in Body(f.loops[j].line)}

LEMMA StillInIs ==
    ASSUME NEW f \in Frames, NEW l
    PROVE  /\ StillIn(f, l) = SubSeq(f.loops, 1, Greatest(Leading(f, l)))
           /\ Greatest(Leading(f, l)) \in Leading(f, l)
           /\ \A k \in Leading(f, l) : k <= Greatest(Leading(f, l))
           /\ Greatest(Leading(f, l)) \in 0..Len(f.loops)
           /\ StillIn(f, l) \in Seq(Rounds)
<1>1. f.loops \in Seq(Rounds) /\ Len(f.loops) \in Nat
  BY LenProperties DEF Frames
<1>2. 0 \in Leading(f, l) /\ Leading(f, l) \in SUBSET (0..Len(f.loops))
  BY <1>1 DEF Leading
<1>3. /\ Greatest(Leading(f, l)) \in Leading(f, l)
      /\ \A k \in Leading(f, l) : k <= Greatest(Leading(f, l))
  BY <1>1, <1>2, GreatestNumber
<1>4. StillIn(f, l) = SubSeq(f.loops, 1, Greatest(Leading(f, l)))
  BY DEF StillIn, Leading
<1>5. QED
  BY <1>1, <1>2, <1>3, <1>4, PrefixElements

(* What Executed leaves alone, and the loops it makes of those line l is in.  *)
ExecutedLoops(in, l, goes, loops) ==
    loops = IF Does(l) # "loop" THEN in
            ELSE IF Len(in) > 0 /\ in[Len(in)].line = l
              THEN [in EXCEPT ![Len(in)].iter = @ + 1, ![Len(in)].begun = @ + goes]
              ELSE Append(in, [line |-> l, iter |-> 0, begun |-> goes])

IsExecuted(e, f, l, n) ==
    /\ e \in Frames
    /\ e.at = l /\ e.next = n
    /\ e.id = f.id /\ e.name = f.name /\ e.raised = f.raised /\ e.outer = f.outer
    /\ ExecutedLoops(StillIn(f, l), l, IF n = l + 1 THEN 1 ELSE 0, e.loops)

LEMMA ExecutedIs ==
    ASSUME NEW f \in Frames, NEW l \in Nat, NEW n \in Nat
    PROVE  IsExecuted(Executed(f, l, n), f, l, n)
<1> DEFINE in == StillIn(f, l)
           goes == IF n = l + 1 THEN 1 ELSE 0
           loops == IF Does(l) # "loop" THEN in
                    ELSE IF Len(in) > 0 /\ in[Len(in)].line = l
                      THEN [in EXCEPT ![Len(in)].iter = @ + 1, ![Len(in)].begun = @ + goes]
                      ELSE Append(in, [line |-> l, iter |-> 0, begun |-> goes])
<1>1. Executed(f, l, n) = [f EXCEPT !.at = l, !.next = n, !.loops = loops]
  BY DEF Executed
<1>2. in \in Seq(Rounds) /\ goes \in Nat
  BY StillInIs
<1>3. loops \in Seq(Rounds)
  <2> HIDE DEF in, goes
  <2>1. CASE Does(l) # "loop"
    BY <1>2, <2>1
  <2>2. CASE Does(l) = "loop" /\ Len(in) > 0 /\ in[Len(in)].line = l
    <3>1. Len(in) \in 1..Len(in)
      BY <1>2, <2>2, LenProperties
    <3>2. in[Len(in)] \in Rounds
      BY <1>2, <3>1, ElementOfSeq
    <3>3. [in[Len(in)] EXCEPT !.iter = @ + 1, !.begun = @ + goes] \in Rounds
      <4>1. ASSUME NEW r \in Rounds, NEW g \in Nat
            PROVE  [r EXCEPT !.iter = @ + 1, !.begun = @ + g] \in Rounds
        <5>1. r.iter + 1 \in Nat /\ r.begun + g \in Nat
          BY DEF Rounds
        <5>2. [r EXCEPT !.iter = r.iter + 1, !.begun = r.begun + g] \in Rounds
          BY <5>1 DEF Rounds
        <5>3. QED
          BY <5>2
      <4>2. QED
        BY <1>2, <3>2, <4>1
    <3>4. loops = [in EXCEPT ![Len(in)] = [in[Len(in)] EXCEPT !.iter = @ + 1, !.begun = @ + goes]]
      BY <1>2, <2>2, <3>1, LenProperties
    <3>5. QED
      BY <1>2, <3>1, <3>3, <3>4, ExceptSeq
  <2>3. CASE Does(l) = "loop" /\ ~(Len(in) > 0 /\ in[Len(in)].line = l)
    <3>1. [line |-> l, iter |-> 0, begun |-> goes] \in Rounds
      BY <1>2 DEF Rounds
    <3>2. loops = Append(in, [line |-> l, iter |-> 0, begun |-> goes])
      BY <2>3
    <3>3. QED
      BY <1>2, <3>1, <3>2, AppendElements
  <2>4. QED
    BY <2>1, <2>2, <2>3
<1>4. ExecutedLoops(in, l, goes, loops)
  BY DEF ExecutedLoops
<1> HIDE DEF in, goes, loops
<1>5. QED
  BY <1>1, <1>3, <1>4 DEF Frames, IsExecuted, in, goes

LEMMA EndingType ==
    ASSUME TypeInv, NEW f, NEW l, NEW prev
    PROVE  Ending(f, l, prev) \in 0..Len(active)
<1>1. active = <<>> => Len(active) = 0
  BY EmptySeq
<1>2. active # <<>> => Len(active) \in Nat \ {0}
  BY TypeFacts, EmptySeq
<1>3. Ending(f, l, prev) \in {0, 1, Len(active)} /\ (active = <<>> => Ending(f, l, prev) = 0)
  BY DEF Ending
<1>4. QED
  BY <1>1, <1>2, <1>3, TypeFacts

LEMMA StayActiveIs ==
    ASSUME TypeInv, NEW f, NEW l, NEW prev
    PROVE  /\ StayActive(f, l, prev) \in Seq(Actives)
           /\ Len(StayActive(f, l, prev)) = Len(active) - Ending(f, l, prev)
           /\ \A i \in 1..(Len(active) - Ending(f, l, prev)) : StayActive(f, l, prev)[i] = active[i]
<1>1. Len(active) - Ending(f, l, prev) \in 0..Len(active)
  BY EndingType, TypeFacts
<1>2. QED
  BY <1>1, PrefixElements, TypeFacts DEF StayActive

LEMMA EndRecordsIs ==
    ASSUME TypeInv, NEW f \in Frames, NEW l, NEW prev
    PROVE  /\ EndRecords(f, l, prev) \in Seq(EdgeRecords)
           /\ Len(EndRecords(f, l, prev)) = Ending(f, l, prev)
<1> DEFINE n == Ending(f, l, prev)
           ends(k) == LET i == Len(active) + 1 - k
                      IN [kind |-> "end", line |-> active[i].line,
                          iter |-> active[i].iter + LastRound(f, prev),
                          begun |-> {f.loops[j].begun : j \in {j \in DOMAIN f.loops : f.loops[j].line = active[i].line}}]
<1>1. n \in Nat /\ n <= Len(active) /\ Len(active) \in Nat
  BY EndingType, TypeFacts
<1> HIDE DEF n
<1>2. ASSUME NEW k \in 1..n PROVE ends(k) \in EdgeRecords
  <2> DEFINE i == Len(active) + 1 - k
  <2>1. i \in 1..Len(active)
    BY <1>1
  <2> HIDE DEF i
  <2>2. active[i] \in Actives
    BY <2>1, TypeFacts, ElementOfSeq
  <2>3. active[i].line \in Nat /\ active[i].iter \in Nat
    BY <2>2, RoundsHaveNumbers, TypeFacts
  <2>4. LastRound(f, prev) \in Nat
    BY DEF LastRound
  <2>5. f.loops \in Seq(Rounds) /\ \A j \in DOMAIN f.loops : f.loops[j].begun \in Nat
    BY LenProperties, ElementOfSeq, RoundsHaveNumbers DEF Frames
  <2> DEFINE b == {f.loops[j].begun : j \in {j \in DOMAIN f.loops : f.loops[j].line = active[i].line}}
  <2>6. b \in SUBSET Nat
    BY <2>5
  <2>7. active[i].iter + LastRound(f, prev) \in Nat
    BY <2>3, <2>4
  <2>8. ends(k) = [kind |-> "end", line |-> active[i].line, iter |-> active[i].iter + LastRound(f, prev), begun |-> b]
    BY DEF i
  <2> HIDE DEF b, ends
  <2>9. QED
    BY <2>3, <2>6, <2>7, <2>8 DEF EdgeRecords
<1>3. EndRecords(f, l, prev) = [k \in 1..n |-> ends(k)]
  BY DEF EndRecords, n
<1> HIDE DEF ends
<1>4. EndRecords(f, l, prev) \in [1..n -> EdgeRecords]
  BY <1>2, <1>3
<1>5. QED
  BY <1>1, <1>4, FunctionIsSeq DEF n

LEMMA BeganType ==
    ASSUME TypeInv, NEW f \in Frames, NEW l \in DOMAIN program, NEW loops \in Seq(Actives)
    PROVE  /\ Began(f, l, loops) \in Seq(Actives)
           /\ BeginRecord(l, loops, Began(f, l, loops)) \in Seq(EdgeRecords)
<1>1. CASE Does(l) # "loop"
  <2>1. Began(f, l, loops) = loops /\ Len(loops) \in Nat
    BY <1>1, LenProperties DEF Began
  <2>2. BeginRecord(l, loops, loops) = <<>>
    BY <2>1 DEF BeginRecord
  <2>3. QED
    BY <2>1, <2>2, EmptySeq
<1>2. CASE Does(l) = "loop" /\ loops # <<>> /\ Top(loops).line = l
  <2>1. Len(loops) \in 1..Len(loops) /\ Len(loops) \in Nat
    BY <1>2, EmptySeq
  <2>2. loops[Len(loops)] \in Actives
    BY <2>1, ElementOfSeq
  <2>3. ASSUME NEW r \in Actives PROVE [r EXCEPT !.iter = @ + 1] \in Actives
    <3>1. r.iter + 1 \in Nat
      BY DEF Actives
    <3>2. [r EXCEPT !.iter = r.iter + 1] \in Actives
      BY <3>1 DEF Actives
    <3>3. QED
      BY <3>2
  <2> DEFINE more == [loops EXCEPT ![Len(loops)] = [loops[Len(loops)] EXCEPT !.iter = @ + 1]]
  <2>4. more \in Seq(Actives) /\ Len(more) = Len(loops)
    BY <2>1, <2>2, <2>3, ExceptSeq
  <2>5. Began(f, l, loops) = more
    BY <1>2, <2>1, LenProperties DEF Began
  <2> HIDE DEF more
  <2>6. BeginRecord(l, loops, more) = <<>>
    BY <2>1, <2>4 DEF BeginRecord
  <2>7. QED
    BY <2>4, <2>5, <2>6, EmptySeq
<1>3. CASE Does(l) = "loop" /\ ~(loops # <<>> /\ Top(loops).line = l)
  <2>1. [frame |-> f.id, line |-> l, iter |-> 0] \in Actives
    BY DEF Frames, Actives
  <2>2. Began(f, l, loops) = Append(loops, [frame |-> f.id, line |-> l, iter |-> 0])
    BY <1>3 DEF Began
  <2>3. Began(f, l, loops) \in Seq(Actives)
    BY <2>1, <2>2, AppendElements
  <2>4. l \in Nat
    BY TypeFacts, ProgramFacts
  <2>5. [kind |-> "begin", line |-> l, iter |-> 0] \in EdgeRecords
    BY <2>4 DEF EdgeRecords
  <2>6. BeginRecord(l, loops, Began(f, l, loops)) \in Seq(EdgeRecords)
    <3>1. BeginRecord(l, loops, Began(f, l, loops)) \in {<<[kind |-> "begin", line |-> l, iter |-> 0]>>, <<>>}
      BY DEF BeginRecord
    <3>2. <<[kind |-> "begin", line |-> l, iter |-> 0]>> \in Seq(EdgeRecords)
      BY <2>5
    <3>3. QED
      BY <3>1, <3>2, EmptySeq
  <2>7. QED
    BY <2>3, <2>6
<1>4. QED
  BY <1>1, <1>2, <1>3

LEMMA TrueLoopsIs ==
    ASSUME NEW f \in Frames, NEW l
    PROVE  /\ TrueLoops(f, l) \in Seq(Places)
           /\ ConcatIs(TrueLoops(f, l), f.outer, Iterations(StillIn(f, l)))
<1>1. StillIn(f, l) \in Seq(Rounds) /\ f.outer \in Seq(Places)
  BY StillInIs DEF Frames
<1>2. Iterations(StillIn(f, l)) \in Seq(Places)
  BY <1>1, IterationsIs, RoundsHaveNumbers
<1>3. QED
  BY <1>1, <1>2, ConcatElements DEF TrueLoops

LEMMA EnvType ==
    ASSUME TypeInv, NEW f \in Frames, NEW l \in Nat, NEW ret \in BOOLEAN, NEW loops \in Seq(Actives),
           NEW k, NEW says \in {"state", "limit", "thrown", "value"}
    PROVE  /\ Env(f, l, ret, loops, TrueLoops(f, k), says) \in EnvRecords
           /\ Env(f, l, ret, loops, TrueLoops(f, k), says) \notin EdgeRecords
<1>1. Iterations(loops) \in Seq(Places)
  BY IterationsIs, RoundsHaveNumbers, TypeFacts
<1>2. TrueLoops(f, k) \in Seq(Places)
  BY TrueLoopsIs
<1>3. QED
  BY <1>1, <1>2 DEF Env, EnvRecords, EdgeRecords, Frames

LEMMA EnvsGrow ==
    ASSUME log \in Seq(Records), NEW a \in Seq(EdgeRecords), NEW b \in Seq(EdgeRecords),
           NEW e \in EnvRecords, Grown(log', log, a, e, b)
    PROVE  /\ Envs' = Envs \cup {Len(log) + Len(a) + 1}
           /\ Len(log) + Len(a) + 1 \in DOMAIN log'
           /\ Cardinality(Envs') = Cardinality(Envs) + 1
           /\ PrevEnv' = e
<1>1. Len(log) \in Nat /\ DOMAIN log = 1..Len(log) /\ Len(a) \in Nat /\ Len(b) \in Nat
  BY LenProperties
<1>2. \A i \in 1..Len(a) : a[i].kind # "env"
  BY ElementOfSeq DEF EdgeRecords
<1>3. \A i \in 1..Len(b) : b[i].kind # "env"
  BY ElementOfSeq DEF EdgeRecords
<1>4. e.kind = "env"
  BY DEF EnvRecords
<1> DEFINE n == Len(log) + Len(a) + 1
<1>5. DOMAIN log' = 1..(n + Len(b)) /\ log'[n] = e
  BY DEF Grown
<1>6. ASSUME NEW i \in DOMAIN log' PROVE log'[i].kind = "env" <=> i \in Envs \/ i = n
  <2>1. CASE i \in 1..Len(log)
    BY <1>1, <2>1 DEF Grown, Envs
  <2>2. CASE i \in (Len(log) + 1)..(Len(log) + Len(a))
    <3>1. i - Len(log) \in 1..Len(a) /\ i = Len(log) + (i - Len(log))
      BY <1>1, <2>2
    <3>2. log'[i] = a[i - Len(log)]
      BY <3>1 DEF Grown
    <3>3. i # n /\ i \notin Envs
      BY <1>1, <2>2 DEF Envs
    <3>4. QED
      BY <1>2, <3>1, <3>2, <3>3
  <2>3. CASE i = n
    BY <1>4, <1>5, <2>3
  <2>4. CASE i \in (n + 1)..(n + Len(b))
    <3>1. i - n \in 1..Len(b) /\ i = n + (i - n)
      BY <1>1, <2>4
    <3>2. log'[i] = b[i - n]
      BY <3>1 DEF Grown
    <3>3. i # n /\ i \notin Envs
      BY <1>1, <2>4 DEF Envs
    <3>4. QED
      BY <1>3, <3>1, <3>2, <3>3
  <2>5. QED
    BY <1>1, <1>5, <2>1, <2>2, <2>3, <2>4
<1>7. Envs \subseteq 1..Len(log) /\ n \in Nat /\ \A y \in Envs : y \in Nat /\ y < n
  <2>1. Envs \subseteq 1..Len(log)
    BY <1>1 DEF Envs
  <2>2. \A y \in 1..Len(log) : y \in Nat /\ y < n
    BY <1>1
  <2>3. QED
    BY <1>1, <2>1, <2>2
<1> HIDE DEF n
<1>8. Envs' = Envs \cup {n}
  <2>1. Envs' = {i \in DOMAIN log' : log'[i].kind = "env"}
    BY DEF Envs
  <2>2. Envs \subseteq DOMAIN log' /\ n \in DOMAIN log'
    <3>1. \A y \in 1..Len(log) : y \in 1..(n + Len(b))
      BY <1>1, <1>7 DEF n
    <3>2. n \in 1..(n + Len(b))
      BY <1>1, <1>7 DEF n
    <3>3. QED
      BY <1>5, <1>7, <3>1, <3>2
  <2>3. QED
    BY <1>6, <2>1, <2>2
<1>9. Cardinality(Envs') = Cardinality(Envs) + 1
  <2>1. IsFiniteSet(1..Len(log))
    BY <1>1, FS_Interval
  <2>2. IsFiniteSet(Envs)
    BY <1>7, <2>1, FS_Subset
  <2>3. n \notin Envs
    BY <1>7
  <2>4. QED
    BY <1>8, <2>2, <2>3, FS_AddElement
<1>10. PrevEnv' = e
  <2>1. Envs' \in SUBSET Nat /\ n \in Envs' /\ \A y \in Envs' : y <= n
    BY <1>7, <1>8
  <2>2. Greatest(Envs') = n
    BY <2>1, GreatestIs
  <2>3. PrevEnv' = log'[Greatest(Envs')]
    BY DEF PrevEnv, Greatest
  <2>4. QED
    BY <1>5, <2>2, <2>3
<1>11. QED
  BY <1>1, <1>5, <1>8, <1>9, <1>10 DEF n

-----------------------------------------------------------------------------
(***************************************************************************)
(* The steps, by what they do to each variable.                            *)
(***************************************************************************)

Ends == IF log = <<>> THEN <<>> ELSE EndRecords(Top(stack), Top(stack).next, PrevEnv)
Kept == IF log = <<>> THEN active ELSE StayActive(Top(stack), Top(stack).next, PrevEnv)

LineEnv ==
    Env(Top(stack), Top(stack).next, FALSE, Kept, TrueLoops(Top(stack), Top(stack).next),
        IF time + 1 >= Limit THEN "limit" ELSE "state")
ReturnEnv ==
    Env(Top(stack), Top(stack).at, TRUE, active, TrueLoops(Top(stack), Top(stack).at),
        IF exception THEN "thrown" ELSE IF time + 1 >= Limit THEN "limit" ELSE "value")

(* The line goes to n, or calls function d, or throws an exception that frame *)
(* k catches.                                                                 *)
Goes(n) ==
    /\ n \in Successors(Top(stack).next)
    /\ Does(Top(stack).next) # "call"
    /\ stack' \in Seq(Frames)
    /\ Replaced(stack', stack, Executed(Top(stack), Top(stack).next, n))
    /\ exception' \in ExceptionAfter(Top(stack).next)

Caller == Executed(Top(stack), Top(stack).next, After(Top(stack).next))
Callee(d) == NewFrame(time', d, Caller.outer \o Iterations(Caller.loops))
Calls(d) ==
    /\ d \in Defs
    /\ Does(Top(stack).next) = "call"
    /\ Caller \in Frames /\ Callee(d) \in Frames
    /\ stack' \in Seq(Frames) /\ Len(stack') = Len(stack) + 1
    /\ \A i \in 1..(Len(stack) - 1) : stack'[i] = stack[i]
    /\ stack'[Len(stack)] = Caller /\ stack'[Len(stack) + 1] = Callee(d)
    /\ exception' \in ExceptionAfter(Top(stack).next)

Thrown(f) == [f EXCEPT !.next = 0, !.raised = TRUE]
Throws(k) ==
    /\ k \in 0..(Len(stack) - 1)
    /\ Does(Top(stack).next) = "raise"
    /\ k > 0 => stack[k].next # 0
    /\ stack' \in Seq(Frames) /\ Len(stack') = Len(stack)
    /\ \A i \in 1..k : stack'[i] = stack[i]
    /\ \A i \in (k + 1)..(Len(stack) - 1) : stack'[i] = Thrown(stack[i])
    /\ stack'[Len(stack)] = Thrown(Executed(Top(stack), Top(stack).next, 0))
    /\ exception' = TRUE

LineStep ==
    /\ Running /\ Top(stack).next # 0
    /\ Top(stack) \in Frames /\ Top(stack).next \in DOMAIN program
    /\ Kept \in Seq(Actives)
    /\ active' = Began(Top(stack), Top(stack).next, Kept) /\ active' \in Seq(Actives)
    /\ Ends \in Seq(EdgeRecords)
    /\ BeginRecord(Top(stack).next, Kept, active') \in Seq(EdgeRecords)
    /\ LineEnv \in EnvRecords
    /\ log' \in Seq(Records)
    /\ Grown(log', log, Ends, LineEnv, BeginRecord(Top(stack).next, Kept, active'))
    /\ Counted
    /\ (\E n \in Nat : Goes(n)) \/ (\E d \in Nat : Calls(d)) \/ (\E k \in Nat : Throws(k))
    /\ program' = program

LEMMA ThrownType ==
    ASSUME NEW f \in Frames
    PROVE  /\ Thrown(f) \in Frames /\ Thrown(f).next = 0 /\ Thrown(f).raised
           /\ Thrown(f).id = f.id /\ Thrown(f).name = f.name /\ Thrown(f).at = f.at
           /\ Thrown(f).loops = f.loops /\ Thrown(f).outer = f.outer
  BY DEF Thrown, Frames

LEMMA TopType ==
    ASSUME TypeInv, stack # <<>>
    PROVE  /\ Len(stack) \in Nat \ {0} /\ Len(stack) \in DOMAIN stack
           /\ Top(stack) = stack[Len(stack)] /\ Top(stack) \in Frames
           /\ Top(stack).next \in {0} \cup DOMAIN program
<1>1. Len(stack) \in Nat \ {0} /\ Len(stack) \in DOMAIN stack
  BY TypeFacts, EmptySeq
<1>2. QED
  BY <1>1, TypeFacts DEF Top, TypeInv

LEMMA ExecuteIs ==
    ASSUME TypeInv, stack # <<>>, Top(stack).next # 0, time' \in Nat, Execute(Top(stack), Top(stack).next)
    PROVE  (\E n \in Nat : Goes(n)) \/ (\E d \in Nat : Calls(d)) \/ (\E k \in Nat : Throws(k))
<1> DEFINE f == Top(stack)
           l == Top(stack).next
<1>1. f \in Frames /\ l \in DOMAIN program /\ stack \in Seq(Frames) /\ Len(stack) \in Nat \ {0}
  BY TopType, TypeFacts
<1>2. DOMAIN program \subseteq Nat /\ l \in Nat
  BY <1>1, ProgramFacts, TypeFacts
<1> HIDE DEF f, l
<1>3. ASSUME NEW n \in Successors(l), Does(l) # "call",
             stack' = Append(Pop(stack), Executed(f, l, n)), exception' \in ExceptionAfter(l)
      PROVE  n \in Nat /\ Goes(n)
  <2>1. n \in Nat
    BY <1>1, <1>2, SuccessorType, TypeFacts
  <2>2. Executed(f, l, n) \in Frames
    BY <1>1, <1>2, <2>1, ExecutedIs DEF IsExecuted
  <2>3. stack' \in Seq(Frames) /\ Replaced(stack', stack, Executed(f, l, n))
    BY <1>1, <1>3, <2>2, ReplaceTop
  <2>4. QED
    BY <1>3, <2>1, <2>3 DEF Goes, f, l
<1>4. ASSUME NEW d \in Defs, Does(l) = "call",
             stack' = Append(Append(Pop(stack), Executed(f, l, After(l))),
                             NewFrame(time', d, Executed(f, l, After(l)).outer \o Iterations(Executed(f, l, After(l)).loops))),
             exception' \in ExceptionAfter(l)
      PROVE  d \in Nat /\ Calls(d)
  <2>1. d \in Nat /\ d + 1 \in Nat /\ After(l) \in Nat
    BY <1>1, <1>2, AfterType, TypeFacts DEF Defs
  <2>2. Caller = Executed(f, l, After(l))
    BY DEF Caller, f, l
  <2>3. Caller \in Frames
    BY <1>1, <1>2, <2>1, <2>2, ExecutedIs DEF IsExecuted
  <2>4. Caller.outer \o Iterations(Caller.loops) \in Seq(Places)
    <3>1. Caller.outer \in Seq(Places) /\ Caller.loops \in Seq(Rounds)
      BY <2>3 DEF Frames
    <3>2. Iterations(Caller.loops) \in Seq(Places)
      BY <3>1, IterationsIs, RoundsHaveNumbers
    <3>3. QED
      BY <3>1, <3>2, ConcatElements
  <2>5. Callee(d) \in Frames
    BY <2>1, <2>4, EmptySeq DEF Callee, NewFrame, Frames
  <2> DEFINE once == Append(Pop(stack), Caller)
  <2>6. once \in Seq(Frames) /\ Replaced(once, stack, Caller)
    BY <1>1, <2>3, ReplaceTop
  <2>7. stack' = Append(once, Callee(d))
    BY <1>4, <2>2 DEF Callee
  <2> HIDE DEF once
  <2>8. stack' \in Seq(Frames) /\ AppendIs(stack', once, Callee(d))
    BY <2>5, <2>6, <2>7, AppendElements
  <2>9. Len(once) = Len(stack)
    BY <2>6 DEF Replaced
  <2>10. /\ Len(stack') = Len(stack) + 1
         /\ \A i \in 1..Len(stack) : stack'[i] = once[i]
         /\ stack'[Len(stack) + 1] = Callee(d)
    BY <2>8, <2>9 DEF AppendIs
  <2>11. \A i \in 1..(Len(stack) - 1) : i \in 1..Len(stack)
    BY <1>1
  <2>12. /\ \A i \in 1..(Len(stack) - 1) : stack'[i] = stack[i]
         /\ stack'[Len(stack)] = Caller
    BY <1>1, <2>6, <2>10, <2>11 DEF Replaced
  <2>13. QED
    BY <1>4, <2>1, <2>3, <2>5, <2>8, <2>10, <2>12 DEF Calls, l
<1>5. ASSUME NEW k \in 0..(Len(stack) - 1), Does(l) = "raise", Raise(f, l, k)
      PROVE  k \in Nat /\ Throws(k)
  <2> DEFINE e == Executed(f, l, 0)
             g(i) == IF i <= k THEN stack[i] ELSE Thrown(IF i = Len(stack) THEN e ELSE stack[i])
  <2>1. e \in Frames
    BY <1>1, <1>2, ExecutedIs DEF IsExecuted
  <2>2. DOMAIN stack = 1..Len(stack) /\ \A i \in 1..Len(stack) : stack[i] \in Frames
    BY TypeFacts
  <2>3. stack' = [i \in 1..Len(stack) |-> g(i)]
    BY <1>5, <2>2 DEF Raise, Thrown
  <2>4. \A i \in 1..Len(stack) : g(i) \in Frames
    BY <2>1, <2>2, ThrownType
  <2>5. stack' \in [1..Len(stack) -> Frames]
    BY <2>3, <2>4
  <2>6. stack' \in Seq(Frames) /\ Len(stack') = Len(stack)
    BY <1>1, <2>5, FunctionIsSeq
  <2>7. /\ \A i \in 1..k : stack'[i] = stack[i]
        /\ \A i \in (k + 1)..(Len(stack) - 1) : stack'[i] = Thrown(stack[i])
        /\ stack'[Len(stack)] = Thrown(e)
    BY <1>1, <2>3
  <2>8. (k > 0 => stack[k].next # 0) /\ exception' = TRUE /\ k \in Nat
    <3>1. k \in Nat
      BY <1>1
    <3>2. k > 0 => stack[k].next # 0
      BY <1>5 DEF Raise
    <3>3. exception' = TRUE
      BY <1>5 DEF Raise
    <3>4. QED
      BY <3>1, <3>2, <3>3
  <2> HIDE DEF g
  <2>9. QED
    BY <1>5, <2>6, <2>7, <2>8 DEF Throws, f, l
<1>6. \/ /\ Does(l) # "call"
         /\ \E n \in Successors(l) : stack' = Append(Pop(stack), Executed(f, l, n))
         /\ exception' \in ExceptionAfter(l)
      \/ /\ Does(l) = "call"
         /\ \E d \in Defs :
               stack' = Append(Append(Pop(stack), Executed(f, l, After(l))),
                               NewFrame(time', d, Executed(f, l, After(l)).outer \o Iterations(Executed(f, l, After(l)).loops)))
         /\ exception' \in ExceptionAfter(l)
      \/ /\ Does(l) = "raise"
         /\ \E k \in 0..(Len(stack) - 1) : Raise(f, l, k)
  BY DEF Execute, Defs, f, l
<1>7. QED
  BY <1>3, <1>4, <1>5, <1>6

LEMMA LineStepIs == TypeInv /\ UserLine => LineStep
<1> SUFFICES ASSUME TypeInv, UserLine PROVE LineStep
  OBVIOUS
<1> DEFINE f == Top(stack)
           l == Top(stack).next
           says == IF time + 1 >= Limit THEN "limit" ELSE "state"
<1>1. Running /\ stack # <<>> /\ l # 0 /\ Counted /\ Execute(f, l) /\ program' = program
  BY DEF UserLine, Running
<1>2. f \in Frames /\ l \in DOMAIN program /\ l \in Nat
  BY <1>1, TopType, ProgramFacts, TypeFacts
<1>3. active' = Began(f, l, Kept) /\ log' = log \o Ends \o <<LineEnv>> \o BeginRecord(l, Kept, active')
  BY DEF UserLine, Kept, Ends, LineEnv
<1>4. Kept \in Seq(Actives)
  BY StayActiveIs, TypeFacts DEF Kept
<1>5. Ends \in Seq(EdgeRecords)
  BY <1>2, EndRecordsIs, EmptySeq DEF Ends
<1>6. active' \in Seq(Actives) /\ BeginRecord(l, Kept, active') \in Seq(EdgeRecords)
  BY <1>2, <1>3, <1>4, BeganType
<1>7. LineEnv \in EnvRecords
  <2>1. says \in {"state", "limit", "thrown", "value"} /\ FALSE \in BOOLEAN
    OBVIOUS
  <2> HIDE DEF says
  <2>2. Env(f, l, FALSE, Kept, TrueLoops(f, l), says) \in EnvRecords
    BY <1>2, <1>4, <2>1, EnvType
  <2>3. QED
    BY <2>2 DEF LineEnv, says
<1> HIDE DEF f, l
<1>8. log' \in Seq(Records) /\ Grown(log', log, Ends, LineEnv, BeginRecord(l, Kept, active'))
  <2>1. /\ Ends \in Seq(Records) /\ BeginRecord(l, Kept, active') \in Seq(Records)
        /\ LineEnv \in Records /\ log \in Seq(Records)
    BY <1>5, <1>6, <1>7, SeqMonotonic, TypeFacts DEF Records
  <2>2. QED
    BY <1>3, <2>1, LogGrows
<1>9. time' \in Nat
  BY <1>1, TypeFacts DEF Counted
<1>10. QED
  BY <1>1, <1>2, <1>3, <1>4, <1>5, <1>6, <1>7, <1>8, <1>9, ExecuteIs DEF LineStep, f, l

ReturnStep ==
    /\ Running /\ Top(stack).next = 0
    /\ Top(stack) \in Frames
    /\ active' = StayActive(Top(stack), Top(stack).at, ReturnEnv) /\ active' \in Seq(Actives)
    /\ EndRecords(Top(stack), Top(stack).at, ReturnEnv) \in Seq(EdgeRecords)
    /\ <<>> \in Seq(EdgeRecords)
    /\ ReturnEnv \in EnvRecords
    /\ log' \in Seq(Records)
    /\ Grown(log', log, <<>>, ReturnEnv, EndRecords(Top(stack), Top(stack).at, ReturnEnv))
    /\ Counted
    /\ stack' \in Seq(Frames) /\ Len(stack') = Len(stack) - 1
    /\ \A i \in 1..(Len(stack) - 1) : stack'[i] = stack[i]
    /\ exception' = exception /\ program' = program

LEMMA ReturnStepIs == TypeInv /\ UserReturn => ReturnStep
<1> SUFFICES ASSUME TypeInv, UserReturn PROVE ReturnStep
  OBVIOUS
<1> DEFINE f == Top(stack)
           says == IF exception THEN "thrown" ELSE IF time + 1 >= Limit THEN "limit" ELSE "value"
           ends == EndRecords(f, f.at, ReturnEnv)
<1>1. Running /\ stack # <<>> /\ f.next = 0 /\ Counted /\ stack' = Pop(stack)
      /\ exception' = exception /\ program' = program
  BY DEF UserReturn, Running
<1>2. f \in Frames /\ f.at \in Nat
  BY <1>1, TopType DEF Frames
<1>3. active' = StayActive(f, f.at, ReturnEnv) /\ log' = Append(log, ReturnEnv) \o ends
  BY DEF UserReturn, ReturnEnv
<1>4. ReturnEnv \in EnvRecords
  <2>1. says \in {"state", "limit", "thrown", "value"} /\ TRUE \in BOOLEAN /\ active \in Seq(Actives)
    BY TypeFacts
  <2> HIDE DEF says
  <2>2. Env(f, f.at, TRUE, active, TrueLoops(f, f.at), says) \in EnvRecords
    BY <1>2, <2>1, EnvType
  <2>3. QED
    BY <2>2 DEF ReturnEnv, says
<1>5. ends \in Seq(EdgeRecords) /\ active' \in Seq(Actives)
  BY <1>2, <1>3, EndRecordsIs, StayActiveIs
<1>6. stack' \in Seq(Frames) /\ Len(stack') = Len(stack) - 1
      /\ \A i \in 1..(Len(stack) - 1) : stack'[i] = stack[i]
  BY <1>1, PopElements, TypeFacts
<1> HIDE DEF ends
<1>7. log' \in Seq(Records) /\ Grown(log', log, <<>>, ReturnEnv, ends)
  <2>1. ends \in Seq(Records) /\ <<>> \in Seq(Records) /\ ReturnEnv \in Records /\ log \in Seq(Records)
    BY <1>4, <1>5, SeqMonotonic, TypeFacts, EmptySeq DEF Records
  <2>2. log \o <<>> = log
    BY <2>1, ConcatEmptySeq
  <2>3. Append(log, ReturnEnv) = log \o <<ReturnEnv>>
    BY <2>1, AppendIsConcat
  <2>4. log' = log \o <<>> \o <<ReturnEnv>> \o ends
    BY <1>3, <2>2, <2>3 DEF ends
  <2>5. QED
    BY <2>1, <2>4, LogGrows
<1>8. <<>> \in Seq(EdgeRecords)
  BY EmptySeq
<1>9. QED
  BY <1>1, <1>2, <1>3, <1>4, <1>5, <1>6, <1>7, <1>8 DEF ReturnStep, ends

LEMMA Indexes ==
    ASSUME NEW m \in Nat \ {0}
    PROVE  /\ m \in 1..m /\ m \in 0..m /\ m - 1 \in 0..(m - 1) /\ m + 1 \in 0..(m + 1)
           /\ \A i \in 1..m : i = m \/ i \in 1..(m - 1)
           /\ \A i \in 1..(m - 1) : i \in 1..m /\ i # m
           /\ \A i \in 1..(m + 1) : i = m + 1 \/ i = m \/ i \in 1..(m - 1)
           /\ \A k \in 0..(m - 1) : k \in 0..m /\ (k > 0 => k \in 1..(m - 1))
           /\ \A k \in 0..(m - 1) : \A i \in 1..m : i \in 1..k \/ i \in (k + 1)..(m - 1) \/ i = m
           /\ \A k \in 0..(m - 1) : \A i \in 1..k : i \in 1..(m - 1)
           /\ \A k \in 0..(m - 1) : \A i \in (k + 1)..(m - 1) : i \in 1..(m - 1) /\ ~(i <= k)
  OBVIOUS

LEMMA LineFrame ==
    ASSUME TypeInv, LineStep
    PROVE  /\ stack # <<>> /\ Top(stack) \in Frames /\ Len(stack) \in Nat \ {0}
           /\ DOMAIN stack = 1..Len(stack) /\ Top(stack) = stack[Len(stack)]
           /\ Top(stack).next \in DOMAIN program /\ Top(stack).next \in Nat \ {0}
           /\ \A n \in Nat : IsExecuted(Executed(Top(stack), Top(stack).next, n), Top(stack), Top(stack).next, n)
           /\ After(Top(stack).next) \in Nat
<1>1. stack # <<>> /\ Top(stack) \in Frames /\ Top(stack).next \in DOMAIN program /\ Top(stack).next # 0
  BY DEF LineStep, Running
<1>2. Len(stack) \in Nat \ {0} /\ DOMAIN stack = 1..Len(stack) /\ Top(stack) = stack[Len(stack)]
  BY <1>1, TypeFacts, TopType
<1>3. DOMAIN program \subseteq Nat
  BY TypeFacts, ProgramFacts
<1>4. After(Top(stack).next) \in Nat
  BY <1>1, <1>3, AfterType, TypeFacts
<1>5. \A n \in Nat : IsExecuted(Executed(Top(stack), Top(stack).next, n), Top(stack), Top(stack).next, n)
  BY <1>1, <1>3, ExecutedIs
<1>6. QED
  BY <1>1, <1>2, <1>3, <1>4, <1>5

LEMMA CallerIs ==
    ASSUME TypeInv, LineStep
    PROVE  IsExecuted(Caller, Top(stack), Top(stack).next, After(Top(stack).next))
  BY LineFrame DEF Caller

LEMMA LineTargets ==
    ASSUME TypeInv, LineStep
    PROVE  \A i \in DOMAIN stack' : stack'[i].next \in {0} \cup DOMAIN program
<1> DEFINE l == Top(stack).next
           m == Len(stack)
           T == {0} \cup DOMAIN program
<1>1. m \in Nat \ {0} /\ DOMAIN stack = 1..m /\ l \in DOMAIN program /\ program \in Programs
  BY LineFrame, TypeFacts
<1>2. \A i \in 1..(m - 1) : stack[i].next \in T
  BY <1>1, Indexes DEF TypeInv
<1>3. \A n \in Nat : Executed(Top(stack), l, n).next = n /\ Executed(Top(stack), l, n) \in Frames
  BY LineFrame DEF IsExecuted
<1>4. After(l) \in Nat /\ After(l) \in T
  BY <1>1, LineFrame, AfterType
<1> HIDE DEF l, m, T
<1>5. ASSUME NEW n \in Nat, Goes(n) PROVE \A i \in DOMAIN stack' : stack'[i].next \in T
  <2>1. n \in T
    BY <1>1, <1>5, SuccessorType DEF Goes, l, T
  <2>2. DOMAIN stack' = 1..m /\ stack'[m].next = n
        /\ \A i \in 1..(m - 1) : stack'[i] = stack[i]
    BY <1>3, <1>5 DEF Goes, Replaced, l, m
  <2>3. QED
    BY <1>1, <1>2, <2>1, <2>2, Indexes
<1>6. ASSUME NEW d \in Nat, Calls(d) PROVE \A i \in DOMAIN stack' : stack'[i].next \in T
  <2>1. Caller.next = After(l)
    BY CallerIs DEF IsExecuted, l
  <2>2. Callee(d).next \in T
    BY <1>1, <1>6, HeaderHasBody DEF Calls, Defs, Callee, NewFrame, T
  <2>3. /\ DOMAIN stack' = 1..(m + 1)
        /\ \A i \in 1..(m - 1) : stack'[i] = stack[i]
        /\ stack'[m] = Caller /\ stack'[m + 1] = Callee(d)
    BY <1>6, LenProperties DEF Calls, m
  <2>4. QED
    BY <1>1, <1>2, <1>4, <2>1, <2>2, <2>3, Indexes
<1>7. ASSUME NEW k \in Nat, Throws(k) PROVE \A i \in DOMAIN stack' : stack'[i].next \in T
  <2>1. /\ DOMAIN stack' = 1..m /\ k \in 0..(m - 1)
        /\ \A i \in 1..k : stack'[i] = stack[i]
        /\ \A i \in (k + 1)..(m - 1) : stack'[i] = Thrown(stack[i])
        /\ stack'[m] = Thrown(Executed(Top(stack), l, 0))
    BY <1>7, LenProperties DEF Throws, l, m
  <2>2. stack'[m].next = 0
    BY <1>3, <2>1, ThrownType
  <2>3. \A i \in (k + 1)..(m - 1) : stack'[i].next = 0
    <3>1. \A i \in 1..m : stack[i] \in Frames
      BY TypeFacts DEF m
    <3>2. QED
      BY <1>1, <2>1, <3>1, ThrownType, Indexes
  <2>4. 0 \in T
    BY DEF T
  <2>5. QED
    BY <1>1, <1>2, <2>1, <2>2, <2>3, <2>4, Indexes
<1>8. QED
  BY <1>5, <1>6, <1>7 DEF LineStep, T

(* What the two steps do to the clock. *)
LEMMA ClockRuns ==
    ASSUME TypeInv, ~quitting, Counted, log' \in Seq(Records),
           NEW a \in Seq(EdgeRecords), NEW b \in Seq(EdgeRecords), NEW e \in EnvRecords,
           Grown(log', log, a, e, b)
    PROVE  /\ time' = Cardinality(Envs') /\ time' = time + 1 /\ time' <= Limit
           /\ quitting' \in BOOLEAN /\ (quitting' <=> time' >= Limit)
<1>1. time < Limit /\ time \in Nat /\ Limit \in Nat
  BY TypeFacts DEF TypeInv
<1>2. time' = time + 1
  BY DEF Counted
<1>3. quitting' = (time' >= Limit)
  BY DEF Counted
<1>4. time = Cardinality(Envs) /\ Cardinality(Envs') = Cardinality(Envs) + 1
  BY EnvsGrow, TypeFacts DEF TypeInv, TypeOK
<1>5. time' = Cardinality(Envs') /\ time' <= Limit
  BY <1>1, <1>2, <1>4
<1>6. quitting' \in BOOLEAN
  BY <1>3
<1>7. quitting' <=> time' >= Limit
  BY <1>3
<1>8. QED
  BY <1>2, <1>5, <1>6, <1>7

LEMMA LineType == TypeInv /\ LineStep => TypeInv'
<1> SUFFICES ASSUME TypeInv, LineStep PROVE TypeInv'
  OBVIOUS
<1>1. program' = program /\ program \in Seq(Lines) /\ program \in Programs
  BY TypeFacts, ProgramFacts DEF LineStep
<1>2. stack' \in Seq(Frames)
  BY DEF LineStep, Goes, Calls, Throws
<1>3. active' \in Seq(Actives)
  BY DEF LineStep
<1>4. exception' \in BOOLEAN
  <2>1. \A l : ExceptionAfter(l) \subseteq BOOLEAN
    BY DEF ExceptionAfter
  <2>2. QED
    BY <2>1 DEF LineStep, Goes, Calls, Throws
<1>5. /\ time' = Cardinality(Envs') /\ time' <= Limit
      /\ quitting' \in BOOLEAN /\ (quitting' <=> time' >= Limit)
  BY ClockRuns DEF LineStep, Running
<1>6. TypeOK'
  BY <1>1, <1>2, <1>3, <1>4, <1>5 DEF TypeOK, Frames, Actives, Places, Rounds
<1>7. log' \in Seq(Records)
  BY DEF LineStep
<1>8. \A i \in DOMAIN stack' : stack'[i].next \in {0} \cup DOMAIN program'
  BY <1>1, LineTargets
<1>9. QED
  BY <1>1, <1>5, <1>6, <1>7, <1>8 DEF TypeInv, Records, EnvRecords, EdgeRecords, Places

LEMMA ReturnType == TypeInv /\ ReturnStep => TypeInv'
<1> SUFFICES ASSUME TypeInv, ReturnStep PROVE TypeInv'
  OBVIOUS
<1>1. program' = program /\ program \in Seq(Lines) /\ program \in Programs
  BY TypeFacts, ProgramFacts DEF ReturnStep
<1>2. stack' \in Seq(Frames) /\ active' \in Seq(Actives) /\ log' \in Seq(Records)
  BY DEF ReturnStep
<1>3. exception' \in BOOLEAN
  BY DEF ReturnStep, TypeInv, TypeOK
<1>4. /\ time' = Cardinality(Envs') /\ time' <= Limit
      /\ quitting' \in BOOLEAN /\ (quitting' <=> time' >= Limit)
  BY ClockRuns DEF ReturnStep, Running
<1>5. TypeOK'
  BY <1>1, <1>2, <1>3, <1>4 DEF TypeOK, Frames, Actives, Places, Rounds
<1>6. \A i \in DOMAIN stack' : stack'[i].next \in {0} \cup DOMAIN program'
  <2>1. stack # <<>> /\ Len(stack) \in Nat \ {0} /\ DOMAIN stack = 1..Len(stack)
    BY TopType, TypeFacts DEF ReturnStep, Running
  <2>2. DOMAIN stack' = 1..(Len(stack) - 1)
    BY <1>2, LenProperties DEF ReturnStep
  <2>3. \A i \in 1..(Len(stack) - 1) : i \in 1..Len(stack) /\ stack'[i] = stack[i]
    BY <2>1 DEF ReturnStep
  <2>4. QED
    BY <1>1, <2>1, <2>2, <2>3 DEF TypeInv
<1>7. QED
  BY <1>1, <1>2, <1>4, <1>5, <1>6 DEF TypeInv, Records, EnvRecords, EdgeRecords, Places

LEMMA TypeInit == Init => TypeInv
<1> SUFFICES ASSUME Init PROVE TypeInv
  OBVIOUS
<1>1. program \in Programs /\ program \in Seq(Lines) /\ 1 \in DOMAIN program
  BY ProgramFacts DEF Init
<1>2. NewFrame(0, 0, <<>>) \in Frames /\ NewFrame(0, 0, <<>>).next = 1
  BY EmptySeq DEF NewFrame, Frames
<1>3. stack \in Seq(Frames) /\ DOMAIN stack = 1..1 /\ stack[1] = NewFrame(0, 0, <<>>)
  BY <1>2 DEF Init
<1>4. log \in Seq(Records) /\ active \in Seq(Actives) /\ DOMAIN log = {}
  BY EmptySeq DEF Init
<1>5. time = 0 /\ exception \in BOOLEAN /\ quitting = FALSE
  BY DEF Init
<1>6. Envs = {} /\ Cardinality(Envs) = 0
  BY <1>4, FS_EmptySet DEF Envs
<1>7. Limit \in Nat \ {0}
  BY LoggerAssumption
<1>8. TypeOK
  <2>1. time = Cardinality(Envs) /\ time <= Limit
    BY <1>5, <1>6, <1>7
  <2>2. quitting \in BOOLEAN
    BY <1>5
  <2>3. QED
    BY <1>1, <1>3, <1>4, <1>5, <2>1, <2>2 DEF TypeOK, Frames, Actives, Places, Rounds
<1>9. \A i \in DOMAIN stack : stack[i].next \in {0} \cup DOMAIN program
  BY <1>1, <1>2, <1>3
<1>10. QED
  BY <1>1, <1>4, <1>5, <1>7, <1>8, <1>9 DEF TypeInv

LEMMA TypeNext == TypeInv /\ [Next]_vars => TypeInv'
<1> SUFFICES ASSUME TypeInv, [Next]_vars PROVE TypeInv'
  OBVIOUS
<1>1. CASE UserLine
  BY <1>1, LineStepIs, LineType
<1>2. CASE UserReturn
  BY <1>2, ReturnStepIs, ReturnType
<1>3. CASE UNCHANGED vars
  BY <1>3 DEF vars, TypeInv, TypeOK, Envs, Records, EnvRecords, EdgeRecords, Places
<1>4. QED
  BY <1>1, <1>2, <1>3 DEF Next

LEMMA TypeAlways == Spec => []TypeInv
  BY TypeInit, TypeNext, PTL DEF Spec

(* Every variable keeps its type; the clock that stops the program, time, is  *)
(* the number of environments recorded, and they are never more than Limit.   *)
THEOREM TypeCorrect == Spec => []TypeOK
<1>1. TypeInv => TypeOK
  BY DEF TypeInv
<1>2. QED
  BY <1>1, TypeAlways, PTL

-----------------------------------------------------------------------------
(***************************************************************************)
(* Exceptions.  While one is on its way it leaves the frames above the one *)
(* that catches it; Logger.exception is set before the first of them       *)
(* returns, and the next line of a program forgets it.                     *)
(***************************************************************************)

NoLibrary == \A l \in DOMAIN program : Does(l) # "library"

(* The frames above number k are being left. *)
LeftAbove(k) ==
    /\ \A i \in DOMAIN stack : stack[i].raised <=> i > k
    /\ \A i \in DOMAIN stack : stack[i].raised => stack[i].next = 0
    /\ exception /\ k > 0 => stack[k].next # 0
    /\ k < Len(stack) => exception

Reported == \A i \in Envs : log[i].ret => (log[i].says = "thrown" <=> log[i].raised)

ThrownInv == NoLibrary => Reported /\ \E k \in 0..Len(stack) : LeftAbove(k)

LEMMA ReportedGrows ==
    ASSUME TypeInv, Reported, NEW a \in Seq(EdgeRecords), NEW b \in Seq(EdgeRecords),
           NEW e \in EnvRecords, Grown(log', log, a, e, b),
           e.ret => (e.says = "thrown" <=> e.raised)
    PROVE  Reported'
<1> DEFINE n == Len(log) + Len(a) + 1
<1>1. Envs' = Envs \cup {n}
  BY EnvsGrow, TypeFacts
<1>2. log'[n] = e /\ \A i \in Envs : log'[i] = log[i]
  BY TypeFacts DEF Grown, Envs
<1> HIDE DEF n
<1>3. QED
  BY <1>1, <1>2 DEF Reported

LEMMA ThrownLine ==
    ASSUME TypeInv, LineStep, NoLibrary, Reported, NEW k \in 0..Len(stack), LeftAbove(k)
    PROVE  Reported' /\ \E j \in 0..Len(stack') : LeftAbove(j)'
<1> DEFINE f == Top(stack)
           l == Top(stack).next
           m == Len(stack)
<1>1. /\ m \in Nat \ {0} /\ DOMAIN stack = 1..m /\ f = stack[m] /\ f.next # 0
      /\ l \in DOMAIN program /\ m \in 1..m /\ k \in 0..m
  BY LineFrame, Indexes
<1>2. ~f.raised /\ k = m /\ \A i \in 1..m : ~stack[i].raised
  <2>1. \A i \in 1..m : (stack[i].raised <=> i > k) /\ (stack[i].raised => stack[i].next = 0)
    BY <1>1 DEF LeftAbove
  <2> HIDE DEF f, m
  <2>2. ~f.raised /\ ~(m > k)
    BY <1>1, <2>1
  <2>3. k = m
    BY <1>1, <2>2
  <2>4. QED
    BY <1>1, <2>1, <2>2, <2>3
<1>3. Reported'
  <2>1. ~LineEnv.ret
    BY DEF LineEnv, Env
  <2>2. QED
    BY <2>1, ReportedGrows DEF LineStep
<1>4. ExceptionAfter(l) = {FALSE}
  BY <1>1 DEF ExceptionAfter, NoLibrary
<1>5. \A n \in Nat : Executed(f, l, n).raised = f.raised /\ Executed(f, l, n) \in Frames
  BY LineFrame DEF IsExecuted
<1>6. Caller.raised = f.raised
  BY CallerIs DEF IsExecuted
<1> HIDE DEF f, l, m
<1>7. ASSUME NEW n \in Nat, Goes(n) PROVE \E j \in 0..Len(stack') : LeftAbove(j)'
  <2>1. ~exception'
    BY <1>4, <1>7 DEF Goes, l
  <2>2. ~Executed(f, l, n).raised
    BY <1>2, <1>5
  <2>3. /\ DOMAIN stack' = 1..m /\ Len(stack') = m /\ stack'[m] = Executed(f, l, n)
        /\ \A i \in 1..(m - 1) : stack'[i] = stack[i]
    BY <1>7 DEF Goes, Replaced, f, l, m
  <2>4. \A i \in 1..m : ~stack'[i].raised
    BY <1>1, <1>2, <2>2, <2>3, Indexes
  <2>5. PICK j \in 0..m : j = m
    BY <1>1, Indexes
  <2>6. LeftAbove(j)'
    BY <1>1, <2>1, <2>3, <2>4, <2>5 DEF LeftAbove
  <2>7. QED
    BY <2>3, <2>6
<1>8. ASSUME NEW d \in Nat, Calls(d) PROVE \E j \in 0..Len(stack') : LeftAbove(j)'
  <2>1. ~exception'
    BY <1>4, <1>8 DEF Calls, l
  <2>2. ~Caller.raised /\ ~Callee(d).raised
    BY <1>2, <1>6 DEF Callee, NewFrame
  <2>3. /\ DOMAIN stack' = 1..(m + 1) /\ Len(stack') = m + 1
        /\ stack'[m] = Caller /\ stack'[m + 1] = Callee(d)
        /\ \A i \in 1..(m - 1) : stack'[i] = stack[i]
    BY <1>8, LenProperties DEF Calls, m
  <2>4. \A i \in 1..(m + 1) : ~stack'[i].raised
    BY <1>1, <1>2, <2>2, <2>3, Indexes
  <2>5. m + 1 \in 0..(m + 1) /\ \A i \in 1..(m + 1) : ~(i > m + 1)
    BY <1>1, Indexes
  <2>6. PICK j \in 0..(m + 1) : j = m + 1
    BY <2>5
  <2>7. LeftAbove(j)'
    BY <2>1, <2>3, <2>4, <2>5, <2>6 DEF LeftAbove
  <2>8. QED
    BY <2>3, <2>7
<1>9. ASSUME NEW j \in Nat, Throws(j) PROVE \E i \in 0..Len(stack') : LeftAbove(i)'
  <2>1. /\ DOMAIN stack' = 1..m /\ Len(stack') = m /\ j \in 0..(m - 1)
        /\ \A i \in 1..j : stack'[i] = stack[i]
        /\ \A i \in (j + 1)..(m - 1) : stack'[i] = Thrown(stack[i])
        /\ stack'[m] = Thrown(Executed(f, l, 0))
        /\ (j > 0 => stack[j].next # 0)
    BY <1>9, LenProperties DEF Throws, f, l, m
  <2>2. exception'
    BY <1>9 DEF Throws
  <2>3. stack'[m].raised /\ stack'[m].next = 0
    BY <1>5, <2>1, ThrownType
  <2>4. \A i \in (j + 1)..(m - 1) : stack'[i].raised /\ stack'[i].next = 0
    <3>1. \A i \in 1..m : stack[i] \in Frames
      BY TypeFacts DEF m
    <3>2. QED
      BY <1>1, <2>1, <3>1, ThrownType, Indexes
  <2>5. \A i \in 1..j : ~stack'[i].raised /\ i \in 1..(m - 1)
    BY <1>1, <1>2, <2>1, Indexes
  <2>6. \A i \in 1..m : (stack'[i].raised <=> i > j) /\ (stack'[i].raised => stack'[i].next = 0)
    <3>1. \A i \in 1..m : i \in 1..j \/ i \in (j + 1)..(m - 1) \/ i = m
      BY <1>1, <2>1, Indexes
    <3>2. (\A i \in 1..j : ~(i > j)) /\ (\A i \in (j + 1)..(m - 1) : i > j) /\ m > j
      BY <1>1, <2>1
    <3>3. QED
      BY <2>3, <2>4, <2>5, <3>1, <3>2
  <2>7. j > 0 => stack'[j].next # 0
    BY <2>1
  <2>8. LeftAbove(j)'
    BY <2>1, <2>2, <2>6, <2>7 DEF LeftAbove
  <2>9. j \in 0..m
    BY <1>1, <2>1, Indexes
  <2>10. QED
    BY <2>1, <2>8, <2>9
<1>10. QED
  BY <1>3, <1>7, <1>8, <1>9 DEF LineStep

LEMMA ThrownReturn ==
    ASSUME TypeInv, ReturnStep, NoLibrary, Reported, NEW k \in 0..Len(stack), LeftAbove(k)
    PROVE  Reported' /\ \E j \in 0..Len(stack') : LeftAbove(j)'
<1> DEFINE f == Top(stack)
           m == Len(stack)
<1>1. /\ stack # <<>> /\ m \in Nat \ {0} /\ DOMAIN stack = 1..m /\ f = stack[m] /\ f.next = 0
  BY TypeFacts, TopType DEF ReturnStep, Running
<1>2. exception <=> f.raised
  BY <1>1 DEF LeftAbove
<1>3. Reported'
  <2>1. ReturnEnv.says = "thrown" <=> exception
    BY DEF ReturnEnv, Env
  <2>2. ReturnEnv.raised = f.raised
    BY DEF ReturnEnv, Env
  <2>3. QED
    BY <1>2, <2>1, <2>2, ReportedGrows DEF ReturnStep
<1> HIDE DEF f, m
<1>4. /\ Len(stack') = m - 1 /\ DOMAIN stack' = 1..(m - 1)
      /\ \A i \in 1..(m - 1) : stack'[i] = stack[i]
      /\ exception' = exception
  BY LenProperties DEF ReturnStep, m
<1>5. CASE k = m
  <2>1. ~exception /\ \A i \in 1..m : ~stack[i].raised
    BY <1>1, <1>2, <1>5 DEF LeftAbove
  <2>2. \A i \in 1..(m - 1) : ~stack'[i].raised
    BY <1>1, <1>4, <2>1
  <2>3. m - 1 \in 0..(m - 1)
    BY <1>1
  <2>4. ~exception' /\ ~(m - 1 < m - 1) /\ \A i \in 1..(m - 1) : ~(i > m - 1)
    BY <1>1, <1>4, <2>1
  <2>5. PICK j \in 0..(m - 1) : j = m - 1
    BY <2>3
  <2>6. LeftAbove(j)'
    BY <1>4, <2>2, <2>4, <2>5 DEF LeftAbove
  <2>7. QED
    BY <1>3, <1>4, <2>6
<1>6. CASE k # m
  <2>1. k \in 0..(m - 1)
    <3>1. k \in 0..m
      BY DEF m
    <3>2. QED
      BY <1>1, <1>6, <3>1
  <2>2. k > 0 => k \in 1..(m - 1)
    BY <1>1, <2>1
  <2>3. exception
    BY <1>1, <2>1 DEF LeftAbove, m
  <2>4. \A i \in 1..(m - 1) : i \in 1..m
    BY <1>1
  <2>5. LeftAbove(k)'
    BY <1>1, <1>4, <2>1, <2>2, <2>3, <2>4 DEF LeftAbove
  <2>6. QED
    BY <1>3, <1>4, <2>1, <2>5
<1>7. QED
  BY <1>5, <1>6

LEMMA ThrownNext == TypeInv /\ ThrownInv /\ [Next]_vars => ThrownInv'
<1> SUFFICES ASSUME TypeInv, ThrownInv, [Next]_vars PROVE ThrownInv'
  OBVIOUS
<1>1. program' = program
  BY DEF Next, UserLine, UserReturn, vars
<1>2. NoLibrary' <=> NoLibrary
  BY <1>1 DEF NoLibrary, Does
<1>3. SUFFICES ASSUME NoLibrary PROVE Reported' /\ \E k \in 0..Len(stack') : LeftAbove(k)'
  BY <1>2 DEF ThrownInv
<1>4. Reported /\ \E k \in 0..Len(stack) : LeftAbove(k)
  BY <1>3 DEF ThrownInv
<1>5. CASE UserLine
  BY <1>3, <1>4, <1>5, LineStepIs, ThrownLine
<1>6. CASE UserReturn
  BY <1>3, <1>4, <1>6, ReturnStepIs, ThrownReturn
<1>7. CASE UNCHANGED vars
  BY <1>4, <1>7 DEF vars, Reported, Envs, LeftAbove
<1>8. QED
  BY <1>5, <1>6, <1>7 DEF Next

(* A return is reported with an exception exactly if its frame was left by    *)
(* one, whatever returned or was caught before: "non-errors can accidentally  *)
(* overwrite actual errors we care about" happens in libraries only.          *)
THEOREM ThrownIsReported == Spec => []ThrownIsThrown
<1>1. Init => ThrownInv
  <2> SUFFICES ASSUME Init PROVE ThrownInv
    OBVIOUS
  <2>1. DOMAIN log = {} /\ DOMAIN stack = 1..1 /\ Len(stack) = 1 /\ stack[1] = NewFrame(0, 0, <<>>)
    BY DEF Init
  <2>2. Reported
    BY <2>1 DEF Reported, Envs
  <2>3. ~exception
    BY DEF Init
  <2>4. LeftAbove(1)
    BY <2>1, <2>3 DEF LeftAbove, NewFrame
  <2>5. QED
    BY <2>1, <2>2, <2>4 DEF ThrownInv
<1>2. ThrownInv => ThrownIsThrown
  BY DEF ThrownInv, NoLibrary, Reported, ThrownIsThrown
<1>3. QED
  BY <1>1, <1>2, ThrownNext, TypeAlways, PTL DEF Spec

-----------------------------------------------------------------------------
(***************************************************************************)
(* Loops.  A frame is in exactly those loops of its function that the line *)
(* it executed last belongs to, and has begun one round more of each than  *)
(* it has come back to its header, but for a header it is about to leave.  *)
(***************************************************************************)

InLoop(h, l) == l = h \/ l \in Body(h)

OwnLoops(f) ==
    /\ \A j \in DOMAIN f.loops : f.loops[j].line \in LoopsAt(f.name, f.at)
    /\ \A h \in LoopsAt(f.name, f.at) : \E j \in DOMAIN f.loops : f.loops[j].line = h
    /\ \A i, j \in DOMAIN f.loops : i < j => f.loops[i].line < f.loops[j].line

RoundsBegun(f) ==
    \A j \in DOMAIN f.loops :
        f.loops[j].begun = f.loops[j].iter + IF f.loops[j].line = f.at /\ f.next # f.at + 1 THEN 0 ELSE 1

(* A frame has just begun, or goes on from a line of its function; when a     *)
(* function ends, or an exception leaves it, it is in no loop of its own.     *)
Placed(f) ==
    /\ f.name \in {0} \cup Defs
    /\ \/ f.at = f.name /\ f.next = f.at + 1
       \/ f.at \in Region(f.name) /\ (f.next = 0 \/ f.next \in Successors(f.at))
    /\ f.next \in {0} \cup Region(f.name)
    /\ f.next = 0 /\ f.name # 0 => f.loops = <<>>

FrameInv(f) == Placed(f) /\ OwnLoops(f) /\ RoundsBegun(f)

LEMMA RegionLines ==
    ASSUME program \in Programs, NEW name \in {0} \cup Defs
    PROVE  /\ Region(name) \subseteq DOMAIN program /\ name \notin Region(name)
           /\ \A l : LoopsAt(name, l) \subseteq Region(name) /\ \A h \in LoopsAt(name, l) : Does(h) = "loop" /\ InLoop(h, l)
           /\ LoopsAt(name, name) = {}
<1>1. 0 \notin DOMAIN program /\ DOMAIN program \subseteq Nat
  BY ProgramFacts
<1>2. name # 0 => name \in DOMAIN program
  BY DEF Defs
<1>3. Region(name) \subseteq DOMAIN program
  BY <1>2, BodyBounds DEF Region
<1>4. name \notin Region(name)
  BY <1>1, <1>2, <1>3, BodyBounds DEF Region
<1>5. ASSUME NEW h \in LoopsAt(name, name) PROVE FALSE
  <2>1. h \in Region(name) /\ (name = h \/ name \in Body(h))
    BY DEF LoopsAt
  <2>2. name \in Body(h) /\ h \in DOMAIN program
    BY <1>3, <1>4, <2>1
  <2>3. name \in DOMAIN program /\ h < name
    BY <2>2, BodyBounds
  <2>4. name < h
    BY <1>1, <1>2, <2>1, <2>3, BodyBounds DEF Region
  <2>5. QED
    BY <1>1, <2>2, <2>3, <2>4
<1>6. \A l : LoopsAt(name, l) \subseteq Region(name) /\ \A h \in LoopsAt(name, l) : Does(h) = "loop" /\ InLoop(h, l)
  BY DEF LoopsAt, InLoop
<1>7. QED
  BY <1>3, <1>4, <1>5, <1>6

LEMMA NoLoopsThere ==
    ASSUME program \in Programs, Followed, NEW d \in Defs, NEW l \in Body(d),
           Does(l) \in {"return", "raise", "call"}
    PROVE  LoopsAt(d, l) = {}
<1> SUFFICES ASSUME NEW h \in LoopsAt(d, l) PROVE FALSE
  OBVIOUS
<1>1. d \in DOMAIN program /\ Does(d) = "def" /\ d # 0
  BY ProgramFacts DEF Defs
<1>2. h \in Body(d) /\ Does(h) = "loop" /\ l \in Body(h)
  BY <1>1 DEF LoopsAt, Region
<1>3. h \in LoopsOfFunction
  BY <1>1, <1>2, BodyBounds DEF LoopsOfFunction, Around
<1>4. QED
  BY <1>2, <1>3 DEF Followed

(* Facts about the loops of a frame by number. *)
LEMMA FrameLoops ==
    ASSUME program \in Programs, NEW f \in Frames, Placed(f), OwnLoops(f)
    PROVE  /\ f.loops \in Seq(Rounds) /\ Len(f.loops) \in Nat /\ DOMAIN f.loops = 1..Len(f.loops)
           /\ \A j \in 1..Len(f.loops) :
                 /\ f.loops[j] \in Rounds /\ f.loops[j].line \in DOMAIN program
                 /\ f.loops[j].line \in Region(f.name)
                 /\ Does(f.loops[j].line) = "loop" /\ InLoop(f.loops[j].line, f.at)
           /\ f.loops # <<>> => Len(f.loops) \in Nat \ {0} /\ f.at \in Region(f.name) /\ f.at \in DOMAIN program
<1>1. f.loops \in Seq(Rounds)
  BY DEF Frames
<1>2. Len(f.loops) \in Nat /\ DOMAIN f.loops = 1..Len(f.loops) /\ \A j \in 1..Len(f.loops) : f.loops[j] \in Rounds
  BY <1>1, LenProperties, ElementOfSeq
<1>3. f.name \in {0} \cup Defs
  BY DEF Placed
<1>4. \A j \in 1..Len(f.loops) : f.loops[j].line \in LoopsAt(f.name, f.at)
  BY <1>2 DEF OwnLoops
<1>5. \A j \in 1..Len(f.loops) : /\ f.loops[j].line \in DOMAIN program /\ f.loops[j].line \in Region(f.name)
                                 /\ Does(f.loops[j].line) = "loop" /\ InLoop(f.loops[j].line, f.at)
  BY <1>3, <1>4, RegionLines
<1>6. ASSUME f.loops # <<>> PROVE Len(f.loops) \in Nat \ {0} /\ f.at \in Region(f.name) /\ f.at \in DOMAIN program
  <2>1. Len(f.loops) \in Nat \ {0}
    BY <1>1, <1>6, EmptySeq
  <2>2. 1 \in 1..Len(f.loops)
    BY <2>1
  <2>3. LoopsAt(f.name, f.at) # {}
    BY <1>4, <2>2
  <2>4. f.at # f.name
    BY <1>3, <2>3, RegionLines
  <2>5. f.at \in Region(f.name)
    BY <2>4 DEF Placed
  <2>6. QED
    BY <1>3, <2>1, <2>5, RegionLines
<1>7. QED
  BY <1>1, <1>2, <1>5, <1>6

Innermost0(f) == f.loops[Len(f.loops)].line

(* Line l is in all loops of f, or in all but the innermost one, which it is  *)
(* seen to be outside of by its indentation.                                  *)
Stays(f, l) == StillIn(f, l) = f.loops /\ (f.loops # <<>> => InLoop(Innermost0(f), l))
Leaves(f, l) ==
    /\ f.loops # <<>>
    /\ StillIn(f, l) = SubSeq(f.loops, 1, Len(f.loops) - 1)
    /\ ~InLoop(Innermost0(f), l)
    /\ Indent(l) <= Indent(Innermost0(f))
    /\ Does(f.at) # "break" => Innermost0(f) = f.at
    /\ f.next \in Successors(f.at)

LEMMA StaysOrLeaves ==
    ASSUME program \in Programs, NEW f \in Frames, Placed(f), OwnLoops(f), f.next # 0
    PROVE  Stays(f, f.next) \/ Leaves(f, f.next)
<1> DEFINE l == f.next
           n == Len(f.loops)
           L(j) == f.loops[j].line
<1>1. n \in Nat /\ f.loops \in Seq(Rounds)
      /\ \A j \in 1..n : L(j) \in DOMAIN program /\ Does(L(j)) = "loop" /\ InLoop(L(j), f.at)
  BY FrameLoops
<1>2. /\ StillIn(f, l) = SubSeq(f.loops, 1, Greatest(Leading(f, l)))
      /\ Leading(f, l) \subseteq 0..n
  BY StillInIs DEF Leading
<1>3. CASE \A j \in 1..n : InLoop(L(j), l)
  <2>1. n \in Leading(f, l)
    BY <1>1, <1>3 DEF Leading, InLoop
  <2>2. Greatest(Leading(f, l)) = n
    <3>1. Leading(f, l) \in SUBSET Nat /\ \A y \in Leading(f, l) : y <= n
      BY <1>1, <1>2
    <3>2. QED
      BY <2>1, <3>1, GreatestIs
  <2>3. StillIn(f, l) = f.loops
    BY <1>1, <1>2, <2>2, WholePrefix
  <2>4. f.loops # <<>> => n \in 1..n
    BY <1>1, EmptySeq
  <2>5. QED
    BY <1>3, <2>3, <2>4 DEF Stays, Innermost0
<1>4. ASSUME NEW j \in 1..n, ~InLoop(L(j), l) PROVE Leaves(f, l)
  <2>1. f.loops # <<>>
    <3>1. n # 0
      BY <1>1
    <3>2. QED
      BY <3>1, EmptySeq
  <2>2. n \in Nat \ {0} /\ f.at \in DOMAIN program /\ f.at \in Region(f.name)
    BY <2>1, FrameLoops
  <2>3. f.name \in {0} \cup Defs
    BY DEF Placed
  <2>4. l \in Successors(f.at)
    <3>1. f.at # f.name
      BY <2>2, <2>3, RegionLines
    <3>2. QED
      BY <3>1 DEF Placed
  <2>5. ASSUME NEW i \in 1..n, ~InLoop(L(i), l)
        PROVE  /\ \A k \in 1..n : L(k) <= L(i)
               /\ Indent(l) <= Indent(L(i))
               /\ Does(f.at) # "break" => f.at = L(i)
    <3>1. L(i) \in DOMAIN program /\ Does(L(i)) = "loop" /\ (f.at = L(i) \/ f.at \in Body(L(i)))
          /\ l # L(i) /\ l \notin Body(L(i))
      BY <1>1, <2>5 DEF InLoop
    <3> HIDE DEF L, n, l
    <3>2. /\ \A k \in DOMAIN program : Does(k) = "loop" /\ (f.at = k \/ f.at \in Body(k)) => k <= L(i)
          /\ Indent(l) <= Indent(L(i))
          /\ Does(f.at) # "break" => f.at = L(i)
      BY <2>2, <2>4, <3>1, Leaving DEF l
    <3>3. QED
      BY <1>1, <3>2 DEF InLoop
  <2>6. j = n /\ \A i \in 1..(n - 1) : InLoop(L(i), l)
    <3>1. \A i \in 1..n : ~InLoop(L(i), l) => i = n
      <4>1. ASSUME NEW i \in 1..n, ~InLoop(L(i), l), i # n PROVE FALSE
        <5>1. n \in 1..n /\ i < n
          BY <2>2, <4>1
        <5>2. L(i) < L(n)
          BY <1>1, <5>1, FrameLoops DEF OwnLoops
        <5>3. L(n) <= L(i)
          BY <2>5, <4>1, <5>1
        <5>4. L(i) \in Nat /\ L(n) \in Nat
          BY <1>1, <5>1, ProgramFacts, SMTT(20)
        <5>5. QED
          BY <5>2, <5>3, <5>4
      <4>2. QED
        BY <4>1
    <3>2. \A i \in 1..(n - 1) : i \in 1..n /\ i # n
      BY <2>2
    <3>3. QED
      BY <1>4, <3>1, <3>2
  <2>7. Greatest(Leading(f, l)) = n - 1
    <3>1. n - 1 \in Leading(f, l)
      BY <2>2, <2>6 DEF Leading, InLoop
    <3>2. n \notin Leading(f, l)
      BY <1>4, <2>2, <2>6 DEF Leading, InLoop
    <3>3. Leading(f, l) \in SUBSET Nat /\ \A y \in Leading(f, l) : y <= n - 1
      BY <1>1, <1>2, <2>2, <3>2
    <3>4. QED
      BY <3>1, <3>3, GreatestIs
  <2>8. StillIn(f, l) = SubSeq(f.loops, 1, n - 1)
    BY <1>2, <2>7
  <2>9. QED
    BY <1>4, <2>1, <2>4, <2>5, <2>6, <2>8 DEF Leaves, Innermost0
<1>5. QED
  BY <1>3, <1>4

(* The loops that line l is in of those frame f is in: all that there are     *)
(* around l, with a round of each begun, and the frame is in them in order.   *)
InLoops(f, l, in) ==
    /\ in \in Seq(Rounds) /\ Len(in) \in Nat /\ DOMAIN in = 1..Len(in)
    /\ \A j \in 1..Len(in) : in[j].line \in LoopsAt(f.name, l) /\ in[j].begun = in[j].iter + 1
    /\ \A h \in LoopsAt(f.name, l) : h = l \/ \E j \in 1..Len(in) : in[j].line = h
    /\ \A i, j \in 1..Len(in) : i < j => in[i].line < in[j].line

LEMMA NextInRegion ==
    ASSUME program \in Programs, NEW f \in Frames, Placed(f), f.next # 0
    PROVE  /\ f.next \in Region(f.name) /\ f.next \in DOMAIN program /\ f.name \in {0} \cup Defs
           /\ \A h \in LoopsAt(f.name, f.next) : h = f.next \/ h \in LoopsAt(f.name, f.at)
<1>1. f.next \in Region(f.name) /\ f.name \in {0} \cup Defs
  BY DEF Placed
<1>2. f.next \in DOMAIN program
  BY <1>1, RegionLines
<1>3. CASE f.at \in Region(f.name) /\ f.next \in Successors(f.at)
  BY <1>1, <1>2, <1>3, NoNewLoops
<1>4. CASE f.at = f.name /\ f.next = f.at + 1
  <2>1. ASSUME NEW h \in LoopsAt(f.name, f.next), h # f.next PROVE FALSE
    <3>1. h \in Region(f.name) /\ f.next \in Body(h) /\ h \in DOMAIN program
      BY <1>1, <2>1, RegionLines DEF InLoop
    <3>2. h < f.next /\ h \in Nat
      BY <3>1, BodyBounds, ProgramFacts
    <3>3. f.name < h /\ f.name \in Nat
      <4>1. CASE f.name = 0
        BY <3>1, <4>1, ProgramFacts
      <4>2. CASE f.name # 0
        <5>1. f.name \in DOMAIN program /\ h \in Body(f.name)
          BY <1>1, <3>1, <4>2 DEF Defs, Region
        <5>2. QED
          BY <5>1, BodyBounds, ProgramFacts
      <4>3. QED
        BY <4>1, <4>2
    <3>4. QED
      BY <1>4, <3>2, <3>3
  <2>2. QED
    BY <1>1, <1>2, <2>1
<1>5. QED
  BY <1>1, <1>2, <1>3, <1>4 DEF Placed

LEMMA StillInLoops ==
    ASSUME program \in Programs, NEW f \in Frames, FrameInv(f), f.next # 0
    PROVE  InLoops(f, f.next, StillIn(f, f.next))
<1> DEFINE l == f.next
           n == Len(f.loops)
           in == StillIn(f, l)
<1>1. /\ Placed(f) /\ OwnLoops(f) /\ RoundsBegun(f)
  BY DEF FrameInv
<1>2. /\ f.loops \in Seq(Rounds) /\ n \in Nat /\ DOMAIN f.loops = 1..n
      /\ \A j \in 1..n : f.loops[j] \in Rounds /\ f.loops[j].line \in Region(f.name) /\ Does(f.loops[j].line) = "loop"
                         /\ f.loops[j].line \in DOMAIN program
      /\ f.loops # <<>> => n \in Nat \ {0} /\ f.at \in Region(f.name) /\ f.at \in DOMAIN program
  BY <1>1, FrameLoops
<1>3. l \in DOMAIN program /\ f.name \in {0} \cup Defs
      /\ \A h \in LoopsAt(f.name, l) : h = l \/ h \in LoopsAt(f.name, f.at)
  BY <1>1, NextInRegion
<1>4. \A h \in LoopsAt(f.name, f.at) : \E j \in 1..n : f.loops[j].line = h
  BY <1>1, <1>2 DEF OwnLoops
<1>5. \A i, j \in 1..n : i < j => f.loops[i].line < f.loops[j].line
  BY <1>1, <1>2 DEF OwnLoops
<1>6. Stays(f, l) \/ Leaves(f, l)
  BY <1>1, StaysOrLeaves
<1>7. PICK k \in 0..n : /\ in = SubSeq(f.loops, 1, k)
                        /\ \A h : (\E j \in 1..n : f.loops[j].line = h /\ InLoop(h, l)) => \E j \in 1..k : f.loops[j].line = h
  <2>1. CASE Stays(f, l)
    <3>1. in = SubSeq(f.loops, 1, n)
      BY <1>2, <2>1, WholePrefix DEF Stays
    <3>2. PICK k \in 0..n : k = n
      BY <1>2
    <3>3. QED
      BY <3>1, <3>2
  <2>2. CASE Leaves(f, l)
    <3>1. n \in Nat \ {0} /\ in = SubSeq(f.loops, 1, n - 1) /\ ~InLoop(f.loops[n].line, l)
      BY <1>2, <2>2 DEF Leaves, Innermost0
    <3>2. PICK k \in 0..n : k = n - 1
      BY <3>1
    <3>3. \A j \in 1..n : j = n \/ j \in 1..k
      BY <3>1, <3>2
    <3>4. QED
      BY <3>1, <3>2, <3>3
  <2>3. QED
    BY <1>6, <2>1, <2>2
<1>8. /\ in \in Seq(Rounds) /\ Len(in) = k /\ DOMAIN in = 1..k
      /\ \A j \in 1..k : in[j] = f.loops[j] /\ j \in 1..n
  BY <1>2, <1>7, PrefixElements
<1>9. \A j \in 1..k : InLoop(in[j].line, l)
  <2>1. /\ in = SubSeq(f.loops, 1, Greatest(Leading(f, l)))
        /\ Greatest(Leading(f, l)) \in Leading(f, l)
        /\ Greatest(Leading(f, l)) \in 0..n
    BY StillInIs
  <2>2. Len(in) = Greatest(Leading(f, l))
    BY <1>2, <2>1, PrefixElements
  <2>3. k \in Leading(f, l)
    BY <1>8, <2>1, <2>2
  <2>4. QED
    BY <1>8, <2>3 DEF Leading, InLoop
<1> HIDE DEF in, n, l
<1>10. \A j \in 1..k : in[j].line \in LoopsAt(f.name, l)
  BY <1>2, <1>8, <1>9 DEF LoopsAt, InLoop
<1>11. \A j \in 1..k : in[j].begun = in[j].iter + 1
  <2>1. ASSUME NEW j \in 1..k, in[j].line = f.at, l # f.at + 1 PROVE FALSE
    <3>1. f.loops # <<>> /\ Does(f.at) = "loop" /\ f.at \in Region(f.name) /\ f.at \in DOMAIN program
      <4>1. f.loops # <<>>
        BY <1>2, <1>8, EmptySeq
      <4>2. QED
        BY <1>2, <1>8, <2>1, <4>1
    <3>2. l \in Successors(f.at)
      <4>1. f.at # f.name
        BY <1>3, <3>1, RegionLines
      <4>2. QED
        BY <1>1, <4>1, <3>1 DEF Placed, FrameInv, l
    <3>3. l # f.at /\ l \notin Body(f.at)
      <4>1. l # 0
        BY DEF l
      <4>2. QED
        BY <2>1, <3>1, <3>2, <4>1, SuccessorDiffers
    <3>4. QED
      BY <1>9, <2>1, <3>3 DEF InLoop
  <2>2. ASSUME NEW j \in 1..k PROVE in[j].begun = in[j].iter + 1
    <3>1. ~(in[j].line = f.at /\ l # f.at + 1)
      BY <2>1
    <3>2. in[j] = f.loops[j] /\ j \in DOMAIN f.loops
      BY <1>2, <1>8
    <3>3. f.loops[j].begun = f.loops[j].iter + IF f.loops[j].line = f.at /\ l # f.at + 1 THEN 0 ELSE 1
      BY <1>1, <3>2 DEF RoundsBegun, l
    <3>4. QED
      BY <3>1, <3>2, <3>3
  <2>3. QED
    BY <2>2
<1>12. \A h \in LoopsAt(f.name, l) : h = l \/ \E j \in 1..k : in[j].line = h
  <2>1. \A h \in LoopsAt(f.name, l) : InLoop(h, l)
    BY <1>3, RegionLines
  <2>2. ASSUME NEW h \in LoopsAt(f.name, l), h # l PROVE \E j \in 1..k : in[j].line = h
    <3>1. \E j \in 1..n : f.loops[j].line = h
      BY <1>3, <1>4, <2>2
    <3>2. \E j \in 1..k : f.loops[j].line = h
      BY <1>7, <2>1, <3>1 DEF l
    <3>3. QED
      BY <1>8, <3>2
  <2>3. QED
    BY <2>2
<1>13. \A i, j \in 1..k : i < j => in[i].line < in[j].line
  BY <1>5, <1>8
<1>14. k \in Nat
  BY <1>2, <1>7
<1>15. QED
  BY <1>8, <1>10, <1>11, <1>12, <1>13, <1>14 DEF InLoops, in, l

(* Executed keeps a frame in the loops of the line it executed. *)
LEMMA ExecutedRounds ==
    ASSUME program \in Programs, NEW f \in Frames, NEW l, NEW n \in Nat, NEW e,
           f.name \in {0} \cup Defs, l \in Region(f.name),
           IsExecuted(e, f, l, n), InLoops(f, l, StillIn(f, l))
    PROVE  OwnLoops(e) /\ RoundsBegun(e)
<1> DEFINE in == StillIn(f, l)
           m == Len(in)
           goes == IF n = l + 1 THEN 1 ELSE 0
<1>1. /\ in \in Seq(Rounds) /\ m \in Nat /\ DOMAIN in = 1..m
      /\ \A j \in 1..m : in[j].line \in LoopsAt(f.name, l) /\ in[j].begun = in[j].iter + 1
      /\ \A h \in LoopsAt(f.name, l) : h = l \/ \E j \in 1..m : in[j].line = h
      /\ \A i, j \in 1..m : i < j => in[i].line < in[j].line
  BY DEF InLoops
<1>2. e.at = l /\ e.next = n /\ e.name = f.name /\ ExecutedLoops(in, l, goes, e.loops)
  BY DEF IsExecuted
<1>3. \A j \in 1..m : in[j] \in Rounds /\ in[j].iter \in Nat /\ in[j].line \in Nat
  BY <1>1, ElementOfSeq, RoundsHaveNumbers
<1>4. \A j \in 1..m : in[j].line <= l /\ Does(in[j].line) = "loop"
  <2>1. ASSUME NEW h \in LoopsAt(f.name, l) PROVE h <= l /\ Does(h) = "loop"
    <3>1. h \in DOMAIN program /\ Does(h) = "loop" /\ InLoop(h, l)
      BY RegionLines
    <3>2. QED
      BY <3>1, BodyBounds, ProgramFacts DEF InLoop
  <2>2. QED
    BY <1>1, <2>1
<1>5. l \in Nat /\ l \in DOMAIN program
  <2>1. l \in DOMAIN program
    BY RegionLines
  <2>2. QED
    BY <2>1, ProgramFacts
<1> HIDE DEF in, goes
<1>6. CASE Does(l) # "loop"
  <2>1. e.loops = in
    BY <1>2, <1>6 DEF ExecutedLoops
  <2>2. l \notin LoopsAt(f.name, l)
    BY <1>6 DEF LoopsAt
  <2>3. \A j \in 1..m : in[j].line # l
    BY <1>4, <1>6
  <2>4. OwnLoops(e)
    BY <1>1, <1>2, <2>1, <2>2 DEF OwnLoops
  <2>5. RoundsBegun(e)
    BY <1>1, <1>2, <2>1, <2>3 DEF RoundsBegun
  <2>6. QED
    BY <2>4, <2>5
<1>7. CASE Does(l) = "loop" /\ m > 0 /\ in[m].line = l
  <2>1. e.loops = [in EXCEPT ![m].iter = @ + 1, ![m].begun = @ + goes]
    BY <1>2, <1>7 DEF ExecutedLoops
  <2>2. /\ DOMAIN e.loops = 1..m /\ m \in 1..m
        /\ \A j \in 1..m : j # m => e.loops[j] = in[j]
        /\ e.loops[m] = [in[m] EXCEPT !.iter = @ + 1, !.begun = @ + goes]
    <3>1. m \in Nat /\ m \in 1..m /\ DOMAIN in = 1..m
      BY <1>1, <1>7
    <3>2. e.loops = [in EXCEPT ![m] = [in[m] EXCEPT !.iter = @ + 1, !.begun = @ + goes]]
      BY <2>1, <3>1
    <3>3. QED
      BY <3>1, <3>2
  <2>3. e.loops[m].line = in[m].line /\ e.loops[m].iter = in[m].iter + 1 /\ e.loops[m].begun = in[m].begun + goes
    <3>1. in[m] \in Rounds
      BY <1>3, <2>2
    <3>2. QED
      BY <2>2, <3>1 DEF Rounds
  <2>4. \A j \in 1..m : e.loops[j].line = in[j].line
    BY <2>2, <2>3
  <2>5. l \in LoopsAt(f.name, l)
    BY <1>1, <1>7, <2>2
  <2>6. OwnLoops(e)
    BY <1>1, <1>2, <1>7, <2>2, <2>4 DEF OwnLoops
  <2>7. \A j \in 1..m : j # m => in[j].line # l
    <3>1. \A j \in 1..m : j # m => j < m
      <4>1. m \in Nat
        BY <1>1
      <4> HIDE DEF m
      <4>2. QED
        BY <4>1
    <3>2. \A j \in 1..m : j # m => in[j].line < in[m].line
      BY <1>1, <2>2, <3>1
    <3>3. QED
      BY <1>3, <1>5, <1>7, <3>2
  <2>8. e.loops[m].begun = e.loops[m].iter + IF n # l + 1 THEN 0 ELSE 1
    <3>1. in[m].begun = in[m].iter + 1 /\ in[m].iter \in Nat
      BY <1>1, <1>3, <2>2
    <3>2. QED
      BY <2>3, <3>1 DEF goes
  <2>9. ASSUME NEW j \in 1..m
        PROVE  e.loops[j].begun = e.loops[j].iter + IF e.loops[j].line = l /\ n # l + 1 THEN 0 ELSE 1
    <3>1. CASE j = m
      BY <1>7, <2>3, <2>8, <3>1
    <3>2. CASE j # m
      BY <1>1, <2>2, <2>7, <3>2
    <3>3. QED
      BY <3>1, <3>2
  <2>10. RoundsBegun(e)
    BY <1>2, <2>2, <2>9 DEF RoundsBegun
  <2>11. QED
    BY <2>6, <2>10
<1>8. CASE Does(l) = "loop" /\ ~(m > 0 /\ in[m].line = l)
  <2> DEFINE r == [line |-> l, iter |-> 0, begun |-> goes]
  <2>1. e.loops = Append(in, r)
    BY <1>2, <1>8 DEF ExecutedLoops
  <2>2. r \in Rounds
    BY <1>5 DEF Rounds, goes
  <2>3. AppendIs(e.loops, in, r)
    BY <1>1, <2>1, <2>2, AppendElements
  <2>4. /\ DOMAIN e.loops = 1..(m + 1)
        /\ \A j \in 1..m : e.loops[j] = in[j]
        /\ e.loops[m + 1] = r
    BY <2>3 DEF AppendIs
  <2>5. \A j \in 1..m : in[j].line < l
    <3>1. ASSUME m > 0 PROVE \A j \in 1..m : in[j].line < l
      <4>1. m \in 1..m /\ in[m].line < l
        BY <1>1, <1>3, <1>4, <1>5, <1>8, <3>1
      <4>2. \A j \in 1..m : j = m \/ j < m
        BY <1>1
      <4>3. \A j \in 1..m : j = m \/ in[j].line < in[m].line
        BY <1>1, <4>1, <4>2
      <4>4. QED
        BY <1>3, <1>5, <4>1, <4>3
    <3>2. QED
      BY <1>1, <3>1
  <2>6. l \in LoopsAt(f.name, l)
    BY <1>8 DEF LoopsAt
  <2>7. \A j \in 1..(m + 1) : j \in 1..m \/ j = m + 1
    BY <1>1
  <2>8. m + 1 \in 1..(m + 1) /\ \A j \in 1..m : j \in 1..(m + 1) /\ ~(m + 1 < j)
    BY <1>1
  <2> HIDE DEF r
  <2>9. r.line = l /\ r.iter = 0 /\ r.begun = goes
    BY DEF r
  <2>10. OwnLoops(e)
    <3>1. \A j \in 1..(m + 1) : e.loops[j].line \in LoopsAt(f.name, l)
      BY <1>1, <2>4, <2>6, <2>7, <2>9
    <3>2. \A h \in LoopsAt(f.name, l) : \E j \in 1..(m + 1) : e.loops[j].line = h
      <4>1. ASSUME NEW h \in LoopsAt(f.name, l), h # l PROVE \E j \in 1..(m + 1) : e.loops[j].line = h
        <5>1. PICK j \in 1..m : in[j].line = h
          BY <1>1, <4>1
        <5>2. QED
          BY <2>4, <2>8, <5>1
      <4>2. e.loops[m + 1].line = l
        BY <2>4, <2>9
      <4>3. QED
        BY <2>8, <4>1, <4>2
    <3>3. ASSUME NEW i \in 1..(m + 1), NEW j \in 1..(m + 1), i < j PROVE e.loops[i].line < e.loops[j].line
      <4>1. i \in 1..m
        BY <1>1, <3>3
      <4>2. CASE j = m + 1
        BY <2>4, <2>5, <2>9, <4>1, <4>2
      <4>3. CASE j \in 1..m
        BY <1>1, <2>4, <3>3, <4>1, <4>3
      <4>4. QED
        BY <2>7, <4>2, <4>3
    <3>4. QED
      BY <1>2, <2>4, <3>1, <3>2, <3>3 DEF OwnLoops
  <2>11. RoundsBegun(e)
    <3>1. goes = 0 + IF n # l + 1 THEN 0 ELSE 1
      BY DEF goes
    <3>2. \A j \in 1..m : e.loops[j].line # l /\ e.loops[j].begun = e.loops[j].iter + 1
      BY <1>1, <1>3, <1>5, <2>4, <2>5
    <3>3. QED
      BY <1>2, <2>4, <2>7, <2>9, <3>1, <3>2 DEF RoundsBegun
  <2>12. QED
    BY <2>10, <2>11
<1>9. QED
  BY <1>6, <1>7, <1>8

LEMMA NoOwnLoops ==
    ASSUME NEW f \in Frames, OwnLoops(f), LoopsAt(f.name, f.at) = {}
    PROVE  f.loops = <<>>
<1>1. f.loops \in Seq(Rounds) /\ DOMAIN f.loops = 1..Len(f.loops) /\ Len(f.loops) \in Nat
  BY LenProperties DEF Frames
<1>2. ASSUME Len(f.loops) # 0 PROVE FALSE
  <2>1. 1 \in DOMAIN f.loops
    BY <1>1, <1>2
  <2>2. QED
    BY <2>1 DEF OwnLoops
<1>3. QED
  BY <1>1, <1>2, EmptySeq

(* A frame that calls or raises in a function is in no loop of it. *)
LEMMA OutsideLoops ==
    ASSUME program \in Programs, Followed, NEW f \in Frames, OwnLoops(f), f.name \in Defs,
           f.at \in Region(f.name), Does(f.at) \in {"return", "raise", "call"}
    PROVE  f.loops = <<>>
<1>1. f.name # 0
  BY ProgramFacts DEF Defs
<1>2. QED
  BY <1>1, NoLoopsThere, NoOwnLoops DEF Region

LEMMA ExecutedFrame ==
    ASSUME program \in Programs, Followed, NEW f \in Frames, FrameInv(f), f.next # 0,
           NEW n \in Nat, NEW e, IsExecuted(e, f, f.next, n)
    PROVE  /\ OwnLoops(e) /\ RoundsBegun(e)
           /\ e \in Frames /\ e.name \in {0} \cup Defs /\ e.at \in Region(e.name) /\ e.at = f.next
           /\ n \in Successors(f.next) => FrameInv(e)
<1>1. /\ f.next \in Region(f.name) /\ f.name \in {0} \cup Defs
  BY NextInRegion DEF FrameInv
<1>2. OwnLoops(e) /\ RoundsBegun(e)
  BY <1>1, StillInLoops, ExecutedRounds
<1>3. e \in Frames /\ e.name = f.name /\ e.at = f.next /\ e.next = n
  BY DEF IsExecuted
<1>4. ASSUME n \in Successors(f.next) PROVE Placed(e)
  <2>1. e.next \in {0} \cup Region(e.name)
    BY <1>1, <1>3, <1>4, StaysInRegion
  <2>2. ASSUME e.next = 0, e.name # 0 PROVE e.loops = <<>>
    <3>1. e.name \in Defs /\ e.at \in Body(e.name) /\ 0 \in Successors(e.at)
      BY <1>1, <1>3, <1>4, <2>2 DEF Region
    <3>2. LoopsAt(e.name, e.at) = {}
      BY <3>1, EndsOutside
    <3>3. QED
      BY <1>2, <1>3, <3>2, NoOwnLoops
  <2>3. QED
    BY <1>1, <1>3, <1>4, <2>1, <2>2 DEF Placed
<1>5. QED
  BY <1>1, <1>2, <1>3, <1>4 DEF FrameInv

LEMMA ThrownFrame ==
    ASSUME program \in Programs, Followed, NEW f \in Frames, OwnLoops(f), RoundsBegun(f),
           f.name \in {0} \cup Defs, f.at \in Region(f.name), Does(f.at) \in {"raise", "call"}
    PROVE  FrameInv(Thrown(f))
<1> DEFINE g == Thrown(f)
<1>1. /\ g \in Frames /\ g.next = 0 /\ g.name = f.name /\ g.at = f.at /\ g.loops = f.loops
  BY ThrownType
<1> HIDE DEF g
<1>2. OwnLoops(g)
  BY <1>1 DEF OwnLoops
<1>3. f.name # 0 => f.loops = <<>>
  BY OutsideLoops
<1>4. Placed(g)
  BY <1>1, <1>3 DEF Placed
<1>5. \A j \in DOMAIN f.loops : f.loops[j].line # f.at
  BY RegionLines DEF OwnLoops
<1>6. RoundsBegun(g)
  BY <1>1, <1>5 DEF RoundsBegun
<1>7. QED
  BY <1>2, <1>4, <1>6 DEF FrameInv, g

LEMMA NewFrameIs ==
    ASSUME program \in Programs, NEW id, NEW d \in {0} \cup Defs, NEW outer
    PROVE  FrameInv(NewFrame(id, d, outer))
<1> DEFINE f == NewFrame(id, d, outer)
<1>1. f.name = d /\ f.at = d /\ f.next = d + 1 /\ f.loops = <<>>
  BY DEF NewFrame
<1> HIDE DEF f
<1>2. LoopsAt(f.name, f.at) = {}
  BY <1>1, RegionLines
<1>3. DOMAIN f.loops = {}
  BY <1>1
<1>4. OwnLoops(f) /\ RoundsBegun(f)
  BY <1>2, <1>3 DEF OwnLoops, RoundsBegun
<1>5. d + 1 \in Region(d)
  <2>1. CASE d = 0
    <3>1. 1 \in DOMAIN program /\ \A k \in Defs : k \in DOMAIN program /\ k >= 1
      BY ProgramFacts DEF Defs
    <3>2. \A k \in Defs : 1 \notin Body(k)
      BY <3>1, BodyBounds, ProgramFacts
    <3>3. QED
      BY <2>1, <3>1, <3>2 DEF Region
  <2>2. CASE d \in Defs
    <3>1. d # 0 /\ d + 1 \in Body(d)
      BY <2>2, HeaderHasBody, ProgramFacts DEF Defs
    <3>2. QED
      BY <3>1 DEF Region
  <2>3. QED
    BY <2>1, <2>2
<1>6. Placed(f)
  BY <1>1, <1>5 DEF Placed
<1>7. QED
  BY <1>4, <1>6 DEF FrameInv, f

(* The frames: the first is of the module, the others are of functions, those *)
(* below the top are at calls, and every frame knows its callers' iterations. *)
Outer(s) == Iterations(s[1].loops)
CallStack(s) ==
    s # <<>> =>
        /\ s[1].id = 0 /\ s[1].name = 0 /\ s[1].outer = <<>>
        /\ \A i \in 2..Len(s) : s[i].id # 0 /\ s[i].name \in Defs /\ s[i].outer = Outer(s)
        /\ \A i \in 1..(Len(s) - 1) : s[i].at \in Region(s[i].name) /\ Does(s[i].at) = "call"
        /\ \A i \in 1..Len(s) : FrameInv(s[i])

LEMMA FirstIndex ==
    ASSUME NEW m \in Nat \ {0}
    PROVE  1 \in 1..m /\ (m # 1 => m \in 2..m /\ 1 \in 1..(m - 1))
  OBVIOUS

LEMMA CallStackFacts ==
    ASSUME TypeInv, CallStack(stack), stack # <<>>
    PROVE  /\ Len(stack) \in Nat \ {0} /\ Top(stack) = stack[Len(stack)] /\ Top(stack) \in Frames
           /\ \A i \in 1..Len(stack) : stack[i] \in Frames /\ FrameInv(stack[i])
           /\ 1 \in 1..Len(stack)
           /\ stack[1].id = 0 /\ stack[1].name = 0 /\ stack[1].outer = <<>>
           /\ Len(stack) = 1 => Top(stack).id = 0 /\ Top(stack).name = 0 /\ Top(stack).outer = <<>>
           /\ Len(stack) # 1 => Top(stack).id # 0 /\ Top(stack).name \in Defs /\ Top(stack).name # 0
                                /\ Top(stack).outer = Outer(stack)
<1>1. Len(stack) \in Nat \ {0} /\ Top(stack) = stack[Len(stack)] /\ Top(stack) \in Frames
  BY TopType
<1>2. \A i \in 1..Len(stack) : stack[i] \in Frames /\ FrameInv(stack[i])
  BY TypeFacts DEF CallStack
<1>3. 1 \in 1..Len(stack) /\ (Len(stack) # 1 => Len(stack) \in 2..Len(stack))
  BY <1>1, FirstIndex
<1>4. 0 \notin Defs
  BY ProgramFacts, TypeFacts DEF Defs
<1>5. QED
  BY <1>1, <1>2, <1>3, <1>4 DEF CallStack

(* A frame below the top of a function is in no loop of its own. *)
LEMMA CallersOutside ==
    ASSUME TypeInv, Followed, CallStack(stack), NEW i \in 2..Len(stack), i # Len(stack)
    PROVE  stack[i].loops = <<>>
<1>1. stack # <<>> /\ Len(stack) \in Nat
  <2>1. Len(stack) \in Nat
    BY TypeFacts
  <2>2. Len(stack) # 0
    BY <2>1
  <2>3. QED
    BY <2>1, <2>2, EmptySeq
<1>2. i \in 1..(Len(stack) - 1) /\ i \in 1..Len(stack)
  BY <1>1
<1>3. /\ stack[i] \in Frames /\ OwnLoops(stack[i]) /\ stack[i].name \in Defs
      /\ stack[i].at \in Region(stack[i].name) /\ Does(stack[i].at) = "call"
  BY <1>1, <1>2, CallStackFacts DEF CallStack, FrameInv
<1>4. QED
  BY <1>3, OutsideLoops, TypeFacts

LEMMA CallGoes ==
    ASSUME TypeInv, LineStep, Followed, CallStack(stack), NEW n \in Nat, Goes(n)
    PROVE  CallStack(stack')
<1> DEFINE f == Top(stack)
           m == Len(stack)
           e == Executed(f, f.next, n)
<1>1. /\ m \in Nat \ {0} /\ f = stack[m] /\ f \in Frames /\ FrameInv(f) /\ f.next # 0
      /\ IsExecuted(e, f, f.next, n) /\ program \in Programs /\ m \in 1..m
  BY LineFrame, CallStackFacts, TypeFacts
<1>2. /\ Len(stack') = m /\ stack'[m] = e
      /\ \A i \in 1..(m - 1) : stack'[i] = stack[i]
      /\ n \in Successors(f.next)
  BY DEF Goes, Replaced
<1>3. FrameInv(e) /\ e.id = f.id /\ e.name = f.name /\ e.outer = f.outer
  BY <1>1, <1>2, ExecutedFrame DEF IsExecuted
<1>4. /\ stack[1].id = 0 /\ stack[1].name = 0 /\ stack[1].outer = <<>>
      /\ \A i \in 2..m : stack[i].id # 0 /\ stack[i].name \in Defs /\ stack[i].outer = Outer(stack)
      /\ \A i \in 1..(m - 1) : stack[i].at \in Region(stack[i].name) /\ Does(stack[i].at) = "call"
      /\ \A i \in 1..m : FrameInv(stack[i])
  BY LineFrame DEF CallStack
<1> HIDE DEF f, e, m
<1>5. \A i \in 1..m : /\ stack'[i].id = stack[i].id /\ stack'[i].name = stack[i].name
                      /\ stack'[i].outer = stack[i].outer /\ FrameInv(stack'[i])
  BY <1>1, <1>2, <1>3, <1>4, Indexes
<1>6. \A i \in 2..m : i \in 1..m /\ 1 \in 1..(m - 1)
  BY <1>1
<1>7. 1 \in 1..m
  BY <1>1
<1>8. \A i \in 2..m : Outer(stack') = Outer(stack)
  BY <1>2, <1>6 DEF Outer
<1>9. QED
  BY <1>2, <1>4, <1>5, <1>6, <1>7, <1>8 DEF CallStack

LEMMA CallCalls ==
    ASSUME TypeInv, LineStep, Followed, CallStack(stack), NEW d \in Nat, Calls(d)
    PROVE  CallStack(stack')
<1> DEFINE f == Top(stack)
           m == Len(stack)
           l == Top(stack).next
<1>1. /\ m \in Nat \ {0} /\ f = stack[m] /\ f \in Frames /\ FrameInv(f) /\ f.next # 0
      /\ IsExecuted(Caller, f, l, After(l)) /\ program \in Programs /\ m \in 1..m
      /\ After(l) \in Nat
  BY LineFrame, CallStackFacts, CallerIs, TypeFacts
<1>2. /\ Len(stack') = m + 1 /\ stack'[m] = Caller /\ stack'[m + 1] = Callee(d)
      /\ \A i \in 1..(m - 1) : stack'[i] = stack[i]
      /\ d \in Defs /\ Does(l) = "call"
  BY DEF Calls
<1>3. After(l) \in Successors(l)
  BY <1>2 DEF Successors
<1>4. /\ FrameInv(Caller) /\ Caller.id = f.id /\ Caller.name = f.name /\ Caller.outer = f.outer
      /\ Caller.at \in Region(Caller.name) /\ Does(Caller.at) = "call" /\ Caller \in Frames
      /\ OwnLoops(Caller)
  BY <1>1, <1>2, <1>3, ExecutedFrame DEF IsExecuted
<1>5. /\ stack[1].id = 0 /\ stack[1].name = 0 /\ stack[1].outer = <<>>
      /\ \A i \in 2..m : stack[i].id # 0 /\ stack[i].name \in Defs /\ stack[i].outer = Outer(stack)
      /\ \A i \in 1..(m - 1) : stack[i].at \in Region(stack[i].name) /\ Does(stack[i].at) = "call"
      /\ \A i \in 1..m : FrameInv(stack[i])
  BY LineFrame DEF CallStack
<1>6. FrameInv(Callee(d)) /\ Callee(d).id = time' /\ Callee(d).name = d
      /\ Callee(d).outer = Caller.outer \o Iterations(Caller.loops)
  BY <1>1, <1>2, NewFrameIs DEF Callee, NewFrame
<1>7. time' # 0
  BY TypeFacts DEF LineStep, Counted
<1>8. Callee(d).outer = Outer(stack')
  <2>1. Caller.loops \in Seq(Rounds) /\ Caller.outer \in Seq(Places)
    BY <1>4 DEF Frames
  <2>2. Iterations(Caller.loops) \in Seq(Places)
    BY <2>1, IterationsIs, RoundsHaveNumbers
  <2>3. CASE m = 1
    <3>1. Caller.outer = <<>> /\ stack'[1] = Caller
      BY <1>1, <1>2, <1>4, <1>5, <2>3
    <3>2. QED
      BY <1>6, <2>2, <3>1, ConcatEmptySeq DEF Outer
  <2>4. CASE m # 1
    <3>1. m \in 2..m /\ 1 \in 1..(m - 1)
      BY <1>1, <2>4, FirstIndex
    <3>2. Caller.outer = Outer(stack) /\ Caller.name \in Defs /\ stack'[1] = stack[1]
      BY <1>1, <1>2, <1>4, <1>5, <3>1
    <3>3. Caller.loops = <<>>
      BY <1>1, <1>4, <3>2, OutsideLoops
    <3>4. Iterations(Caller.loops) = <<>>
      <4>1. Len(Caller.loops) = 0
        BY <2>1, <3>3, EmptySeq
      <4>2. Len(Iterations(Caller.loops)) = 0
        BY <2>1, <4>1, IterationsIs, RoundsHaveNumbers
      <4>3. QED
        BY <2>2, <4>2, EmptySeq
    <3>5. QED
      BY <1>6, <2>1, <3>2, <3>4, ConcatEmptySeq DEF Outer
  <2>5. QED
    BY <2>3, <2>4
<1> HIDE DEF f, l, m
<1>9. \A i \in 1..m : /\ stack'[i].id = stack[i].id /\ stack'[i].name = stack[i].name
                      /\ stack'[i].outer = stack[i].outer /\ FrameInv(stack'[i])
                      /\ stack'[i].at \in Region(stack'[i].name) /\ Does(stack'[i].at) = "call"
  BY <1>1, <1>2, <1>4, <1>5, Indexes
<1>10. 1 \in 1..m /\ m + 1 - 1 = m /\ \A i \in 1..(m + 1) : i = m + 1 \/ i \in 1..m
  BY <1>1
<1>11. \A i \in 2..(m + 1) : i = m + 1 \/ (i \in 2..m /\ i \in 1..m /\ 1 \in 1..(m - 1))
  BY <1>1
<1>12. \A i \in 2..m : Outer(stack') = Outer(stack)
  <2>1. \A i \in 2..m : 1 \in 1..(m - 1)
    BY <1>1
  <2>2. QED
    BY <1>2, <2>1 DEF Outer
<1>13. \A i \in 2..(m + 1) : stack'[i].id # 0 /\ stack'[i].name \in Defs /\ stack'[i].outer = Outer(stack')
  BY <1>2, <1>5, <1>6, <1>7, <1>8, <1>9, <1>11, <1>12
<1>14. QED
  BY <1>2, <1>5, <1>6, <1>9, <1>10, <1>13 DEF CallStack

LEMMA CallThrows ==
    ASSUME TypeInv, LineStep, Followed, CallStack(stack), NEW k \in Nat, Throws(k)
    PROVE  CallStack(stack')
<1> DEFINE f == Top(stack)
           m == Len(stack)
           e == Executed(f, f.next, 0)
<1>1. /\ m \in Nat \ {0} /\ f = stack[m] /\ f \in Frames /\ FrameInv(f) /\ f.next # 0
      /\ IsExecuted(e, f, f.next, 0) /\ program \in Programs /\ m \in 1..m
  BY LineFrame, CallStackFacts, TypeFacts
<1>2. /\ Len(stack') = m /\ k \in 0..(m - 1)
      /\ \A i \in 1..k : stack'[i] = stack[i]
      /\ \A i \in (k + 1)..(m - 1) : stack'[i] = Thrown(stack[i])
      /\ stack'[m] = Thrown(e)
      /\ Does(f.next) = "raise"
  BY DEF Throws
<1>3. /\ e \in Frames /\ OwnLoops(e) /\ RoundsBegun(e)
      /\ e.name \in {0} \cup Defs /\ e.at \in Region(e.name) /\ e.at = f.next
      /\ e.id = f.id /\ e.name = f.name /\ e.outer = f.outer
  BY <1>1, <1>2, ExecutedFrame DEF IsExecuted
<1>4. FrameInv(Thrown(e)) /\ Thrown(e).id = f.id /\ Thrown(e).name = f.name /\ Thrown(e).outer = f.outer
  BY <1>1, <1>2, <1>3, ThrownFrame, ThrownType
<1>5. /\ stack[1].id = 0 /\ stack[1].name = 0 /\ stack[1].outer = <<>>
      /\ \A i \in 2..m : stack[i].id # 0 /\ stack[i].name \in Defs /\ stack[i].outer = Outer(stack)
      /\ \A i \in 1..(m - 1) : stack[i].at \in Region(stack[i].name) /\ Does(stack[i].at) = "call"
      /\ \A i \in 1..m : FrameInv(stack[i]) /\ stack[i] \in Frames
  BY LineFrame, TypeFacts DEF CallStack
<1> HIDE DEF f, e, m
<1>6. ASSUME NEW i \in 1..(m - 1)
      PROVE  /\ FrameInv(Thrown(stack[i])) /\ Thrown(stack[i]).id = stack[i].id /\ Thrown(stack[i]).name = stack[i].name
             /\ Thrown(stack[i]).outer = stack[i].outer /\ Thrown(stack[i]).at = stack[i].at
             /\ Thrown(stack[i]).loops = stack[i].loops
  <2>1. i \in 1..m
    BY <1>1
  <2>2. stack[i] \in Frames /\ OwnLoops(stack[i]) /\ RoundsBegun(stack[i]) /\ stack[i].name \in {0} \cup Defs
    BY <1>5, <2>1 DEF FrameInv, Placed
  <2>3. QED
    BY <1>1, <1>5, <2>2, ThrownFrame, ThrownType
<1>7. \A i \in 1..(m - 1) : i \in 1..m /\ (i \in 1..k \/ i \in (k + 1)..(m - 1))
  BY <1>1, <1>2
<1>8. \A i \in 1..(m - 1) : /\ stack'[i].id = stack[i].id /\ stack'[i].name = stack[i].name
                            /\ stack'[i].outer = stack[i].outer /\ FrameInv(stack'[i])
                            /\ stack'[i].at = stack[i].at /\ stack'[i].loops = stack[i].loops
  BY <1>2, <1>5, <1>6, <1>7
<1>9. \A i \in 1..m : /\ stack'[i].id = stack[i].id /\ stack'[i].name = stack[i].name
                      /\ stack'[i].outer = stack[i].outer /\ FrameInv(stack'[i])
  BY <1>1, <1>2, <1>4, <1>8, Indexes
<1>10. \A i \in 2..m : i \in 1..m /\ 1 \in 1..(m - 1)
  BY <1>1
<1>11. 1 \in 1..m
  BY <1>1
<1>12. \A i \in 2..m : Outer(stack') = Outer(stack)
  BY <1>8, <1>10 DEF Outer
<1>13. QED
  BY <1>2, <1>5, <1>8, <1>9, <1>10, <1>11, <1>12 DEF CallStack

LEMMA CallReturns ==
    ASSUME TypeInv, ReturnStep, CallStack(stack)
    PROVE  CallStack(stack')
<1> DEFINE m == Len(stack)
<1>1. stack # <<>> /\ m \in Nat \ {0}
  BY TopType DEF ReturnStep, Running
<1>2. /\ Len(stack') = m - 1 /\ stack' \in Seq(Frames)
      /\ \A i \in 1..(m - 1) : stack'[i] = stack[i]
  BY DEF ReturnStep
<1>3. stack' # <<>> => m - 1 # 0
  BY <1>2, EmptySeq
<1> HIDE DEF m
<1>4. ASSUME m - 1 # 0 PROVE CallStack(stack')
  <2>1. 1 \in 1..(m - 1)
    BY <1>1, <1>4
  <2>2. \A i \in 2..(m - 1) : i \in 2..m /\ i \in 1..(m - 1)
    BY <1>1
  <2>3. \A i \in 1..(m - 1) : i \in 1..m
    BY <1>1
  <2>4. \A i \in 1..(m - 1 - 1) : i \in 1..(m - 1)
    BY <1>1
  <2>5. Outer(stack') = Outer(stack)
    BY <1>2, <2>1 DEF Outer
  <2>6. /\ stack[1].id = 0 /\ stack[1].name = 0 /\ stack[1].outer = <<>>
        /\ \A i \in 2..m : stack[i].id # 0 /\ stack[i].name \in Defs /\ stack[i].outer = Outer(stack)
        /\ \A i \in 1..(m - 1) : stack[i].at \in Region(stack[i].name) /\ Does(stack[i].at) = "call"
        /\ \A i \in 1..m : FrameInv(stack[i])
    BY <1>1 DEF CallStack, m
  <2>7. \A i \in 2..(m - 1) :
           stack'[i].id # 0 /\ stack'[i].name \in Defs /\ stack'[i].outer = Outer(stack')
    BY <1>2, <2>2, <2>5, <2>6
  <2>8. \A i \in 1..(m - 1 - 1) : stack'[i].at \in Region(stack'[i].name) /\ Does(stack'[i].at) = "call"
    BY <1>2, <2>4, <2>6
  <2>9. \A i \in 1..(m - 1) : FrameInv(stack'[i])
    <3>1. ASSUME NEW i \in 1..(m - 1) PROVE FrameInv(stack'[i])
      <4>1. stack'[i] = stack[i] /\ FrameInv(stack[i])
        BY <1>2, <2>3, <2>6
      <4>2. QED
        BY <4>1
    <3>2. QED
      BY <3>1
  <2>10. stack'[1].id = 0 /\ stack'[1].name = 0 /\ stack'[1].outer = <<>>
    BY <1>2, <2>1, <2>6
  <2>11. QED
    BY <1>2, <2>7, <2>8, <2>9, <2>10 DEF CallStack
<1>5. QED
  BY <1>3, <1>4 DEF CallStack

(* The active loops are the callers' and those of the frame, in order. *)
ActiveLike(a, id, outer, loops) ==
    /\ Len(a) = Len(outer) + Len(loops)
    /\ \A k \in 1..Len(outer) : a[k].frame = 0 /\ a[k].line = outer[k].line /\ a[k].iter = outer[k].iter
    /\ \A k \in 1..Len(loops) : /\ a[Len(outer) + k].frame = id
                                /\ a[Len(outer) + k].line = loops[k].line
                                /\ a[Len(outer) + k].iter = loops[k].iter

LEMMA ActiveIterations ==
    ASSUME TypeInv, NEW a \in Seq(Actives), NEW id, NEW outer \in Seq(Places), NEW loops \in Seq(Rounds),
           ActiveLike(a, id, outer, loops)
    PROVE  Iterations(a) = outer \o Iterations(loops)
<1> DEFINE s == Iterations(a)
           t == Iterations(loops)
           u == outer \o t
<1>1. /\ s \in Seq(Places) /\ Len(s) = Len(a)
      /\ \A i \in 1..Len(a) : s[i] = [line |-> a[i].line, iter |-> a[i].iter]
  BY IterationsIs, RoundsHaveNumbers, TypeFacts
<1>2. /\ t \in Seq(Places) /\ Len(t) = Len(loops)
      /\ \A i \in 1..Len(loops) : t[i] = [line |-> loops[i].line, iter |-> loops[i].iter]
  BY IterationsIs, RoundsHaveNumbers
<1>3. Len(outer) \in Nat /\ Len(loops) \in Nat /\ \A i \in 1..Len(outer) : outer[i] \in Places
  BY LenProperties, ElementOfSeq
<1> HIDE DEF s, t
<1>4. u \in Seq(Places) /\ ConcatIs(u, outer, t)
  BY <1>2, ConcatElements
<1> HIDE DEF u
<1>5. \A i \in 1..Len(outer) : u[i] = [line |-> outer[i].line, iter |-> outer[i].iter]
  BY <1>3, <1>4 DEF ConcatIs, Places
<1>6. ASSUME NEW i \in 1..Len(s) PROVE s[i] = u[i]
  <2>1. i \in 1..Len(a)
    BY <1>1
  <2>2. CASE i \in 1..Len(outer)
    BY <1>1, <1>5, <2>1, <2>2, ZenonT(40) DEF ActiveLike
  <2>3. CASE i \notin 1..Len(outer)
    <3>1. PICK k \in 1..Len(loops) : i = Len(outer) + k
      <4>1. i \in 1..(Len(outer) + Len(loops))
        BY <2>1 DEF ActiveLike
      <4>2. i - Len(outer) \in 1..Len(loops) /\ i = Len(outer) + (i - Len(outer))
        BY <1>3, <2>3, <4>1
      <4>3. QED
        BY <4>2
    <3>2. u[i] = t[k]
      BY <1>2, <1>4, <3>1 DEF ConcatIs
    <3>3. QED
      BY <1>1, <1>2, <2>1, <3>1, <3>2, SMTT(20) DEF ActiveLike
  <2>4. QED
    BY <2>2, <2>3
<1>7. Len(s) = Len(u)
  BY <1>1, <1>2, <1>4 DEF ActiveLike, ConcatIs
<1>8. s = u
  BY <1>1, <1>4, <1>6, <1>7, SeqEqual
<1>9. QED
  BY <1>8 DEF s, t, u

(* Whose the innermost active loop is. *)
LEMMA NoOwnActive ==
    ASSUME TypeInv, NEW f \in Frames, ActiveLike(active, f.id, f.outer, f.loops), f.loops = <<>>,
           f.outer = <<>> \/ f.id # 0, NEW l, NEW prev
    PROVE  Ending(f, l, prev) = 0
<1>1. f.outer \in Seq(Places) /\ Len(f.outer) \in Nat /\ Len(f.loops) = 0 /\ active \in Seq(Actives)
  BY LenProperties, EmptySeq, TypeFacts DEF Frames
<1>2. Len(active) = Len(f.outer)
  BY <1>1 DEF ActiveLike
<1>3. CASE active = <<>>
  BY <1>3 DEF Ending
<1>4. CASE active # <<>>
  <2>1. Len(f.outer) \in 1..Len(f.outer) /\ f.outer # <<>>
    BY <1>1, <1>2, <1>4, EmptySeq
  <2>2. Top(active).frame = 0
    BY <1>2, <2>1 DEF Top, ActiveLike
  <2>3. QED
    BY <2>1, <2>2 DEF Ending
<1>5. QED
  BY <1>3, <1>4

LEMMA OwnActive ==
    ASSUME TypeInv, NEW f \in Frames, ActiveLike(active, f.id, f.outer, f.loops), f.loops # <<>>
    PROVE  /\ active # <<>> /\ Len(f.loops) \in Nat \ {0} /\ Len(f.loops) \in DOMAIN f.loops /\ Len(f.outer) \in Nat
           /\ Top(active).frame = f.id /\ Top(active).line = Innermost0(f)
           /\ Top(active).iter = f.loops[Len(f.loops)].iter
<1>1. f.outer \in Seq(Places) /\ Len(f.outer) \in Nat /\ active \in Seq(Actives) /\ f.loops \in Seq(Rounds)
  BY LenProperties, TypeFacts DEF Frames
<1>2. Len(f.loops) \in Nat \ {0} /\ DOMAIN f.loops = 1..Len(f.loops)
  BY <1>1, EmptySeq, LenProperties
<1>3. Len(active) = Len(f.outer) + Len(f.loops)
  BY DEF ActiveLike
<1>4. Len(active) # 0 /\ Len(f.loops) \in 1..Len(f.loops)
  <2>1. \A i \in Nat, n \in Nat \ {0} : i + n # 0
    OBVIOUS
  <2>2. QED
    BY <1>1, <1>2, <1>3, <2>1, Indexes
<1>5. active # <<>>
  BY <1>1, <1>4, EmptySeq
<1>6. QED
  BY <1>1, <1>2, <1>3, <1>4, <1>5 DEF ActiveLike, Top, Innermost0

(* What was recorded last is the line a frame has loops at, or a function it  *)
(* has called has returned.                                                   *)
Recorded ==
    stack # <<>> /\ Top(stack).next # 0 /\ Top(stack).loops # <<>> =>
        /\ log # <<>>
        /\ \/ PrevEnv.line = Top(stack).at /\ PrevEnv.name = Top(stack).name
           \/ Does(Top(stack).at) = "call" /\ Top(stack).name = 0 /\ PrevEnv.name # 0

(* There is no return in a loop. *)
LEMMA NoReturnInLoop ==
    ASSUME program \in Programs, Followed, NEW f \in Frames, FrameInv(f), f.loops # <<>>
    PROVE  Does(f.at) # "return" /\ f.at \in Region(f.name) /\ f.at \in DOMAIN program
<1>1. f.at \in Region(f.name) /\ f.at \in DOMAIN program /\ f.name \in {0} \cup Defs
  BY FrameLoops DEF FrameInv, Placed
<1>2. ASSUME Does(f.at) = "return" PROVE FALSE
  <2>1. PICK d \in DOMAIN program : Does(d) = "def" /\ f.at \in Body(d)
    BY <1>1, <1>2, ProgramFacts DEF WellFormed, Does, Body
  <2>2. f.name # 0
    BY <1>1, <2>1 DEF Region, Defs
  <2>3. f.name \in Defs
    BY <1>1, <2>2
  <2>4. QED
    BY <1>1, <1>2, <2>3, OutsideLoops DEF FrameInv
<1>3. QED
  BY <1>1, <1>2

(* Where a frame goes on in all of its loops, none of them ends.              *)
LEMMA StaysActive ==
    ASSUME TypeInv, LineStep, Followed, CallStack(stack), Recorded, log # <<>>,
           ActiveLike(active, Top(stack).id, Top(stack).outer, Top(stack).loops),
           Stays(Top(stack), Top(stack).next)
    PROVE  Ending(Top(stack), Top(stack).next, PrevEnv) = 0
<1> DEFINE f == Top(stack)
           l == Top(stack).next
<1>1. f \in Frames /\ FrameInv(f) /\ stack # <<>> /\ l # 0 /\ l \in DOMAIN program /\ program \in Programs
  BY LineFrame, CallStackFacts, TypeFacts
<1>2. f.outer = <<>> \/ f.id # 0
  BY <1>1, CallStackFacts
<1> HIDE DEF f, l
<1>3. CASE f.loops = <<>>
  BY <1>1, <1>2, <1>3, NoOwnActive DEF f
<1>4. CASE f.loops # <<>>
  <2>1. Top(active).frame = f.id /\ Top(active).line = Innermost0(f)
    BY <1>1, <1>4, OwnActive DEF f
  <2>2. ~Returned(f, PrevEnv)
    BY <1>1, <1>4, NoReturnInLoop DEF Recorded, Returned, f, l
  <2>3. InLoop(Innermost0(f), l)
    BY <1>4 DEF Stays, f, l
  <2>4. Innermost0(f) \in DOMAIN program
    <3>1. Len(f.loops) \in 1..Len(f.loops)
      BY <1>1, <1>4, FrameLoops, Indexes DEF FrameInv
    <3>2. QED
      BY <1>1, <3>1, FrameLoops DEF FrameInv, Innermost0
  <2>5. ~Outside(l)
    <3>1. l = Innermost0(f) \/ Indent(l) > Indent(Innermost0(f))
      BY <1>1, <2>3, <2>4, BodyBounds DEF InLoop
    <3>2. Indent(l) \in Nat /\ Indent(Innermost0(f)) \in Nat
      BY <1>1, <2>4, ProgramFacts
    <3>3. QED
      BY <2>1, <3>1, <3>2 DEF Outside
  <2>6. QED
    BY <2>2, <2>5 DEF Ending, f, l
<1>5. QED
  BY <1>3, <1>4

(* Where it leaves one, that is the one that ends, with the rounds it began.  *)
EndsRight(e) == e.kind = "end" => e.begun = {e.iter}

LEMMA LeavesActive ==
    ASSUME TypeInv, LineStep, Followed, CallStack(stack), Recorded, log # <<>>,
           ActiveLike(active, Top(stack).id, Top(stack).outer, Top(stack).loops),
           Leaves(Top(stack), Top(stack).next)
    PROVE  /\ Ending(Top(stack), Top(stack).next, PrevEnv) = 1
           /\ EndsRight(EndRecords(Top(stack), Top(stack).next, PrevEnv)[1])
<1> DEFINE f == Top(stack)
           l == Top(stack).next
           n == Len(f.loops)
           r == f.loops[n]
           ends == EndRecords(f, l, PrevEnv)
<1>1. f \in Frames /\ FrameInv(f) /\ stack # <<>> /\ l # 0 /\ l \in DOMAIN program /\ program \in Programs
  BY LineFrame, CallStackFacts, TypeFacts
<1>2. /\ f.loops # <<>> /\ ~InLoop(r.line, l) /\ Indent(l) <= Indent(r.line)
      /\ Does(f.at) # "break" => r.line = f.at
      /\ l \in Successors(f.at)
  BY DEF Leaves, Innermost0
<1>3. /\ active # <<>> /\ n \in Nat \ {0} /\ n \in DOMAIN f.loops
      /\ Top(active).frame = f.id /\ Top(active).line = r.line /\ Top(active).iter = r.iter
  BY <1>1, <1>2, OwnActive DEF Innermost0
<1>4. Does(f.at) # "return" /\ f.at \in DOMAIN program
  BY <1>1, <1>2, NoReturnInLoop
<1>5. r \in Rounds /\ Does(r.line) = "loop" /\ r.line \in DOMAIN program /\ r.iter \in Nat
  BY <1>1, <1>3, FrameLoops, RoundsHaveNumbers DEF FrameInv
<1>6. r.begun = r.iter + IF r.line = f.at /\ l # f.at + 1 THEN 0 ELSE 1
  BY <1>1, <1>3 DEF FrameInv, RoundsBegun
<1>7. \/ PrevEnv.line = f.at /\ PrevEnv.name = f.name
      \/ Does(f.at) = "call" /\ f.name = 0 /\ PrevEnv.name # 0
  BY <1>1, <1>2 DEF Recorded
<1>8. \A j \in DOMAIN f.loops : f.loops[j].line = r.line => j = n
  <2>1. DOMAIN f.loops = 1..n /\ OwnLoops(f)
    BY <1>1, FrameLoops DEF FrameInv
  <2>2. \A j \in 1..n : j = n \/ j < n
    BY <1>3, Indexes
  <2>3. \A j \in 1..n : j = n \/ f.loops[j].line < r.line
    BY <1>3, <2>1, <2>2 DEF OwnLoops
  <2>4. r.line \in Nat
    BY <1>5, ProgramFacts, <1>1
  <2>5. QED
    BY <2>1, <2>3, <2>4
<1> HIDE DEF f, l, n, r, ends
<1>9. ~Returned(f, PrevEnv)
  BY <1>4, <1>7 DEF Returned
<1>10. Outside(l)
  BY <1>2, <1>3 DEF Outside, InLoop
<1>11. Ending(f, l, PrevEnv) = 1
  BY <1>3, <1>9, <1>10 DEF Ending
<1>12. r.begun = r.iter + LastRound(f, PrevEnv)
  <2>1. CASE Does(f.at) = "break"
    <3>1. PrevEnv.line = f.at
      BY <1>7, <2>1
    <3>2. LastRound(f, PrevEnv) = 1
      BY <2>1, <3>1 DEF LastRound
    <3>3. r.line # f.at
      BY <1>5, <2>1
    <3>4. QED
      BY <1>5, <1>6, <3>2, <3>3
  <2>2. CASE Does(f.at) # "break"
    <3>1. r.line = f.at /\ Does(f.at) = "loop"
      BY <1>2, <1>5, <2>2
    <3>2. l # f.at + 1
      <4>1. f.at + 1 \in Body(f.at)
        BY <1>1, <1>4, <3>1, HeaderHasBody
      <4>2. QED
        BY <1>2, <3>1, <4>1 DEF InLoop
    <3>3. PrevEnv.line = f.at
      BY <1>7, <3>1
    <3>4. LastRound(f, PrevEnv) = 0
      BY <1>9, <2>2, <3>3 DEF LastRound
    <3>5. QED
      BY <1>6, <3>1, <3>2, <3>4
  <2>3. QED
    BY <2>1, <2>2
<1>13. EndsRight(ends[1])
  <2>1. Len(active) + 1 - 1 = Len(active) /\ 1 \in 1..1
    BY TypeFacts
  <2>2. active[Len(active)] = Top(active)
    BY DEF Top
  <2>3. /\ ends[1].iter = Top(active).iter + LastRound(f, PrevEnv)
        /\ ends[1].begun = {f.loops[j].begun : j \in {j \in DOMAIN f.loops : f.loops[j].line = Top(active).line}}
    BY <1>11, <2>1, <2>2 DEF EndRecords, ends
  <2>4. {j \in DOMAIN f.loops : f.loops[j].line = Top(active).line} = {n}
    BY <1>3, <1>8 DEF r
  <2>5. ends[1].begun = {r.begun}
    BY <2>3, <2>4 DEF r
  <2>6. QED
    BY <1>3, <1>12, <2>3, <2>5 DEF EndsRight
<1>14. QED
  BY <1>11, <1>13 DEF f, l, ends

ActiveIs == stack # <<>> => ActiveLike(active, Top(stack).id, Top(stack).outer, Top(stack).loops)

LEMMA KeptIs ==
    ASSUME TypeInv, LineStep, Followed, CallStack(stack), Recorded, ActiveIs
    PROVE  /\ ActiveLike(Kept, Top(stack).id, Top(stack).outer, StillIn(Top(stack), Top(stack).next))
           /\ \A i \in 1..Len(Ends) : EndsRight(Ends[i])
<1> DEFINE f == Top(stack)
           l == Top(stack).next
           n == Len(f.loops)
<1>1. f \in Frames /\ FrameInv(f) /\ stack # <<>> /\ l # 0 /\ program \in Programs
  BY LineFrame, CallStackFacts, TypeFacts
<1>2. ActiveLike(active, f.id, f.outer, f.loops)
  BY <1>1 DEF ActiveIs
<1>3. Stays(f, l) \/ Leaves(f, l)
  BY <1>1, StaysOrLeaves DEF FrameInv
<1>4. f.loops \in Seq(Rounds) /\ n \in Nat /\ Len(f.outer) \in Nat /\ Len(active) \in Nat
      /\ active \in Seq(Actives)
  BY LenProperties, TypeFacts, <1>1 DEF Frames
<1>5. CASE log = <<>>
  <2>1. Kept = active /\ Ends = <<>>
    BY <1>5 DEF Kept, Ends
  <2>2. Stays(f, l)
    BY <1>1, <1>3, <1>5 DEF Recorded, Leaves
  <2>3. Len(Ends) = 0
    BY <2>1, EmptySeq
  <2>4. \A i \in 1..Len(Ends) : FALSE
    BY <2>3
  <2>5. QED
    BY <1>2, <2>1, <2>2, <2>4 DEF Stays
<1>6. CASE log # <<>> /\ Stays(f, l)
  <2>1. Ending(f, l, PrevEnv) = 0
    BY <1>2, <1>6, StaysActive
  <2>2. Kept = SubSeq(active, 1, Len(active) - 0) /\ Ends = EndRecords(f, l, PrevEnv)
    BY <1>6, <2>1 DEF Kept, Ends, StayActive
  <2>3. Kept = active
    BY <1>4, <2>2, WholePrefix
  <2>4. Len(Ends) = 0
    BY <1>1, <2>1, <2>2, EndRecordsIs
  <2>5. \A i \in 1..Len(Ends) : FALSE
    BY <2>4
  <2>6. QED
    BY <1>2, <1>6, <2>3, <2>5 DEF Stays
<1>7. CASE log # <<>> /\ Leaves(f, l)
  <2>1. Ending(f, l, PrevEnv) = 1 /\ EndsRight(EndRecords(f, l, PrevEnv)[1])
    BY <1>2, <1>7, LeavesActive
  <2>2. Kept = StayActive(f, l, PrevEnv) /\ Ends = EndRecords(f, l, PrevEnv)
    BY <1>7 DEF Kept, Ends
  <2>3. Len(Ends) = 1
    BY <1>1, <2>1, <2>2, EndRecordsIs
  <2>4. \A i \in 1..Len(Ends) : EndsRight(Ends[i])
    <3>1. \A i \in 1..1 : i = 1
      OBVIOUS
    <3>2. QED
      BY <2>1, <2>2, <2>3, <3>1
  <2>5. Len(Kept) = Len(active) - 1 /\ \A i \in 1..(Len(active) - 1) : Kept[i] = active[i]
    BY <2>1, <2>2, StayActiveIs
  <2>6. n \in Nat \ {0} /\ StillIn(f, l) = SubSeq(f.loops, 1, n - 1)
    BY <1>1, <1>2, <1>7, OwnActive DEF Leaves
  <2> DEFINE in == StillIn(f, l)
             o == Len(f.outer)
  <2>7. Len(in) = n - 1 /\ \A i \in 1..(n - 1) : in[i] = f.loops[i] /\ i \in 1..n
    <3>1. n - 1 \in 0..n /\ \A i \in 1..(n - 1) : i \in 1..n
      BY <2>6
    <3>2. QED
      BY <1>4, <2>6, <3>1, PrefixElements
  <2>8. Len(active) = o + n
    BY <1>2 DEF ActiveLike
  <2> HIDE DEF in, f, l, n, o
  <2>9. \A i \in 1..o : i \in 1..(o + n - 1)
    BY <1>4, <2>6 DEF o
  <2>10. \A i \in 1..(n - 1) : o + i \in 1..(o + n - 1)
    BY <1>4, <2>6 DEF o
  <2>11. o + n - 1 = o + (n - 1)
    BY <1>4, <2>6 DEF o
  <2>12. /\ \A k \in 1..o : active[k].frame = 0 /\ active[k].line = f.outer[k].line /\ active[k].iter = f.outer[k].iter
         /\ \A k \in 1..n : /\ active[o + k].frame = f.id
                            /\ active[o + k].line = f.loops[k].line
                            /\ active[o + k].iter = f.loops[k].iter
    BY <1>2 DEF ActiveLike, o, n
  <2>13. Len(Kept) = o + Len(in)
    BY <2>5, <2>7, <2>8, <2>11 DEF in, n, o
  <2>14. /\ \A k \in 1..o : Kept[k] = active[k]
         /\ \A k \in 1..(n - 1) : Kept[o + k] = active[o + k]
    <3>1. Len(active) - 1 = o + n - 1
      BY <2>8 DEF o, n
    <3>2. QED
      BY <2>5, <2>9, <2>10, <3>1
  <2>15. \A k \in 1..Len(in) : Kept[o + k] = active[o + k] /\ in[k] = f.loops[k] /\ k \in 1..n
    BY <2>7, <2>14 DEF in, n
  <2>16. ActiveLike(Kept, f.id, f.outer, in)
    BY <2>12, <2>13, <2>14, <2>15, ZenonT(40) DEF ActiveLike, o
  <2>17. QED
    BY <2>4, <2>16 DEF in, f, l
<1>8. QED
  BY <1>3, <1>5, <1>6, <1>7

(* The callers' loops are no lines of the function that runs. *)
LEMMA OuterElsewhere ==
    ASSUME TypeInv, CallStack(stack), stack # <<>>, NEW k \in 1..Len(Top(stack).outer)
    PROVE  Top(stack).outer[k].line \notin Region(Top(stack).name)
<1> DEFINE f == Top(stack)
           g == stack[1]
<1>1. /\ f \in Frames /\ g \in Frames /\ FrameInv(f) /\ FrameInv(g) /\ g.name = 0
      /\ Len(stack) = 1 => f.outer = <<>>
      /\ Len(stack) # 1 => f.name \in Defs /\ f.name # 0 /\ f.outer = Iterations(g.loops)
  BY CallStackFacts DEF Outer
<1> HIDE DEF f, g
<1>2. f.outer # <<>>
  <2>1. Len(f.outer) # 0
    <3>1. Len(f.outer) \in Nat /\ k \in 1..Len(f.outer)
      BY <1>1, LenProperties DEF Frames, f
    <3>2. QED
      BY <3>1
  <2>2. QED
    BY <2>1, EmptySeq
<1>3. f.name \in Defs /\ f.name # 0 /\ f.outer = Iterations(g.loops)
  BY <1>1, <1>2
<1>4. g.loops \in Seq(Rounds)
  BY <1>1 DEF Frames
<1>5. k \in 1..Len(g.loops) /\ f.outer[k].line = g.loops[k].line
  <2>1. Len(f.outer) = Len(g.loops) /\ \A i \in 1..Len(g.loops) : f.outer[i] = [line |-> g.loops[i].line, iter |-> g.loops[i].iter]
    BY <1>3, <1>4, IterationsIs, RoundsHaveNumbers
  <2>2. k \in 1..Len(f.outer)
    BY DEF f
  <2>3. Len(g.loops) \in Nat
    BY <1>4, LenProperties
  <2>4. k \in 1..Len(g.loops)
    BY <2>1, <2>2
  <2>5. f.outer[k] = [line |-> g.loops[k].line, iter |-> g.loops[k].iter]
    BY <2>1, <2>4
  <2>6. QED
    BY <2>4, <2>5
<1>6. g.loops[k].line \in Region(0)
  BY <1>1, <1>5, FrameLoops, TypeFacts DEF FrameInv
<1>7. QED
  BY <1>3, <1>5, <1>6 DEF Region, f

LEMMA BeganIs ==
    ASSUME TypeInv, NEW f \in Frames, NEW l, NEW a \in Seq(Actives), NEW in \in Seq(Rounds), NEW goes \in Nat,
           NEW loops, ExecutedLoops(in, l, goes, loops), ActiveLike(a, f.id, f.outer, in),
           \A k \in 1..Len(f.outer) : f.outer[k].line # l, l \in Nat, l \in DOMAIN program
    PROVE  ActiveLike(Began(f, l, a), f.id, f.outer, loops)
<1> DEFINE o == Len(f.outer)
           m == Len(in)
<1>1. o \in Nat /\ m \in Nat /\ DOMAIN in = 1..m /\ DOMAIN a = 1..Len(a) /\ \A i \in 1..m : in[i] \in Rounds
  BY LenProperties, ElementOfSeq DEF Frames
<1>2. /\ Len(a) = o + m
      /\ \A k \in 1..o : a[k].frame = 0 /\ a[k].line = f.outer[k].line /\ a[k].iter = f.outer[k].iter
      /\ \A k \in 1..m : /\ a[o + k].frame = f.id
                         /\ a[o + k].line = in[k].line
                         /\ a[o + k].iter = in[k].iter
  BY DEF ActiveLike
<1>3. \A i \in 1..(o + m) : a[i] \in Actives
  BY <1>2, ElementOfSeq
<1>4. (o + m = 0 <=> a = <<>>)
  BY <1>2, EmptySeq
<1> HIDE DEF o, m
<1>5. CASE Does(l) # "loop"
  <2>1. loops = in /\ Began(f, l, a) = a
    BY <1>5 DEF ExecutedLoops, Began
  <2>2. QED
    BY <2>1
<1>6. CASE Does(l) = "loop" /\ m > 0 /\ in[m].line = l
  <2>1. m \in 1..m /\ o + m # 0 /\ o + m \in 1..(o + m)
    BY <1>1, <1>6
  <2>2. a # <<>> /\ Top(a).line = l /\ Top(a) = a[o + m]
    BY <1>2, <1>4, <1>6, <2>1 DEF Top
  <2>3. loops = [in EXCEPT ![m] = [in[m] EXCEPT !.iter = @ + 1, !.begun = @ + goes]]
    <3>1. loops = [in EXCEPT ![m].iter = @ + 1, ![m].begun = @ + goes]
      BY <1>6 DEF ExecutedLoops, m
    <3>2. QED
      BY <1>1, <2>1, <3>1
  <2>4. Began(f, l, a) = [a EXCEPT ![o + m] = [a[o + m] EXCEPT !.iter = @ + 1]]
    <3>1. Began(f, l, a) = [a EXCEPT ![o + m].iter = @ + 1]
      BY <1>2, <1>6, <2>2 DEF Began
    <3>2. QED
      BY <1>1, <1>2, <2>1, <3>1
  <2>5. /\ Len(loops) = m
        /\ \A k \in 1..m : loops[k].line = in[k].line /\ loops[k].iter = IF k = m THEN in[k].iter + 1 ELSE in[k].iter
    <3>1. [in[m] EXCEPT !.iter = @ + 1, !.begun = @ + goes] \in Rounds
      <4>1. ASSUME NEW r \in Rounds PROVE [r EXCEPT !.iter = @ + 1, !.begun = @ + goes] \in Rounds
        <5>1. r.iter + 1 \in Nat /\ r.begun + goes \in Nat
          BY DEF Rounds
        <5>2. [r EXCEPT !.iter = r.iter + 1, !.begun = r.begun + goes] \in Rounds
          BY <5>1 DEF Rounds
        <5>3. QED
          BY <5>2
      <4>2. QED
        BY <1>1, <2>1, <4>1
    <3>2. Len(loops) = m
      BY <2>1, <2>3, <3>1, ExceptSeq DEF m
    <3>3. \A k \in 1..m : k # m => loops[k] = in[k]
      BY <1>1, <2>3
    <3>4. loops[m] = [in[m] EXCEPT !.iter = @ + 1, !.begun = @ + goes]
      BY <1>1, <2>1, <2>3
    <3>5. loops[m].line = in[m].line /\ loops[m].iter = in[m].iter + 1
      BY <1>1, <2>1, <3>4 DEF Rounds
    <3>6. QED
      BY <3>2, <3>3, <3>5
  <2> DEFINE b == Began(f, l, a)
  <2>6. /\ Len(b) = o + m
        /\ \A k \in 1..(o + m) : k # o + m => b[k] = a[k]
        /\ b[o + m].frame = a[o + m].frame /\ b[o + m].line = a[o + m].line /\ b[o + m].iter = a[o + m].iter + 1
    <3>1. [a[o + m] EXCEPT !.iter = @ + 1] \in Actives
      <4>1. ASSUME NEW r \in Actives PROVE [r EXCEPT !.iter = @ + 1] \in Actives
        <5>1. r.iter + 1 \in Nat
          BY DEF Actives
        <5>2. [r EXCEPT !.iter = r.iter + 1] \in Actives
          BY <5>1 DEF Actives
        <5>3. QED
          BY <5>2
      <4>2. QED
        BY <1>3, <2>1, <4>1
    <3>2. Len(b) = o + m
      BY <1>2, <2>1, <2>4, <3>1, ExceptSeq
    <3>3. \A k \in 1..(o + m) : k # o + m => b[k] = a[k]
      BY <1>1, <1>2, <2>4
    <3>4. b[o + m] = [a[o + m] EXCEPT !.iter = @ + 1]
      BY <1>1, <1>2, <2>1, <2>4
    <3>5. QED
      BY <1>3, <2>1, <3>2, <3>3, <3>4 DEF Actives
  <2> HIDE DEF b
  <2>7. \A k \in 1..o : k \in 1..(o + m) /\ k # o + m
    BY <1>1, <1>6
  <2>8. \A k \in 1..m : o + k \in 1..(o + m) /\ (o + k = o + m <=> k = m)
    BY <1>1
  <2>9. \A k \in 1..o : b[k] = a[k]
    BY <2>6, <2>7
  <2>10. \A k \in 1..m : k # m => b[o + k] = a[o + k]
    BY <2>6, <2>8
  <2>11. ASSUME NEW k \in 1..m
         PROVE  b[o + k].frame = f.id /\ b[o + k].line = loops[k].line /\ b[o + k].iter = loops[k].iter
    <3>1. CASE k = m
      BY <1>2, <2>1, <2>5, <2>6, <3>1
    <3>2. CASE k # m
      BY <1>2, <2>5, <2>10, <3>2
    <3>3. QED
      BY <3>1, <3>2
  <2>12. QED
    BY <1>2, <2>5, <2>6, <2>9, <2>11, SMTT(20) DEF ActiveLike, b, o
<1>7. CASE Does(l) = "loop" /\ ~(m > 0 /\ in[m].line = l)
  <2> DEFINE r == [line |-> l, iter |-> 0, begun |-> goes]
             v == [frame |-> f.id, line |-> l, iter |-> 0]
             b == Began(f, l, a)
  <2>1. loops = Append(in, r)
    BY <1>7 DEF ExecutedLoops, m
  <2>2. ~(a # <<>> /\ Top(a).line = l)
    <3>1. ASSUME a # <<>>, m = 0 PROVE Top(a).line # l
      <4>1. o \in 1..o /\ o + m = o
        BY <1>1, <1>4, <3>1
      <4>2. QED
        BY <1>2, <4>1 DEF Top, o
    <3>2. ASSUME m # 0 PROVE Top(a).line # l
      <4>1. m \in 1..m /\ m > 0
        BY <1>1, <3>2
      <4>2. QED
        BY <1>2, <1>7, <4>1 DEF Top
    <3>3. QED
      BY <3>1, <3>2
  <2>3. b = Append(a, v)
    BY <1>7, <2>2 DEF Began
  <2>4. r \in Rounds /\ v \in Actives
    BY DEF Rounds, Actives, Frames
  <2>5. AppendIs(loops, in, r) /\ AppendIs(b, a, v)
    BY <2>1, <2>3, <2>4, AppendElements
  <2>6. r.line = l /\ r.iter = 0 /\ v.frame = f.id /\ v.line = l /\ v.iter = 0
    OBVIOUS
  <2> HIDE DEF r, v, b
  <2>7. /\ Len(loops) = m + 1 /\ \A k \in 1..m : loops[k] = in[k]
        /\ loops[m + 1] = r
        /\ Len(b) = o + m + 1 /\ \A k \in 1..(o + m) : b[k] = a[k]
        /\ b[o + m + 1] = v
    BY <1>2, <2>5 DEF AppendIs, m
  <2>8. \A k \in 1..o : k \in 1..(o + m)
    BY <1>1
  <2>9. \A k \in 1..(m + 1) : k = m + 1 \/ (k \in 1..m /\ o + k \in 1..(o + m))
    BY <1>1
  <2>10. o + m + 1 = o + (m + 1)
    BY <1>1
  <2>11. \A k \in 1..(m + 1) : /\ b[o + k].frame = f.id
                               /\ b[o + k].line = loops[k].line
                               /\ b[o + k].iter = loops[k].iter
    BY <1>2, <2>6, <2>7, <2>9, <2>10
  <2>12. \A k \in 1..o : b[k] = a[k]
    BY <2>7, <2>8
  <2>13. QED
    BY <1>2, <2>7, <2>10, <2>11, <2>12, ZenonT(40) DEF ActiveLike, b, o
<1>8. QED
  BY <1>5, <1>6, <1>7

RecordRight(r) == (r.kind = "env" => r.loops = r.really) /\ EndsRight(r)
LogRight(records) == \A i \in DOMAIN records : RecordRight(records[i])

LEMMA LogRightGrows ==
    ASSUME TypeInv, LogRight(log), NEW a \in Seq(EdgeRecords), NEW b \in Seq(EdgeRecords),
           NEW e, Grown(log', log, a, e, b), RecordRight(e),
           \A i \in 1..Len(a) : EndsRight(a[i]), \A i \in 1..Len(b) : EndsRight(b[i])
    PROVE  LogRight(log')
<1> DEFINE n == Len(log) + Len(a) + 1
<1>1. Len(log) \in Nat /\ DOMAIN log = 1..Len(log) /\ Len(a) \in Nat /\ Len(b) \in Nat
  BY TypeFacts, LenProperties
<1>2. /\ DOMAIN log' = 1..(n + Len(b)) /\ log'[n] = e
      /\ \A i \in 1..Len(log) : log'[i] = log[i]
      /\ \A i \in 1..Len(a) : log'[Len(log) + i] = a[i]
      /\ \A i \in 1..Len(b) : log'[n + i] = b[i]
  BY DEF Grown
<1>3. \A i \in 1..Len(a) : RecordRight(a[i])
  <2>1. \A i \in 1..Len(a) : a[i].kind # "env"
    BY ElementOfSeq DEF EdgeRecords
  <2>2. QED
    BY <2>1 DEF RecordRight
<1>4. \A i \in 1..Len(b) : RecordRight(b[i])
  <2>1. \A i \in 1..Len(b) : b[i].kind # "env"
    BY ElementOfSeq DEF EdgeRecords
  <2>2. QED
    BY <2>1 DEF RecordRight
<1>5. ASSUME NEW i \in 1..(n + Len(b)) PROVE RecordRight(log'[i])
  <2>1. CASE i \in 1..Len(log)
    BY <1>1, <1>2, <2>1 DEF LogRight
  <2>2. CASE i \in (Len(log) + 1)..(Len(log) + Len(a))
    <3>1. i - Len(log) \in 1..Len(a) /\ i = Len(log) + (i - Len(log))
      BY <1>1, <2>2
    <3>2. QED
      BY <1>2, <1>3, <3>1
  <2>3. CASE i = n
    BY <1>2, <2>3
  <2>4. CASE i \in (n + 1)..(n + Len(b))
    <3>1. i - n \in 1..Len(b) /\ i = n + (i - n)
      BY <1>1, <2>4
    <3>2. QED
      BY <1>2, <1>4, <3>1
  <2>5. i \in 1..Len(log) \/ i \in (Len(log) + 1)..(Len(log) + Len(a)) \/ i = n \/ i \in (n + 1)..(n + Len(b))
    BY <1>1
  <2>6. QED
    BY <2>1, <2>2, <2>3, <2>4, <2>5
<1>6. QED
  BY <1>2, <1>5 DEF LogRight

(* user_line records the environment with the loops the program is really in. *)
LEMMA LineRight ==
    ASSUME TypeInv, LineStep, Followed, CallStack(stack), Recorded, ActiveIs, LogRight(log)
    PROVE  LogRight(log')
<1> DEFINE f == Top(stack)
           l == Top(stack).next
<1>1. f \in Frames /\ f.outer \in Seq(Places) /\ StillIn(f, l) \in Seq(Rounds) /\ Kept \in Seq(Actives)
  BY LineFrame, StillInIs DEF Frames, LineStep
<1>2. ActiveLike(Kept, f.id, f.outer, StillIn(f, l)) /\ \A i \in 1..Len(Ends) : EndsRight(Ends[i])
  BY KeptIs
<1>3. Iterations(Kept) = f.outer \o Iterations(StillIn(f, l))
  BY <1>1, <1>2, ActiveIterations
<1>4. RecordRight(LineEnv)
  <2>1. LineEnv.loops = Iterations(Kept) /\ LineEnv.really = TrueLoops(f, l) /\ LineEnv.kind = "env"
    BY DEF LineEnv, Env
  <2>2. LineEnv.loops = LineEnv.really
    BY <1>3, <2>1 DEF TrueLoops
  <2>3. QED
    BY <2>1, <2>2 DEF RecordRight, EndsRight
<1> DEFINE b == BeginRecord(l, Kept, active')
<1>5. \A i \in 1..Len(b) : EndsRight(b[i])
  <2>1. CASE b = <<>>
    <3>1. Len(b) = 0
      BY <2>1, EmptySeq
    <3>2. QED
      BY <3>1
  <2>2. CASE b = <<[kind |-> "begin", line |-> l, iter |-> 0]>>
    <3>1. Len(b) = 1 /\ b[1].kind = "begin"
      BY <2>2
    <3>2. \A i \in 1..1 : i = 1
      OBVIOUS
    <3>3. QED
      BY <3>1, <3>2 DEF EndsRight
  <2>3. QED
    BY <2>1, <2>2 DEF BeginRecord
<1>6. QED
  BY <1>2, <1>4, <1>5, LogRightGrows DEF LineStep

(* The frame that is on top after a line is in the loops that are active then. *)
LEMMA LineActive ==
    ASSUME TypeInv, LineStep, Followed, CallStack(stack), Recorded, ActiveIs
    PROVE  ActiveLike(active', Top(stack').id, Top(stack').outer, Top(stack').loops)
<1> DEFINE f == Top(stack)
           l == Top(stack).next
           in == StillIn(f, l)
<1>1. /\ f \in Frames /\ FrameInv(f) /\ stack # <<>> /\ f.next # 0 /\ l \in Nat /\ l \in DOMAIN program
      /\ Kept \in Seq(Actives) /\ in \in Seq(Rounds) /\ program \in Programs
      /\ active' = Began(f, l, Kept)
  <2>1. f \in Frames /\ stack # <<>> /\ l \in Nat \ {0} /\ l \in DOMAIN program /\ program \in Programs
    BY LineFrame, TypeFacts
  <2>2. FrameInv(f)
    BY <2>1, CallStackFacts
  <2>3. Kept \in Seq(Actives) /\ active' = Began(f, l, Kept)
    BY DEF LineStep
  <2>4. in \in Seq(Rounds)
    BY <2>1, StillInIs
  <2> HIDE DEF f, l, in
  <2>5. l \in Nat /\ f.next # 0
    BY <2>1 DEF f, l
  <2>6. QED
    BY <2>1, <2>2, <2>3, <2>4, <2>5
<1>2. ActiveLike(Kept, f.id, f.outer, in)
  BY KeptIs
<1>3. \A k \in 1..Len(f.outer) : f.outer[k].line # l
  BY <1>1, OuterElsewhere, NextInRegion DEF FrameInv
<1>4. ASSUME NEW n \in Nat, NEW e, IsExecuted(e, f, l, n)
      PROVE  ActiveLike(active', e.id, e.outer, e.loops)
  <2> DEFINE goes == IF n = l + 1 THEN 1 ELSE 0
  <2>1. ExecutedLoops(in, l, goes, e.loops) /\ goes \in Nat /\ e.id = f.id /\ e.outer = f.outer
    BY <1>4 DEF IsExecuted
  <2> HIDE DEF goes
  <2>2. ActiveLike(Began(f, l, Kept), f.id, f.outer, e.loops)
    BY <1>1, <1>2, <1>3, <2>1, BeganIs
  <2>3. QED
    BY <1>1, <2>1, <2>2
<1>5. ASSUME NEW n \in Nat, Goes(n) PROVE ActiveLike(active', Top(stack').id, Top(stack').outer, Top(stack').loops)
  <2>1. IsExecuted(Top(stack'), f, l, n)
    BY <1>5, LineFrame DEF Goes, Replaced
  <2>2. QED
    BY <1>4, <2>1
<1>6. ASSUME NEW k \in Nat, Throws(k) PROVE ActiveLike(active', Top(stack').id, Top(stack').outer, Top(stack').loops)
  <2> DEFINE e == Executed(f, l, 0)
  <2>1. IsExecuted(e, f, l, 0) /\ e \in Frames
    BY LineFrame DEF IsExecuted
  <2>2. Top(stack') = Thrown(e)
    BY <1>6 DEF Throws, Top
  <2> HIDE DEF e
  <2>3. Top(stack').id = e.id /\ Top(stack').outer = e.outer /\ Top(stack').loops = e.loops
    BY <2>1, <2>2, ThrownType
  <2>4. QED
    BY <1>4, <2>1, <2>3
<1>7. ASSUME NEW d \in Nat, Calls(d) PROVE ActiveLike(active', Top(stack').id, Top(stack').outer, Top(stack').loops)
  <2>1. Top(stack') = Callee(d)
    BY <1>7 DEF Calls, Top
  <2>2. /\ Top(stack').loops = <<>> /\ Top(stack').outer = Caller.outer \o Iterations(Caller.loops)
        /\ Caller \in Frames
    <3>1. Caller \in Frames
      BY <1>7 DEF Calls
    <3>2. Callee(d).loops = <<>> /\ Callee(d).outer = Caller.outer \o Iterations(Caller.loops)
      BY DEF Callee, NewFrame
    <3>3. QED
      BY <2>1, <3>1, <3>2
  <2>3. ActiveLike(active', Caller.id, Caller.outer, Caller.loops)
    <3>1. IsExecuted(Caller, f, l, After(l)) /\ After(l) \in Nat
      BY CallerIs, LineFrame
    <3>2. QED
      BY <1>4, <3>1
  <2> DEFINE c == Caller
             o == Len(c.outer)
             n == Len(c.loops)
             t == Iterations(c.loops)
             u == Top(stack').outer
  <2>4. c.outer \in Seq(Places) /\ c.loops \in Seq(Rounds) /\ o \in Nat /\ n \in Nat
    BY <2>2, LenProperties DEF Frames
  <2>5. /\ t \in Seq(Places) /\ Len(t) = n
        /\ \A i \in 1..n : t[i] = [line |-> c.loops[i].line, iter |-> c.loops[i].iter]
    BY <2>4, IterationsIs, RoundsHaveNumbers
  <2>6. ConcatIs(u, c.outer, t)
    BY <2>2, <2>4, <2>5, ConcatElements
  <2>7. c.id = 0 \/ n = 0
    <3>1. CASE Len(stack) = 1
      BY <1>1, <3>1, CallStackFacts, CallerIs DEF IsExecuted
    <3>2. CASE Len(stack) # 1
      <4>1. CallStack(stack') /\ Len(stack) \in Nat \ {0} /\ Len(stack') = Len(stack) + 1 /\ stack'[Len(stack)] = c
        BY <1>1, <1>7, CallStackFacts, CallCalls DEF Calls
      <4>2. c.name \in Defs /\ c.at \in Region(c.name) /\ Does(c.at) = "call" /\ OwnLoops(c)
        <5>1. c.name = f.name /\ c.at = l /\ Does(l) = "call"
          BY <1>7, CallerIs DEF IsExecuted, Calls
        <5>2. f.name \in Defs /\ l \in Region(f.name)
          BY <1>1, <3>2, CallStackFacts, NextInRegion DEF FrameInv
        <5>3. OwnLoops(c)
          BY <1>1, CallerIs, LineFrame, ExecutedFrame
        <5>4. QED
          BY <5>1, <5>2, <5>3
      <4>3. c.loops = <<>>
        BY <1>1, <2>2, <4>2, OutsideLoops
      <4>4. QED
        BY <4>3, EmptySeq
    <3>3. QED
      BY <3>1, <3>2
  <2> HIDE DEF c, o, n, t, u
  <2>8. /\ Len(active') = o + n
        /\ \A k \in 1..o : active'[k].frame = 0 /\ active'[k].line = c.outer[k].line /\ active'[k].iter = c.outer[k].iter
        /\ \A k \in 1..n : /\ active'[o + k].frame = c.id
                           /\ active'[o + k].line = c.loops[k].line
                           /\ active'[o + k].iter = c.loops[k].iter
    BY <2>3 DEF ActiveLike, c, o, n
  <2>9. /\ Len(u) = o + n
        /\ \A k \in 1..o : u[k] = c.outer[k]
        /\ \A k \in 1..n : u[o + k] = t[k]
    BY <2>5, <2>6 DEF ConcatIs, o
  <2>10. \A k \in 1..n : c.id = 0 /\ active'[o + k].frame = 0 /\ active'[o + k].line = u[o + k].line /\ active'[o + k].iter = u[o + k].iter
    <3>1. \A k \in 1..n : c.id = 0
      BY <2>4, <2>7
    <3>2. QED
      BY <2>5, <2>8, <2>9, <3>1
  <2>11. \A k \in 1..(o + n) : k \in 1..o \/ (k - o \in 1..n /\ k = o + (k - o))
    BY <2>4
  <2>12. \A k \in 1..(o + n) : active'[k].frame = 0 /\ active'[k].line = u[k].line /\ active'[k].iter = u[k].iter
    BY <2>8, <2>9, <2>10, <2>11
  <2>13. Len(<<>>) = 0
    BY EmptySeq
  <2>14. Len(u) = Len(u) + 0
    BY <2>4, <2>9
  <2>15. ActiveLike(active', Top(stack').id, u, <<>>)
    <3>1. \A k \in 1..0 : FALSE
      OBVIOUS
    <3>2. QED
      BY <2>8, <2>9, <2>12, <2>13, <2>14, <3>1 DEF ActiveLike
  <2>16. QED
    BY <2>2, <2>15 DEF u
<1>8. QED
  BY <1>5, <1>6, <1>7 DEF LineStep

LEMMA LogNotEmpty ==
    ASSUME TypeInv, log' \in Seq(Records), NEW a \in Seq(EdgeRecords), NEW b \in Seq(EdgeRecords), NEW e,
           Grown(log', log, a, e, b)
    PROVE  log' # <<>>
<1>1. Len(log) \in Nat /\ Len(a) \in Nat /\ Len(b) \in Nat
  BY TypeFacts, LenProperties
<1>2. Len(log') = Len(log) + Len(a) + 1 + Len(b)
  BY DEF Grown
<1>3. Len(log') # 0
  BY <1>1, <1>2
<1>4. QED
  BY <1>3, EmptySeq

LEMMA LineRecorded ==
    ASSUME TypeInv, LineStep
    PROVE  Recorded'
<1> DEFINE f == Top(stack)
           l == Top(stack).next
<1>1. PrevEnv' = LineEnv /\ log' # <<>>
  BY EnvsGrow, LogNotEmpty, TypeFacts DEF LineStep
<1>2. LineEnv.line = l /\ LineEnv.name = f.name
  BY DEF LineEnv, Env
<1>3. ASSUME NEW n \in Nat, Goes(n) PROVE Recorded'
  <2>1. IsExecuted(Top(stack'), f, l, n)
    BY <1>3, LineFrame DEF Goes, Replaced
  <2>2. Top(stack').at = l /\ Top(stack').name = f.name
    BY <2>1 DEF IsExecuted
  <2>3. QED
    BY <1>1, <1>2, <2>2 DEF Recorded
<1>4. ASSUME NEW d \in Nat, Calls(d) PROVE Recorded'
  <2>1. Top(stack') = Callee(d)
    BY <1>4 DEF Calls, Top
  <2>2. Top(stack').loops = <<>>
    BY <2>1 DEF Callee, NewFrame
  <2>3. QED
    BY <2>2 DEF Recorded
<1>5. ASSUME NEW k \in Nat, Throws(k) PROVE Recorded'
  <2>1. Top(stack') = Thrown(Executed(f, l, 0))
    BY <1>5 DEF Throws, Top
  <2>2. Executed(f, l, 0) \in Frames
    BY LineFrame DEF IsExecuted
  <2>3. Top(stack').next = 0
    BY <2>1, <2>2, ThrownType
  <2>4. QED
    BY <2>3 DEF Recorded
<1>6. QED
  BY <1>3, <1>4, <1>5 DEF LineStep

(* What a return leaves is what the caller is in. *)
LEMMA ReturnEnds ==
    ASSUME TypeInv, ReturnStep, Followed, CallStack(stack), ActiveIs
    PROVE  /\ Ending(Top(stack), Top(stack).at, ReturnEnv) = 0
           /\ active' = active
           /\ Len(EndRecords(Top(stack), Top(stack).at, ReturnEnv)) = 0
           /\ StillIn(Top(stack), Top(stack).at) = Top(stack).loops
<1> DEFINE f == Top(stack)
           l == Top(stack).at
           n == Len(f.loops)
<1>1. /\ f \in Frames /\ FrameInv(f) /\ stack # <<>> /\ f.next = 0 /\ program \in Programs
      /\ active' = StayActive(f, f.at, ReturnEnv)
  <2>1. stack # <<>> /\ f.next = 0 /\ active' = StayActive(f, f.at, ReturnEnv) /\ f \in Frames
    BY DEF ReturnStep, Running
  <2>2. Len(stack) \in 1..Len(stack) /\ f = stack[Len(stack)]
    BY <2>1, CallStackFacts, Indexes
  <2>3. QED
    BY <2>1, <2>2, CallStackFacts, TypeFacts
<1>2. ActiveLike(active, f.id, f.outer, f.loops)
  BY <1>1 DEF ActiveIs
<1>3. f.loops \in Seq(Rounds) /\ n \in Nat /\ \A j \in 1..n : InLoop(f.loops[j].line, l)
  BY <1>1, FrameLoops DEF FrameInv
<1>4. StillIn(f, l) = f.loops
  <2>1. /\ StillIn(f, l) = SubSeq(f.loops, 1, Greatest(Leading(f, l)))
        /\ Leading(f, l) \in SUBSET (0..n)
    BY <1>1, StillInIs DEF Leading
  <2>2. n \in Leading(f, l)
    BY <1>3 DEF Leading, InLoop
  <2>3. Leading(f, l) \in SUBSET Nat /\ \A y \in Leading(f, l) : y <= n
    BY <1>3, <2>1
  <2>4. Greatest(Leading(f, l)) = n
    BY <2>2, <2>3, GreatestIs
  <2>5. QED
    BY <1>3, <2>1, <2>4, WholePrefix
<1>5. Ending(f, l, ReturnEnv) = 0
  <2>1. CASE f.loops = <<>>
    <3>1. f.outer = <<>> \/ f.id # 0
      BY <1>1, CallStackFacts
    <3>2. QED
      BY <1>1, <1>2, <2>1, <3>1, NoOwnActive
  <2>2. CASE f.loops # <<>>
    <3>1. Top(active).line = Innermost0(f)
      BY <1>1, <1>2, <2>2, OwnActive
    <3>2. Does(l) # "return" /\ l \in DOMAIN program
      BY <1>1, <2>2, NoReturnInLoop
    <3>3. ReturnEnv.line = l
      BY DEF ReturnEnv, Env
    <3>4. n \in 1..n /\ Innermost0(f) \in DOMAIN program /\ InLoop(Innermost0(f), l)
      <4>1. n \in 1..n
        BY <1>1, <2>2, FrameLoops, Indexes DEF FrameInv
      <4>2. QED
        BY <1>1, <1>3, <4>1, FrameLoops DEF FrameInv, Innermost0
    <3>5. l = Innermost0(f) \/ Indent(l) > Indent(Innermost0(f))
      BY <1>1, <3>4, BodyBounds DEF InLoop
    <3>6. Indent(l) \in Nat /\ Indent(Innermost0(f)) \in Nat
      BY <1>1, <3>2, <3>4, ProgramFacts
    <3> HIDE DEF f, l
    <3>7. ~Outside(l) /\ ~Returned(f, ReturnEnv)
      BY <3>1, <3>2, <3>3, <3>5, <3>6 DEF Outside, Returned
    <3>8. QED
      BY <3>7 DEF Ending
  <2>3. QED
    BY <2>1, <2>2
<1>6. active' = active
  <2>1. active' = SubSeq(active, 1, Len(active) - 0) /\ active \in Seq(Actives) /\ Len(active) \in Nat
    BY <1>1, <1>5, TypeFacts DEF StayActive
  <2>2. QED
    BY <2>1, WholePrefix
<1>7. Len(EndRecords(f, l, ReturnEnv)) = 0
  BY <1>1, <1>5, EndRecordsIs
<1>8. QED
  BY <1>4, <1>5, <1>6, <1>7

LEMMA ReturnRight ==
    ASSUME TypeInv, ReturnStep, Followed, CallStack(stack), ActiveIs, LogRight(log)
    PROVE  LogRight(log')
<1> DEFINE f == Top(stack)
           b == EndRecords(f, f.at, ReturnEnv)
<1>1. f \in Frames /\ f.outer \in Seq(Places) /\ f.loops \in Seq(Rounds) /\ stack # <<>> /\ active \in Seq(Actives)
  BY TypeFacts DEF ReturnStep, Running, Frames
<1>2. Iterations(active) = f.outer \o Iterations(f.loops)
  BY <1>1, ActiveIterations DEF ActiveIs
<1>3. StillIn(f, f.at) = f.loops /\ Len(b) = 0
  BY ReturnEnds
<1>4. RecordRight(ReturnEnv)
  <2>1. ReturnEnv.loops = Iterations(active) /\ ReturnEnv.really = TrueLoops(f, f.at) /\ ReturnEnv.kind = "env"
    BY DEF ReturnEnv, Env
  <2>2. ReturnEnv.loops = ReturnEnv.really
    BY <1>2, <1>3, <2>1 DEF TrueLoops
  <2>3. QED
    BY <2>1, <2>2 DEF RecordRight, EndsRight
<1>5. (\A i \in 1..Len(<<>>) : EndsRight(<<>>[i])) /\ \A i \in 1..Len(b) : EndsRight(b[i])
  <2>1. Len(<<>>) = 0 /\ \A i \in 1..0 : FALSE
    BY EmptySeq
  <2>2. QED
    BY <1>3, <2>1
<1>6. QED
  BY <1>4, <1>5, LogRightGrows DEF ReturnStep

LEMMA ReturnActive ==
    ASSUME TypeInv, ReturnStep, Followed, CallStack(stack), ActiveIs, stack' # <<>>
    PROVE  /\ ActiveLike(active', Top(stack').id, Top(stack').outer, Top(stack').loops)
           /\ Top(stack').loops # <<>> => Does(Top(stack').at) = "call" /\ Top(stack').name = 0
           /\ Top(stack).name # 0
<1> DEFINE m == Len(stack)
           f == Top(stack)
           g == stack[m - 1]
<1>1. stack # <<>> /\ m \in Nat \ {0} /\ f \in Frames /\ Len(stack') = m - 1
      /\ \A i \in 1..(m - 1) : stack'[i] = stack[i]
  BY TopType DEF ReturnStep, Running
<1>2. m - 1 # 0 /\ m # 1
  <2>1. Len(stack') # 0
    BY EmptySeq DEF ReturnStep
  <2>2. QED
    BY <1>1, <2>1
<1>3. ActiveLike(active, f.id, f.outer, f.loops) /\ active' = active
  BY <1>1, ReturnEnds DEF ActiveIs
<1>4. /\ f.id # 0 /\ f.name \in Defs /\ f.name # 0 /\ f.outer = Outer(stack)
      /\ FrameInv(f) /\ f.next = 0
  <2>1. f.next = 0 /\ m \in 1..m /\ f = stack[m]
    BY <1>1, CallStackFacts, Indexes DEF ReturnStep
  <2>2. QED
    BY <1>1, <1>2, <2>1, CallStackFacts
<1>5. f.loops = <<>>
  BY <1>4 DEF FrameInv, Placed
<1>6. Top(stack') = g /\ m - 1 \in 1..(m - 1) /\ m - 1 \in 1..m
  BY <1>1, <1>2 DEF Top
<1>7. g \in Frames
  BY <1>6, TypeFacts
<1>8. g.at \in Region(g.name) /\ Does(g.at) = "call"
  BY <1>1, <1>6 DEF CallStack
<1>9. f.outer = Iterations(stack[1].loops) /\ stack[1].loops \in Seq(Rounds)
  <2>1. stack[1] \in Frames
    BY <1>1, CallStackFacts
  <2>2. QED
    BY <1>4, <2>1 DEF Outer, Frames
<1>10. CASE m - 1 = 1
  <2>1. g = stack[1] /\ g.id = 0 /\ g.name = 0 /\ g.outer = <<>>
    BY <1>1, <1>10, CallStackFacts
  <2> DEFINE n == Len(g.loops)
  <2>2. /\ Len(f.outer) = n /\ n \in Nat
        /\ \A i \in 1..n : f.outer[i] = [line |-> g.loops[i].line, iter |-> g.loops[i].iter]
    <3>1. PICK loops \in Seq(Rounds) : loops = g.loops /\ f.outer = Iterations(loops)
      BY <1>9, <2>1
    <3>2. Len(loops) \in Nat
      BY LenProperties
    <3>3. /\ Len(Iterations(loops)) = Len(loops)
          /\ \A i \in 1..Len(loops) : Iterations(loops)[i] = [line |-> loops[i].line, iter |-> loops[i].iter]
      BY IterationsIs, RoundsHaveNumbers
    <3> HIDE DEF f, g
    <3>4. QED
      BY <3>1, <3>2, <3>3
  <2> HIDE DEF f, g, n
  <2>3. Len(f.loops) = 0 /\ Len(g.outer) = 0
    BY <1>5, <2>1, EmptySeq
  <2>4. \A k \in 1..n : f.outer[k].line = g.loops[k].line /\ f.outer[k].iter = g.loops[k].iter
    <3>1. ASSUME NEW k \in 1..n
          PROVE  f.outer[k].line = g.loops[k].line /\ f.outer[k].iter = g.loops[k].iter
      <4>1. f.outer[k] = [line |-> g.loops[k].line, iter |-> g.loops[k].iter]
        BY <2>2
      <4>2. QED
        BY <4>1
    <3>2. QED
      BY <3>1
  <2>5. Len(active) = n /\ \A k \in 1..n : active[k].frame = 0 /\ active[k].line = g.loops[k].line /\ active[k].iter = g.loops[k].iter
    <3>1. Len(active) = n + 0 /\ \A k \in 1..n : active[k].frame = 0 /\ active[k].line = f.outer[k].line /\ active[k].iter = f.outer[k].iter
      BY <1>3, <2>2, <2>3 DEF ActiveLike
    <3>2. QED
      BY <2>2, <2>4, <3>1
  <2>6. ActiveLike(active, g.id, g.outer, g.loops)
    <3>1. 0 + n = n /\ \A k \in 1..n : 0 + k = k
      BY <2>2
    <3>2. \A k \in 1..0 : FALSE
      OBVIOUS
    <3>3. QED
      BY <2>1, <2>3, <2>5, <3>1, <3>2 DEF ActiveLike, n
  <2>7. QED
    BY <1>3, <1>4, <1>6, <1>8, <2>1, <2>6 DEF f, g
<1>11. CASE m - 1 # 1
  <2>1. m - 1 \in 2..m /\ m - 1 # m
    BY <1>1, <1>2, <1>11
  <2>2. g.id # 0 /\ g.name \in Defs /\ g.outer = Outer(stack)
    BY <1>1, <2>1 DEF CallStack
  <2>3. g.loops = <<>>
    BY <2>1, CallersOutside
  <2>4. Len(f.loops) = 0 /\ Len(g.loops) = 0
    BY <1>5, <2>3, EmptySeq
  <2> HIDE DEF f, g
  <2>5. ActiveLike(active, g.id, g.outer, g.loops)
    <3>1. \A k \in 1..0 : FALSE
      OBVIOUS
    <3>2. QED
      BY <1>3, <1>4, <2>2, <2>4, <3>1 DEF ActiveLike
  <2>6. QED
    BY <1>3, <1>4, <1>6, <2>3, <2>5 DEF f, g
<1>12. QED
  BY <1>10, <1>11

LEMMA ReturnRecorded ==
    ASSUME TypeInv, ReturnStep, Followed, CallStack(stack), ActiveIs
    PROVE  Recorded'
<1> SUFFICES ASSUME stack' # <<>>, Top(stack').loops # <<>>
             PROVE  /\ log' # <<>>
                    /\ Does(Top(stack).at)' = "call" /\ Top(stack').name = 0 /\ PrevEnv'.name # 0
  BY DEF Recorded
<1>1. PrevEnv' = ReturnEnv /\ log' # <<>>
  BY EnvsGrow, LogNotEmpty, TypeFacts DEF ReturnStep
<1>2. ReturnEnv.name = Top(stack).name
  BY DEF ReturnEnv, Env
<1>3. Does(Top(stack').at) = "call" /\ Top(stack').name = 0 /\ Top(stack).name # 0
  BY ReturnActive
<1>4. program' = program
  BY DEF ReturnStep
<1>5. Does(Top(stack).at)' = "call"
  BY <1>3, <1>4 DEF Does
<1>6. QED
  BY <1>1, <1>2, <1>3, <1>5

LoopsInv ==
    Followed =>
        /\ CallStack(stack)
        /\ ActiveIs
        /\ Recorded
        /\ LogRight(log)

LEMMA SameProgram ==
    ASSUME program' = program
    PROVE  /\ Followed' <=> Followed
           /\ CallStack(stack)' <=> CallStack(stack')
<1>1. Followed' <=> Followed
  BY DEF Followed, LoopsOfFunction, Around, Does, Body, BodyOf, After, Innermost, Greatest
<1>2. CallStack(stack)' <=> CallStack(stack')
  BY DEF CallStack, Outer, FrameInv, Placed, OwnLoops, RoundsBegun, LoopsAt, Region, Defs, Successors,
         Around, Does, Body, BodyOf, After, Innermost, Greatest, Iterations
<1>3. QED
  BY <1>1, <1>2

LEMMA LoopsNext == TypeInv /\ LoopsInv /\ [Next]_vars => LoopsInv'
<1> SUFFICES ASSUME TypeInv, LoopsInv, [Next]_vars PROVE LoopsInv'
  OBVIOUS
<1>1. program' = program
  BY DEF Next, UserLine, UserReturn, vars
<1>2. SUFFICES ASSUME Followed PROVE CallStack(stack') /\ ActiveIs' /\ Recorded' /\ LogRight(log')
  <2>1. LogRight(log)' <=> LogRight(log')
    BY DEF LogRight, RecordRight, EndsRight
  <2>2. QED
    BY <1>1, <2>1, SameProgram DEF LoopsInv
<1>3. CallStack(stack) /\ ActiveIs /\ Recorded /\ LogRight(log)
  BY <1>2 DEF LoopsInv
<1>4. CASE UserLine
  <2>1. LineStep
    BY <1>4, LineStepIs
  <2>2. CallStack(stack')
    BY <1>2, <1>3, <2>1, CallGoes, CallCalls, CallThrows DEF LineStep
  <2>3. ActiveIs'
    BY <1>2, <1>3, <2>1, LineActive DEF ActiveIs
  <2>4. Recorded' /\ LogRight(log')
    BY <1>2, <1>3, <2>1, LineRecorded, LineRight
  <2>5. QED
    BY <2>2, <2>3, <2>4
<1>5. CASE UserReturn
  <2>1. ReturnStep
    BY <1>5, ReturnStepIs
  <2>2. CallStack(stack')
    BY <1>3, <2>1, CallReturns
  <2>3. ActiveIs'
    BY <1>2, <1>3, <2>1, ReturnActive DEF ActiveIs
  <2>4. Recorded' /\ LogRight(log')
    BY <1>2, <1>3, <2>1, ReturnRecorded, ReturnRight
  <2>5. QED
    BY <2>2, <2>3, <2>4
<1>6. CASE UNCHANGED vars
  <2>1. program' = program /\ stack' = stack /\ active' = active /\ log' = log
    BY <1>6 DEF vars
  <2>2. ActiveIs'
    BY <1>3, <2>1 DEF ActiveIs
  <2>3. Recorded'
    BY <1>3, <2>1 DEF Recorded, PrevEnv, Envs, Does
  <2>4. QED
    BY <1>3, <2>1, <2>2, <2>3
<1>7. QED
  BY <1>4, <1>5, <1>6 DEF Next

LEMMA LoopsInit == Init => LoopsInv
<1> SUFFICES ASSUME Init PROVE LoopsInv
  OBVIOUS
<1>1. /\ stack = <<NewFrame(0, 0, <<>>)>> /\ Len(stack) = 1 /\ stack[1] = NewFrame(0, 0, <<>>)
      /\ active = <<>> /\ log = <<>> /\ program \in Programs /\ stack # <<>>
  BY DEF Init
<1>2. FrameInv(stack[1])
  BY <1>1, NewFrameIs
<1>3. stack[1].id = 0 /\ stack[1].name = 0 /\ stack[1].outer = <<>> /\ stack[1].loops = <<>>
  BY <1>1 DEF NewFrame
<1>4. Top(stack) = stack[1]
  BY <1>1 DEF Top
<1>5. (\A i \in 2..1 : FALSE) /\ (\A i \in 1..(1 - 1) : FALSE) /\ (\A i \in 1..1 : i = 1) /\ (\A i \in 1..0 : FALSE)
  OBVIOUS
<1>6. CallStack(stack)
  BY <1>1, <1>2, <1>3, <1>5 DEF CallStack
<1>7. ActiveIs
  <2>1. Len(<<>>) = 0 /\ 0 = 0 + 0
    BY EmptySeq
  <2>2. QED
    BY <1>1, <1>3, <1>4, <1>5, <2>1 DEF ActiveIs, ActiveLike
<1>8. Recorded
  BY <1>3, <1>4 DEF Recorded
<1>9. LogRight(log)
  <2>1. DOMAIN log = {}
    BY <1>1
  <2>2. QED
    BY <2>1 DEF LogRight
<1>10. QED
  BY <1>6, <1>7, <1>8, <1>9 DEF LoopsInv

LEMMA LoopsAlways == Spec => [](TypeInv /\ LoopsInv)
<1>1. TypeInv /\ LoopsInv /\ [Next]_vars => (TypeInv /\ LoopsInv)'
  BY TypeNext, LoopsNext
<1>2. QED
  BY <1>1, TypeInit, LoopsInit, PTL DEF Spec

(* However the loops of a program are nested, left by break, gone round or    *)
(* called out of, its environments are recorded with the loops it is really   *)
(* in and their iterations, and a loop ends with as many rounds as it began:  *)
(* what the logger finds out from the indentation and the words of lines is   *)
(* right for every program it can follow.                                     *)
THEOREM IterationsAreTrue == Spec => []TrueIterations
<1>1. LoopsInv => TrueIterations
  <2> SUFFICES ASSUME LoopsInv, Followed
               PROVE  /\ \A i \in Envs : log[i].loops = log[i].really
                      /\ \A i \in DOMAIN log : log[i].kind = "end" => log[i].begun = {log[i].iter}
    BY DEF TrueIterations
  <2>1. \A i \in DOMAIN log : RecordRight(log[i])
    BY DEF LoopsInv, LogRight
  <2>2. QED
    BY <2>1 DEF RecordRight, EndsRight, Envs
<1>2. QED
  BY <1>1, LoopsAlways, PTL

-----------------------------------------------------------------------------
(***************************************************************************)
(* What is shown.  The record a frame made last is of the line it executed *)
(* last, and but for the header of a loop it has the iterations the frame  *)
(* is still in; the next record of the frame is of where it goes on.       *)
(***************************************************************************)

IsEnv(records, i) == i \in DOMAIN records /\ records[i].kind = "env"

LastIn(records, i, id) ==
    /\ IsEnv(records, i) /\ records[i].frame = id
    /\ \A j \in DOMAIN records : IsEnv(records, j) /\ j > i => records[j].frame # id

LoggedIn(records, f) ==
    /\ f.at = f.name => \A i \in DOMAIN records : IsEnv(records, i) => records[i].frame # f.id
    /\ f.at # f.name => \E i \in DOMAIN records :
          /\ LastIn(records, i, f.id) /\ records[i].line = f.at
          /\ Does(f.at) # "loop" => records[i].loops = f.outer \o Iterations(f.loops)

LEMMA EnvsAre ==
    ASSUME TypeInv, NEW a \in Seq(EdgeRecords), NEW b \in Seq(EdgeRecords),
           NEW e \in EnvRecords, Grown(log', log, a, e, b), NEW n, n = Len(log) + Len(a) + 1
    PROVE  /\ \A i : IsEnv(log', i) <=> IsEnv(log, i) \/ i = n
           /\ \A i : IsEnv(log, i) => i \in 1..Len(log) /\ i < n /\ log'[i] = log[i] /\ i \in DOMAIN log'
           /\ n \in DOMAIN log' /\ log'[n] = e /\ n \in Nat
<1>1. Envs' = Envs \cup {n} /\ n \in DOMAIN log'
  BY EnvsGrow, TypeFacts
<1>2. Len(log) \in Nat /\ DOMAIN log = 1..Len(log) /\ Len(a) \in Nat
  BY TypeFacts, LenProperties
<1>3. log'[n] = e /\ \A i \in 1..Len(log) : log'[i] = log[i]
  BY DEF Grown
<1>4. \A i : (IsEnv(log', i) <=> i \in Envs') /\ (IsEnv(log, i) <=> i \in Envs)
  BY DEF IsEnv, Envs
<1>5. \A i : IsEnv(log, i) => i \in 1..Len(log) /\ i < n
  <2>1. \A i \in 1..Len(log) : i < n
    BY <1>2
  <2>2. QED
    BY <1>2, <2>1 DEF IsEnv
<1>6. \A i : IsEnv(log, i) => log'[i] = log[i]
  BY <1>3, <1>5
<1>7. n \in Nat
  BY <1>2
<1>8. \A i : IsEnv(log', i) <=> IsEnv(log, i) \/ i = n
  BY <1>1, <1>4
<1>9. \A i : IsEnv(log, i) => i \in DOMAIN log'
  BY <1>8 DEF IsEnv
<1>10. QED
  BY <1>1, <1>3, <1>5, <1>6, <1>7, <1>8, <1>9

LEMMA LoggedGrows ==
    ASSUME TypeInv, NEW a \in Seq(EdgeRecords), NEW b \in Seq(EdgeRecords),
           NEW e \in EnvRecords, Grown(log', log, a, e, b),
           NEW f, LoggedIn(log, f), e.frame # f.id
    PROVE  LoggedIn(log', f)
<1>1. PICK n : n = Len(log) + Len(a) + 1
  OBVIOUS
<1>2. /\ \A i : IsEnv(log', i) <=> IsEnv(log, i) \/ i = n
      /\ \A i : IsEnv(log, i) => log'[i] = log[i] /\ i \in DOMAIN log'
      /\ log'[n] = e
  BY <1>1, EnvsAre
<1>3. ASSUME f.at = f.name, NEW i, IsEnv(log', i) PROVE log'[i].frame # f.id
  BY <1>2, <1>3 DEF LoggedIn, IsEnv
<1>4. ASSUME f.at # f.name
      PROVE  \E i \in DOMAIN log' :
                /\ LastIn(log', i, f.id) /\ log'[i].line = f.at
                /\ Does(f.at) # "loop" => log'[i].loops = f.outer \o Iterations(f.loops)
  <2>1. PICK i \in DOMAIN log :
           /\ LastIn(log, i, f.id) /\ log[i].line = f.at
           /\ Does(f.at) # "loop" => log[i].loops = f.outer \o Iterations(f.loops)
    BY <1>4 DEF LoggedIn
  <2>2. IsEnv(log, i) /\ log'[i] = log[i] /\ i \in DOMAIN log'
    BY <1>2, <2>1 DEF LastIn
  <2>3. LastIn(log', i, f.id)
    <3>1. ASSUME NEW j, IsEnv(log', j), j > i PROVE log'[j].frame # f.id
      <4>1. CASE j = n
        BY <1>2, <4>1
      <4>2. CASE IsEnv(log, j)
        BY <1>2, <2>1, <3>1, <4>2 DEF LastIn, IsEnv
      <4>3. QED
        BY <1>2, <3>1, <4>1, <4>2
    <3>2. QED
      BY <1>2, <2>1, <2>2, <3>1 DEF LastIn
  <2>4. QED
    BY <2>1, <2>2, <2>3
<1>5. QED
  BY <1>3, <1>4 DEF LoggedIn

LEMMA LoggedNew ==
    ASSUME TypeInv, NEW a \in Seq(EdgeRecords), NEW b \in Seq(EdgeRecords),
           NEW e \in EnvRecords, Grown(log', log, a, e, b),
           NEW f, e.frame = f.id, e.line = f.at, f.at # f.name,
           Does(f.at) # "loop" => e.loops = f.outer \o Iterations(f.loops)
    PROVE  LoggedIn(log', f)
<1>1. PICK n : n = Len(log) + Len(a) + 1
  OBVIOUS
<1>2. /\ \A i : IsEnv(log', i) <=> IsEnv(log, i) \/ i = n
      /\ \A i : IsEnv(log, i) => i \in 1..Len(log) /\ i < n
      /\ log'[n] = e /\ n \in DOMAIN log' /\ n \in Nat
  BY <1>1, EnvsAre
<1>3. ASSUME NEW j, IsEnv(log', j), j > n PROVE FALSE
  <2>1. CASE j = n
    BY <1>2, <1>3, <2>1
  <2>2. CASE IsEnv(log, j)
    <3>1. j \in 1..Len(log) /\ j < n /\ n \in Nat /\ Len(log) \in Nat
      BY <1>2, <2>2, TypeFacts
    <3>2. QED
      BY <1>3, <3>1
  <2>3. QED
    BY <1>2, <1>3, <2>1, <2>2
<1>4. LastIn(log', n, f.id)
  BY <1>2, <1>3 DEF LastIn
<1>5. QED
  BY <1>2, <1>4 DEF LoggedIn

(* What is shown at the line of record r, if it is what record s says. *)
ShownRight(r, s) ==
    CASE Does(r.line) = "loop" -> s.says = "state" => Top(s.loops).line = r.line
      [] Does(r.line) = "break" -> Extends(r.loops, s.loops)
      [] OTHER -> s.loops = r.loops

ShownBehind(r, s) ==
    \/ Does(r.line) # "loop"
    \/ s.says \in {"limit", "thrown"}
    \/ Indent(s.line) > Indent(r.line)

Next0(records, i, j) ==
    /\ IsEnv(records, i) /\ IsEnv(records, j) /\ j > i
    /\ records[j].frame = records[i].frame
    /\ \A k \in DOMAIN records : IsEnv(records, k) /\ k > i /\ k < j => records[k].frame # records[i].frame
    /\ ShownBehind(records[i], records[j])

AllShown(records) == \A i, j \in DOMAIN records : Next0(records, i, j) => ShownRight(records[i], records[j])

LEMMA AdjustedIs ==
    ASSUME TypeInv, NEW i \in Envs, NEW j \in Adjusted(i)
    PROVE  Next0(log, i, j) /\ i \in DOMAIN log /\ j \in DOMAIN log
<1>1. Len(log) \in Nat /\ DOMAIN log = 1..Len(log) /\ i \in 1..Len(log)
  BY TypeFacts DEF Envs
<1>2. /\ j \in (i + 1)..Len(log) /\ log[j].kind = "env" /\ log[j].frame = log[i].frame
      /\ \A k \in (i + 1)..(j - 1) : log[k].kind = "env" => log[k].frame # log[i].frame
      /\ ShownBehind(log[i], log[j])
  BY DEF Adjusted, Follows, ShownBehind
<1>3. j \in 1..Len(log) /\ j > i
  BY <1>1, <1>2
<1>4. \A k \in 1..Len(log) : k > i /\ k < j => k \in (i + 1)..(j - 1)
  BY <1>1, <1>3
<1>5. QED
  BY <1>1, <1>2, <1>3, <1>4 DEF Next0, IsEnv, Envs

LEMMA ShownGrows ==
    ASSUME TypeInv, AllShown(log), NEW a \in Seq(EdgeRecords), NEW b \in Seq(EdgeRecords),
           NEW e \in EnvRecords, Grown(log', log, a, e, b),
           \A i \in DOMAIN log : LastIn(log, i, e.frame) /\ ShownBehind(log[i], e) => ShownRight(log[i], e)
    PROVE  AllShown(log')
<1>1. PICK n : n = Len(log) + Len(a) + 1
  OBVIOUS
<1>2. /\ \A i : IsEnv(log', i) <=> IsEnv(log, i) \/ i = n
      /\ \A i : IsEnv(log, i) => i \in 1..Len(log) /\ i < n /\ log'[i] = log[i] /\ i \in DOMAIN log'
      /\ log'[n] = e /\ n \in DOMAIN log' /\ n \in Nat
  BY <1>1, EnvsAre
<1>3. ASSUME NEW i, NEW j, Next0(log', i, j) PROVE ShownRight(log'[i], log'[j])
  <2>1. /\ IsEnv(log', i) /\ IsEnv(log', j) /\ j > i
        /\ log'[j].frame = log'[i].frame
        /\ \A k \in DOMAIN log' : IsEnv(log', k) /\ k > i /\ k < j => log'[k].frame # log'[i].frame
        /\ ShownBehind(log'[i], log'[j])
    BY <1>3 DEF Next0
  <2>2. \A k : IsEnv(log, k) => k \in Nat /\ k < n /\ ~(k > n)
    <3>1. \A k \in 1..Len(log) : k \in Nat /\ (k < n => ~(k > n))
      BY <1>2, TypeFacts
    <3>2. QED
      BY <1>2, <3>1
  <2>3. ~(n > n)
    BY <1>2
  <2>4. i # n
    BY <1>2, <2>1, <2>2, <2>3
  <2>5. IsEnv(log, i) /\ log'[i] = log[i] /\ i \in DOMAIN log
    BY <1>2, <2>1, <2>4 DEF IsEnv
  <2>6. CASE IsEnv(log, j)
    <3>1. log'[j] = log[j] /\ j \in DOMAIN log
      BY <1>2, <2>6 DEF IsEnv
    <3>2. \A k \in DOMAIN log : IsEnv(log, k) /\ k > i /\ k < j => log[k].frame # log[i].frame
      BY <1>2, <2>1, <2>5
    <3>3. Next0(log, i, j)
      BY <2>1, <2>5, <2>6, <3>1, <3>2 DEF Next0
    <3>4. QED
      BY <2>5, <3>1, <3>3 DEF AllShown
  <2>7. CASE j = n
    <3>1. log'[j] = e
      BY <1>2, <2>7
    <3>2. \A k \in DOMAIN log : IsEnv(log, k) /\ k > i => log[k].frame # e.frame
      BY <1>2, <2>1, <2>5, <2>7, <3>1
    <3>3. LastIn(log, i, e.frame)
      BY <2>1, <2>5, <3>1, <3>2 DEF LastIn
    <3>4. QED
      BY <2>1, <2>5, <3>1, <3>3
  <2>8. QED
    BY <1>2, <2>1, <2>6, <2>7
<1>4. QED
  BY <1>3 DEF AllShown

(* The calls have numbers of their own, and the log is of calls that are. *)
StackLogged(s, records, t) ==
    /\ \A i, j \in 1..Len(s) : i # j => s[i].id # s[j].id
    /\ \A i \in 1..Len(s) : s[i].id <= t
    /\ \A i \in DOMAIN records : IsEnv(records, i) => records[i].frame <= t
    /\ \A i \in 1..Len(s) : LoggedIn(records, s[i])

(* user_line. *)
LEMMA LineLogged ==
    ASSUME TypeInv, LineStep, Followed, CallStack(stack), Recorded, ActiveIs, StackLogged(stack, log, time)
    PROVE  StackLogged(stack', log', time')
<1> DEFINE f == Top(stack)
           l == Top(stack).next
           m == Len(stack)
           b == BeginRecord(l, Kept, active')
<1>1. /\ f \in Frames /\ FrameInv(f) /\ m \in Nat \ {0} /\ f = stack[m] /\ m \in 1..m /\ program \in Programs
      /\ f.next # 0
      /\ \A i \in 1..m : stack[i] \in Frames
  BY LineFrame, CallStackFacts, TypeFacts
<1>2. l \in Region(f.name) /\ f.name \in {0} \cup Defs /\ l # f.name
  <2>1. l \in Region(f.name) /\ f.name \in {0} \cup Defs
    BY <1>1, NextInRegion DEF FrameInv
  <2>2. QED
    BY <1>1, <2>1, RegionLines
<1>3. LineEnv.frame = f.id /\ LineEnv.line = l /\ LineEnv.loops = Iterations(Kept) /\ LineEnv.kind = "env"
  BY DEF LineEnv, Env
<1>4. Iterations(Kept) = f.outer \o Iterations(StillIn(f, l))
  <2>1. f.outer \in Seq(Places) /\ StillIn(f, l) \in Seq(Rounds) /\ Kept \in Seq(Actives)
    BY <1>1, StillInIs DEF Frames, LineStep
  <2>2. ActiveLike(Kept, f.id, f.outer, StillIn(f, l))
    BY KeptIs
  <2>3. QED
    BY <2>1, <2>2, ActiveIterations
<1>5. /\ Ends \in Seq(EdgeRecords) /\ b \in Seq(EdgeRecords) /\ LineEnv \in EnvRecords
      /\ Grown(log', log, Ends, LineEnv, b)
  BY DEF LineStep
<1>6. time' = time + 1 /\ time \in Nat
  BY TypeFacts DEF LineStep, Counted
<1>7. /\ \A i, j \in 1..m : i # j => stack[i].id # stack[j].id
      /\ \A i \in 1..m : stack[i].id <= time /\ stack[i].id \in Nat
      /\ \A i \in DOMAIN log : IsEnv(log, i) => log[i].frame <= time
      /\ \A i \in 1..m : LoggedIn(log, stack[i])
  BY <1>1 DEF StackLogged, Frames
<1>8. ASSUME NEW i \in 1..(m - 1) PROVE LoggedIn(log', stack[i])
  <2>1. i \in 1..m /\ i # m
    BY <1>1, Indexes
  <2>2. LineEnv.frame # stack[i].id
    BY <1>1, <1>3, <1>7, <2>1
  <2>3. QED
    BY <1>5, <1>7, <2>1, <2>2, LoggedGrows
<1>9. ASSUME NEW e, NEW n, IsExecuted(e, f, l, n) PROVE LoggedIn(log', e)
  <2>1. e.id = f.id /\ e.at = l /\ e.name = f.name /\ e.outer = f.outer
    BY <1>9 DEF IsExecuted
  <2>2. Does(l) # "loop" => e.loops = StillIn(f, l)
    BY <1>9 DEF IsExecuted, ExecutedLoops
  <2>3. QED
    BY <1>2, <1>3, <1>4, <1>5, <2>1, <2>2, LoggedNew
<1>10. \A i \in DOMAIN log' : IsEnv(log', i) => log'[i].frame <= time
  <2>1. PICK n : n = Len(log) + Len(Ends) + 1
    OBVIOUS
  <2>2. /\ \A i : IsEnv(log', i) <=> IsEnv(log, i) \/ i = n
        /\ \A i : IsEnv(log, i) => log'[i] = log[i] /\ i \in DOMAIN log
        /\ log'[n] = LineEnv
    BY <1>5, <2>1, EnvsAre DEF IsEnv
  <2>3. LineEnv.frame <= time
    BY <1>1, <1>3, <1>7
  <2>4. QED
    BY <1>7, <2>2, <2>3
<1>11. \A i \in DOMAIN log' : IsEnv(log', i) => log'[i].frame \in Nat
  <2>1. log' \in Seq(Records)
    BY DEF LineStep
  <2>2. \A i \in DOMAIN log' : log'[i] \in Records
    BY <2>1, LenProperties, ElementOfSeq
  <2>3. QED
    BY <2>2 DEF IsEnv, Records, EnvRecords, EdgeRecords
<1>12. \A i \in DOMAIN log' : IsEnv(log', i) => log'[i].frame <= time' /\ log'[i].frame # time'
  BY <1>6, <1>10, <1>11
<1> HIDE DEF f, l, m, b
<1>13. \A i \in 1..m : stack[i].id <= time' /\ stack[i].id # time'
  BY <1>6, <1>7
(* The frames, if all but the top are as they were, in what is asked of them. *)
<1>14. ASSUME \A i \in 1..m : stack'[i].id = stack[i].id, Len(stack') = m,
              \A i \in 1..m : LoggedIn(log', stack'[i])
       PROVE  StackLogged(stack', log', time')
  BY <1>7, <1>12, <1>13, <1>14 DEF StackLogged
<1>15. ASSUME NEW n \in Nat, Goes(n) PROVE StackLogged(stack', log', time')
  <2>1. /\ Len(stack') = m /\ IsExecuted(stack'[m], f, l, n)
        /\ \A i \in 1..(m - 1) : stack'[i] = stack[i]
    BY <1>15, LineFrame DEF Goes, Replaced, f, l, m
  <2>2. stack'[m].id = stack[m].id
    BY <1>1, <2>1 DEF IsExecuted
  <2>3. LoggedIn(log', stack'[m])
    BY <1>9, <2>1
  <2>4. \A i \in 1..m : stack'[i].id = stack[i].id /\ LoggedIn(log', stack'[i])
    BY <1>1, <1>8, <2>1, <2>2, <2>3, Indexes
  <2>5. QED
    BY <1>14, <2>1, <2>4
<1>16. ASSUME NEW k \in Nat, Throws(k) PROVE StackLogged(stack', log', time')
  <2> DEFINE e == Executed(f, l, 0)
  <2>1. /\ Len(stack') = m /\ k \in 0..(m - 1)
        /\ \A i \in 1..k : stack'[i] = stack[i]
        /\ \A i \in (k + 1)..(m - 1) : stack'[i] = Thrown(stack[i])
        /\ stack'[m] = Thrown(e)
    BY <1>16 DEF Throws, f, l, m
  <2>2. IsExecuted(e, f, l, 0) /\ e \in Frames /\ e.id = f.id
    BY LineFrame DEF IsExecuted, f, l
  <2>3. LoggedIn(log', e)
    BY <1>9, <2>2
  <2> HIDE DEF e
  <2>4. ASSUME NEW g \in Frames, LoggedIn(log', g) PROVE LoggedIn(log', Thrown(g)) /\ Thrown(g).id = g.id
    <3>1. /\ Thrown(g).id = g.id /\ Thrown(g).name = g.name /\ Thrown(g).at = g.at
          /\ Thrown(g).loops = g.loops /\ Thrown(g).outer = g.outer
      BY ThrownType
    <3>2. QED
      BY <2>4, <3>1 DEF LoggedIn
  <2>5. stack'[m].id = stack[m].id /\ LoggedIn(log', stack'[m])
    BY <1>1, <2>1, <2>2, <2>3, <2>4
  <2>6. \A i \in 1..(m - 1) : i \in 1..m /\ (i \in 1..k \/ i \in (k + 1)..(m - 1))
    BY <1>1, <2>1
  <2>7. \A i \in 1..(m - 1) : stack'[i].id = stack[i].id /\ LoggedIn(log', stack'[i])
    BY <1>1, <1>8, <2>1, <2>4, <2>6
  <2>8. \A i \in 1..m : stack'[i].id = stack[i].id /\ LoggedIn(log', stack'[i])
    BY <1>1, <2>5, <2>7, Indexes
  <2>9. QED
    BY <1>14, <2>1, <2>8
<1>17. ASSUME NEW d \in Nat, Calls(d) PROVE StackLogged(stack', log', time')
  <2>1. /\ Len(stack') = m + 1 /\ stack'[m] = Caller /\ stack'[m + 1] = Callee(d)
        /\ \A i \in 1..(m - 1) : stack'[i] = stack[i]
    BY <1>17 DEF Calls, m
  <2>2. IsExecuted(Caller, f, l, After(l)) /\ Caller.id = f.id
    BY CallerIs DEF IsExecuted, f, l
  <2>3. stack'[m].id = stack[m].id /\ LoggedIn(log', stack'[m])
    BY <1>1, <1>9, <2>1, <2>2
  <2>4. \A i \in 1..m : stack'[i].id = stack[i].id /\ LoggedIn(log', stack'[i])
    BY <1>1, <1>8, <2>1, <2>3, Indexes
  <2>5. Callee(d).id = time' /\ Callee(d).at = d /\ Callee(d).name = d
    BY DEF Callee, NewFrame
  <2>6. LoggedIn(log', Callee(d))
    BY <1>12, <2>5 DEF LoggedIn
  <2>7. \A i \in 1..(m + 1) : i = m + 1 \/ i \in 1..m
    BY <1>1
  <2>8. time' <= time'
    BY <1>6
  <2>9. \A i \in 1..(m + 1) : stack'[i].id <= time' /\ LoggedIn(log', stack'[i])
    BY <1>13, <2>1, <2>4, <2>5, <2>6, <2>7, <2>8
  <2>10. \A i, j \in 1..(m + 1) : i # j => stack'[i].id # stack'[j].id
    <3>1. \A i \in 1..m : stack'[i].id # stack'[m + 1].id
      BY <1>13, <2>1, <2>4, <2>5
    <3>2. \A i, j \in 1..m : i # j => stack'[i].id # stack'[j].id
      BY <1>7, <2>4
    <3>3. QED
      BY <2>7, <3>1, <3>2
  <2>11. QED
    BY <1>12, <2>1, <2>9, <2>10 DEF StackLogged
<1>18. QED
  BY <1>15, <1>16, <1>17 DEF LineStep

(* user_return. *)
LEMMA ReturnLogged ==
    ASSUME TypeInv, ReturnStep, StackLogged(stack, log, time)
    PROVE  StackLogged(stack', log', time')
<1> DEFINE f == Top(stack)
           m == Len(stack)
           b == EndRecords(f, f.at, ReturnEnv)
<1>1. /\ stack # <<>> /\ m \in Nat \ {0} /\ f = stack[m] /\ m \in 1..m
      /\ Len(stack') = m - 1 /\ \A i \in 1..(m - 1) : stack'[i] = stack[i]
  BY TopType, Indexes DEF ReturnStep, Running
<1>2. ReturnEnv.frame = f.id
  BY DEF ReturnEnv, Env
<1>3. /\ <<>> \in Seq(EdgeRecords) /\ b \in Seq(EdgeRecords) /\ ReturnEnv \in EnvRecords
      /\ Grown(log', log, <<>>, ReturnEnv, b)
  BY DEF ReturnStep
<1>4. time' = time + 1 /\ time \in Nat
  BY TypeFacts DEF ReturnStep, Counted
<1>5. /\ \A i, j \in 1..m : i # j => stack[i].id # stack[j].id
      /\ \A i \in 1..m : stack[i].id <= time
      /\ \A i \in DOMAIN log : IsEnv(log, i) => log[i].frame <= time
      /\ \A i \in 1..m : LoggedIn(log, stack[i])
  BY DEF StackLogged
<1>6. \A i \in 1..m : stack[i].id \in Nat
  BY TypeFacts DEF Frames
<1>7. ASSUME NEW i \in 1..(m - 1) PROVE i \in 1..m /\ stack'[i] = stack[i] /\ LoggedIn(log', stack[i])
  <2>1. i \in 1..m /\ i # m
    BY <1>1, Indexes
  <2>2. ReturnEnv.frame # stack[i].id
    BY <1>1, <1>2, <1>5, <2>1
  <2>3. QED
    BY <1>1, <1>3, <1>5, <2>1, <2>2, LoggedGrows
<1>8. \A i \in DOMAIN log' : IsEnv(log', i) => log'[i].frame <= time
  <2>1. PICK none \in Seq(EdgeRecords) : none = <<>>
    BY <1>3
  <2>5. PICK n : n = Len(log) + Len(none) + 1
    OBVIOUS
  <2>2. /\ \A i : IsEnv(log', i) <=> IsEnv(log, i) \/ i = n
        /\ \A i : IsEnv(log, i) => log'[i] = log[i] /\ i \in DOMAIN log
        /\ log'[n] = ReturnEnv
    <3>0. Grown(log', log, none, ReturnEnv, b)
      BY <1>3, <2>1
    <3>1. /\ \A i : IsEnv(log', i) <=> IsEnv(log, i) \/ i = n
          /\ \A i : IsEnv(log, i) => log'[i] = log[i]
          /\ log'[n] = ReturnEnv
      BY <1>3, <2>5, <3>0, EnvsAre
    <3>2. \A i : IsEnv(log, i) => i \in DOMAIN log
      BY DEF IsEnv
    <3>3. QED
      BY <3>1, <3>2
  <2>3. ReturnEnv.frame <= time
    BY <1>1, <1>2, <1>5
  <2>4. QED
    BY <1>5, <2>2, <2>3
<1>9. \A i \in DOMAIN log' : IsEnv(log', i) => log'[i].frame \in Nat
  <2>1. log' \in Seq(Records)
    BY DEF ReturnStep
  <2>2. \A i \in DOMAIN log' : log'[i] \in Records
    BY <2>1, LenProperties, ElementOfSeq
  <2>3. QED
    BY <2>2 DEF IsEnv, Records, EnvRecords, EdgeRecords
<1>10. \A i \in DOMAIN log' : IsEnv(log', i) => log'[i].frame <= time'
  BY <1>4, <1>8, <1>9
<1> HIDE DEF f, m, b
<1>11. \A i \in 1..m : stack[i].id <= time'
  BY <1>4, <1>5, <1>6
<1>12. \A i \in 1..(m - 1) : stack'[i].id <= time' /\ LoggedIn(log', stack'[i])
  BY <1>7, <1>11
<1>13. \A i, j \in 1..(m - 1) : i # j => stack'[i].id # stack'[j].id
  BY <1>5, <1>7
<1>14. QED
  BY <1>1, <1>10, <1>12, <1>13 DEF StackLogged

(* The last record of a frame is the only one. *)
LEMMA LastIsOne ==
    ASSUME TypeInv, NEW f, LoggedIn(log, f), NEW i \in DOMAIN log, LastIn(log, i, f.id)
    PROVE  /\ f.at # f.name /\ log[i].line = f.at
           /\ Does(f.at) # "loop" => log[i].loops = f.outer \o Iterations(f.loops)
<1>1. IsEnv(log, i) /\ log[i].frame = f.id
  BY DEF LastIn
<1>2. f.at # f.name
  BY <1>1 DEF LoggedIn, IsEnv
<1>3. PICK j \in DOMAIN log :
         /\ LastIn(log, j, f.id) /\ log[j].line = f.at
         /\ Does(f.at) # "loop" => log[j].loops = f.outer \o Iterations(f.loops)
  BY <1>2 DEF LoggedIn
<1>4. i = j
  <2>1. i \in Nat /\ j \in Nat
    BY TypeFacts
  <2>2. ~(i > j) /\ ~(j > i)
    BY <1>3 DEF LastIn
  <2>3. QED
    BY <2>1, <2>2
<1>5. QED
  BY <1>2, <1>3, <1>4

(* The frame's iterations at the line it goes to begin as those at the line   *)
(* it was at, and are the same if it does not leave a loop.                   *)
LEMMA PrefixIterations ==
    ASSUME NEW outer \in Seq(Places), NEW loops \in Seq(Rounds), NEW k \in 0..Len(loops)
    PROVE  Extends(outer \o Iterations(loops), outer \o Iterations(SubSeq(loops, 1, k)))
<1> DEFINE t == Iterations(loops)
           in == SubSeq(loops, 1, k)
           s == Iterations(in)
           u == outer \o t
           v == outer \o s
           o == Len(outer)
           n == Len(loops)
<1>1. n \in Nat /\ o \in Nat /\ k \in Nat /\ k <= n
  BY LenProperties
<1>2. in \in Seq(Rounds) /\ Len(in) = k /\ \A i \in 1..k : in[i] = loops[i] /\ i \in 1..n
  BY <1>1, PrefixElements
<1>3. t \in Seq(Places) /\ Len(t) = n /\ \A i \in 1..n : t[i] = [line |-> loops[i].line, iter |-> loops[i].iter]
  BY IterationsIs, RoundsHaveNumbers
<1> HIDE DEF in
<1>4. s \in Seq(Places) /\ Len(s) = k /\ \A i \in 1..k : s[i] = [line |-> in[i].line, iter |-> in[i].iter]
  BY <1>2, IterationsIs, RoundsHaveNumbers
<1> HIDE DEF t, s
<1>5. u \in Seq(Places) /\ ConcatIs(u, outer, t)
  BY <1>3, ConcatElements
<1>6. v \in Seq(Places) /\ ConcatIs(v, outer, s)
  BY <1>4, ConcatElements
<1> HIDE DEF u, v
<1>7. /\ Len(u) = o + n /\ Len(v) = o + k
      /\ \A i \in 1..o : u[i] = outer[i] /\ v[i] = outer[i]
      /\ \A i \in 1..n : u[o + i] = t[i]
      /\ \A i \in 1..k : v[o + i] = s[i]
  BY <1>3, <1>4, <1>5, <1>6 DEF ConcatIs
<1>8. \A i \in 1..k : t[i] = s[i] /\ i \in 1..n
  BY <1>2, <1>3, <1>4
<1> HIDE DEF o, n
<1>9. \A i \in 1..(o + k) : u[i] = v[i]
  <2>1. \A i \in 1..(o + k) : i \in 1..o \/ (i - o \in 1..k /\ i = o + (i - o))
    BY <1>1
  <2>2. \A i \in 1..k : u[o + i] = v[o + i]
    BY <1>7, <1>8
  <2>3. QED
    BY <1>7, <2>1, <2>2
<1>10. o + k \in 0..(o + n) /\ o + n >= o + k
  BY <1>1
<1>11. SubSeq(u, 1, o + k) = v
  <2>1. o + k \in 0..Len(u)
    BY <1>7, <1>10
  <2> DEFINE w == SubSeq(u, 1, o + k)
  <2>2. w \in Seq(Places) /\ Len(w) = o + k /\ \A i \in 1..(o + k) : w[i] = u[i]
    BY <1>5, <2>1, PrefixElements
  <2> HIDE DEF w
  <2>3. Len(w) = Len(v) /\ \A i \in 1..Len(w) : w[i] = v[i]
    BY <1>7, <1>9, <2>2
  <2>4. w = v
    BY <1>6, <2>2, <2>3, SeqEqual
  <2>5. QED
    BY <2>4 DEF w
<1>12. Extends(u, v)
  BY <1>7, <1>10, <1>11 DEF Extends
<1>13. QED
  BY <1>12 DEF u, v, t, s, in

LEMMA TopOfIterations ==
    ASSUME NEW outer \in Seq(Places), NEW loops \in Seq(Rounds), loops # <<>>
    PROVE  Top(outer \o Iterations(loops)).line = loops[Len(loops)].line
<1> DEFINE t == Iterations(loops)
           u == outer \o t
           o == Len(outer)
           n == Len(loops)
<1>1. n \in Nat \ {0} /\ o \in Nat /\ n \in 1..n
  <2>1. n \in Nat \ {0} /\ o \in Nat
    BY EmptySeq, LenProperties
  <2>2. QED
    BY <2>1, Indexes
<1>2. t \in Seq(Places) /\ Len(t) = n /\ \A i \in 1..n : t[i] = [line |-> loops[i].line, iter |-> loops[i].iter]
  BY IterationsIs, RoundsHaveNumbers
<1> HIDE DEF t
<1>3. ConcatIs(u, outer, t)
  BY <1>2, ConcatElements
<1> HIDE DEF u
<1>4. Len(u) = o + n /\ u[o + n] = t[n]
  BY <1>1, <1>2, <1>3 DEF ConcatIs
<1>5. t[n].line = loops[n].line
  <2>1. t[n] = [line |-> loops[n].line, iter |-> loops[n].iter]
    BY <1>1, <1>2
  <2>2. QED
    BY <2>1
<1>6. QED
  BY <1>4, <1>5 DEF Top, u, t

LEMMA LineShown ==
    ASSUME TypeInv, LineStep, Followed, CallStack(stack), Recorded, ActiveIs,
           StackLogged(stack, log, time), AllShown(log)
    PROVE  AllShown(log')
<1> DEFINE f == Top(stack)
           l == Top(stack).next
           n == Len(f.loops)
           in == StillIn(f, l)
           says == IF time + 1 >= Limit THEN "limit" ELSE "state"
<1>1. /\ f \in Frames /\ FrameInv(f) /\ Len(stack) \in 1..Len(stack) /\ f = stack[Len(stack)]
      /\ f.next # 0 /\ program \in Programs /\ l \in DOMAIN program
  <2>1. /\ f \in Frames /\ Len(stack) \in Nat \ {0} /\ f = stack[Len(stack)] /\ program \in Programs
        /\ l \in DOMAIN program /\ l \in Nat \ {0} /\ stack # <<>>
    BY LineFrame, TypeFacts
  <2>2. FrameInv(f) /\ Len(stack) \in 1..Len(stack)
    BY <2>1, CallStackFacts, Indexes
  <2> HIDE DEF f
  <2>3. f.next # 0
    BY <2>1 DEF f
  <2>4. QED
    BY <2>1, <2>2, <2>3
<1>2. LoggedIn(log, f)
  BY <1>1 DEF StackLogged
<1>3. /\ LineEnv.frame = f.id /\ LineEnv.line = l /\ LineEnv.loops = Iterations(Kept) /\ LineEnv.says = says
  BY DEF LineEnv, Env
<1>4. f.outer \in Seq(Places) /\ in \in Seq(Rounds) /\ f.loops \in Seq(Rounds) /\ Kept \in Seq(Actives)
  BY <1>1, StillInIs DEF Frames, LineStep
<1>5. LineEnv.loops = f.outer \o Iterations(in)
  <2>1. ActiveLike(Kept, f.id, f.outer, in)
    BY KeptIs
  <2>2. QED
    BY <1>3, <1>4, <2>1, ActiveIterations
<1>6. Stays(f, l) \/ Leaves(f, l)
  BY <1>1, StaysOrLeaves DEF FrameInv
<1> HIDE DEF f, l, in, says
<1>7. ASSUME NEW i \in DOMAIN log, LastIn(log, i, f.id), ShownBehind(log[i], LineEnv)
      PROVE  ShownRight(log[i], LineEnv)
  <2>1. /\ f.at # f.name /\ log[i].line = f.at
        /\ Does(f.at) # "loop" => log[i].loops = f.outer \o Iterations(f.loops)
    BY <1>2, <1>7, LastIsOne
  <2>2. f.at \in Region(f.name) /\ f.at \in DOMAIN program /\ l \in Successors(f.at) /\ f.name \in {0} \cup Defs
    <3>1. f.at \in Region(f.name) /\ l \in Successors(f.at) /\ f.name \in {0} \cup Defs
      BY <1>1, <2>1 DEF FrameInv, Placed, f, l
    <3>2. QED
      BY <1>1, <3>1, RegionLines
  <2>3. CASE Does(f.at) = "loop"
    <3>1. SUFFICES ASSUME LineEnv.says = "state" PROVE Top(LineEnv.loops).line = f.at
      BY <2>1, <2>3 DEF ShownRight
    <3>2. Indent(l) > Indent(f.at)
      <4>1. LineEnv.says \notin {"limit", "thrown"}
        BY <3>1
      <4>2. /\ Does(log[i].line) # "loop" \/ LineEnv.says \in {"limit", "thrown"}
               \/ Indent(LineEnv.line) > Indent(log[i].line)
        BY <1>7 DEF ShownBehind
      <4>3. log[i].line = f.at /\ LineEnv.line = l
        BY <1>3, <2>1
      <4>4. QED
        BY <2>3, <4>1, <4>2, <4>3
    <3>3. l \in Body(f.at)
      <4>1. l # After(f.at)
        <5>1. ASSUME l = After(f.at) PROVE FALSE
          <6>1. Indent(l) <= Indent(f.at)
            BY <1>1, <2>2, <5>1, AfterOut DEF f, l
          <6>2. Indent(l) \in Nat /\ Indent(f.at) \in Nat
            BY <1>1, <2>2, ProgramFacts
          <6>3. QED
            BY <3>2, <6>1, <6>2
        <5>2. QED
          BY <5>1
      <4>2. l = f.at + 1
        BY <2>2, <2>3, <4>1, SuccessorIs
      <4>3. QED
        BY <1>1, <2>2, <2>3, <4>2, HeaderHasBody
    <3>4. PICK j \in 1..n : f.loops[j].line = f.at
      <4>1. f.at \in LoopsAt(f.name, f.at)
        BY <2>2, <2>3 DEF LoopsAt
      <4>2. DOMAIN f.loops = 1..n
        BY <1>4, LenProperties
      <4>3. QED
        BY <1>1, <4>1, <4>2 DEF FrameInv, OwnLoops
    <3>5. f.loops # <<>> /\ n \in Nat \ {0} /\ n \in 1..n
      <4>1. n \in Nat
        BY <1>4, LenProperties
      <4>2. n # 0
        BY <3>4, <4>1
      <4>3. QED
        BY <4>1, <4>2, EmptySeq, Indexes
    <3>6. Innermost0(f) = f.at
      <4>1. j = n \/ j \in 1..(n - 1)
        BY <3>4, <3>5, Indexes
      <4>2. ASSUME j # n PROVE FALSE
        <5>1. j < n
          BY <3>5, <4>1, <4>2
        <5>2. f.loops[j].line < f.loops[n].line
          BY <1>1, <1>4, <3>4, <3>5, <5>1, LenProperties, SMTT(20) DEF FrameInv, OwnLoops
        <5>3. f.loops[n].line \in DOMAIN program /\ InLoop(f.loops[n].line, f.at)
          BY <1>1, <3>5, FrameLoops DEF FrameInv
        <5>4. f.loops[n].line <= f.at
          BY <1>1, <2>2, <5>3, BodyBounds, ProgramFacts DEF InLoop
        <5>5. f.loops[n].line \in Nat /\ f.at \in Nat
          BY <1>1, <2>2, <5>3, ProgramFacts, SMTT(20)
        <5>6. QED
          BY <3>4, <5>2, <5>4, <5>5
      <4>3. QED
        BY <3>4, <4>2 DEF Innermost0
    <3>7. Stays(f, l)
      BY <1>6, <3>3, <3>6 DEF Leaves, InLoop
    <3>8. in = f.loops
      BY <3>7 DEF Stays, in
    <3>9. QED
      BY <1>4, <1>5, <3>5, <3>6, <3>8, TopOfIterations DEF Innermost0
  <2>4. CASE Does(f.at) = "break"
    <3>1. log[i].loops = f.outer \o Iterations(f.loops)
      BY <2>1, <2>4
    <3>2. PICK k \in 0..Len(f.loops) : in = SubSeq(f.loops, 1, k)
      BY <1>1, StillInIs DEF in
    <3>3. Extends(log[i].loops, LineEnv.loops)
      BY <1>4, <1>5, <3>1, <3>2, PrefixIterations
    <3>4. QED
      BY <2>1, <2>4, <3>3 DEF ShownRight
  <2>5. CASE Does(f.at) \notin {"loop", "break"}
    <3>1. log[i].loops = f.outer \o Iterations(f.loops)
      BY <2>1, <2>5
    <3>2. Stays(f, l)
      <4>1. ASSUME Leaves(f, l) PROVE FALSE
        <5>1. f.loops # <<>> /\ Innermost0(f) = f.at
          BY <2>5, <4>1 DEF Leaves
        <5>2. Len(f.loops) \in 1..Len(f.loops)
          BY <1>1, <5>1, FrameLoops, Indexes DEF FrameInv
        <5>3. Does(Innermost0(f)) = "loop"
          BY <1>1, <5>2, FrameLoops DEF FrameInv, Innermost0
        <5>4. QED
          BY <2>5, <5>1, <5>3
      <4>2. QED
        BY <1>6, <4>1
    <3>3. LineEnv.loops = log[i].loops
      BY <1>5, <3>1, <3>2 DEF Stays, in
    <3>4. QED
      BY <2>1, <2>5, <3>3 DEF ShownRight
  <2>6. QED
    BY <2>3, <2>4, <2>5
<1>8. QED
  BY <1>3, <1>7, ShownGrows DEF LineStep

LEMMA ReturnShown ==
    ASSUME TypeInv, ReturnStep, Followed, CallStack(stack), ActiveIs,
           StackLogged(stack, log, time), AllShown(log)
    PROVE  AllShown(log')
<1> DEFINE f == Top(stack)
<1>1. /\ f \in Frames /\ FrameInv(f) /\ Len(stack) \in 1..Len(stack) /\ f = stack[Len(stack)] /\ stack # <<>>
  <2>1. stack # <<>>
    BY DEF ReturnStep, Running
  <2>2. QED
    BY <2>1, CallStackFacts, Indexes
<1>2. LoggedIn(log, f)
  BY <1>1 DEF StackLogged
<1>3. /\ ReturnEnv.frame = f.id /\ ReturnEnv.loops = Iterations(active)
      /\ ReturnEnv.says \in {"thrown", "limit", "value"}
  BY DEF ReturnEnv, Env
<1>4. f.outer \in Seq(Places) /\ f.loops \in Seq(Rounds) /\ active \in Seq(Actives)
  BY <1>1, TypeFacts DEF Frames
<1>5. ReturnEnv.loops = f.outer \o Iterations(f.loops)
  BY <1>1, <1>3, <1>4, ActiveIterations DEF ActiveIs
<1> HIDE DEF f
<1>6. ASSUME NEW i \in DOMAIN log, LastIn(log, i, f.id)
      PROVE  ShownRight(log[i], ReturnEnv)
  <2>1. /\ log[i].line = f.at
        /\ Does(f.at) # "loop" => log[i].loops = ReturnEnv.loops
    BY <1>2, <1>5, <1>6, LastIsOne
  <2>2. Extends(ReturnEnv.loops, ReturnEnv.loops)
    <3>1. Iterations(f.loops) = Iterations(SubSeq(f.loops, 1, Len(f.loops))) /\ Len(f.loops) \in 0..Len(f.loops)
      <4>1. Len(f.loops) \in Nat /\ SubSeq(f.loops, 1, Len(f.loops)) = f.loops
        BY <1>4, LenProperties, WholePrefix
      <4>2. \A k \in Nat : k \in 0..k
        OBVIOUS
      <4>3. Len(f.loops) \in 0..Len(f.loops)
        BY <4>1, <4>2
      <4>4. QED
        BY <4>1, <4>3
    <3>2. QED
      BY <1>4, <1>5, <3>1, PrefixIterations
  <2>3. QED
    BY <1>3, <2>1, <2>2 DEF ShownRight
<1>7. QED
  BY <1>3, <1>6, ShownGrows DEF ReturnStep

ShownInv == Followed => StackLogged(stack, log, time) /\ AllShown(log)

LEMMA SameProgramShown ==
    ASSUME program' = program
    PROVE  /\ StackLogged(stack, log, time)' <=> StackLogged(stack', log', time')
           /\ AllShown(log)' <=> AllShown(log')
<1>1. StackLogged(stack, log, time)' <=> StackLogged(stack', log', time')
  BY DEF StackLogged, LoggedIn, LastIn, IsEnv, Does, Iterations
<1>2. AllShown(log)' <=> AllShown(log')
  BY DEF AllShown, Next0, IsEnv, ShownBehind, ShownRight, Does, Indent, Top, Extends
<1>3. QED
  BY <1>1, <1>2

LEMMA ShownNext == TypeInv /\ LoopsInv /\ ShownInv /\ [Next]_vars => ShownInv'
<1> SUFFICES ASSUME TypeInv, LoopsInv, ShownInv, [Next]_vars PROVE ShownInv'
  OBVIOUS
<1>1. program' = program
  BY DEF Next, UserLine, UserReturn, vars
<1>2. SUFFICES ASSUME Followed PROVE StackLogged(stack', log', time') /\ AllShown(log')
  BY <1>1, SameProgram, SameProgramShown DEF ShownInv
<1>3. CallStack(stack) /\ ActiveIs /\ Recorded
  BY <1>2 DEF LoopsInv
<1>4. StackLogged(stack, log, time) /\ AllShown(log)
  BY <1>2 DEF ShownInv
<1>5. CASE UserLine
  <2>1. LineStep
    BY <1>5, LineStepIs
  <2>2. QED
    BY <1>2, <1>3, <1>4, <2>1, LineLogged, LineShown
<1>6. CASE UserReturn
  <2>1. ReturnStep
    BY <1>6, ReturnStepIs
  <2>2. QED
    BY <1>2, <1>3, <1>4, <2>1, ReturnLogged, ReturnShown
<1>7. CASE UNCHANGED vars
  <2>1. stack' = stack /\ log' = log /\ time' = time
    BY <1>7 DEF vars
  <2>2. QED
    BY <1>4, <2>1
<1>8. QED
  BY <1>5, <1>6, <1>7 DEF Next

LEMMA ShownInit == Init => ShownInv
<1> SUFFICES ASSUME Init PROVE ShownInv
  OBVIOUS
<1>1. /\ stack = <<NewFrame(0, 0, <<>>)>> /\ Len(stack) = 1 /\ stack[1] = NewFrame(0, 0, <<>>)
      /\ log = <<>> /\ time = 0
  BY DEF Init
<1>2. stack[1].id = 0 /\ stack[1].at = 0 /\ stack[1].name = 0
  BY <1>1 DEF NewFrame
<1>3. DOMAIN log = {}
  BY <1>1
<1>4. \A i \in 1..1 : i = 1
  OBVIOUS
<1>5. LoggedIn(log, stack[1])
  BY <1>2, <1>3 DEF LoggedIn
<1>6. StackLogged(stack, log, time)
  BY <1>1, <1>2, <1>3, <1>4, <1>5 DEF StackLogged
<1>7. AllShown(log)
  BY <1>3 DEF AllShown
<1>8. QED
  BY <1>6, <1>7 DEF ShownInv

(* Whatever the calls, loops and exceptions of a program that can be followed *)
(* have put between two records of a frame, what a box shows at a line is of  *)
(* the call that executed the line and in the iteration it executed it in; at *)
(* the header of a loop it is inside that loop, and a break may leave loops.  *)
THEOREM ShownWhereItHappened == Spec => []ShownWhereItRan
<1>1. TypeInv /\ ShownInv => ShownWhereItRan
  <2> SUFFICES ASSUME TypeInv, ShownInv, Followed, NEW i \in Envs, NEW j \in Adjusted(i)
               PROVE  log[j].frame = log[i].frame /\ ShownRight(log[i], log[j])
    BY DEF ShownWhereItRan, ShownRight
  <2>1. Next0(log, i, j) /\ i \in DOMAIN log /\ j \in DOMAIN log
    BY AdjustedIs
  <2>2. QED
    BY <2>1 DEF ShownInv, AllShown, Next0
<1>2. TypeInv /\ LoopsInv /\ ShownInv /\ [Next]_vars => (TypeInv /\ LoopsInv /\ ShownInv)'
  BY TypeNext, LoopsNext, ShownNext
<1>3. QED
  BY <1>1, <1>2, TypeInit, LoopsInit, ShownInit, PTL DEF Spec
=============================================================================
