-------------------------- MODULE RemoteRunProofs --------------------------
(***************************************************************************)
(* Theorems about RemoteRun, for every value of its constants.             *)
(***************************************************************************)
EXTENDS RemoteRun, SequenceTheorems, TLAPS

-----------------------------------------------------------------------------
(***************************************************************************)
(* The queues: what their elements are after a step.                       *)
(***************************************************************************)

LEMMA EmptyElements == Elements(<<>>) = {}
  BY LenProperties DEF Elements

LEMMA ElementsType ==
    ASSUME NEW S, NEW s \in Seq(S)
    PROVE  Elements(s) \subseteq S
  BY ElementOfSeq, LenProperties DEF Elements

LEMMA SingleElement ==
    ASSUME NEW S, NEW e \in S
    PROVE  <<e>> \in Seq(S) /\ Elements(<<e>>) = {e}
<1>1. <<e>> \in Seq(S) /\ Len(<<e>>) = 1 /\ <<e>>[1] = e
  OBVIOUS
<1>2. DOMAIN <<e>> = 1..1
  BY <1>1, LenProperties
<1>3. QED
  BY <1>1, <1>2 DEF Elements

LEMMA AppendElements ==
    ASSUME NEW S, NEW s \in Seq(S), NEW e \in S
    PROVE  Append(s, e) \in Seq(S) /\ Elements(Append(s, e)) = Elements(s) \cup {e}
<1> DEFINE t == Append(s, e)
<1>1. /\ t \in Seq(S) /\ Len(t) = Len(s) + 1
      /\ \A i \in 1..Len(s) : t[i] = s[i]
      /\ t[Len(s) + 1] = e
  BY AppendProperties
<1>2. Len(s) \in Nat /\ DOMAIN s = 1..Len(s) /\ DOMAIN t = 1..(Len(s) + 1)
  BY <1>1, LenProperties
<1>3. 1..(Len(s) + 1) = (1..Len(s)) \cup {Len(s) + 1}
  BY <1>2
<1> HIDE DEF t
<1>4. Elements(t) = Elements(s) \cup {e}
  BY <1>1, <1>2, <1>3 DEF Elements
<1>5. QED
  BY <1>1, <1>4 DEF t

LEMMA TailElements ==
    ASSUME NEW S, NEW s \in Seq(S), s # <<>>
    PROVE  /\ Tail(s) \in Seq(S) /\ Elements(Tail(s)) \subseteq Elements(s)
           /\ Head(s) \in S /\ Head(s) \in Elements(s)
<1>1. /\ Tail(s) \in Seq(S) /\ Head(s) \in S /\ Len(Tail(s)) = Len(s) - 1
      /\ \A i \in 1..Len(Tail(s)) : Tail(s)[i] = s[i + 1]
  BY HeadTailProperties
<1>2. Len(s) \in Nat \ {0}
  BY EmptySeq
<1>3. DOMAIN s = 1..Len(s) /\ DOMAIN Tail(s) = 1..(Len(s) - 1)
  BY <1>1, LenProperties
<1>4. Elements(Tail(s)) \subseteq Elements(s)
  BY <1>1, <1>2, <1>3 DEF Elements
<1>5. Head(s) = s[1] /\ 1 \in DOMAIN s
  BY <1>2, <1>3
<1>6. QED
  BY <1>1, <1>4, <1>5 DEF Elements

LEMMA TailKeeps ==
    ASSUME NEW S, NEW s \in Seq(S), s # <<>>
    PROVE  Elements(s) \subseteq {Head(s)} \cup Elements(Tail(s))
<1> DEFINE t == Tail(s)
<1>1. /\ t \in Seq(S) /\ Len(t) = Len(s) - 1 /\ \A i \in 1..Len(t) : t[i] = s[i + 1]
  BY HeadTailProperties
<1>2. Len(s) \in Nat \ {0} /\ Head(s) = s[1] /\ DOMAIN s = 1..Len(s) /\ DOMAIN t = 1..Len(t)
  BY <1>1, EmptySeq, LenProperties
<1> HIDE DEF t
<1>3. ASSUME NEW a \in Elements(s) PROVE a = Head(s) \/ a \in Elements(t)
  <2>1. PICK j \in 1..Len(s) : a = s[j]
    BY <1>2 DEF Elements
  <2>2. CASE j = 1
    BY <1>2, <2>1, <2>2
  <2>3. CASE j # 1
    <3>1. j - 1 \in 1..Len(t) /\ (j - 1) + 1 = j
      BY <1>1, <1>2, <2>3
    <3>2. t[j - 1] = s[j]
      BY <1>1, <3>1
    <3>3. QED
      BY <1>2, <2>1, <3>1, <3>2 DEF Elements
  <2>4. QED
    BY <2>2, <2>3
<1>4. QED
  BY <1>3 DEF t

LEMMA CutElements ==
    ASSUME NEW S, NEW s \in Seq(S), NEW k \in DOMAIN s
    PROVE  /\ SubSeq(s, 1, k - 1) \o SubSeq(s, k + 1, Len(s)) \in Seq(S)
           /\ Elements(SubSeq(s, 1, k - 1) \o SubSeq(s, k + 1, Len(s))) \subseteq Elements(s)
<1> DEFINE a == SubSeq(s, 1, k - 1)
           b == SubSeq(s, k + 1, Len(s))
           c == a \o b
<1>1. Len(s) \in Nat /\ DOMAIN s = 1..Len(s) /\ k \in 1..Len(s)
  BY LenProperties
<1>2. \A i \in 1..Len(s) : s[i] \in S
  BY ElementOfSeq
<1>3. a \in Seq(S) /\ Len(a) = k - 1 /\ \A i \in 1..(k - 1) : a[i] = s[i]
  <2>1. \A i \in 1..(k - 1) : s[i] \in S
    BY <1>1, <1>2
  <2>2. /\ a \in Seq(S) /\ Len(a) = IF 1 <= k - 1 THEN k - 1 - 1 + 1 ELSE 0
        /\ \A i \in 1..(k - 1 - 1 + 1) : a[i] = s[1 + i - 1]
    BY <1>1, <2>1, SubSeqProperties
  <2>3. QED
    BY <1>1, <2>2
<1>4. b \in Seq(S) /\ Len(b) = Len(s) - k /\ \A i \in 1..(Len(s) - k) : b[i] = s[k + i]
  <2>1. \A i \in (k + 1)..Len(s) : s[i] \in S
    BY <1>1, <1>2
  <2>2. /\ b \in Seq(S) /\ Len(b) = IF k + 1 <= Len(s) THEN Len(s) - (k + 1) + 1 ELSE 0
        /\ \A i \in 1..(Len(s) - (k + 1) + 1) : b[i] = s[(k + 1) + i - 1]
    BY <1>1, <2>1, SubSeqProperties
  <2>3. QED
    BY <1>1, <2>2
<1> HIDE DEF a, b
<1>5. /\ c \in Seq(S) /\ Len(c) = Len(a) + Len(b)
      /\ \A i \in 1..(Len(a) + Len(b)) : c[i] = IF i <= Len(a) THEN a[i] ELSE b[i - Len(a)]
  BY <1>3, <1>4, ConcatProperties
<1> HIDE DEF c
<1>6. DOMAIN c = 1..(Len(s) - 1)
  <2>1. Len(c) = Len(s) - 1
    BY <1>1, <1>3, <1>4, <1>5
  <2>2. QED
    BY <1>5, <2>1, LenProperties
<1>7. \A i \in 1..(Len(s) - 1) : \E j \in 1..Len(s) : c[i] = s[j]
  <2>1. ASSUME NEW i \in 1..(Len(s) - 1) PROVE \E j \in 1..Len(s) : c[i] = s[j]
    <3>1. CASE i <= k - 1
      BY <1>1, <1>3, <1>4, <1>5, <3>1
    <3>2. CASE ~(i <= k - 1)
      <4> DEFINE j == i - (k - 1)
      <4>1. j \in 1..(Len(s) - k) /\ k + j = i + 1 /\ i + 1 \in 1..Len(s)
        BY <1>1, <3>2
      <4>2. c[i] = b[j]
        BY <1>1, <1>3, <1>4, <1>5, <3>2
      <4>3. b[j] = s[k + j]
        BY <1>4, <4>1
      <4>4. QED
        BY <4>1, <4>2, <4>3
    <3>3. QED
      BY <3>1, <3>2
  <2>2. QED
    BY <2>1
<1>8. Elements(c) \subseteq Elements(s)
  BY <1>1, <1>6, <1>7 DEF Elements
<1>9. QED
  BY <1>5, <1>8 DEF a, b, c

LEMMA CutKeeps ==
    ASSUME NEW S, NEW s \in Seq(S), NEW k \in DOMAIN s
    PROVE  Elements(s) \subseteq
             Elements(SubSeq(s, 1, k - 1) \o SubSeq(s, k + 1, Len(s))) \cup {s[k]}
<1> DEFINE a == SubSeq(s, 1, k - 1)
           b == SubSeq(s, k + 1, Len(s))
           c == a \o b
<1>1. Len(s) \in Nat /\ DOMAIN s = 1..Len(s) /\ k \in 1..Len(s)
  BY LenProperties
<1>2. \A i \in 1..Len(s) : s[i] \in S
  BY ElementOfSeq
<1>3. a \in Seq(S) /\ Len(a) = k - 1 /\ \A i \in 1..(k - 1) : a[i] = s[i]
  <2>1. \A i \in 1..(k - 1) : s[i] \in S
    BY <1>1, <1>2
  <2>2. /\ a \in Seq(S) /\ Len(a) = IF 1 <= k - 1 THEN k - 1 - 1 + 1 ELSE 0
        /\ \A i \in 1..(k - 1 - 1 + 1) : a[i] = s[1 + i - 1]
    BY <1>1, <2>1, SubSeqProperties
  <2>3. QED
    BY <1>1, <2>2
<1>4. b \in Seq(S) /\ Len(b) = Len(s) - k /\ \A i \in 1..(Len(s) - k) : b[i] = s[k + i]
  <2>1. \A i \in (k + 1)..Len(s) : s[i] \in S
    BY <1>1, <1>2
  <2>2. /\ b \in Seq(S) /\ Len(b) = IF k + 1 <= Len(s) THEN Len(s) - (k + 1) + 1 ELSE 0
        /\ \A i \in 1..(Len(s) - (k + 1) + 1) : b[i] = s[(k + 1) + i - 1]
    BY <1>1, <2>1, SubSeqProperties
  <2>3. QED
    BY <1>1, <2>2
<1> HIDE DEF a, b
<1>5. /\ c \in Seq(S) /\ Len(c) = Len(a) + Len(b)
      /\ \A i \in 1..(Len(a) + Len(b)) : c[i] = IF i <= Len(a) THEN a[i] ELSE b[i - Len(a)]
  BY <1>3, <1>4, ConcatProperties
<1> HIDE DEF c
<1>6. DOMAIN c = 1..(Len(s) - 1) /\ Len(a) + Len(b) = Len(s) - 1
  <2>1. Len(c) = Len(s) - 1
    BY <1>1, <1>3, <1>4, <1>5
  <2>2. QED
    BY <1>5, <2>1, LenProperties
<1>7. ASSUME NEW j \in 1..Len(s) PROVE s[j] \in Elements(c) \cup {s[k]}
  <2>1. CASE j < k
    <3>1. j \in 1..(Len(s) - 1) /\ j <= Len(a) /\ j \in 1..(k - 1)
      BY <1>1, <1>3, <2>1
    <3>2. c[j] = s[j]
      BY <1>3, <1>5, <1>6, <3>1
    <3>3. QED
      BY <1>6, <3>1, <3>2 DEF Elements
  <2>2. CASE j > k
    <3> DEFINE i == j - 1
               m == j - k
    <3>1. /\ i \in 1..(Len(s) - 1) /\ ~(i <= k - 1) /\ m \in 1..(Len(s) - k)
          /\ i - (k - 1) = m /\ k + m = j
      BY <1>1, <2>2
    <3> HIDE DEF i, m
    <3>2. c[i] = b[m]
      BY <1>3, <1>5, <1>6, <3>1
    <3>3. b[m] = s[j]
      BY <1>4, <3>1
    <3>4. QED
      BY <1>6, <3>1, <3>2, <3>3 DEF Elements
  <2>3. QED
    BY <1>1, <2>1, <2>2
<1>8. QED
  BY <1>1, <1>7 DEF Elements, a, b, c

LEMMA ConcatElements ==
    ASSUME NEW S, NEW s \in Seq(S), NEW t \in Seq(S)
    PROVE  s \o t \in Seq(S) /\ Elements(s \o t) \subseteq Elements(s) \cup Elements(t)
<1> DEFINE u == s \o t
<1>1. /\ u \in Seq(S) /\ Len(u) = Len(s) + Len(t)
      /\ \A i \in 1..(Len(s) + Len(t)) : u[i] = IF i <= Len(s) THEN s[i] ELSE t[i - Len(s)]
  BY ConcatProperties
<1>2. /\ Len(s) \in Nat /\ Len(t) \in Nat
      /\ DOMAIN s = 1..Len(s) /\ DOMAIN t = 1..Len(t) /\ DOMAIN u = 1..(Len(s) + Len(t))
  BY <1>1, LenProperties
<1> HIDE DEF u
<1>3. ASSUME NEW i \in 1..(Len(s) + Len(t)) PROVE u[i] \in Elements(s) \cup Elements(t)
  <2>1. CASE i <= Len(s)
    BY <1>1, <1>2, <2>1 DEF Elements
  <2>2. CASE ~(i <= Len(s))
    <3>1. i - Len(s) \in DOMAIN t /\ u[i] = t[i - Len(s)]
      BY <1>1, <1>2, <2>2
    <3>2. QED
      BY <3>1 DEF Elements
  <2>3. QED
    BY <2>1, <2>2
<1>4. QED
  BY <1>1, <1>2, <1>3 DEF Elements, u

-----------------------------------------------------------------------------
(* Types *)

RunTypes == [for : {"none", "boxes", "page", "nobody"}, at : {"unused", "kill", "await", "over"},
             ver : 0..MaxVersion, kind : AllKinds, victim : Runs \cup {None}]

Texts == [ver : 1..MaxVersion, kind : Kinds]

Answers == [run : Runs, result : BOOLEAN]

LEMMA Types ==
    TypeOK <=> /\ doc \in Texts
               /\ shown \in 0..MaxVersion
               /\ timer \in BOOLEAN /\ spinner \in BOOLEAN /\ ready \in BOOLEAN
               /\ habits \in Users
               /\ run \in [Runs -> RunTypes]
               /\ python \in Runs \cup {None}
               /\ listens \subseteq Runs
               /\ loading \in Seq(Runs) /\ waiting \in Seq(Runs) /\ queue \in Seq(Runs)
               /\ byte \in {0, 1}
               /\ working \in Runs \cup {None}
               /\ mail \in Seq(Answers)
  BY DEF TypeOK, RunTypes, Texts, Answers

LEMMA TypesNext ==
    TypeOK' <=> /\ doc' \in Texts
                /\ shown' \in 0..MaxVersion
                /\ timer' \in BOOLEAN /\ spinner' \in BOOLEAN /\ ready' \in BOOLEAN
                /\ habits' \in Users
                /\ run' \in [Runs -> RunTypes]
                /\ python' \in Runs \cup {None}
                /\ listens' \subseteq Runs
                /\ loading' \in Seq(Runs) /\ waiting' \in Seq(Runs) /\ queue' \in Seq(Runs)
                /\ byte' \in {0, 1}
                /\ working' \in Runs \cup {None}
                /\ mail' \in Seq(Answers)
  BY DEF TypeOK, RunTypes, Texts, Answers

LEMMA Numbers ==
    /\ 1 \in Runs /\ None \notin Runs /\ Runs \subseteq Nat
    /\ MaxRuns \in Nat /\ MaxVersion \in Nat
    /\ 1 \in 1..MaxVersion /\ 0 \in 0..MaxVersion
    /\ 1..MaxVersion \subseteq 0..MaxVersion
    /\ Kinds \subseteq AllKinds /\ "ok" \in AllKinds
  BY RemoteAssumption DEF Runs, None, AllKinds

LEMMA Versions ==
    ASSUME TypeOK
    PROVE  shown \in Nat /\ doc.ver \in Nat /\ \A r \in Runs : run[r].ver \in Nat
<1>1. doc.ver \in 1..MaxVersion
  BY Types DEF Texts
<1>2. ASSUME NEW r \in Runs PROVE run[r].ver \in 0..MaxVersion
  <2>1. run[r] \in RunTypes
    BY Types
  <2>2. QED
    BY <2>1 DEF RunTypes
<1>3. shown \in 0..MaxVersion
  BY Types
<1>4. QED
  BY <1>1, <1>2, <1>3, Numbers

LEMMA VersionsNext ==
    ASSUME TypeOK'
    PROVE  doc'.ver \in Nat
<1>1. doc'.ver \in 1..MaxVersion
  BY TypesNext DEF Texts
<1>2. QED
  BY <1>1, Numbers

LEMMA InitType == Init => TypeOK
<1> SUFFICES ASSUME Init PROVE TypeOK
  OBVIOUS
<1>1. doc \in Texts
  BY Numbers DEF Init, Texts
<1>2. Unused \in RunTypes
  BY Numbers DEF Unused, RunTypes, None
<1>3. [for |-> "boxes", at |-> "await", ver |-> 1, kind |-> doc.kind, victim |-> 0] \in RunTypes
  BY <1>1, Numbers DEF RunTypes, Texts, None
<1>4. run \in [Runs -> RunTypes]
  BY <1>2, <1>3 DEF Init
<1>5. <<1>> \in Seq(Runs) /\ <<>> \in Seq(Runs) /\ <<>> \in Seq(Answers)
  BY Numbers, SingleElement, EmptySeq
<1>6. QED
  BY <1>1, <1>4, <1>5, Numbers, Types DEF Init

LEMMA OverType ==
    ASSUME run \in [Runs -> RunTypes], NEW rs
    PROVE  Over(rs) \in [Runs -> RunTypes]
<1>1. ASSUME NEW r \in Runs PROVE Over(rs)[r] \in RunTypes
  BY <1>1 DEF Over, RunTypes
<1>2. QED
  BY <1>1 DEF Over

LEMMA NewRunType ==
    ASSUME run \in [Runs -> RunTypes], doc' \in Texts, NEW rs, NEW r \in Runs,
           NEW caller \in {"boxes", "page", "nobody"}, NEW at \in {"kill", "await"},
           NEW victim \in Runs \cup {None}
    PROVE  [Over(rs) EXCEPT ![r] = [for |-> caller, at |-> at, ver |-> doc'.ver,
                                    kind |-> doc'.kind, victim |-> victim]] \in [Runs -> RunTypes]
<1>1. [for |-> caller, at |-> at, ver |-> doc'.ver, kind |-> doc'.kind, victim |-> victim] \in RunTypes
  BY Numbers DEF RunTypes, Texts
<1>2. Over(rs) \in [Runs -> RunTypes]
  BY OverType
<1>3. QED
  BY <1>1, <1>2

LEMMA ProcessType ==
    ASSUME TypeOK, NEW r \in Runs, NEW b, Process(r, b)
    PROVE  loading' \in Seq(Runs) /\ waiting' \in Seq(Runs) /\ queue' \in Seq(Runs)
<1>1. /\ loading \in Seq(Runs) /\ waiting \in Seq(Runs) /\ queue \in Seq(Runs)
      /\ Append(loading, r) \in Seq(Runs)
      /\ Append(waiting, r) \in Seq(Runs)
      /\ Append(queue, r) \in Seq(Runs)
  BY Types, AppendElements
<1>2. QED
  BY <1>1 DEF Process

LEMMA RunProgramType ==
    ASSUME TypeOK, doc' \in Texts, NEW r \in Runs, NEW caller \in {"boxes", "nobody"},
           NEW done \in SUBSET Runs, RunProgram(r, caller, done)
    PROVE  /\ run' \in [Runs -> RunTypes]
           /\ python' \in Runs \cup {None}
           /\ listens' \subseteq Runs
           /\ loading' \in Seq(Runs) /\ waiting' \in Seq(Runs) /\ queue' \in Seq(Runs)
           /\ byte' \in {0, 1}
<1> USE Types
<1>1. run' \in [Runs -> RunTypes]
  <2> DEFINE sleeps == python # None /\ byte # 0
  <2>1. run' = [Over(Rejected(python) \cup done) EXCEPT ![r] =
                   [for |-> caller, at |-> IF sleeps THEN "kill" ELSE "await",
                    ver |-> doc'.ver, kind |-> doc'.kind, victim |-> IF sleeps THEN python ELSE None]]
    BY DEF RunProgram
  <2>2. (IF sleeps THEN "kill" ELSE "await") \in {"kill", "await"}
    OBVIOUS
  <2>3. (IF sleeps THEN python ELSE None) \in Runs \cup {None}
    OBVIOUS
  <2> HIDE DEF sleeps
  <2>4. QED
    BY <2>1, <2>2, <2>3, NewRunType
<1>2. CASE UNCHANGED <<python, byte, loading, waiting, queue>> /\ listens' = listens \ done
  BY <1>1, <1>2
<1>3. CASE /\ python' = r
           /\ listens' = (listens \ ({python} \cup done)) \cup {r}
           /\ byte' = IF python # None THEN 1 ELSE byte
           /\ Process(r, byte')
  BY <1>1, <1>3, ProcessType
<1>4. QED
  BY <1>2, <1>3 DEF RunProgram

LEMMA UserTypes ==
    ASSUME TypeOK, UserStep, habits' = habits
    PROVE  TypeOK'
<1> USE Types
<1>1. ASSUME NEW k \in Kinds, NEW spansLines \in BOOLEAN, Edit(k, spansLines)
      PROVE  TypeOK'
  <2>1. doc' \in Texts
    BY <1>1, Numbers DEF Edit, Texts
  <2>2. timer' \in BOOLEAN
    BY <1>1 DEF Edit
  <2>3. /\ shown' = shown /\ spinner' = spinner /\ ready' = ready
        /\ working' = working /\ mail' = mail
    BY <1>1 DEF Edit
  <2>4. CASE spansLines
    <3>1. PICK r \in Runs : RunProgram(r, "boxes", {})
      BY <1>1, <2>4 DEF Edit
    <3>2. QED
      BY <2>1, <2>2, <2>3, <3>1, RunProgramType, TypesNext
  <2>5. CASE ~spansLines
    <3>1. UNCHANGED <<processVars, byte, queue>>
      BY <1>1, <2>5 DEF Edit
    <3>2. QED
      BY <2>1, <2>2, <2>3, <3>1, TypesNext DEF processVars
  <2>6. QED
    BY <2>4, <2>5
<1>2. CASE Refresh
  <2>1. PICK r \in Runs : RunProgram(r, "boxes", {})
    BY <1>2 DEF Refresh
  <2>2. /\ doc' = doc /\ timer' = FALSE
        /\ UNCHANGED <<shown, spinner, ready, working, mail>>
    BY <1>2 DEF Refresh
  <2>3. /\ run' \in [Runs -> RunTypes] /\ python' \in Runs \cup {None} /\ listens' \subseteq Runs
        /\ loading' \in Seq(Runs) /\ waiting' \in Seq(Runs) /\ queue' \in Seq(Runs)
        /\ byte' \in {0, 1}
    <3>1. doc' \in Texts /\ {} \in SUBSET Runs /\ "boxes" \in {"boxes", "nobody"}
      BY <2>2
    <3>2. QED
      BY <2>1, <3>1, RunProgramType
  <2>4. QED
    BY <2>2, <2>3, TypesNext
<1>3. QED
  BY <1>1, <1>2 DEF UserStep

LEMMA LoadedType ==
    ASSUME TypeOK, Loaded, habits' = habits
    PROVE  TypeOK'
<1> USE Types
<1>1. PICK r \in Runs :
        /\ run' = [run EXCEPT ![r] = [for |-> "page", at |-> "await", ver |-> doc.ver,
                                      kind |-> doc.kind, victim |-> None]]
        /\ listens' = listens \cup {r}
        /\ \/ byte = 0 /\ queue' = loading \o <<r>> /\ UNCHANGED waiting
           \/ byte # 0 /\ waiting' = loading \o <<r>> /\ UNCHANGED queue
  BY DEF Loaded
<1>2. [for |-> "page", at |-> "await", ver |-> doc.ver, kind |-> doc.kind, victim |-> None] \in RunTypes
  BY Numbers DEF RunTypes, Texts
<1>3. run' \in [Runs -> RunTypes] /\ listens' \subseteq Runs
  BY <1>1, <1>2
<1>4. loading \o <<r>> \in Seq(Runs) /\ <<>> \in Seq(Runs)
  BY SingleElement, ConcatElements, EmptySeq
<1>5. queue' \in Seq(Runs) /\ waiting' \in Seq(Runs)
  BY <1>1, <1>4
<1>6. /\ ready' = TRUE /\ loading' = <<>>
      /\ UNCHANGED <<doc, shown, timer, spinner, python, byte, working, mail>>
  BY DEF Loaded
<1>7. QED
  BY <1>3, <1>4, <1>5, <1>6, TypesNext

LEMMA PageTypes ==
    ASSUME TypeOK, PageStep
    PROVE  TypeOK'
<1> USE Types
<1>1. habits' = habits
  BY DEF PageStep
<1>2. CASE TimerFires
  <2>1. PICK r \in Runs : RunProgram(r, "boxes", {})
    BY <1>2 DEF TimerFires
  <2>2. /\ doc' = doc /\ timer' = FALSE
        /\ UNCHANGED <<shown, spinner, ready, working, mail>>
    BY <1>2 DEF TimerFires
  <2>3. /\ run' \in [Runs -> RunTypes] /\ python' \in Runs \cup {None} /\ listens' \subseteq Runs
        /\ loading' \in Seq(Runs) /\ waiting' \in Seq(Runs) /\ queue' \in Seq(Runs)
        /\ byte' \in {0, 1}
    <3>1. doc' \in Texts /\ {} \in SUBSET Runs /\ "boxes" \in {"boxes", "nobody"}
      BY <2>2
    <3>2. QED
      BY <2>1, <3>1, RunProgramType
  <2>4. QED
    BY <1>1, <2>2, <2>3, TypesNext
<1>3. CASE Loaded
  BY <1>1, <1>3, LoadedType
<1>4. CASE GivesUp
  <2>1. Tail(waiting) \in Seq(Runs) /\ Head(waiting) \in Runs
    BY <1>4, TailElements DEF GivesUp
  <2>2. Append(queue, Head(waiting)) \in Seq(Runs)
    BY <2>1, AppendElements
  <2>3. /\ byte' = 0 /\ waiting' = Tail(waiting) /\ queue' = Append(queue, Head(waiting))
        /\ UNCHANGED <<pageVars, run, python, listens, loading, working, mail>>
    BY <1>4 DEF GivesUp
  <2>4. QED
    BY <1>1, <2>1, <2>2, <2>3, TypesNext DEF pageVars
<1>5. QED
  BY <1>2, <1>3, <1>4 DEF PageStep

LEMMA ResultType ==
    ASSUME TypeOK, NEW r \in Runs, Result(r), habits' = habits
    PROVE  TypeOK'
<1> USE Types
<1>1. mail' \in Seq(Answers)
  BY TailElements DEF Result
<1>2. ready' = ready /\ working' = working
  BY DEF Result
<1>3. CASE /\ spinner' = FALSE
           /\ UNCHANGED <<doc, shown, timer>>
           /\ \E q \in Runs : RunProgram(q, "nobody", {r})
  <2>1. PICK q \in Runs : RunProgram(q, "nobody", {r})
    BY <1>3
  <2>2. doc' \in Texts /\ {r} \in SUBSET Runs /\ "nobody" \in {"boxes", "nobody"}
    BY <1>3
  <2>3. /\ run' \in [Runs -> RunTypes] /\ python' \in Runs \cup {None} /\ listens' \subseteq Runs
        /\ loading' \in Seq(Runs) /\ waiting' \in Seq(Runs) /\ queue' \in Seq(Runs)
        /\ byte' \in {0, 1}
    BY <2>1, <2>2, RunProgramType
  <2>4. QED
    BY <1>1, <1>2, <1>3, <2>3, TypesNext
<1>4. CASE /\ run' = Over({r})
           /\ listens' = listens \ {r}
           /\ python' = None
           /\ shown' = IF run[r].for = "boxes" /\ run[r].kind # "error" THEN run[r].ver ELSE shown
           /\ UNCHANGED <<doc, timer, spinner, loading, waiting, queue, byte>>
  <2>1. run[r].ver \in 0..MaxVersion
    BY DEF RunTypes
  <2>2. run' \in [Runs -> RunTypes]
    BY <1>4, OverType
  <2>3. QED
    BY <1>1, <1>2, <1>4, <2>1, <2>2, TypesNext
<1>5. CASE /\ listens' = listens \ {r}
           /\ UNCHANGED <<doc, shown, timer, spinner, run, python, loading, waiting, queue, byte>>
  BY <1>1, <1>2, <1>5, TypesNext
<1>6. QED
  BY <1>3, <1>4, <1>5 DEF Result

LEMMA RunTypesKept ==
    ASSUME TypeOK, NEW r \in Runs, RunStep(r)
    PROVE  TypeOK'
<1> USE Types
<1>1. habits' = habits
  BY DEF RunStep
<1>2. CASE KillEnds(r)
  <2>1. run' \in [Runs -> RunTypes]
    <3>1. run' = [run EXCEPT ![r].at = "await"]
      BY <1>2 DEF KillEnds
    <3>2. [run[r] EXCEPT !.at = "await"] \in RunTypes
      BY DEF RunTypes
    <3>3. QED
      BY <3>1, <3>2
  <2>2. loading' \in Seq(Runs) /\ waiting' \in Seq(Runs) /\ queue' \in Seq(Runs)
    BY <1>2, ProcessType DEF KillEnds
  <2>3. /\ byte' = 1 /\ python' = r /\ listens' = (listens \ {run[r].victim}) \cup {r}
        /\ UNCHANGED <<pageVars, working, mail>>
    BY <1>2 DEF KillEnds
  <2>4. QED
    BY <1>1, <2>1, <2>2, <2>3, TypesNext DEF pageVars
<1>3. CASE Posts(r)
  <2>1. PICK i \in DOMAIN waiting :
          waiting' = SubSeq(waiting, 1, i - 1) \o SubSeq(waiting, i + 1, Len(waiting))
    BY <1>3 DEF Posts
  <2>2. waiting' \in Seq(Runs)
    BY <2>1, CutElements
  <2>3. Append(queue, r) \in Seq(Runs)
    BY AppendElements
  <2>4. /\ queue' = Append(queue, r)
        /\ UNCHANGED <<pageVars, run, python, listens, loading, byte, working, mail>>
    BY <1>3 DEF Posts
  <2>5. QED
    BY <1>1, <2>2, <2>3, <2>4, TypesNext DEF pageVars
<1>4. CASE Result(r)
  BY <1>1, <1>4, ResultType
<1>5. CASE Exception(r)
  <2>1. mail' \in Seq(Answers)
    BY <1>5, TailElements DEF Exception
  <2>2. run' \in [Runs -> RunTypes]
    BY <1>5, OverType DEF Exception
  <2>3. /\ listens' = listens \ {r}
        /\ UNCHANGED <<pageVars, python, loading, waiting, byte, queue, working>>
    BY <1>5 DEF Exception
  <2>4. QED
    BY <1>1, <2>1, <2>2, <2>3, TypesNext DEF pageVars
<1>6. QED
  BY <1>2, <1>3, <1>4, <1>5 DEF RunStep

LEMMA WorkerTypes ==
    ASSUME TypeOK, WorkerStep
    PROVE  TypeOK'
<1> USE Types
<1>1. habits' = habits
  BY DEF WorkerStep
<1>2. CASE Takes
  <2>1. Tail(queue) \in Seq(Runs) /\ Head(queue) \in Runs
    BY <1>2, TailElements DEF Takes
  <2>2. /\ working' = Head(queue) /\ queue' = Tail(queue)
        /\ UNCHANGED <<pageVars, processVars, byte, mail>>
    BY <1>2 DEF Takes
  <2>3. QED
    BY <1>1, <2>1, <2>2, TypesNext DEF pageVars, processVars
<1>3. ASSUME NEW ok \in BOOLEAN, working # None,
             mail' = Append(mail, [run |-> working, result |-> ok])
      PROVE  mail' \in Seq(Answers)
  <2>1. [run |-> working, result |-> ok] \in Answers
    BY <1>3 DEF Answers
  <2>2. QED
    BY <1>3, <2>1, AppendElements
<1>4. CASE Ends
  <2>1. mail' \in Seq(Answers)
    BY <1>3, <1>4 DEF Ends
  <2>2. working' = None /\ UNCHANGED <<pageVars, processVars, byte, queue>>
    BY <1>4 DEF Ends
  <2>3. QED
    BY <1>1, <2>1, <2>2, TypesNext DEF pageVars, processVars
<1>5. CASE Interrupted
  <2>1. mail' \in Seq(Answers)
    BY <1>3, <1>5 DEF Interrupted
  <2>2. byte' = 0 /\ working' = None /\ UNCHANGED <<pageVars, processVars, queue>>
    BY <1>5 DEF Interrupted
  <2>3. QED
    BY <1>1, <2>1, <2>2, TypesNext DEF pageVars, processVars
<1>6. QED
  BY <1>2, <1>4, <1>5 DEF WorkerStep

LEMMA NextType == TypeOK /\ [Next]_vars => TypeOK'
<1> SUFFICES ASSUME TypeOK, [Next]_vars PROVE TypeOK'
  OBVIOUS
<1>1. CASE UserStep /\ UNCHANGED habits
  BY <1>1, UserTypes
<1>2. CASE PageStep
  BY <1>2, PageTypes
<1>3. CASE \E r \in Runs : RunStep(r)
  BY <1>3, RunTypesKept
<1>4. CASE WorkerStep
  BY <1>4, WorkerTypes
<1>5. CASE UNCHANGED vars
  BY <1>5, Types, TypesNext DEF vars, pageVars, processVars, workerVars
<1>6. QED
  BY <1>1, <1>2, <1>3, <1>4, <1>5 DEF Next

(* Every variable keeps its type, whatever the bounds, the programs and the   *)
(* users are: the byte, the two queues and the runs of the web build.         *)
THEOREM TypeCorrect == Spec => []TypeOK
  BY InitType, NextType, PTL DEF Spec

-----------------------------------------------------------------------------
(***************************************************************************)
(* The inductive invariant, for a user who types neither before the first  *)
(* run of the page is over nor while a kill() waits.                       *)
(***************************************************************************)

Calm     == habits \cap {"early", "press"} = {}
Killing  == {r \in Runs : run[r].at = "kill"}
Page     == {r \in Runs : run[r].for = "page"}
Posted   == Elements(queue) \cup ({working} \ {None})
Requests == Elements(loading) \cup Elements(waiting) \cup Posted
Begun(r) == run[r].at \in {"await", "over"}

(* Before Pyodide is there the process of the first update is all there is.   *)
Before ==
    ~ready => /\ spinner
              /\ python = 1
              /\ loading = <<1>>
              /\ waiting = <<>> /\ queue = <<>> /\ working = None /\ mail = <<>>
              /\ Page = {}

(* Until the spinner goes nobody has been killed and nobody waits.            *)
Spinning ==
    /\ ready => loading = <<>>
    /\ spinner => /\ byte = 0
                  /\ waiting = <<>>
                  /\ timer = FALSE
                  /\ Killing = {}

(* A run that waits for its turn to kill has made no process yet.             *)
Made ==
    /\ \A r \in Requests : Begun(r)
    /\ python # None => Begun(python)

(* Nobody listens but the registered process and, under the spinner, the      *)
(* page's own run.                                                            *)
Listening ==
    /\ listens \subseteq {python} \cup Page
    /\ ~spinner => Page \cap listens = {}
    /\ \A q, r \in Page : q = r

(* One kill() waits at most, and its victim, which is rejected, stays         *)
(* registered until it ends.                                                  *)
OneKill ==
    \A r \in Killing :
        /\ run[r].for # "page"
        /\ run[r].victim = python
        /\ python # None
        /\ ~Awaits(python)
        /\ timer = FALSE
        /\ \A q \in Killing : q = r

(* While the byte is set nothing that is posted has a listener.               *)
Spared == byte # 0 => Posted \cap listens = {}

(* What may still be shown is not older than what is shown.                   *)
Newer ==
    /\ shown <= doc.ver
    /\ \A r \in Runs : run[r].ver <= doc.ver
    /\ \A r \in Runs : run[r].for = "boxes" /\ (r = python \/ r \in Killing) => shown <= run[r].ver

CalmInv ==
    /\ Before
    /\ Spinning
    /\ Made
    /\ Listening
    /\ OneKill
    /\ Spared
    /\ Newer

ByteInv == TypeOK /\ (Calm => CalmInv)

-----------------------------------------------------------------------------
(* The first state *)

LEMMA InitCalm == Init => CalmInv
<1> SUFFICES ASSUME Init PROVE CalmInv
  OBVIOUS
<1>1. \A r \in Runs : /\ run[r].for # "page"
                      /\ run[r].at # "kill"
                      /\ run[r].ver \in {0, 1}
                      /\ run[r].for = "boxes" => run[r].ver = 1
                      /\ r = 1 => Begun(r)
  BY DEF Init, Unused, Begun
<1>2. Page = {} /\ Killing = {}
  BY <1>1 DEF Page, Killing
<1>3. Requests = {1} /\ Posted = {}
  BY EmptyElements, Numbers, SingleElement DEF Init, Requests, Posted, None
<1>4. Before /\ Spinning
  BY <1>2 DEF Init, Before, Spinning
<1>5. Made /\ Listening /\ OneKill /\ Spared
  BY <1>1, <1>2, <1>3, Numbers DEF Init, Made, Listening, OneKill, Spared, None
<1>6. doc.ver = 1
  BY DEF Init
<1>7. Newer
  BY <1>1, <1>6 DEF Init, Newer
<1>8. QED
  BY <1>4, <1>5, <1>7 DEF CalmInv

(***************************************************************************)
(* Requests move from queue to queue, to the worker and away.              *)
(***************************************************************************)

LEMMA RequestsMove ==
    ASSUME TypeOK, CalmInv, ready,
           UNCHANGED <<pageVars, run, python, listens, loading>>,
           Requests' \subseteq Requests,
           waiting = <<>> => waiting' = <<>>,
           byte' = 0 \/ (byte' = byte /\ Posted' \subseteq Posted)
    PROVE  CalmInv'
<1>1. /\ Killing' = Killing /\ Page' = Page
      /\ \A r : Begun(r)' = Begun(r) /\ Awaits(r)' = Awaits(r)
  BY DEF Killing, Page, Begun, Awaits
<1>2. Before' /\ Spinning'
  BY <1>1 DEF CalmInv, Before, Spinning, pageVars
<1>3. Made'
  BY <1>1 DEF CalmInv, Made
<1>4. Listening'
  BY <1>1 DEF CalmInv, Listening, pageVars
<1>5. OneKill'
  BY <1>1 DEF CalmInv, OneKill, pageVars
<1>6. Spared'
  BY DEF CalmInv, Spared
<1>7. Newer'
  BY <1>1 DEF CalmInv, Newer, pageVars
<1>8. QED
  BY <1>2, <1>3, <1>4, <1>5, <1>6, <1>7 DEF CalmInv

LEMMA PostsMove ==
    ASSUME TypeOK, CalmInv, NEW r \in Runs, Posts(r)
    PROVE  CalmInv'
<1> USE Types
<1>1. PICK i \in DOMAIN waiting :
        /\ waiting[i] = r
        /\ waiting' = SubSeq(waiting, 1, i - 1) \o SubSeq(waiting, i + 1, Len(waiting))
  BY DEF Posts
<1>2. r \in Elements(waiting) /\ Elements(waiting') \subseteq Elements(waiting)
  <2>1. r \in Elements(waiting)
    BY <1>1 DEF Elements
  <2>2. QED
    BY <1>1, <2>1, CutElements
<1>3. Elements(queue') = Elements(queue) \cup {r}
  BY AppendElements DEF Posts
<1>4. UNCHANGED <<pageVars, run, python, listens, loading, byte, working>> /\ byte = 0
  BY DEF Posts
<1>5. waiting # <<>> /\ ready
  BY <1>2, EmptyElements DEF CalmInv, Before
<1>6. Requests' \subseteq Requests
  BY <1>2, <1>3, <1>4 DEF Requests, Posted
<1>7. QED
  BY <1>4, <1>5, <1>6, RequestsMove

LEMMA GivesUpMoves ==
    ASSUME TypeOK, CalmInv, GivesUp
    PROVE  CalmInv'
<1> USE Types
<1>1. waiting # <<>> /\ byte' = 0 /\ UNCHANGED <<pageVars, run, python, listens, loading, working>>
  BY DEF GivesUp
<1>2. /\ Elements(waiting') \subseteq Elements(waiting)
      /\ Head(waiting) \in Runs /\ Head(waiting) \in Elements(waiting)
  BY TailElements DEF GivesUp
<1>3. Elements(queue') = Elements(queue) \cup {Head(waiting)}
  BY <1>2, AppendElements DEF GivesUp
<1>4. ready
  BY <1>1 DEF CalmInv, Before
<1>5. Requests' \subseteq Requests
  BY <1>1, <1>2, <1>3 DEF Requests, Posted
<1>6. QED
  BY <1>1, <1>4, <1>5, RequestsMove

LEMMA WorkerMoves ==
    ASSUME TypeOK, CalmInv, WorkerStep
    PROVE  CalmInv'
<1> USE Types
<1>1. CASE Takes
  <2>1. queue # <<>> /\ working = None /\ working' = Head(queue) /\ queue' = Tail(queue)
        /\ UNCHANGED <<pageVars, processVars, byte>>
    BY <1>1 DEF Takes
  <2>2. Elements(queue') \subseteq Elements(queue) /\ Head(queue) \in Elements(queue)
    BY <2>1, TailElements
  <2>3. ready
    BY <2>1 DEF CalmInv, Before
  <2>4. Posted' \subseteq Posted
    BY <2>1, <2>2, Numbers, ElementsType DEF Posted
  <2>5. Requests' \subseteq Requests
    BY <2>1, <2>4 DEF Requests, processVars
  <2>6. QED
    BY <2>1, <2>3, <2>4, <2>5, RequestsMove DEF processVars
<1>2. ASSUME working # None, working' = None, byte' \in {0, byte},
             UNCHANGED <<pageVars, processVars, queue>>
      PROVE  CalmInv'
  <2>1. ready
    BY <1>2 DEF CalmInv, Before
  <2>2. Posted' \subseteq Posted
    BY <1>2 DEF Posted
  <2>3. Requests' \subseteq Requests
    BY <1>2, <2>2 DEF Requests, processVars
  <2>4. QED
    BY <1>2, <2>1, <2>2, <2>3, RequestsMove DEF processVars
<1>3. CASE Ends
  BY <1>2, <1>3 DEF Ends
<1>4. CASE Interrupted
  BY <1>2, <1>4 DEF Interrupted
<1>5. QED
  BY <1>1, <1>3, <1>4 DEF WorkerStep

(***************************************************************************)
(* runProgram, when no kill() waits.                                       *)
(***************************************************************************)

LEMMA UnusedRun ==
    ASSUME TypeOK, CalmInv, NEW r \in Runs, run[r] = Unused
    PROVE  /\ r \notin Requests
           /\ r # python
           /\ r \notin Page
           /\ r \notin Killing
           /\ r \notin listens
<1>1. run[r].at = "unused" /\ run[r].for = "none"
  BY DEF Unused
<1>2. ~Begun(r)
  BY <1>1 DEF Begun
<1>3. r \notin Requests /\ r # python
  BY <1>2, Numbers DEF CalmInv, Made
<1>4. r \notin Page /\ r \notin Killing
  BY <1>1 DEF Page, Killing
<1>5. QED
  BY <1>3, <1>4 DEF CalmInv, Listening

LEMMA ProcessPlaces ==
    ASSUME TypeOK, ready, NEW r \in Runs, NEW b, Process(r, b)
    PROVE  /\ loading' = loading
           /\ b = 0 => Elements(queue') = Elements(queue) \cup {r} /\ waiting' = waiting
           /\ b # 0 => queue' = queue /\ Elements(waiting') = Elements(waiting) \cup {r}
<1>1. /\ Elements(Append(queue, r)) = Elements(queue) \cup {r}
      /\ Elements(Append(waiting, r)) = Elements(waiting) \cup {r}
  BY Types, AppendElements
<1>2. QED
  BY <1>1 DEF Process

(* What a call of runProgram does to the runs there are: it may end them.     *)
EndsOnly(r) ==
    \A q \in Runs \ {r} :
        /\ run'[q].for = run[q].for
        /\ run'[q].ver = run[q].ver
        /\ run'[q].victim = run[q].victim
        /\ run'[q].at = run[q].at \/ run'[q].at = "over"

Gone(rs, r) ==
    \A q \in Runs \ {r} : /\ q \in rs => run'[q].at = "over"
                          /\ q \notin rs => run'[q] = run[q]

LEMMA OverEnds ==
    ASSUME TypeOK, NEW rs, NEW r \in Runs, NEW new,
           run' = [Over(rs) EXCEPT ![r] = new]
    PROVE  /\ EndsOnly(r)
           /\ run'[r] = new
           /\ Gone(rs, r)
<1>1. \A q \in Runs : Over(rs)[q] = IF q \in rs THEN [run[q] EXCEPT !.at = "over"] ELSE run[q]
  BY DEF Over
<1>2. \A q \in Runs \ {r} : run'[q] = Over(rs)[q]
  BY DEF Over
<1>3. run'[r] = new
  BY DEF Over
<1>4. \A q \in Runs : run[q] \in RunTypes
  BY Types
<1>5. ASSUME NEW q \in Runs \ {r}
      PROVE  /\ run'[q].for = run[q].for /\ run'[q].ver = run[q].ver
             /\ run'[q].victim = run[q].victim
             /\ run'[q].at = run[q].at \/ run'[q].at = "over"
             /\ q \in rs => run'[q].at = "over"
             /\ q \notin rs => run'[q] = run[q]
  <2>1. CASE q \in rs
    <3>1. run'[q] = [run[q] EXCEPT !.at = "over"]
      BY <1>1, <1>2, <2>1
    <3>2. QED
      BY <1>4, <2>1, <3>1 DEF RunTypes
  <2>2. CASE q \notin rs
    BY <1>1, <1>2, <2>2
  <2>3. QED
    BY <2>1, <2>2
<1>6. QED
  BY <1>3, <1>5 DEF EndsOnly, Gone

LEMMA CallKeepsCalm ==
    ASSUME TypeOK, TypeOK', CalmInv, ready, ready', Killing = {},
           NEW r \in Runs, NEW caller \in {"boxes", "nobody"}, NEW done \in SUBSET Runs,
           RunProgram(r, caller, done),
           Page \cap listens \subseteq done,
           doc.ver <= doc'.ver,
           UNCHANGED <<shown, working>>, timer' = FALSE, spinner' = FALSE
    PROVE  CalmInv'
<1> DEFINE sleeps == python # None /\ byte # 0
           gone == Rejected(python) \cup done
           new == [for |-> caller, at |-> IF sleeps THEN "kill" ELSE "await",
                   ver |-> doc'.ver, kind |-> doc'.kind, victim |-> IF sleeps THEN python ELSE None]
<1>1. run[r] = Unused /\ run' = [Over(gone) EXCEPT ![r] = new]
  BY DEF RunProgram
<1> HIDE DEF gone, new
<1>2. EndsOnly(r) /\ run'[r] = new /\ (\A q \in Runs \ {r} : q \in gone => run'[q].at = "over")
  <2>1. EndsOnly(r) /\ run'[r] = new /\ Gone(gone, r)
    BY <1>1, OverEnds
  <2>2. QED
    BY <2>1 DEF Gone
<1>3. /\ run'[r].for = caller /\ run'[r].ver = doc'.ver
      /\ run'[r].at = IF sleeps THEN "kill" ELSE "await"
      /\ run'[r].victim = IF sleeps THEN python ELSE None
  BY <1>2 DEF new
<1>4. r \notin Requests /\ r # python /\ r \notin Page /\ r \notin listens
  BY <1>1, UnusedRun
<1>5. gone = ({python} \ {None}) \cup done
  BY EmptyElements DEF CalmInv, Spinning, Rejected, gone
<1>6. \/ /\ sleeps
         /\ listens' = listens \ done
         /\ UNCHANGED <<python, byte, loading, waiting, queue>>
      \/ /\ ~sleeps
         /\ python' = r
         /\ listens' = (listens \ ({python} \cup done)) \cup {r}
         /\ byte' = IF python # None THEN 1 ELSE byte
         /\ Process(r, byte')
  BY DEF RunProgram
<1> HIDE DEF sleeps
<1>7. Page' = Page
  BY <1>2, <1>3, <1>4 DEF EndsOnly, Page
<1>8. Killing' = IF sleeps THEN {r} ELSE {}
  <2>1. \A q \in Runs \ {r} : run'[q].at # "kill"
    BY <1>2 DEF EndsOnly, Killing
  <2>2. QED
    BY <1>3, <2>1 DEF Killing
<1>9. \A q \in Runs \ {r} : Begun(q) => Begun(q)'
  BY <1>2 DEF EndsOnly, Begun
<1>10. loading' = loading /\ loading = <<>> /\ waiting \in Seq(Runs) /\ queue \in Seq(Runs)
  BY <1>6, ProcessPlaces, Types DEF CalmInv, Spinning
<1>11. Before' /\ Spinning'
  BY <1>10 DEF Before, Spinning
<1>12. Requests \subseteq Runs
  BY <1>10, ElementsType, EmptyElements, Types DEF Requests, Posted
<1>13. CASE sleeps
  <2>1. UNCHANGED <<python, byte, loading, waiting, queue>> /\ listens' = listens \ done
    BY <1>6, <1>13
  <2>2. Requests' = Requests /\ Posted' = Posted
    BY <2>1 DEF Requests, Posted
  <2>3. Made'
    BY <1>4, <1>9, <1>12, <2>1, <2>2, Types DEF CalmInv, Made
  <2>4. Listening'
    BY <1>7, <2>1 DEF CalmInv, Listening
  <2>5. python \in Runs \ {r} /\ run'[python].at = "over"
    BY <1>2, <1>4, <1>5, <1>13, Types DEF sleeps
  <2>6. OneKill'
    BY <1>3, <1>8, <1>13, <2>1, <2>5, Numbers DEF OneKill, Awaits
  <2>7. Spared'
    BY <2>1, <2>2 DEF CalmInv, Spared
  <2>8. /\ shown' <= doc'.ver
        /\ \A q \in Runs : run'[q].ver <= doc'.ver
        /\ \A q \in Runs : run'[q].for = "boxes" /\ (q = python' \/ q \in Killing') => shown' <= run'[q].ver
    <3>1. shown \in Nat /\ doc.ver \in Nat /\ doc'.ver \in Nat /\ \A q \in Runs : run[q].ver \in Nat
      BY Versions, VersionsNext
    <3>2. shown <= doc.ver /\ \A q \in Runs : run[q].ver <= doc.ver
      BY DEF CalmInv, Newer
    <3>3. shown' <= doc'.ver
      BY <3>1, <3>2
    <3>4. ASSUME NEW q \in Runs PROVE run'[q].ver <= doc'.ver
      BY <1>2, <1>3, <3>1, <3>2 DEF EndsOnly
    <3>5. run[python].for = "boxes" => shown <= run[python].ver
      BY <2>5 DEF CalmInv, Newer
    <3>6. ASSUME NEW q \in Runs, run'[q].for = "boxes", q = python' \/ q \in Killing'
          PROVE  shown' <= run'[q].ver
      <4>1. q = python \/ q = r
        BY <1>8, <3>6, <2>1
      <4>2. CASE q = r
        BY <1>3, <3>3, <4>2
      <4>3. CASE q = python
        BY <1>2, <2>5, <3>5, <3>6, <4>3 DEF EndsOnly
      <4>4. QED
        BY <4>1, <4>2, <4>3
    <3>7. QED
      BY <3>3, <3>4, <3>6
  <2>9. Newer'
    BY <2>8 DEF Newer
  <2>10. QED
    BY <1>11, <2>3, <2>4, <2>6, <2>7, <2>9 DEF CalmInv
<1>14. CASE ~sleeps
  <2>1. /\ python' = r
        /\ listens' = (listens \ ({python} \cup done)) \cup {r}
        /\ byte' = IF python # None THEN 1 ELSE byte
        /\ Process(r, byte')
    BY <1>6, <1>14
  <2>2. /\ byte' = 0 => Elements(queue') = Elements(queue) \cup {r} /\ waiting' = waiting
        /\ byte' # 0 => queue' = queue /\ Elements(waiting') = Elements(waiting) \cup {r}
    BY <2>1, ProcessPlaces
  <2>3. Requests' = Requests \cup {r} /\ (byte' # 0 => Posted' = Posted)
    BY <1>10, <2>2 DEF Requests, Posted
  <2>4. run'[r].at = "await" /\ r # None
    BY <1>3, <1>14, Numbers
  <2>5. Made'
    <3>1. \A q \in Requests : Begun(q)'
      BY <1>4, <1>9, <1>12 DEF CalmInv, Made
    <3>2. Begun(r)'
      BY <2>4 DEF Begun
    <3>3. QED
      BY <2>1, <2>3, <3>1, <3>2 DEF Made
  <2>6. listens' = {r}
    BY <2>1 DEF CalmInv, Listening
  <2>7. Listening'
    BY <1>4, <1>7, <2>1, <2>6 DEF CalmInv, Listening
  <2>8. OneKill'
    BY <1>8, <1>14 DEF OneKill
  <2>9. Spared'
    BY <1>4, <2>3, <2>6 DEF Spared, Requests
  <2>10. /\ shown' <= doc'.ver
         /\ \A q \in Runs : run'[q].ver <= doc'.ver
         /\ \A q \in Runs : run'[q].for = "boxes" /\ (q = python' \/ q \in Killing') => shown' <= run'[q].ver
    <3>1. shown \in Nat /\ doc.ver \in Nat /\ doc'.ver \in Nat /\ \A q \in Runs : run[q].ver \in Nat
      BY Versions, VersionsNext
    <3>2. shown <= doc.ver /\ \A q \in Runs : run[q].ver <= doc.ver
      BY DEF CalmInv, Newer
    <3>3. shown' <= doc'.ver
      BY <3>1, <3>2
    <3>4. ASSUME NEW q \in Runs PROVE run'[q].ver <= doc'.ver
      BY <1>2, <1>3, <3>1, <3>2 DEF EndsOnly
    <3>5. QED
      BY <1>3, <1>8, <1>14, <2>1, <3>3, <3>4
  <2>11. Newer'
    BY <2>10 DEF Newer
  <2>12. QED
    BY <1>11, <2>5, <2>7, <2>8, <2>9, <2>11 DEF CalmInv
<1>15. QED
  BY <1>13, <1>14

(***************************************************************************)
(* The user, the timer and the page                                        *)
(***************************************************************************)

LEMMA CalmTypist ==
    ASSUME TypeOK, Calm, CalmInv, MayType
    PROVE  ready /\ ~spinner /\ Killing = {}
<1>1. "early" \notin habits /\ "press" \notin habits
  BY DEF Calm
<1>2. QED
  BY <1>1 DEF MayType, Killing

LEMMA CallAgain ==
    ASSUME TypeOK, TypeOK', CalmInv, ready, ~spinner, Killing = {},
           \E r \in Runs : RunProgram(r, "boxes", {}),
           doc.ver <= doc'.ver, timer' = FALSE,
           UNCHANGED <<shown, spinner, ready, working>>
    PROVE  CalmInv'
<1>1. PICK r \in Runs : RunProgram(r, "boxes", {})
  OBVIOUS
<1>2. Page \cap listens \subseteq {} /\ {} \in SUBSET Runs /\ "boxes" \in {"boxes", "nobody"}
  BY DEF CalmInv, Listening
<1>3. ready' /\ spinner' = FALSE
  BY Types
<1>4. QED
  BY <1>1, <1>2, <1>3, CallKeepsCalm

LEMMA UserCalm ==
    ASSUME TypeOK, TypeOK', Calm, CalmInv, UserStep
    PROVE  CalmInv'
<1>1. doc.ver \in Nat
  BY Types, Numbers DEF Texts
<1>2. ASSUME NEW k \in Kinds, NEW spansLines \in BOOLEAN, Edit(k, spansLines)
      PROVE  CalmInv'
  <2>1. ready /\ ~spinner /\ Killing = {}
    BY <1>2, CalmTypist DEF Edit
  <2>2. doc' = [ver |-> doc.ver + 1, kind |-> k] /\ UNCHANGED <<shown, spinner, ready, working, mail>>
    BY <1>2 DEF Edit
  <2>3. doc.ver <= doc'.ver
    BY <1>1, <2>2
  <2>4. CASE spansLines
    BY <1>2, <2>1, <2>2, <2>3, <2>4, CallAgain DEF Edit
  <2>5. CASE ~spansLines
    <3>1. UNCHANGED <<run, python, listens, loading, waiting, byte, queue>>
      BY <1>2, <2>5 DEF Edit, processVars
    <3>2. /\ Killing' = {} /\ Page' = Page /\ Requests' = Requests /\ Posted' = Posted
          /\ \A r : Begun(r)' = Begun(r)
      BY <2>1, <2>2, <3>1 DEF Killing, Page, Requests, Posted, Begun
    <3>3. Before' /\ Spinning'
      BY <2>1, <2>2, <3>1 DEF CalmInv, Before, Spinning
    <3>4. Made' /\ Listening' /\ OneKill' /\ Spared'
      BY <2>2, <3>1, <3>2 DEF CalmInv, Made, Listening, OneKill, Spared
    <3>5. Newer'
      <4>1. shown \in Nat /\ doc'.ver \in Nat /\ \A r \in Runs : run[r].ver \in Nat
        BY Versions, VersionsNext
      <4>2. shown' <= doc'.ver /\ \A r \in Runs : run'[r].ver <= doc'.ver
        BY <1>1, <2>2, <2>3, <3>1, <4>1 DEF CalmInv, Newer
      <4>3. QED
        BY <2>1, <2>2, <3>1, <3>2, <4>2 DEF CalmInv, Newer
    <3>6. QED
      BY <3>3, <3>4, <3>5 DEF CalmInv
  <2>6. QED
    BY <2>4, <2>5
<1>3. CASE Refresh
  <2>1. ready /\ ~spinner /\ Killing = {}
    BY <1>3, CalmTypist DEF Refresh
  <2>2. doc.ver <= doc'.ver /\ UNCHANGED <<shown, spinner, ready, working>>
    BY <1>1, <1>3 DEF Refresh
  <2>3. QED
    BY <1>3, <2>1, <2>2, CallAgain DEF Refresh
<1>4. QED
  BY <1>2, <1>3 DEF UserStep

LEMMA TimerCalm ==
    ASSUME TypeOK, TypeOK', CalmInv, TimerFires
    PROVE  CalmInv'
<1>1. timer
  BY DEF TimerFires
<1>2. ~spinner /\ ready
  BY <1>1, Types DEF CalmInv, Spinning, Before
<1>3. Killing = {}
  BY <1>1, Types DEF CalmInv, OneKill
<1>4. doc.ver \in Nat /\ doc' = doc
  BY Types, Numbers DEF Texts, TimerFires
<1>5. doc.ver <= doc'.ver
  BY <1>4
<1>6. QED
  BY <1>2, <1>3, <1>5, CallAgain DEF TimerFires

LEMMA LoadedCalm ==
    ASSUME TypeOK, TypeOK', CalmInv, Loaded
    PROVE  CalmInv'
<1> DEFINE new(r) == [for |-> "page", at |-> "await", ver |-> doc.ver, kind |-> doc.kind, victim |-> None]
<1>1. PICK r \in Runs :
        /\ run[r] = Unused
        /\ run' = [run EXCEPT ![r] = new(r)]
        /\ listens' = listens \cup {r}
        /\ \/ byte = 0 /\ queue' = loading \o <<r>> /\ UNCHANGED waiting
           \/ byte # 0 /\ waiting' = loading \o <<r>> /\ UNCHANGED queue
  BY DEF Loaded
<1>2. /\ ready' = TRUE /\ loading' = <<>>
      /\ UNCHANGED <<doc, shown, timer, spinner, python, byte, working>>
  BY DEF Loaded
<1>3. /\ ~ready /\ spinner /\ python = 1 /\ loading = <<1>> /\ working = None /\ Page = {}
      /\ byte = 0 /\ waiting = <<>> /\ queue = <<>> /\ Killing = {}
  BY DEF Loaded, CalmInv, Before, Spinning
<1>4. /\ \A q \in Runs \ {r} : run'[q] = run[q]
      /\ run'[r].for = "page" /\ run'[r].at = "await" /\ run'[r].ver = doc.ver
  BY <1>1, Types
<1>5. r # 1 /\ r \notin listens
  BY <1>1, <1>3, UnusedRun
<1>6. Elements(queue') \subseteq {1, r}
  <2>1. queue' = <<1>> \o <<r>> /\ 1 \in Runs
    BY <1>1, <1>3, Numbers
  <2>2. /\ <<1>> \in Seq(Runs) /\ Elements(<<1>>) = {1}
        /\ <<r>> \in Seq(Runs) /\ Elements(<<r>>) = {r}
    BY <2>1, SingleElement
  <2>3. QED
    BY <2>1, <2>2, ConcatElements
<1>7. Requests' \subseteq {1, r}
  BY <1>1, <1>2, <1>3, <1>6, EmptyElements DEF Requests, Posted
<1>8. Page' = {r} /\ Killing' = {}
  BY <1>3, <1>4 DEF Page, Killing
<1>9. Begun(1)' /\ Begun(r)'
  <2>1. Begun(1)
    BY <1>3, Numbers DEF CalmInv, Made
  <2>2. QED
    BY <1>4, <1>5, <2>1, Numbers DEF Begun
<1>10. Before' /\ Spinning'
  BY <1>1, <1>2, <1>3, <1>8, Types DEF CalmInv, Before, Spinning
<1>11. Made'
  BY <1>2, <1>3, <1>7, <1>9 DEF Made
<1>12. Listening'
  BY <1>1, <1>2, <1>3, <1>8 DEF CalmInv, Listening
<1>13. OneKill' /\ Spared'
  BY <1>2, <1>3, <1>8 DEF OneKill, Spared
<1>14. Newer'
  <2>1. doc.ver \in Nat
    BY Types, Numbers DEF Texts
  <2>2. doc.ver <= doc.ver
    BY <2>1
  <2>3. QED
    BY <1>2, <1>3, <1>4, <1>8, <2>2 DEF CalmInv, Newer
<1>15. QED
  BY <1>10, <1>11, <1>12, <1>13, <1>14 DEF CalmInv

(***************************************************************************)
(* A kill() that waited                                                    *)
(***************************************************************************)

LEMMA KillEndsCalm ==
    ASSUME TypeOK, TypeOK', CalmInv, NEW r \in Runs, KillEnds(r)
    PROVE  CalmInv'
<1>1. /\ run[r].at = "kill" /\ byte' = 1 /\ python' = r
      /\ listens' = (listens \ {run[r].victim}) \cup {r}
      /\ run' = [run EXCEPT ![r].at = "await"]
      /\ Process(r, 1)
      /\ UNCHANGED <<doc, shown, timer, spinner, ready, working>>
  BY DEF KillEnds, pageVars
<1>2. r \in Killing /\ ~spinner /\ ready /\ run[r].victim = python
  BY <1>1, Types DEF Killing, CalmInv, OneKill, Spinning, Before
<1>3. r \notin Requests /\ r # python
  BY <1>1, Numbers DEF CalmInv, Made, Begun
<1>4. /\ \A q \in Runs \ {r} : run'[q] = run[q]
      /\ run'[r].at = "await" /\ run'[r].for = run[r].for /\ run'[r].ver = run[r].ver
  BY <1>1, Types DEF RunTypes
<1>5. loading' = loading /\ queue' = queue /\ Elements(waiting') = Elements(waiting) \cup {r}
  BY <1>1, <1>2, ProcessPlaces
<1>6. Requests' = Requests \cup {r} /\ Posted' = Posted
  BY <1>1, <1>5 DEF Requests, Posted
<1>7. Killing' = {}
  BY <1>2, <1>4 DEF CalmInv, OneKill, Killing
<1>8. Page' = Page
  BY <1>4 DEF Page
<1>9. listens' = {r}
  BY <1>1, <1>2 DEF CalmInv, Listening
<1>10. Before' /\ Spinning'
  BY <1>1, <1>2, <1>5 DEF CalmInv, Before, Spinning
<1>11. Made'
  <2>1. Requests \subseteq Runs
    BY ElementsType, Types DEF Requests, Posted
  <2>2. \A q \in Requests : Begun(q)'
    BY <1>3, <1>4, <2>1 DEF CalmInv, Made, Begun
  <2>3. Begun(r)'
    BY <1>4 DEF Begun
  <2>4. QED
    BY <1>1, <1>6, <2>2, <2>3 DEF Made
<1>12. Listening'
  <2>1. r \notin Page
    BY <1>2 DEF CalmInv, OneKill, Page
  <2>2. QED
    BY <1>1, <1>8, <1>9, <2>1 DEF CalmInv, Listening
<1>13. OneKill' /\ Spared'
  BY <1>3, <1>6, <1>7, <1>9 DEF OneKill, Spared, Requests
<1>14. Newer'
  BY <1>1, <1>2, <1>4, <1>7 DEF CalmInv, Newer
<1>15. QED
  BY <1>10, <1>11, <1>12, <1>13, <1>14 DEF CalmInv

(***************************************************************************)
(* Answers                                                                 *)
(***************************************************************************)

LEMMA OverRuns ==
    ASSUME TypeOK, NEW rs, run' = Over(rs)
    PROVE  \A q \in Runs : /\ run'[q].for = run[q].for
                           /\ run'[q].ver = run[q].ver
                           /\ run'[q].victim = run[q].victim
                           /\ run'[q].at = IF q \in rs THEN "over" ELSE run[q].at
                           /\ q \notin rs => run'[q] = run[q]
<1> TAKE q \in Runs
<1>1. run[q] \in RunTypes
  BY Types
<1>2. run'[q] = IF q \in rs THEN [run[q] EXCEPT !.at = "over"] ELSE run[q]
  BY DEF Over
<1>3. CASE q \in rs
  <2>1. run'[q] = [run[q] EXCEPT !.at = "over"]
    BY <1>2, <1>3
  <2>2. QED
    BY <1>1, <1>3, <2>1 DEF RunTypes
<1>4. CASE q \notin rs
  BY <1>2, <1>4
<1>5. QED
  BY <1>3, <1>4

LEMMA AnswerComes ==
    ASSUME CalmInv, mail # <<>>
    PROVE  ready
  BY DEF CalmInv, Before

LEMMA ListenerGoes ==
    ASSUME TypeOK, TypeOK', CalmInv, ready, NEW rs \in SUBSET listens,
           \/ run' = Over(rs)
           \/ rs = {} /\ run' = run,
           listens' \subseteq listens,
           UNCHANGED <<doc, shown, timer, spinner, ready, python, loading, waiting, byte, queue, working>>
    PROVE  CalmInv'
<1>1. \A q \in Runs : /\ run'[q].for = run[q].for
                      /\ run'[q].ver = run[q].ver
                      /\ run'[q].victim = run[q].victim
                      /\ run'[q].at = IF q \in rs THEN "over" ELSE run[q].at
  BY OverRuns
<1>2. ASSUME NEW q \in Killing PROVE q \notin listens
  <2>1. run[q].for # "page" /\ run[q].at = "kill" /\ q \in Runs
    BY DEF CalmInv, OneKill, Killing
  <2>2. q # python
    BY <2>1, Numbers DEF CalmInv, Made, Begun
  <2>3. QED
    BY <2>1, <2>2 DEF CalmInv, Listening, Page
<1>3. Killing' = Killing
  BY <1>1, <1>2 DEF Killing
<1>4. Page' = Page
  BY <1>1 DEF Page
<1>5. Requests' = Requests /\ Posted' = Posted /\ Requests \subseteq Runs
  BY ElementsType, Types DEF Requests, Posted
<1>6. \A q \in Runs : (Begun(q) => Begun(q)') /\ (Awaits(q)' => Awaits(q))
  BY <1>1 DEF Begun, Awaits
<1>7. Before' /\ Spinning'
  BY <1>3, Types DEF CalmInv, Before, Spinning
<1>8. Made'
  BY <1>5, <1>6, Types DEF CalmInv, Made
<1>9. Listening'
  BY <1>4 DEF CalmInv, Listening
<1>10. OneKill'
  BY <1>1, <1>3, <1>6, Types DEF CalmInv, OneKill, Killing
<1>11. Spared'
  BY <1>5 DEF CalmInv, Spared
<1>12. Newer'
  BY <1>1, <1>3 DEF CalmInv, Newer
<1>13. QED
  BY <1>7, <1>8, <1>9, <1>10, <1>11, <1>12 DEF CalmInv

LEMMA ResultCalm ==
    ASSUME TypeOK, TypeOK', CalmInv, NEW r \in Runs, Result(r)
    PROVE  CalmInv'
<1>1. ready /\ ready' = ready /\ working' = working
  BY AnswerComes DEF Result
<1>2. CASE /\ Awaits(r) /\ r \in listens /\ run[r].for = "page"
           /\ spinner' = FALSE
           /\ UNCHANGED <<doc, shown, timer>>
           /\ \E q \in Runs : RunProgram(q, "nobody", {r})
  <2>1. PICK q \in Runs : RunProgram(q, "nobody", {r})
    BY <1>2
  <2>2. r \in Page
    BY <1>2 DEF Page
  <2>3. spinner /\ Page \cap listens \subseteq {r}
    BY <1>2, <2>2 DEF CalmInv, Listening
  <2>4. timer = FALSE /\ Killing = {}
    BY <2>3 DEF CalmInv, Spinning
  <2>5. doc.ver <= doc'.ver
    <3>1. doc.ver \in Nat
      BY Types, Numbers DEF Texts
    <3>2. QED
      BY <1>2, <3>1
  <2>6. {r} \in SUBSET Runs /\ "nobody" \in {"boxes", "nobody"}
    OBVIOUS
  <2>7. QED
    BY <1>1, <1>2, <2>1, <2>3, <2>4, <2>5, <2>6, CallKeepsCalm
<1>3. CASE /\ Awaits(r) /\ r \in listens /\ run[r].for # "page"
           /\ run' = Over({r})
           /\ listens' = listens \ {r}
           /\ python' = None
           /\ shown' = IF run[r].for = "boxes" /\ run[r].kind # "error" THEN run[r].ver ELSE shown
           /\ UNCHANGED <<doc, timer, spinner, loading, waiting, queue, byte>>
  <2>1. r = python
    BY <1>3 DEF CalmInv, Listening, Page
  <2>2. Killing = {}
    BY <1>3, <2>1 DEF CalmInv, OneKill
  <2>3. \A q \in Runs : /\ run'[q].for = run[q].for
                        /\ run'[q].ver = run[q].ver
                        /\ run'[q].at = IF q \in {r} THEN "over" ELSE run[q].at
    BY <1>3, OverRuns
  <2>4. Page' = Page /\ Killing' = {}
    BY <2>2, <2>3 DEF Page, Killing
  <2>5. Requests' = Requests /\ Posted' = Posted /\ Requests \subseteq Runs
    BY <1>1, <1>3, ElementsType, Types DEF Requests, Posted
  <2>6. \A q \in Runs : Begun(q) => Begun(q)'
    BY <2>3 DEF Begun
  <2>7. Before' /\ Spinning'
    BY <1>1, <1>3, <2>4 DEF CalmInv, Before, Spinning
  <2>8. Made'
    BY <1>3, <2>5, <2>6 DEF CalmInv, Made
  <2>9. Listening'
    BY <1>3, <2>1, <2>4 DEF CalmInv, Listening
  <2>10. OneKill' /\ Spared'
    BY <1>3, <2>4, <2>5 DEF CalmInv, OneKill, Spared
  <2>11. Newer'
    <3>1. shown' <= doc'.ver
      BY <1>3 DEF CalmInv, Newer
    <3>2. None \notin Runs
      BY Numbers
    <3>3. QED
      BY <1>3, <2>3, <2>4, <3>1, <3>2 DEF CalmInv, Newer
  <2>12. QED
    BY <2>7, <2>8, <2>9, <2>10, <2>11 DEF CalmInv
<1>4. CASE /\ listens' = listens \ {r}
           /\ UNCHANGED <<doc, shown, timer, spinner, run, python, loading, waiting, queue, byte>>
  <2>1. {} \in SUBSET listens /\ listens' \subseteq listens
    BY <1>4
  <2>2. QED
    BY <1>1, <1>4, <2>1, ListenerGoes
<1>5. QED
  BY <1>2, <1>3, <1>4 DEF Result

LEMMA ExceptionCalm ==
    ASSUME TypeOK, TypeOK', CalmInv, NEW r \in Runs, Exception(r)
    PROVE  CalmInv'
<1>1. ready
  BY AnswerComes DEF Exception
<1>2. /\ run' = Over({r} \cap listens)
      /\ listens' = listens \ {r}
      /\ UNCHANGED <<doc, shown, timer, spinner, ready, python, loading, waiting, byte, queue, working>>
  BY DEF Exception, pageVars
<1>3. {r} \cap listens \in SUBSET listens /\ listens' \subseteq listens
  BY <1>2
<1>4. QED
  BY <1>1, <1>2, <1>3, ListenerGoes

-----------------------------------------------------------------------------
(* The theorems *)

LEMMA NextCalm == ByteInv /\ [Next]_vars => ByteInv'
<1> SUFFICES ASSUME ByteInv, [Next]_vars PROVE ByteInv'
  OBVIOUS
<1>1. TypeOK /\ TypeOK' /\ habits' = habits
  BY NextType DEF ByteInv, Next, PageStep, RunStep, WorkerStep, vars
<1>2. SUFFICES ASSUME Calm PROVE CalmInv'
  BY <1>1 DEF ByteInv, Calm
<1>3. CalmInv
  BY <1>2 DEF ByteInv
<1>4. CASE UserStep
  BY <1>1, <1>2, <1>3, <1>4, UserCalm
<1>5. CASE PageStep
  BY <1>1, <1>3, <1>5, TimerCalm, LoadedCalm, GivesUpMoves DEF PageStep
<1>6. CASE \E r \in Runs : RunStep(r)
  BY <1>1, <1>3, <1>6, KillEndsCalm, PostsMove, ResultCalm, ExceptionCalm DEF RunStep
<1>7. CASE WorkerStep
  BY <1>1, <1>3, <1>7, WorkerMoves
<1>8. CASE UNCHANGED vars
  <2>1. UNCHANGED <<doc, shown, timer, spinner, ready, run, python, listens, loading, waiting, byte,
                    queue, working, mail>>
    BY <1>8 DEF vars, pageVars, processVars, workerVars
  <2>2. /\ Killing' = Killing /\ Page' = Page /\ Requests' = Requests /\ Posted' = Posted
        /\ \A r : Begun(r)' = Begun(r) /\ Awaits(r)' = Awaits(r)
    BY <2>1 DEF Killing, Page, Requests, Posted, Begun, Awaits
  <2>3. Before' /\ Spinning' /\ Made' /\ Listening'
    BY <1>3, <2>1, <2>2 DEF CalmInv, Before, Spinning, Made, Listening
  <2>4. OneKill' /\ Spared' /\ Newer'
    BY <1>3, <2>1, <2>2 DEF CalmInv, OneKill, Spared, Newer
  <2>5. QED
    BY <2>3, <2>4 DEF CalmInv
<1>9. QED
  BY <1>4, <1>5, <1>6, <1>7, <1>8 DEF Next

LEMMA ByteInvariant == Spec => []ByteInv
<1>1. Init => ByteInv
  BY InitType, InitCalm DEF ByteInv
<1>2. QED
  BY <1>1, NextCalm, PTL DEF Spec

(* An interrupt ends no request that somebody waits for: while the byte is    *)
(* set the worker runs nothing that has a listener.  It holds for who types   *)
(* neither before the first run of the page is over nor while a kill() waits, *)
(* whatever else he does, however many runs there are and however the         *)
(* programs end.                                                              *)
THEOREM NoStray == Spec => []NoStrayInterrupt
<1>1. ByteInv => NoStrayInterrupt
  BY DEF ByteInv, CalmInv, Spared, Calm, Posted, NoStrayInterrupt
<1>2. QED
  BY <1>1, ByteInvariant, PTL

-----------------------------------------------------------------------------
(***************************************************************************)
(* The second inductive invariant, for a user who may type before the      *)
(* first run of the page is over, but neither while a process nor while a  *)
(* kill() waits.  Here the end of the page's own run kills as well, and    *)
(* once it has, several processes may listen.  They answer in the order in *)
(* which they were made.                                                   *)
(***************************************************************************)

Unhurried == habits \cap {"hurry", "press"} = {}
RunsOf(m) == [i \in 1..Len(m) |-> m[i].run]
Answered  == Elements(RunsOf(mail))
Watched   == {r \in listens : run[r].for = "boxes"}
Kept      == Requests \cup Answered

(* Before Pyodide is there one process listens, the registered one, which     *)
(* updateBoxes awaits, and the byte is not cleared.                           *)
Attached ==
    ~ready => /\ waiting = <<>> /\ queue = <<>> /\ working = None /\ mail = <<>>
              /\ Page = {}
              /\ python # None /\ listens = {python} /\ run[python].for = "boxes"
              /\ Killing # {} => byte # 0

(* Later, while the byte is set a process waits that will clear it.           *)
Cleared == ready => loading = <<>> /\ (byte # 0 => waiting # <<>>)

(* A run that waits for its turn to kill has made no process yet.             *)
Begins ==
    /\ \A r \in Kept : Begun(r)
    /\ python # None => Begun(python)

(* The page has one run of its own, which is never registered.                *)
OnePage ==
    /\ \A q, r \in Page : q = r
    /\ python \notin Page
    /\ Page \cap Killing = {}

(* One kill() waits at most.  Its victim is still registered, or nobody       *)
(* listens for the boxes any more.                                            *)
KillWaits ==
    \A k \in Killing :
        /\ timer = FALSE
        /\ \A q \in Killing : q = k
        /\ \/ python # None /\ run[k].victim = python /\ run[python].ver <= run[k].ver
           \/ Watched = {} /\ (python \notin listens \/ Page \cap listens = {})

(* Somebody else is about to kill while the byte is set: then the page's own  *)
(* run, if its end is still awaited, has not been posted, so that two kill()s *)
(* cannot wait.                                                               *)
PageWaits ==
    ready /\ (timer \/ Killing # {}) /\ byte # 0 =>
        (Posted \cup Answered) \cap Page \cap listens = {}

(* Runs are numbered as they are made, and read the text then.                *)
Counted ==
    /\ \A a \in Runs : run[a].at = "unused" => run[a] = Unused
    /\ \A a, b \in Runs :
         a < b /\ run[b].at # "unused" => run[a].at # "unused" /\ run[a].ver <= run[b].ver

(* Nobody listens but the registered process and the page's own run.          *)
Single == listens \subseteq {python} \cup Page

(* Those in W are ordered in s. *)
Sorted(s, W) == \A i, j \in 1..Len(s) : i < j /\ s[i] \in W /\ s[j] \in W => s[i] <= s[j]

(* Every process that listens for the boxes is on its way, a later one behind *)
(* an earlier one, and one of them at most waits.                             *)
InOrder ==
    /\ Watched \subseteq Posted \cup Elements(waiting) \cup Answered
    /\ Sorted(RunsOf(mail), Watched)
    /\ \A a \in Answered \cap Watched, b \in (Posted \cup Elements(waiting)) \cap Watched : a <= b
    /\ working \in Watched =>
          \A b \in (Elements(queue) \cup Elements(waiting)) \cap Watched : working <= b
    /\ Sorted(queue, Watched)
    /\ \A a \in Elements(queue) \cap Watched, b \in Elements(waiting) \cap Watched : a <= b
    /\ \A a, b \in Elements(waiting) \cap Watched : a = b

InTurn ==
    /\ ready /\ Killing = {} /\ Page \cap listens = {}
    /\ timer => byte = 0 /\ waiting = <<>>
    /\ InOrder

(* What may still be shown is not older than what is shown.                   *)
NoneOlder ==
    /\ shown <= doc.ver
    /\ \A r \in Runs : run[r].ver <= doc.ver
    /\ \A r \in Watched : shown <= run[r].ver
    /\ \A r \in Killing : run[r].for = "boxes" => shown <= run[r].ver

UnhurriedInv ==
    /\ Attached
    /\ Cleared
    /\ Begins
    /\ OnePage
    /\ KillWaits
    /\ PageWaits
    /\ Counted
    /\ Single \/ InTurn
    /\ NoneOlder

EarlyInv == TypeOK /\ (Unhurried => UnhurriedInv)

(***************************************************************************)
(* The runs of the worker's answers, and sequences whose runs are ordered. *)
(***************************************************************************)

LEMMA RunsOfSeq ==
    ASSUME NEW m \in Seq(Answers)
    PROVE  RunsOf(m) \in Seq(Runs) /\ Len(RunsOf(m)) = Len(m)
<1>1. Len(m) \in Nat /\ \A i \in 1..Len(m) : m[i] \in Answers
  BY LenProperties, ElementOfSeq
<1>2. RunsOf(m) \in [1..Len(m) -> Runs]
  BY <1>1 DEF RunsOf, Answers
<1>3. QED
  BY <1>1, <1>2, SeqDef, LenProperties

LEMMA RunsOfEmpty == RunsOf(<<>>) = <<>> /\ Elements(RunsOf(<<>>)) = {}
<1>1. <<>> \in Seq(Answers)
  BY EmptySeq
<1>2. RunsOf(<<>>) \in Seq(Runs) /\ Len(RunsOf(<<>>)) = 0
  BY <1>1, RunsOfSeq, EmptySeq
<1>3. QED
  BY <1>2, EmptySeq, EmptyElements

LEMMA RunsOfAppend ==
    ASSUME NEW m \in Seq(Answers), NEW a \in Answers
    PROVE  RunsOf(Append(m, a)) = Append(RunsOf(m), a.run)
<1> DEFINE u == RunsOf(Append(m, a))
           v == Append(RunsOf(m), a.run)
<1>1. Append(m, a) \in Seq(Answers) /\ Len(Append(m, a)) = Len(m) + 1
      /\ (\A i \in 1..Len(m) : Append(m, a)[i] = m[i]) /\ Append(m, a)[Len(m) + 1] = a
  BY AppendProperties
<1>2. RunsOf(m) \in Seq(Runs) /\ Len(RunsOf(m)) = Len(m) /\ a.run \in Runs /\ Len(m) \in Nat
  BY RunsOfSeq, LenProperties DEF Answers
<1>3. /\ v \in Seq(Runs) /\ Len(v) = Len(m) + 1
      /\ (\A i \in 1..Len(m) : v[i] = RunsOf(m)[i]) /\ v[Len(m) + 1] = a.run
  BY <1>2, AppendProperties
<1>4. u \in Seq(Runs) /\ Len(u) = Len(m) + 1
  BY <1>1, RunsOfSeq
<1>5. ASSUME NEW i \in 1..(Len(m) + 1) PROVE u[i] = v[i]
  <2>1. u[i] = Append(m, a)[i].run
    BY <1>1 DEF RunsOf
  <2>2. CASE i \in 1..Len(m)
    <3>1. RunsOf(m)[i] = m[i].run
      BY <2>2 DEF RunsOf
    <3>2. QED
      BY <1>1, <1>3, <2>1, <2>2, <3>1
  <2>3. CASE i = Len(m) + 1
    BY <1>1, <1>3, <2>1, <2>3
  <2>4. QED
    BY <1>2, <2>2, <2>3
<1> HIDE DEF u, v
<1>6. u = v
  BY <1>3, <1>4, <1>5, SeqEqual
<1>7. QED
  BY <1>6 DEF u, v

LEMMA RunsOfTail ==
    ASSUME NEW m \in Seq(Answers), m # <<>>
    PROVE  /\ RunsOf(m) # <<>> /\ Head(RunsOf(m)) = Head(m).run
           /\ RunsOf(Tail(m)) = Tail(RunsOf(m)) /\ Tail(m) \in Seq(Answers)
<1>1. /\ Tail(m) \in Seq(Answers) /\ Len(Tail(m)) = Len(m) - 1
      /\ \A i \in 1..Len(Tail(m)) : Tail(m)[i] = m[i + 1]
  BY HeadTailProperties
<1>2. Len(m) \in Nat \ {0} /\ Head(m) = m[1]
  BY EmptySeq
<1>3. RunsOf(m) \in Seq(Runs) /\ Len(RunsOf(m)) = Len(m)
  BY RunsOfSeq
<1>4. RunsOf(m) # <<>>
  BY <1>2, <1>3, EmptySeq
<1>5. /\ Tail(RunsOf(m)) \in Seq(Runs) /\ Len(Tail(RunsOf(m))) = Len(m) - 1
      /\ \A i \in 1..Len(Tail(RunsOf(m))) : Tail(RunsOf(m))[i] = RunsOf(m)[i + 1]
  BY <1>3, <1>4, HeadTailProperties
<1>6. Head(RunsOf(m)) = Head(m).run
  <2>1. Head(RunsOf(m)) = RunsOf(m)[1]
    BY <1>3, <1>4
  <2>2. RunsOf(m)[1] = m[1].run
    BY <1>2 DEF RunsOf
  <2>3. QED
    BY <1>2, <2>1, <2>2
<1>7. RunsOf(Tail(m)) \in Seq(Runs) /\ Len(RunsOf(Tail(m))) = Len(m) - 1
  BY <1>1, RunsOfSeq
<1>8. ASSUME NEW i \in 1..(Len(m) - 1) PROVE RunsOf(Tail(m))[i] = Tail(RunsOf(m))[i]
  <2>1. RunsOf(Tail(m))[i] = Tail(m)[i].run /\ Tail(m)[i] = m[i + 1]
    BY <1>1 DEF RunsOf
  <2>2. Tail(RunsOf(m))[i] = RunsOf(m)[i + 1] /\ i + 1 \in 1..Len(m)
    BY <1>2, <1>5
  <2>3. RunsOf(m)[i + 1] = m[i + 1].run
    BY <2>2 DEF RunsOf
  <2>4. QED
    BY <2>1, <2>2, <2>3
<1>9. RunsOf(Tail(m)) = Tail(RunsOf(m))
  BY <1>5, <1>7, <1>8, SeqEqual
<1>10. QED
  BY <1>1, <1>4, <1>6, <1>9

LEMMA SortedAppend ==
    ASSUME NEW s \in Seq(Runs), NEW e \in Runs, NEW W, NEW V, V \cap Elements(s) \subseteq W,
           Sorted(s, W), \A a \in Elements(s) \cap V : a <= e
    PROVE  Sorted(Append(s, e), V)
<1> DEFINE t == Append(s, e)
<1>1. /\ t \in Seq(Runs) /\ Len(t) = Len(s) + 1
      /\ \A i \in 1..Len(s) : t[i] = s[i]
      /\ t[Len(s) + 1] = e
  BY AppendProperties
<1>2. Len(s) \in Nat /\ DOMAIN s = 1..Len(s)
  BY LenProperties
<1> HIDE DEF t
<1> SUFFICES ASSUME NEW i \in 1..Len(t), NEW j \in 1..Len(t), i < j, t[i] \in V, t[j] \in V
             PROVE  t[i] <= t[j]
  BY DEF Sorted, t
<1>3. \A k \in 1..Len(s) : t[k] = s[k] /\ s[k] \in Elements(s)
  BY <1>1, <1>2 DEF Elements
<1>4. i \in 1..Len(s) /\ (j \in 1..Len(s) \/ j = Len(s) + 1)
  BY <1>1, <1>2
<1>5. CASE j = Len(s) + 1
  BY <1>1, <1>3, <1>4, <1>5
<1>6. CASE j \in 1..Len(s)
  <2>1. s[i] \in W /\ s[j] \in W
    BY <1>3, <1>4, <1>6
  <2>2. s[i] <= s[j]
    BY <1>4, <1>6, <2>1 DEF Sorted
  <2>3. QED
    BY <1>3, <1>4, <1>6, <2>2
<1>7. QED
  BY <1>4, <1>5, <1>6

LEMMA UnwatchedAppend ==
    ASSUME NEW s \in Seq(Runs), NEW e \in Runs, NEW W, e \notin W, Sorted(s, W)
    PROVE  Sorted(Append(s, e), W)
<1> DEFINE t == Append(s, e)
<1>1. /\ t \in Seq(Runs) /\ Len(t) = Len(s) + 1
      /\ \A i \in 1..Len(s) : t[i] = s[i]
      /\ t[Len(s) + 1] = e
  BY AppendProperties
<1>2. Len(s) \in Nat
  BY LenProperties
<1> HIDE DEF t
<1> SUFFICES ASSUME NEW i \in 1..Len(t), NEW j \in 1..Len(t), i < j, t[i] \in W, t[j] \in W
             PROVE  t[i] <= t[j]
  BY DEF Sorted, t
<1>3. i \in 1..Len(s) /\ j \in 1..Len(s)
  <2>1. t[i] # e /\ t[j] # e
    OBVIOUS
  <2>2. i # Len(s) + 1 /\ j # Len(s) + 1
    BY <1>1, <2>1
  <2>3. QED
    BY <1>1, <1>2, <2>2
<1>4. s[i] <= s[j]
  BY <1>1, <1>3 DEF Sorted
<1>5. QED
  BY <1>1, <1>3, <1>4

LEMMA SortedTail ==
    ASSUME NEW s \in Seq(Runs), s # <<>>, NEW W, NEW V, V \subseteq W, Sorted(s, W)
    PROVE  /\ Sorted(Tail(s), V)
           /\ Head(s) \in W => \A a \in Elements(Tail(s)) \cap W : Head(s) <= a
<1> DEFINE t == Tail(s)
<1>1. /\ t \in Seq(Runs) /\ Len(t) = Len(s) - 1 /\ \A i \in 1..Len(t) : t[i] = s[i + 1]
  BY HeadTailProperties
<1>2. Len(s) \in Nat \ {0} /\ Head(s) = s[1] /\ DOMAIN s = 1..Len(s) /\ DOMAIN t = 1..Len(t)
  BY <1>1, EmptySeq, LenProperties
<1> HIDE DEF t
<1>3. ASSUME NEW i \in 1..Len(t), NEW j \in 1..Len(t), i < j, t[i] \in V, t[j] \in V
      PROVE  t[i] <= t[j]
  <2>1. i + 1 \in 1..Len(s) /\ j + 1 \in 1..Len(s) /\ i + 1 < j + 1
    BY <1>1, <1>2, <1>3
  <2>2. t[i] = s[i + 1] /\ t[j] = s[j + 1]
    BY <1>1
  <2>3. QED
    BY <1>3, <2>1, <2>2 DEF Sorted
<1>4. ASSUME Head(s) \in W, NEW a \in Elements(t) \cap W PROVE Head(s) <= a
  <2>1. PICK j \in 1..Len(t) : a = t[j]
    BY <1>2 DEF Elements
  <2>2. 1 \in 1..Len(s) /\ j + 1 \in 1..Len(s) /\ 1 < j + 1 /\ a = s[j + 1]
    BY <1>1, <1>2, <2>1
  <2>3. QED
    BY <1>2, <1>4, <2>2 DEF Sorted
<1>5. QED
  BY <1>3, <1>4 DEF Sorted, t

(***************************************************************************)
(* The first state, and steps of requests and answers alone                *)
(***************************************************************************)

LEMMA InitUnhurried == Init => UnhurriedInv
<1> SUFFICES ASSUME Init PROVE UnhurriedInv
  OBVIOUS
<1>1. \A r \in Runs : /\ run[r].for # "page"
                      /\ run[r].at # "kill"
                      /\ r = 1 => Begun(r) /\ run[r].ver = 1
                      /\ r # 1 => run[r].at = "unused" /\ run[r].for = "none" /\ run[r].ver = 0
  BY DEF Init, Unused, Begun
<1>2. Page = {} /\ Killing = {}
  BY <1>1 DEF Page, Killing
<1>3. Kept = {1}
  BY EmptyElements, Numbers, SingleElement, RunsOfEmpty DEF Init, Kept, Requests, Posted, Answered, None
<1>4. doc.ver = 1 /\ shown = 0
  BY DEF Init
<1>5. Attached /\ Cleared
  BY <1>2, Numbers DEF Init, Attached, Cleared, None
<1>6. Begins /\ OnePage /\ KillWaits /\ PageWaits
  BY <1>1, <1>2, <1>3, Numbers DEF Init, Begins, OnePage, KillWaits, PageWaits
<1>7. Counted
  <2>1. ASSUME NEW a \in Runs, NEW b \in Runs, a < b, run[b].at # "unused" PROVE FALSE
    <3>1. b = 1 /\ a \in 1..MaxRuns
      BY <1>1, <2>1 DEF Runs
    <3>2. QED
      BY <2>1, <3>1
  <2>2. \A a \in Runs : a # 1 => run[a] = Unused
    BY DEF Init
  <2>3. \A a \in Runs : run[a].at = "unused" => run[a] = Unused
    BY <1>1, <2>2 DEF Begun
  <2>4. QED
    BY <2>1, <2>3 DEF Counted
<1>8. Single
  BY DEF Init, Single
<1>9. NoneOlder
  <2>1. \A r \in Runs : run[r].ver = 0 \/ run[r].ver = 1
    BY <1>1
  <2>2. \A r \in Runs : 0 <= run[r].ver /\ run[r].ver <= 1
    BY <2>1
  <2>3. Watched \subseteq Runs
    BY Numbers DEF Init, Watched
  <2>4. \A r \in Watched : shown <= run[r].ver
    BY <1>4, <2>2, <2>3
  <2>5. shown <= doc.ver /\ \A r \in Runs : run[r].ver <= doc.ver
    BY <1>4, <2>2
  <2>6. QED
    BY <1>2, <2>4, <2>5 DEF NoneOlder
<1>10. QED
  BY <1>5, <1>6, <1>7, <1>8, <1>9 DEF UnhurriedInv

LEMMA RequestsMoveOn ==
    ASSUME TypeOK, UnhurriedInv, ready,
           UNCHANGED <<pageVars, run, python, listens, loading>>,
           Kept' \subseteq Kept,
           waiting = <<>> => waiting' = <<>>,
           byte' = 0 \/ (/\ byte' = byte /\ waiting' = waiting
                         /\ (Posted \cup Answered)' \subseteq Posted \cup Answered),
           InOrder => InOrder'
    PROVE  UnhurriedInv'
<1>1. /\ Killing' = Killing /\ Page' = Page /\ Watched' = Watched
      /\ \A r : Begun(r)' = Begun(r)
  BY DEF Killing, Page, Begun, Watched
<1>2. Attached' /\ Cleared'
  BY <1>1 DEF UnhurriedInv, Attached, Cleared, pageVars
<1>3. Begins'
  BY <1>1 DEF UnhurriedInv, Begins
<1>4. OnePage'
  BY <1>1 DEF UnhurriedInv, OnePage
<1>5. KillWaits'
  BY <1>1 DEF UnhurriedInv, KillWaits, pageVars
<1>6. PageWaits'
  BY <1>1 DEF UnhurriedInv, PageWaits, pageVars
<1>7. Counted'
  BY DEF UnhurriedInv, Counted
<1>8. Single' \/ InTurn'
  <2>1. CASE Single
    BY <1>1, <2>1 DEF Single
  <2>2. CASE InTurn
    BY <1>1, <2>2 DEF InTurn, pageVars
  <2>3. QED
    BY <2>1, <2>2 DEF UnhurriedInv
<1>9. NoneOlder'
  BY <1>1 DEF UnhurriedInv, NoneOlder, pageVars
<1>10. QED
  BY <1>2, <1>3, <1>4, <1>5, <1>6, <1>7, <1>8, <1>9 DEF UnhurriedInv

(* A process that waited posts its request. *)
LEMMA WaiterPosts ==
    ASSUME TypeOK, NEW r \in Runs, r \in Elements(waiting), Elements(waiting') \subseteq Elements(waiting),
           Elements(waiting) \subseteq Elements(waiting') \cup {r},
           queue' = Append(queue, r), UNCHANGED <<run, listens, working, mail>>
    PROVE  /\ Posted' = Posted \cup {r} /\ Answered' = Answered
           /\ Elements(queue') = Elements(queue) \cup {r}
           /\ InOrder => InOrder'
<1>1. Elements(queue') = Elements(queue) \cup {r} /\ queue \in Seq(Runs)
  BY Types, AppendElements
<1>2. Posted' = Posted \cup {r} /\ Answered' = Answered /\ Watched' = Watched
  BY <1>1 DEF Posted, Answered, Watched
<1>3. ASSUME InOrder PROVE InOrder'
  <2>1. Watched' \subseteq Posted' \cup Elements(waiting') \cup Answered'
    BY <1>2, <1>3 DEF InOrder
  <2>2. Sorted(RunsOf(mail'), Watched')
    BY <1>2, <1>3 DEF InOrder
  <2>3. \A a \in Answered' \cap Watched', b \in (Posted' \cup Elements(waiting')) \cap Watched' : a <= b
    BY <1>2, <1>3 DEF InOrder
  <2>4. working' \in Watched' =>
          \A b \in (Elements(queue') \cup Elements(waiting')) \cap Watched' : working' <= b
    BY <1>1, <1>2, <1>3 DEF InOrder
  <2>5. Sorted(queue', Watched')
    <3>1. CASE r \in Watched
      <4>1. \A a \in Elements(queue) \cap Watched : a <= r
        BY <1>3, <3>1 DEF InOrder
      <4>2. QED
        BY <1>1, <1>2, <1>3, <4>1, SortedAppend DEF InOrder
    <3>2. CASE r \notin Watched
      <4>1. Sorted(Append(queue, r), Watched)
        BY <1>1, <1>3, <3>2, UnwatchedAppend DEF InOrder
      <4>2. QED
        BY <1>2, <4>1
    <3>3. QED
      BY <3>1, <3>2
  <2>6. \A a \in Elements(queue') \cap Watched', b \in Elements(waiting') \cap Watched' : a <= b
    <3> SUFFICES ASSUME NEW a \in Elements(queue) \cup {r}, a \in Watched,
                        NEW b \in Elements(waiting), b \in Watched
                 PROVE  a <= b
      BY <1>1, <1>2
    <3>1. CASE a \in Elements(queue)
      BY <1>3, <3>1 DEF InOrder
    <3>2. CASE a = r
      <4>1. b = r /\ r \in Nat
        BY <1>3, <3>2, Numbers DEF InOrder
      <4>2. QED
        BY <3>2, <4>1
    <3>3. QED
      BY <3>1, <3>2
  <2>7. \A a, b \in Elements(waiting') \cap Watched' : a = b
    BY <1>2, <1>3 DEF InOrder
  <2>8. QED
    BY <2>1, <2>2, <2>3, <2>4, <2>5, <2>6, <2>7 DEF InOrder
<1>4. QED
  BY <1>1, <1>2, <1>3

LEMMA PostsMoveOn ==
    ASSUME TypeOK, UnhurriedInv, NEW r \in Runs, Posts(r)
    PROVE  UnhurriedInv'
<1> USE Types
<1>1. PICK i \in DOMAIN waiting :
        /\ waiting[i] = r
        /\ waiting' = SubSeq(waiting, 1, i - 1) \o SubSeq(waiting, i + 1, Len(waiting))
  BY DEF Posts
<1>2. /\ r \in Elements(waiting) /\ Elements(waiting') \subseteq Elements(waiting)
      /\ Elements(waiting) \subseteq Elements(waiting') \cup {r}
  <2>1. r \in Elements(waiting)
    BY <1>1 DEF Elements
  <2>2. QED
    BY <1>1, <2>1, CutElements, CutKeeps
<1>3. queue' = Append(queue, r) /\ byte' = 0
      /\ UNCHANGED <<pageVars, run, python, listens, loading, working, mail>>
  BY DEF Posts
<1>4. waiting # <<>> /\ ready
  BY <1>2, EmptyElements DEF UnhurriedInv, Attached
<1>5. /\ Posted' = Posted \cup {r} /\ Answered' = Answered
      /\ Elements(queue') = Elements(queue) \cup {r}
      /\ InOrder => InOrder'
  BY <1>2, <1>3, WaiterPosts
<1>6. Kept' \subseteq Kept
  BY <1>2, <1>3, <1>5 DEF Kept, Requests
<1>7. QED
  BY <1>3, <1>4, <1>5, <1>6, RequestsMoveOn

LEMMA GivesUpMovesOn ==
    ASSUME TypeOK, UnhurriedInv, GivesUp
    PROVE  UnhurriedInv'
<1> USE Types
<1> DEFINE r == Head(waiting)
<1>1. waiting # <<>> /\ byte' = 0 /\ queue' = Append(queue, r)
      /\ UNCHANGED <<pageVars, run, python, listens, loading, working, mail>>
  BY DEF GivesUp
<1>2. /\ Elements(waiting') \subseteq Elements(waiting)
      /\ Elements(waiting) \subseteq Elements(waiting') \cup {r}
      /\ r \in Runs /\ r \in Elements(waiting)
  BY TailElements, TailKeeps DEF GivesUp
<1> HIDE DEF r
<1>3. ready
  BY <1>1 DEF UnhurriedInv, Attached
<1>4. /\ Posted' = Posted \cup {r} /\ Answered' = Answered
      /\ Elements(queue') = Elements(queue) \cup {r}
      /\ InOrder => InOrder'
  BY <1>1, <1>2, WaiterPosts
<1>5. Kept' \subseteq Kept
  BY <1>1, <1>2, <1>4 DEF Kept, Requests
<1>6. QED
  BY <1>1, <1>3, <1>4, <1>5, RequestsMoveOn

(* The worker takes a request. *)
LEMMA TakesMovesOn ==
    ASSUME TypeOK, UnhurriedInv, Takes
    PROVE  UnhurriedInv'
<1> USE Types
<1>1. /\ queue # <<>> /\ working = None /\ working' = Head(queue) /\ queue' = Tail(queue)
      /\ UNCHANGED <<pageVars, run, python, listens, loading, waiting, byte, mail>>
  BY DEF Takes, processVars
<1>2. Elements(queue') \subseteq Elements(queue) /\ Head(queue) \in Elements(queue) /\ Head(queue) \in Runs
  BY <1>1, TailElements
<1>3. ready
  BY <1>1 DEF UnhurriedInv, Attached
<1>4. Elements(queue) \subseteq {Head(queue)} \cup Elements(queue')
  BY <1>1, TailKeeps
<1>5. Posted' = Posted /\ Answered' = Answered /\ Watched' = Watched
  BY <1>1, <1>2, <1>4, Numbers DEF Posted, Answered, Watched
<1>6. Kept' = Kept
  BY <1>1, <1>5 DEF Kept, Requests
<1>7. ASSUME InOrder PROVE InOrder'
  <2>1. /\ Sorted(queue', Watched)
        /\ Head(queue) \in Watched => \A a \in Elements(queue') \cap Watched : Head(queue) <= a
    BY <1>1, <1>7, SortedTail DEF InOrder
  <2>2. Watched' \subseteq Posted' \cup Elements(waiting') \cup Answered'
    BY <1>1, <1>5, <1>7 DEF InOrder
  <2>3. Sorted(RunsOf(mail'), Watched')
    BY <1>1, <1>5, <1>7 DEF InOrder
  <2>4. \A a \in Answered' \cap Watched', b \in (Posted' \cup Elements(waiting')) \cap Watched' : a <= b
    BY <1>1, <1>5, <1>7 DEF InOrder
  <2>5. working' \in Watched' =>
          \A b \in (Elements(queue') \cup Elements(waiting')) \cap Watched' : working' <= b
    BY <1>1, <1>2, <1>5, <1>7, <2>1 DEF InOrder
  <2>6. Sorted(queue', Watched')
    BY <1>5, <2>1
  <2>7. \A a \in Elements(queue') \cap Watched', b \in Elements(waiting') \cap Watched' : a <= b
    BY <1>1, <1>2, <1>5, <1>7 DEF InOrder
  <2>8. \A a, b \in Elements(waiting') \cap Watched' : a = b
    BY <1>1, <1>5, <1>7 DEF InOrder
  <2>9. QED
    BY <2>2, <2>3, <2>4, <2>5, <2>6, <2>7, <2>8 DEF InOrder
<1>8. QED
  BY <1>1, <1>3, <1>5, <1>6, <1>7, RequestsMoveOn

(* It answers one. *)
LEMMA AnswerMovesOn ==
    ASSUME TypeOK, UnhurriedInv, working # None, working' = None, byte' \in {0, byte},
           NEW result \in BOOLEAN, mail' = Append(mail, [run |-> working, result |-> result]),
           UNCHANGED <<pageVars, processVars, queue>>
    PROVE  UnhurriedInv'
<1> USE Types
<1>1. ready
  BY DEF UnhurriedInv, Attached
<1>2. UNCHANGED <<run, python, listens, loading, waiting>>
  BY DEF processVars
<1>3. working \in Runs /\ [run |-> working, result |-> result] \in Answers
  BY DEF Answers
<1>4. RunsOf(mail') = Append(RunsOf(mail), working) /\ RunsOf(mail) \in Seq(Runs)
  BY <1>3, RunsOfAppend, RunsOfSeq
<1>5. Answered' = Answered \cup {working}
  <2>1. Elements(Append(RunsOf(mail), working)) = Elements(RunsOf(mail)) \cup {working}
    BY <1>3, <1>4, AppendElements
  <2>2. QED
    BY <1>4, <2>1 DEF Answered
<1>6. Posted' = Elements(queue) /\ Posted = Elements(queue) \cup {working} /\ Watched' = Watched
  BY <1>2 DEF Posted, Watched
<1>7. Posted' \cup Answered' = Posted \cup Answered /\ Kept' = Kept
  BY <1>2, <1>5, <1>6 DEF Kept, Requests
<1>8. ASSUME InOrder PROVE InOrder'
  <2>1. Watched' \subseteq Posted' \cup Elements(waiting') \cup Answered'
    BY <1>2, <1>6, <1>7, <1>8 DEF InOrder
  <2>2. Sorted(RunsOf(mail'), Watched')
    <3>1. CASE working \in Watched
      <4>1. \A a \in Elements(RunsOf(mail)) \cap Watched : a <= working
        BY <1>6, <1>8, <3>1 DEF InOrder, Answered
      <4>2. QED
        BY <1>3, <1>4, <1>6, <1>8, <4>1, SortedAppend DEF InOrder
    <3>2. CASE working \notin Watched
      BY <1>3, <1>4, <1>6, <1>8, <3>2, UnwatchedAppend DEF InOrder
    <3>3. QED
      BY <3>1, <3>2
  <2>3. \A a \in Answered' \cap Watched', b \in (Posted' \cup Elements(waiting')) \cap Watched' : a <= b
    BY <1>2, <1>5, <1>6, <1>8 DEF InOrder
  <2>4. working' \notin Watched'
    BY <1>6, Numbers DEF Watched
  <2>5. Sorted(queue', Watched')
    BY <1>6, <1>8 DEF InOrder
  <2>6. \A a \in Elements(queue') \cap Watched', b \in Elements(waiting') \cap Watched' : a <= b
    BY <1>2, <1>6, <1>8 DEF InOrder
  <2>7. \A a, b \in Elements(waiting') \cap Watched' : a = b
    BY <1>2, <1>6, <1>8 DEF InOrder
  <2>8. QED
    BY <2>1, <2>2, <2>3, <2>4, <2>5, <2>6, <2>7 DEF InOrder
<1>9. byte' = 0 \/ byte' = byte
  OBVIOUS
<1>10. QED
  BY <1>1, <1>2, <1>7, <1>8, <1>9, RequestsMoveOn

LEMMA WorkerMovesOn ==
    ASSUME TypeOK, UnhurriedInv, WorkerStep
    PROVE  UnhurriedInv'
<1>1. CASE Takes
  BY <1>1, TakesMovesOn
<1>2. CASE Ends
  BY <1>2, AnswerMovesOn DEF Ends
<1>3. CASE Interrupted
  BY <1>3, AnswerMovesOn DEF Interrupted
<1>4. QED
  BY <1>1, <1>2, <1>3 DEF WorkerStep

(***************************************************************************)
(* runProgram                                                              *)
(***************************************************************************)

LEMMA UnusedOn ==
    ASSUME TypeOK, UnhurriedInv, NEW r \in Runs, run[r] = Unused
    PROVE  /\ r \notin Kept /\ r # python /\ r \notin Page /\ r \notin Killing
           /\ \A a \in Runs \ {r} : run[a].at # "unused" => a < r
<1>1. run[r].at = "unused" /\ run[r].for = "none"
  BY DEF Unused
<1>2. ~Begun(r)
  BY <1>1 DEF Begun
<1>3. r \notin Kept /\ r # python
  BY <1>2, Numbers DEF UnhurriedInv, Begins
<1>4. r \notin Page /\ r \notin Killing
  BY <1>1 DEF Page, Killing
<1>5. ASSUME NEW a \in Runs \ {r}, run[a].at # "unused" PROVE a < r
  <2>1. ~(r < a)
    BY <1>1, <1>5 DEF UnhurriedInv, Counted
  <2>2. a \in Nat /\ r \in Nat
    BY Numbers
  <2>3. QED
    BY <2>1, <2>2
<1>6. QED
  BY <1>3, <1>4, <1>5

LEMMA ProcessAdds ==
    ASSUME TypeOK, NEW r \in Runs, NEW b, Process(r, b)
    PROVE  /\ Elements(loading') \subseteq Elements(loading) \cup {r}
           /\ Elements(waiting') \subseteq Elements(waiting) \cup {r}
           /\ Elements(queue') \subseteq Elements(queue) \cup {r}
           /\ ~ready => waiting' = waiting /\ queue' = queue
           /\ ready => loading' = loading
           /\ b # 0 => queue' = queue
           /\ ready /\ b # 0 => waiting' # <<>>
<1>1. /\ Elements(Append(queue, r)) = Elements(queue) \cup {r}
      /\ Elements(Append(waiting, r)) = Elements(waiting) \cup {r}
      /\ Elements(Append(loading, r)) = Elements(loading) \cup {r}
  BY Types, AppendElements
<1>2. Append(waiting, r) # <<>>
  BY <1>1, EmptyElements
<1>3. QED
  BY <1>1, <1>2 DEF Process

LEMMA SortedWithin ==
    ASSUME NEW s \in Seq(Runs), NEW W, NEW V, V \cap Elements(s) \subseteq W, Sorted(s, W)
    PROVE  Sorted(s, V)
<1>1. \A i \in 1..Len(s) : s[i] \in Elements(s)
  BY LenProperties DEF Elements
<1>2. QED
  BY <1>1 DEF Sorted

(* A new process, of a number beyond all others, is the last in any order.    *)
LEMMA LastInOrder ==
    ASSUME TypeOK, UnhurriedInv, InOrder, ready, waiting = <<>>,
           NEW r \in Runs, run[r] = Unused, NEW b, Process(r, b),
           r \notin Page, Watched' \subseteq Watched \cup {r},
           UNCHANGED <<working, mail>>
    PROVE  InOrder'
<1>1. r \notin Kept /\ \A a \in Runs \ {r} : run[a].at # "unused" => a < r
  BY UnusedOn
<1>2. Kept \subseteq Runs
  BY ElementsType, Types, RunsOfSeq DEF Kept, Requests, Posted, Answered
<1>3. \A a \in Kept : a <= r
  <2> TAKE a \in Kept
  <2>1. a \in Runs \ {r} /\ run[a].at # "unused"
    BY <1>1, <1>2 DEF UnhurriedInv, Begins, Begun
  <2>2. a < r /\ a \in Nat /\ r \in Nat
    BY <1>1, <2>1, Numbers
  <2>3. QED
    BY <2>2
<1>4. r <= r
  BY Numbers
<1>5. /\ Elements(Append(queue, r)) = Elements(queue) \cup {r}
      /\ Elements(Append(waiting, r)) = Elements(waiting) \cup {r}
      /\ Elements(waiting) = {}
  <2>1. Elements(waiting) = {}
    BY EmptyElements
  <2>2. \A s \in Seq(Runs) : Elements(Append(s, r)) = Elements(s) \cup {r}
    BY AppendElements
  <2>3. queue \in Seq(Runs) /\ waiting \in Seq(Runs)
    BY Types
  <2>4. QED
    BY <2>1, <2>2, <2>3
<1>6. \/ queue' = Append(queue, r) /\ waiting' = waiting
      \/ queue' = queue /\ waiting' = Append(waiting, r)
  BY DEF Process
<1>7. Answered' = Answered
  BY DEF Answered
<1>8. /\ Elements(queue') \subseteq Elements(queue) \cup {r}
      /\ Elements(queue) \subseteq Elements(queue')
      /\ Elements(waiting') \subseteq {r}
      /\ r \in Elements(queue') \cup Elements(waiting')
  BY <1>5, <1>6
<1>9. /\ Posted' \subseteq Posted \cup {r} /\ Posted \subseteq Posted'
      /\ r \in Posted' \cup Elements(waiting')
      /\ Elements(queue) \subseteq Kept /\ Posted \subseteq Kept /\ Answered \subseteq Kept
  BY <1>8 DEF Posted, Kept, Requests
<1>10. Watched' \subseteq Posted' \cup Elements(waiting') \cup Answered'
  BY <1>5, <1>7, <1>9 DEF InOrder
<1>11. Sorted(RunsOf(mail'), Watched')
  <2>1. Watched' \cap Elements(RunsOf(mail)) \subseteq Watched
    BY <1>1, <1>9 DEF Answered
  <2>2. RunsOf(mail) \in Seq(Runs)
    BY Types, RunsOfSeq
  <2>3. QED
    BY <2>1, <2>2, SortedWithin DEF InOrder
<1>12. ASSUME NEW a \in Answered', a \in Watched', NEW c \in Posted' \cup Elements(waiting'), c \in Watched'
       PROVE  a <= c
  <2>1. a \in Answered \cap Watched /\ a \in Kept
    BY <1>1, <1>7, <1>9, <1>12
  <2>2. CASE c = r
    BY <1>3, <2>1, <2>2
  <2>3. CASE c # r
    BY <1>8, <1>9, <1>12, <2>1, <2>3 DEF InOrder
  <2>4. QED
    BY <2>2, <2>3
<1>13. ASSUME working' \in Watched',
              NEW c \in Elements(queue') \cup Elements(waiting'), c \in Watched'
       PROVE  working' <= c
  <2>1. Watched' \subseteq Runs /\ working # None
    BY <1>13, Types, Numbers DEF Watched
  <2>2. working \in Kept
    BY <1>9, <2>1 DEF Posted
  <2>3. CASE c = r
    BY <1>3, <2>2, <2>3
  <2>4. CASE c # r
    BY <1>1, <1>8, <1>13, <2>2, <2>4 DEF InOrder
  <2>5. QED
    BY <2>3, <2>4
<1>14. Sorted(queue', Watched')
  <2>1. Watched' \cap Elements(queue) \subseteq Watched /\ queue \in Seq(Runs)
    BY <1>1, <1>9, Types
  <2>2. CASE queue' = queue
    BY <2>1, <2>2, SortedWithin DEF InOrder
  <2>3. CASE queue' = Append(queue, r)
    <3>1. \A a \in Elements(queue) \cap Watched' : a <= r
      BY <1>3, <1>9
    <3>2. QED
      BY <2>1, <2>3, <3>1, SortedAppend DEF InOrder
  <2>4. QED
    BY <1>6, <2>2, <2>3
<1>15. ASSUME NEW a \in Elements(queue'), NEW c \in Elements(waiting') PROVE a <= c
  BY <1>3, <1>4, <1>8, <1>9, <1>15
<1>16. \A a, c \in Elements(waiting') \cap Watched' : a = c
  BY <1>8
<1>17. QED
  BY <1>10, <1>11, <1>12, <1>13, <1>14, <1>15, <1>16 DEF InOrder

(* A call of updateBoxes is made when no kill() waits; the one for nobody,    *)
(* when the page's own run is over, only with a clear byte if one waits.      *)
LEMMA CallGoesOn ==
    ASSUME TypeOK, TypeOK', UnhurriedInv,
           NEW r \in Runs, NEW caller \in {"boxes", "nobody"}, NEW done \in SUBSET Page,
           RunProgram(r, caller, done),
           UNCHANGED <<shown, ready, working>>, doc.ver <= doc'.ver,
           mail = <<>> => mail' = <<>>, Answered' \subseteq Answered,
           ~ready => caller = "boxes",
           caller = "boxes" => Killing = {} /\ timer' = FALSE,
           caller = "nobody" => Single /\ Page \cap listens \subseteq done,
           Killing # {} => timer' = FALSE,
           byte # 0 => Killing = {} /\ timer' = FALSE,
           ready /\ byte # 0 => (Posted \cup Answered) \cap Page \cap listens \subseteq done,
           ~Single => ready /\ byte = 0 /\ waiting = <<>> /\ done = {} /\ mail' = mail
    PROVE  UnhurriedInv'
<1> DEFINE sleeps == python # None /\ byte # 0
           gone == Rejected(python) \cup done
           new == [for |-> caller, at |-> IF sleeps THEN "kill" ELSE "await",
                   ver |-> doc'.ver, kind |-> doc'.kind, victim |-> IF sleeps THEN python ELSE None]
<1>1. run[r] = Unused /\ (\A q \in 1..(r - 1) : run[q] # Unused) /\ run' = [Over(gone) EXCEPT ![r] = new]
  BY DEF RunProgram
<1>2. gone \subseteq {python} \cup done
  BY DEF Rejected, gone
<1> HIDE DEF gone, new
<1>3. EndsOnly(r) /\ run'[r] = new
      /\ \A q \in Runs \ {r} : /\ q \in gone => run'[q].at = "over"
                               /\ q \notin gone => run'[q] = run[q]
  <2>1. EndsOnly(r) /\ run'[r] = new /\ Gone(gone, r)
    BY <1>1, OverEnds
  <2>2. QED
    BY <2>1 DEF Gone
<1>4. /\ run'[r].for = caller /\ run'[r].ver = doc'.ver
      /\ run'[r].at = IF sleeps THEN "kill" ELSE "await"
      /\ run'[r].victim = IF sleeps THEN python ELSE None
  BY <1>3 DEF new
<1>5. r \notin Kept /\ r # python /\ r \notin Page /\ r \notin Killing
  BY <1>1, UnusedOn
<1>6. \/ /\ sleeps
         /\ listens' = listens \ done
         /\ UNCHANGED <<python, byte, loading, waiting, queue>>
      \/ /\ ~sleeps
         /\ python' = r
         /\ listens' = (listens \ ({python} \cup done)) \cup {r}
         /\ byte' = IF python # None THEN 1 ELSE byte
         /\ Process(r, byte')
  BY DEF RunProgram
<1>7. sleeps => python # None /\ byte # 0
  OBVIOUS
<1>8. byte' # 0 /\ ~sleeps => python # None \/ byte # 0
  BY <1>6
<1> HIDE DEF sleeps
<1>9. Page' = Page
  BY <1>3, <1>4, <1>5 DEF EndsOnly, Page
<1>10. Killing' \subseteq Killing \cup (IF sleeps THEN {r} ELSE {})
  BY <1>3, <1>4 DEF EndsOnly, Killing
<1>11. Kept \subseteq Runs
  BY ElementsType, Types, RunsOfSeq DEF Kept, Requests, Posted, Answered
<1>12. \A q \in Runs \ {r} : Begun(q) => Begun(q)'
  BY <1>3 DEF EndsOnly, Begun
<1>13. Watched' \subseteq (Watched \ done) \cup {r} /\ (~sleeps => python' = r /\ Watched' \subseteq (Watched \ {python}) \cup {r})
  <2>1. Watched' \subseteq Runs
    <3>1. listens' \subseteq Runs
      BY <1>6, Types
    <3>2. QED
      BY <3>1 DEF Watched
  <2>2. \A q \in Runs \ {r} : q \in Watched' => q \in listens /\ q \notin done /\ run[q].for = "boxes"
    BY <1>3, <1>6 DEF EndsOnly, Watched
  <2>3. ~sleeps => python' = r /\ \A q \in Watched' : q # python \/ q = r
    BY <1>6 DEF Watched
  <2>4. QED
    BY <2>1, <2>2, <2>3 DEF Watched
<1>14. /\ Elements(loading') \subseteq Elements(loading) \cup (IF sleeps THEN {} ELSE {r})
       /\ Elements(waiting') \subseteq Elements(waiting) \cup (IF sleeps THEN {} ELSE {r})
       /\ Elements(queue') \subseteq Elements(queue) \cup (IF sleeps THEN {} ELSE {r})
       /\ ~ready => waiting' = waiting /\ queue' = queue
       /\ ready => loading' = loading
       /\ byte' # 0 => queue' = queue
       /\ ready /\ byte' # 0 /\ ~sleeps => waiting' # <<>>
  BY <1>6, ProcessAdds
<1>15. Attached'
  <2> SUFFICES ASSUME ~ready PROVE Attached'
    BY DEF Attached
  <2>1. Page = {} /\ done = {} /\ python # None /\ listens = {python} /\ run[python].for = "boxes"
        /\ waiting = <<>> /\ queue = <<>> /\ working = None /\ mail = <<>> /\ (Killing # {} => byte # 0)
    BY DEF UnhurriedInv, Attached
  <2>2. CASE sleeps
    <3>1. python' = python /\ listens' = listens /\ byte' = byte /\ python \in Runs \ {r}
      BY <1>5, <1>6, <2>1, <2>2, Types
    <3>2. run'[python'].for = "boxes"
      BY <1>3, <2>1, <3>1 DEF EndsOnly
    <3>3. QED
      BY <1>7, <1>9, <1>14, <2>1, <2>2, <3>1, <3>2 DEF Attached
  <2>3. CASE ~sleeps
    <3>1. python' = r /\ listens' = {r} /\ run'[r].for = "boxes" /\ r # None
      BY <1>4, <1>6, <2>1, <2>3, Numbers
    <3>2. Killing' = {}
      BY <1>10, <2>3
    <3>3. QED
      BY <1>9, <1>14, <2>1, <3>1, <3>2 DEF Attached
  <2>4. QED
    BY <2>2, <2>3
<1>16. Cleared'
  <2> SUFFICES ASSUME ready PROVE loading' = <<>> /\ (byte' # 0 => waiting' # <<>>)
    BY DEF Cleared
  <2>1. loading' = <<>>
    BY <1>14 DEF UnhurriedInv, Cleared
  <2>2. CASE sleeps
    BY <1>6, <2>1, <2>2 DEF UnhurriedInv, Cleared
  <2>3. CASE ~sleeps
    BY <1>14, <2>1, <2>3
  <2>4. QED
    BY <2>2, <2>3
<1>17. Begins'
  <2>1. Kept' \subseteq Kept \cup (IF sleeps THEN {} ELSE {r})
    BY <1>14 DEF Kept, Requests, Posted
  <2>2. \A q \in Kept : Begun(q)'
    BY <1>5, <1>11, <1>12 DEF UnhurriedInv, Begins
  <2>3. ~sleeps => Begun(r)'
    BY <1>4 DEF Begun
  <2>4. ASSUME python' # None PROVE run'[python'].at \in {"await", "over"}
    <3>1. CASE python' = r
      BY <1>4, <1>5, <1>6, <3>1
    <3>2. CASE python' = python
      <4>1. python \in Runs \ {r} /\ Begun(python)
        BY <1>5, <2>4, <3>2, Types DEF UnhurriedInv, Begins
      <4>2. QED
        BY <1>12, <3>2, <4>1 DEF Begun
    <3>3. QED
      BY <1>6, <3>1, <3>2
  <2>5. QED
    BY <2>1, <2>2, <2>3, <2>4 DEF Begins, Begun
<1>18. OnePage'
  <2>1. python' \in {python, r}
    BY <1>6
  <2>2. QED
    BY <1>5, <1>9, <1>10, <2>1 DEF UnhurriedInv, OnePage
<1>19. shown \in Nat /\ doc.ver \in Nat /\ doc'.ver \in Nat /\ \A q \in Runs : run[q].ver \in Nat
  BY Versions, VersionsNext
<1>20. shown <= doc'.ver /\ \A q \in Runs : run[q].ver <= doc'.ver
  <2>1. shown <= doc.ver /\ \A q \in Runs : run[q].ver <= doc.ver
    BY DEF UnhurriedInv, NoneOlder
  <2>2. QED
    BY <1>19, <2>1
<1>21. \A q \in Runs : run'[q].ver <= doc'.ver
  BY <1>3, <1>4, <1>19, <1>20 DEF EndsOnly
<1>22. \A q \in Runs \ {r} : run'[q].ver = run[q].ver /\ run'[q].for = run[q].for /\ run'[q].victim = run[q].victim
  BY <1>3 DEF EndsOnly
<1>23. Counted'
  <2>1. \A q \in gone \ {None} : q \in Runs /\ run[q].at # "unused"
    <3>1. ASSUME NEW q \in Page PROVE q \in Runs /\ run[q].at # "unused"
      <4>1. q \in Runs /\ run[q].for = "page"
        BY DEF Page
      <4>2. run[q] # Unused
        BY <4>1 DEF Unused
      <4>3. QED
        BY <4>1, <4>2 DEF UnhurriedInv, Counted
    <3>2. python # None => python \in Runs /\ run[python].at # "unused"
      BY Types DEF UnhurriedInv, Begins, Begun
    <3>3. QED
      BY <1>2, <3>1, <3>2
  <2>2. ASSUME NEW q \in Runs \ {r}
        PROVE  /\ run[q].at = "unused" <=> run'[q].at = "unused"
               /\ run'[q].at = "unused" => run'[q] = run[q]
    <3>1. CASE q \in gone
      <4>1. run'[q].at = "over" /\ run[q].at # "unused"
        BY <1>3, <2>1, <3>1, Numbers
      <4>2. QED
        BY <4>1
    <3>2. CASE q \notin gone
      BY <1>3, <3>2
    <3>3. QED
      BY <3>1, <3>2
  <2>3. run'[r].at # "unused"
    BY <1>4
  <2>4. \A a \in Runs : run'[a].at = "unused" => run'[a] = Unused
    BY <2>2, <2>3 DEF UnhurriedInv, Counted
  <2>5. ASSUME NEW a \in Runs, NEW b \in Runs, a < b, run'[b].at # "unused"
        PROVE  run'[a].at # "unused" /\ run'[a].ver <= run'[b].ver
    <3>1. CASE b = r
      <4>1. a # r /\ a \in 1..(r - 1)
        BY <2>5, <3>1 DEF Runs
      <4>2. run[a].at # "unused"
        BY <1>1, <4>1 DEF UnhurriedInv, Counted
      <4>3. QED
        BY <1>4, <1>21, <2>2, <3>1, <4>1, <4>2
    <3>2. CASE b # r
      <4>1. run[b].at # "unused"
        BY <2>2, <2>5, <3>2
      <4>2. b < r
        BY <1>1, <3>2, <4>1, UnusedOn
      <4>3. a # r /\ a \in Runs
        BY <2>5, <4>2, Numbers
      <4>4. run[a].at # "unused" /\ run[a].ver <= run[b].ver
        BY <2>5, <4>1 DEF UnhurriedInv, Counted
      <4>5. QED
        BY <1>22, <2>2, <3>2, <4>3, <4>4
    <3>3. QED
      BY <3>1, <3>2
  <2>6. QED
    BY <2>4, <2>5 DEF Counted
<1>24. NoneOlder'
  <2>1. Watched' \subseteq Watched \cup {r} /\ Killing' \subseteq Killing \cup {r}
    BY <1>10, <1>13
  <2>2. Watched \subseteq Runs /\ Killing \subseteq Runs
    BY Types DEF Watched, Killing
  <2>3. \A q \in Watched' : shown <= run'[q].ver
    BY <1>4, <1>20, <1>22, <2>1, <2>2 DEF UnhurriedInv, NoneOlder
  <2>4. \A q \in Killing' : run'[q].for = "boxes" => shown <= run'[q].ver
    BY <1>4, <1>20, <1>22, <2>1, <2>2 DEF UnhurriedInv, NoneOlder
  <2>5. QED
    BY <1>20, <1>21, <2>3, <2>4 DEF NoneOlder
<1>25. CASE sleeps
  <2>1. /\ Killing = {} /\ timer' = FALSE /\ python # None /\ Single
        /\ UNCHANGED <<python, byte, loading, waiting, queue>> /\ listens' = listens \ done
    BY <1>6, <1>7, <1>25
  <2>2. Killing' \subseteq {r}
    BY <1>10, <2>1
  <2>3. KillWaits'
    <3>1. run'[python].ver <= run'[r].ver
      BY <1>4, <1>5, <1>20, <1>22, <2>1, Types
    <3>2. \A k \in Killing' : k = r
      BY <2>2
    <3>3. run'[r].victim = python
      BY <1>4, <1>25
    <3>4. QED
      BY <2>1, <3>1, <3>2, <3>3 DEF KillWaits
  <2>4. PageWaits'
    <3>1. Posted' = Posted
      BY <2>1 DEF Posted
    <3>2. QED
      BY <1>7, <1>9, <1>25, <2>1, <3>1 DEF PageWaits
  <2>5. Single'
    BY <1>9, <2>1 DEF Single
  <2>6. QED
    BY <1>15, <1>16, <1>17, <1>18, <1>23, <1>24, <2>3, <2>4, <2>5 DEF UnhurriedInv
<1>26. CASE ~sleeps
  <2>1. /\ python' = r /\ listens' = (listens \ ({python} \cup done)) \cup {r}
        /\ Process(r, byte') /\ Watched' \subseteq (Watched \ {python}) \cup {r}
    BY <1>6, <1>13, <1>26
  <2>2. Killing' \subseteq Killing
    BY <1>10, <1>26
  <2>3. KillWaits'
    <3> SUFFICES ASSUME NEW k \in Killing' PROVE KillWaits'
      BY DEF KillWaits
    <3>1. k \in Killing /\ Killing # {}
      BY <2>2
    <3>2. caller = "nobody" /\ Single /\ Page \cap listens \subseteq done /\ timer' = FALSE
      BY <3>1
    <3>3. \A q \in Killing' : q = k
      BY <2>2, <3>1 DEF UnhurriedInv, KillWaits
    <3>4. Watched \subseteq {python}
      BY <3>2, Types DEF Single, Watched, Page
    <3>5. r \notin Watched'
      BY <1>4, <3>2 DEF Watched
    <3>6. Watched' = {}
      BY <2>1, <3>4, <3>5
    <3>7. Page' \cap listens' = {}
      BY <1>5, <1>9, <2>1, <3>2
    <3>8. \A q, c \in Killing' : q = c
      BY <3>3
    <3>9. QED
      BY <3>2, <3>6, <3>7, <3>8 DEF KillWaits
  <2>4. PageWaits'
    <3>1. CASE caller = "boxes"
      <4>1. Killing' = {} /\ timer' = FALSE
        BY <2>2, <3>1
      <4>2. QED
        BY <4>1 DEF PageWaits
    <3>2. CASE caller = "nobody"
      <4>1. Page' \cap listens' = {}
        BY <1>5, <1>9, <2>1, <3>2
      <4>2. QED
        BY <4>1 DEF PageWaits
    <3>3. QED
      BY <3>1, <3>2
  <2>5. CASE Single
    <3>1. Single'
      BY <1>9, <2>1, <2>5 DEF Single
    <3>2. QED
      BY <1>15, <1>16, <1>17, <1>18, <1>23, <1>24, <2>3, <2>4, <3>1 DEF UnhurriedInv
  <2>6. CASE ~Single
    <3>1. InTurn /\ ready /\ byte = 0 /\ waiting = <<>> /\ done = {} /\ mail' = mail /\ caller = "boxes"
      BY <2>6 DEF UnhurriedInv
    <3>2. Killing' = {} /\ timer' = FALSE /\ ready'
      BY <2>2, <3>1
    <3>3. Page' \cap listens' = {}
      BY <1>5, <1>9, <2>1, <3>1 DEF InTurn
    <3>4. Watched' \subseteq Watched \cup {r} /\ UNCHANGED <<working, mail>>
      BY <1>13, <3>1
    <3>5. InOrder'
      BY <1>1, <1>5, <2>1, <3>1, <3>4, LastInOrder DEF InTurn
    <3>6. InTurn'
      BY <3>2, <3>3, <3>5 DEF InTurn
    <3>7. QED
      BY <1>15, <1>16, <1>17, <1>18, <1>23, <1>24, <2>3, <2>4, <3>6 DEF UnhurriedInv
  <2>7. QED
    BY <2>5, <2>6
<1>27. QED
  BY <1>25, <1>26

(***************************************************************************)
(* Users, timers, the arrival of Pyodide, kill()s that waited              *)
(***************************************************************************)

LEMMA UserMovesOn ==
    ASSUME TypeOK, TypeOK', Unhurried, UnhurriedInv, UserStep
    PROVE  UnhurriedInv'
<1>1. MayType /\ UNCHANGED <<shown, spinner, ready, working, mail>>
  BY DEF UserStep, Edit, Refresh
<1>2. waiting = <<>> /\ Killing = {}
  BY <1>1 DEF MayType, Unhurried, Killing
<1>3. ready => byte = 0
  BY <1>2 DEF UnhurriedInv, Cleared
<1>4. ~Single => InTurn
  BY DEF UnhurriedInv
<1>5. doc.ver \in Nat /\ doc'.ver \in Nat
  BY Types, TypesNext, Numbers DEF Texts
<1>6. doc.ver <= doc'.ver
  BY <1>5 DEF UserStep, Edit, Refresh
<1>7. ASSUME NEW r \in Runs, RunProgram(r, "boxes", {}), timer' = FALSE
      PROVE  UnhurriedInv'
  <2>1. {} \in SUBSET Page /\ "boxes" \in {"boxes", "nobody"} /\ "boxes" # "nobody"
    OBVIOUS
  <2>2. Answered' = Answered
    BY <1>1 DEF Answered
  <2>3. ~Single => ready /\ byte = 0 /\ waiting = <<>>
    BY <1>2, <1>3, <1>4 DEF InTurn
  <2>4. QED
    BY <1>1, <1>2, <1>3, <1>6, <1>7, <2>1, <2>2, <2>3, CallGoesOn
<1>8. ASSUME UNCHANGED <<processVars, byte, queue>>
      PROVE  UnhurriedInv'
  <2>1. UNCHANGED <<run, python, listens, loading, waiting, byte, queue, working, mail, ready, shown>>
    BY <1>1, <1>8 DEF processVars
  <2>2. /\ Killing' = {} /\ Page' = Page /\ Watched' = Watched
        /\ Kept' = Kept /\ Posted' = Posted /\ Answered' = Answered
        /\ \A r : Begun(r)' = Begun(r)
    BY <1>2, <2>1 DEF Killing, Page, Watched, Kept, Requests, Posted, Answered, Begun
  <2>3. Attached' /\ Cleared'
    BY <1>2, <2>1, <2>2 DEF UnhurriedInv, Attached, Cleared
  <2>4. Begins' /\ OnePage' /\ Counted'
    BY <1>2, <2>1, <2>2 DEF UnhurriedInv, Begins, OnePage, Counted
  <2>5. KillWaits' /\ PageWaits'
    BY <1>3, <2>1, <2>2 DEF KillWaits, PageWaits
  <2>6. Single' \/ InTurn'
    <3>1. CASE Single
      BY <2>1, <2>2, <3>1 DEF Single
    <3>2. CASE InTurn
      <4>1. InOrder'
        BY <2>1, <2>2, <3>2 DEF InTurn, InOrder
      <4>2. QED
        BY <1>2, <1>3, <2>1, <2>2, <3>2, <4>1 DEF InTurn
    <3>3. QED
      BY <3>1, <3>2 DEF UnhurriedInv
  <2>7. NoneOlder'
    <3>1. shown \in Nat /\ \A r \in Runs : run[r].ver \in Nat
      BY Types, Numbers DEF RunTypes
    <3>2. shown' <= doc'.ver /\ \A r \in Runs : run'[r].ver <= doc'.ver
      BY <1>5, <1>6, <2>1, <3>1 DEF UnhurriedInv, NoneOlder
    <3>3. \A r \in Watched' : shown' <= run'[r].ver
      BY <2>1, <2>2 DEF UnhurriedInv, NoneOlder
    <3>4. QED
      BY <2>2, <3>2, <3>3 DEF NoneOlder
  <2>8. QED
    BY <2>3, <2>4, <2>5, <2>6, <2>7 DEF UnhurriedInv
<1>9. QED
  BY <1>7, <1>8 DEF UserStep, Edit, Refresh

LEMMA TimerMovesOn ==
    ASSUME TypeOK, TypeOK', UnhurriedInv, TimerFires
    PROVE  UnhurriedInv'
<1>1. timer /\ timer' = FALSE /\ doc' = doc /\ UNCHANGED <<shown, ready, working, mail>>
  BY DEF TimerFires
<1>2. PICK r \in Runs : RunProgram(r, "boxes", {})
  BY DEF TimerFires
<1>3. Killing = {}
  BY <1>1 DEF UnhurriedInv, KillWaits
<1>4. doc.ver <= doc'.ver
  <2>1. doc.ver \in Nat
    BY Types, Numbers DEF Texts
  <2>2. QED
    BY <1>1, <2>1
<1>5. ready /\ byte # 0 => (Posted \cup Answered) \cap Page \cap listens \subseteq {}
  BY <1>1 DEF UnhurriedInv, PageWaits
<1>6. ~Single => ready /\ byte = 0 /\ waiting = <<>>
  BY <1>1 DEF UnhurriedInv, InTurn
<1>7. Answered' = Answered
  BY <1>1 DEF Answered
<1>8. {} \in SUBSET Page /\ "boxes" \in {"boxes", "nobody"} /\ "boxes" # "nobody"
  OBVIOUS
<1>9. QED
  BY <1>1, <1>2, <1>3, <1>4, <1>5, <1>6, <1>7, <1>8, CallGoesOn

LEMMA LoadedMovesOn ==
    ASSUME TypeOK, TypeOK', UnhurriedInv, Loaded
    PROVE  UnhurriedInv'
<1> DEFINE new(r) == [for |-> "page", at |-> "await", ver |-> doc.ver, kind |-> doc.kind, victim |-> None]
<1>1. PICK r \in Runs :
        /\ run[r] = Unused /\ \A q \in 1..(r - 1) : run[q] # Unused
        /\ run' = [run EXCEPT ![r] = new(r)]
        /\ listens' = listens \cup {r}
        /\ \/ byte = 0 /\ queue' = loading \o <<r>> /\ UNCHANGED waiting
           \/ byte # 0 /\ waiting' = loading \o <<r>> /\ UNCHANGED queue
  BY DEF Loaded
<1>2. /\ ready' = TRUE /\ loading' = <<>>
      /\ UNCHANGED <<doc, shown, timer, spinner, python, byte, working, mail>>
  BY DEF Loaded
<1>3. /\ ~ready /\ waiting = <<>> /\ queue = <<>> /\ working = None /\ mail = <<>>
      /\ Page = {} /\ python # None /\ listens = {python} /\ run[python].for = "boxes"
  BY DEF Loaded, UnhurriedInv, Attached
<1>4. /\ \A q \in Runs \ {r} : run'[q] = run[q]
      /\ run'[r].for = "page" /\ run'[r].at = "await" /\ run'[r].ver = doc.ver
  BY <1>1, Types
<1>5. /\ r \notin Kept /\ r # python /\ r \notin Killing
      /\ \A a \in Runs \ {r} : run[a].at # "unused" => a < r
  BY <1>1, UnusedOn
<1>6. python \in Runs \ {r}
  BY <1>3, <1>5, Types
<1>7. Page' = {r} /\ Killing' = Killing /\ Watched' = Watched /\ Watched = {python}
  BY <1>1, <1>3, <1>4, <1>5, <1>6 DEF Page, Killing, Watched
<1>8. /\ Elements(loading \o <<r>>) \subseteq Elements(loading) \cup {r}
      /\ loading \o <<r>> # <<>>
  <2>1. /\ <<r>> \in Seq(Runs) /\ Elements(<<r>>) = {r}
    BY SingleElement
  <2>2. loading \in Seq(Runs)
    BY Types
  <2>3. Elements(loading \o <<r>>) \subseteq Elements(loading) \cup Elements(<<r>>)
    BY <2>1, <2>2, ConcatElements
  <2>4. loading \o <<r>> # <<>>
    BY <2>2
  <2>5. QED
    BY <2>1, <2>3, <2>4
<1>9. Kept' \subseteq Kept \cup {r} /\ Answered' = Answered /\ Answered = {}
  <2>1. /\ Elements(waiting') \subseteq Elements(loading) \cup Elements(waiting) \cup {r}
        /\ Elements(queue') \subseteq Elements(loading) \cup Elements(queue) \cup {r}
        /\ Elements(loading') = {}
    BY <1>1, <1>2, <1>8, EmptyElements
  <2>2. Answered' = Answered /\ Answered = {}
    BY <1>2, <1>3, RunsOfEmpty DEF Answered
  <2>3. QED
    BY <1>2, <2>1, <2>2 DEF Kept, Requests, Posted
<1>10. Attached' /\ Cleared'
  BY <1>1, <1>2, <1>8 DEF Attached, Cleared
<1>11. Kept \subseteq Runs
  BY ElementsType, Types, RunsOfSeq DEF Kept, Requests, Posted, Answered
<1>12. Begins'
  <2>1. \A q \in Kept : Begun(q)'
    BY <1>4, <1>5, <1>11 DEF UnhurriedInv, Begins, Begun
  <2>2. Begun(r)'
    BY <1>4 DEF Begun
  <2>3. run'[python].at \in {"await", "over"}
    BY <1>3, <1>4, <1>6 DEF UnhurriedInv, Begins, Begun
  <2>4. QED
    BY <1>2, <1>9, <2>1, <2>2, <2>3 DEF Begins, Begun
<1>13. OnePage'
  BY <1>2, <1>5, <1>6, <1>7 DEF OnePage
<1>14. KillWaits'
  <2> SUFFICES ASSUME NEW k \in Killing PROVE KillWaits'
    BY <1>7 DEF KillWaits
  <2>1. /\ timer = FALSE /\ (\A q, c \in Killing : q = c) /\ k \in Runs \ {r}
        /\ run[k].victim = python /\ run[python].ver <= run[k].ver
    BY <1>5, <1>7 DEF UnhurriedInv, KillWaits, Killing
  <2>2. \A q \in Killing : q = k
    BY <2>1
  <2>3. QED
    BY <1>2, <1>3, <1>4, <1>6, <1>7, <2>1, <2>2 DEF KillWaits
<1>15. PageWaits'
  <2>1. byte # 0 => Posted' = {}
    BY <1>1, <1>2, <1>3, EmptyElements DEF Posted
  <2>2. QED
    BY <1>2, <1>9, <2>1 DEF PageWaits
<1>16. \A q \in Runs : run[q].ver <= doc.ver
  BY DEF UnhurriedInv, NoneOlder
<1>17. Counted'
  <2>1. \A a \in Runs : run'[a].at = "unused" => run'[a] = Unused
    BY <1>4 DEF UnhurriedInv, Counted
  <2>2. ASSUME NEW a \in Runs, NEW b \in Runs, a < b, run'[b].at # "unused"
        PROVE  run'[a].at # "unused" /\ run'[a].ver <= run'[b].ver
    <3>1. CASE b = r
      <4>1. a # r /\ a \in 1..(r - 1)
        BY <2>2, <3>1 DEF Runs
      <4>2. run[a].at # "unused"
        BY <1>1, <4>1 DEF UnhurriedInv, Counted
      <4>3. QED
        BY <1>4, <1>16, <3>1, <4>1, <4>2
    <3>2. CASE b # r
      <4>1. run[b].at # "unused"
        BY <1>4, <2>2, <3>2
      <4>2. b < r
        BY <1>5, <3>2, <4>1
      <4>3. a # r /\ a \in Runs
        BY <2>2, <4>2, Numbers
      <4>4. run[a].at # "unused" /\ run[a].ver <= run[b].ver
        BY <2>2, <4>1 DEF UnhurriedInv, Counted
      <4>5. QED
        BY <1>4, <3>2, <4>3, <4>4
    <3>3. QED
      BY <3>1, <3>2
  <2>3. QED
    BY <2>1, <2>2 DEF Counted
<1>18. Single'
  BY <1>1, <1>2, <1>3, <1>7 DEF Single
<1>19. NoneOlder'
  <2>1. doc.ver <= doc.ver
    BY Types, Numbers DEF Texts
  <2>2. \A q \in Runs : run'[q].ver <= doc.ver
    BY <1>4, <1>16, <2>1
  <2>3. \A q \in Watched' : shown <= run'[q].ver
    BY <1>4, <1>6, <1>7 DEF UnhurriedInv, NoneOlder
  <2>4. \A q \in Killing' : run'[q].for = "boxes" => shown <= run'[q].ver
    BY <1>4, <1>5, <1>7 DEF UnhurriedInv, NoneOlder, Killing
  <2>5. QED
    BY <1>2, <2>2, <2>3, <2>4 DEF UnhurriedInv, NoneOlder
<1>20. QED
  BY <1>10, <1>12, <1>13, <1>14, <1>15, <1>17, <1>18, <1>19 DEF UnhurriedInv

LEMMA KillEndsMovesOn ==
    ASSUME TypeOK, TypeOK', UnhurriedInv, NEW r \in Runs, KillEnds(r)
    PROVE  UnhurriedInv'
<1>1. /\ run[r].at = "kill" /\ byte = 0 /\ byte' = 1 /\ python' = r
      /\ listens' = (listens \ {run[r].victim}) \cup {r}
      /\ run' = [run EXCEPT ![r].at = "await"]
      /\ Process(r, 1)
      /\ UNCHANGED <<doc, shown, timer, spinner, ready, working, mail>>
  BY DEF KillEnds, pageVars
<1>2. r \in Killing /\ ready
  BY <1>1 DEF Killing, UnhurriedInv, Attached
<1>3. /\ timer = FALSE /\ (\A q \in Killing : q = r)
      /\ \/ python # None /\ run[r].victim = python
         \/ Watched = {} /\ (python \notin listens \/ Page \cap listens = {})
  BY <1>2 DEF UnhurriedInv, KillWaits
<1>4. r \notin Kept /\ r \notin Page
  BY <1>1, <1>2 DEF UnhurriedInv, Begins, Begun, OnePage
<1>5. /\ \A q \in Runs \ {r} : run'[q] = run[q]
      /\ run'[r].at = "await" /\ run'[r].for = run[r].for /\ run'[r].ver = run[r].ver
  BY <1>1, Types DEF RunTypes
<1>6. loading' = loading /\ queue' = queue /\ Elements(waiting') = Elements(waiting) \cup {r} /\ waiting' # <<>>
  BY <1>1, <1>2, ProcessPlaces, ProcessAdds
<1>7. Kept' = Kept \cup {r} /\ Posted' = Posted /\ Answered' = Answered
  BY <1>1, <1>6 DEF Kept, Requests, Posted, Answered
<1>8. Killing' = {} /\ Page' = Page
  BY <1>3, <1>4, <1>5 DEF Killing, Page
<1>9. Watched' \subseteq Watched \cup {r}
  <2>1. listens' \subseteq Runs
    BY <1>1, Types
  <2>2. QED
    BY <1>1, <1>5, <2>1 DEF Watched
<1>10. Attached' /\ Cleared'
  BY <1>1, <1>2, <1>6 DEF UnhurriedInv, Attached, Cleared
<1>11. Begins'
  <2>1. Kept \subseteq Runs
    BY ElementsType, Types, RunsOfSeq DEF Kept, Requests, Posted, Answered
  <2>2. \A q \in Kept : Begun(q)'
    BY <1>4, <1>5, <2>1 DEF UnhurriedInv, Begins, Begun
  <2>3. run'[r].at \in {"await", "over"}
    BY <1>5
  <2>4. QED
    BY <1>1, <1>7, <2>2, <2>3 DEF Begins, Begun
<1>12. OnePage'
  BY <1>1, <1>4, <1>8 DEF UnhurriedInv, OnePage
<1>13. KillWaits' /\ PageWaits'
  BY <1>1, <1>3, <1>8 DEF KillWaits, PageWaits
<1>14. Counted'
  BY <1>1, <1>5 DEF UnhurriedInv, Counted
<1>15. Single' \/ InTurn'
  <2>1. Single
    BY <1>2 DEF UnhurriedInv, InTurn
  <2>2. CASE listens \ {run[r].victim} \subseteq Page
    BY <1>1, <1>8, <2>2 DEF Single
  <2>3. CASE Watched = {} /\ Page \cap listens = {}
    <3>1. Watched' \subseteq {r} /\ r \in Elements(waiting')
      BY <1>6, <1>9, <2>3
    <3>2. r <= r
      BY Numbers
    <3>3. InOrder'
      BY <3>1, <3>2 DEF InOrder, Sorted
    <3>4. Page' \cap listens' = {}
      BY <1>1, <1>4, <1>8, <2>3
    <3>5. InTurn'
      BY <1>1, <1>2, <1>3, <1>8, <3>3, <3>4 DEF InTurn
    <3>6. QED
      BY <3>5
  <2>4. QED
    BY <1>3, <2>1, <2>2, <2>3 DEF Single
<1>16. NoneOlder'
  <2>1. run[r].for = "boxes" => shown <= run[r].ver
    BY <1>2 DEF UnhurriedInv, NoneOlder
  <2>2. \A q \in Watched' : shown <= run'[q].ver
    <3> TAKE q \in Watched'
    <3>1. CASE q = r
      <4>1. run'[r].for = "boxes"
        BY <3>1 DEF Watched
      <4>2. QED
        BY <1>5, <2>1, <3>1, <4>1
    <3>2. CASE q # r
      <4>1. q \in Watched /\ q \in Runs
        BY <1>9, <3>2, Types DEF Watched
      <4>2. QED
        BY <1>5, <3>2, <4>1 DEF UnhurriedInv, NoneOlder
    <3>3. QED
      BY <3>1, <3>2
  <2>3. \A q \in Runs : run'[q].ver <= doc.ver
    BY <1>5 DEF UnhurriedInv, NoneOlder
  <2>4. QED
    BY <1>1, <1>8, <2>2, <2>3 DEF UnhurriedInv, NoneOlder
<1>17. QED
  BY <1>10, <1>11, <1>12, <1>13, <1>14, <1>15, <1>16 DEF UnhurriedInv

(***************************************************************************)
(* Answers that are read                                                   *)
(***************************************************************************)

LEMMA AnswerRead ==
    ASSUME TypeOK, UnhurriedInv, NEW r \in Runs, mail # <<>>, Head(mail).run = r, mail' = Tail(mail),
           listens' = listens \ {r},
           \A q \in Runs : run'[q].for = run[q].for,
           UNCHANGED <<waiting, queue, working>>
    PROVE  /\ ready /\ Begun(r)
           /\ Answered' \subseteq Answered /\ r \in Answered
           /\ Watched' = Watched \ {r} /\ Posted' = Posted
           /\ InOrder => InOrder' /\ (r \in Watched => \A q \in Watched : r <= q)
<1>1. /\ RunsOf(mail) # <<>> /\ Head(RunsOf(mail)) = r
      /\ RunsOf(mail') = Tail(RunsOf(mail)) /\ RunsOf(mail) \in Seq(Runs)
  BY Types, RunsOfTail, RunsOfSeq
<1>2. /\ Elements(RunsOf(mail')) \subseteq Elements(RunsOf(mail)) /\ r \in Elements(RunsOf(mail))
      /\ Elements(RunsOf(mail)) \subseteq {r} \cup Elements(RunsOf(mail'))
  BY <1>1, TailElements, TailKeeps
<1>3. Answered' \subseteq Answered /\ r \in Answered /\ Answered \subseteq {r} \cup Answered'
  BY <1>2 DEF Answered
<1>4. ready /\ Begun(r)
  BY <1>3 DEF UnhurriedInv, Attached, Begins, Kept
<1>5. Watched' = Watched \ {r}
  BY Types DEF Watched
<1>6. Posted' = Posted
  BY DEF Posted
<1>7. ASSUME InOrder PROVE InOrder' /\ (r \in Watched => \A q \in Watched : r <= q)
  <2>1. /\ Sorted(RunsOf(mail'), Watched')
        /\ r \in Watched => \A a \in Elements(RunsOf(mail')) \cap Watched : r <= a
    <3>1. Sorted(RunsOf(mail), Watched) /\ Watched' \subseteq Watched
      BY <1>5, <1>7 DEF InOrder
    <3>2. QED
      BY <1>1, <3>1, SortedTail
  <2>2. Watched' \subseteq Posted' \cup Elements(waiting') \cup Answered'
    BY <1>3, <1>5, <1>6, <1>7 DEF InOrder
  <2>3. \A a \in Answered' \cap Watched', b \in (Posted' \cup Elements(waiting')) \cap Watched' : a <= b
    BY <1>3, <1>5, <1>6, <1>7 DEF InOrder
  <2>4. /\ working' \in Watched' =>
             \A b \in (Elements(queue') \cup Elements(waiting')) \cap Watched' : working' <= b
        /\ \A a \in Elements(queue') \cap Watched', b \in Elements(waiting') \cap Watched' : a <= b
        /\ \A a, b \in Elements(waiting') \cap Watched' : a = b
    BY <1>5, <1>7 DEF InOrder
  <2>5. Sorted(queue', Watched')
    BY <1>5, <1>7 DEF InOrder, Sorted
  <2>6. ASSUME r \in Watched, NEW q \in Watched PROVE r <= q
    <3>1. CASE q = r
      BY <3>1, Numbers
    <3>2. CASE q \in Posted \cup Elements(waiting)
      BY <1>3, <1>7, <2>6, <3>2 DEF InOrder
    <3>3. CASE q \in Answered /\ q # r
      BY <1>3, <2>1, <2>6, <3>3 DEF Answered
    <3>4. QED
      BY <1>7, <3>1, <3>2, <3>3 DEF InOrder
  <2>7. QED
    BY <2>1, <2>2, <2>3, <2>4, <2>5, <2>6 DEF InOrder
<1>8. QED
  BY <1>3, <1>4, <1>5, <1>6, <1>7

(* Its listener goes, and perhaps its run is over. *)
LEMMA ListenerMovesOn ==
    ASSUME TypeOK, TypeOK', UnhurriedInv, NEW r \in Runs, mail # <<>>, Head(mail).run = r, mail' = Tail(mail),
           listens' = listens \ {r}, NEW rs \in SUBSET {r},
           \/ run' = Over(rs)
           \/ rs = {} /\ run' = run,
           UNCHANGED <<doc, shown, timer, spinner, ready, python, loading, waiting, byte, queue, working>>
    PROVE  UnhurriedInv'
<1>1. \A q \in Runs : /\ run'[q].for = run[q].for
                      /\ run'[q].ver = run[q].ver
                      /\ run'[q].victim = run[q].victim
                      /\ run'[q].at = IF q \in rs THEN "over" ELSE run[q].at
                      /\ q \notin rs => run'[q] = run[q]
  BY OverRuns
<1>2. /\ ready /\ Begun(r)
      /\ Answered' \subseteq Answered
      /\ Watched' = Watched \ {r} /\ Posted' = Posted
      /\ InOrder => InOrder'
  BY <1>1, AnswerRead
<1>3. Killing' = Killing /\ Page' = Page
  BY <1>1, <1>2 DEF Killing, Page, Begun
<1>4. Kept' \subseteq Kept /\ Kept \subseteq Runs
  BY <1>2, ElementsType, Types, RunsOfSeq DEF Kept, Requests, Posted, Answered
<1>5. \A q \in Runs : Begun(q) => Begun(q)'
  BY <1>1 DEF Begun
<1>6. Attached' /\ Cleared'
  BY <1>2 DEF UnhurriedInv, Attached, Cleared
<1>7. Begins'
  BY <1>4, <1>5, Types DEF UnhurriedInv, Begins
<1>8. OnePage'
  BY <1>3 DEF UnhurriedInv, OnePage
<1>9. KillWaits'
  BY <1>1, <1>2, <1>3, Types DEF UnhurriedInv, KillWaits, Killing
<1>10. PageWaits'
  BY <1>2, <1>3 DEF UnhurriedInv, PageWaits
<1>11. Counted'
  <2>1. run[r].at # "unused"
    BY <1>2 DEF Begun
  <2>2. \A q \in Runs : (run[q].at = "unused" <=> run'[q].at = "unused") /\ (run'[q].at = "unused" => run'[q] = run[q])
    BY <1>1, <2>1
  <2>3. QED
    BY <1>1, <2>2 DEF UnhurriedInv, Counted
<1>12. Single' \/ InTurn'
  BY <1>2, <1>3 DEF UnhurriedInv, Single, InTurn
<1>13. NoneOlder'
  <2>1. Watched \subseteq Runs /\ Killing \subseteq Runs
    BY Types DEF Watched, Killing
  <2>2. QED
    BY <1>1, <1>2, <1>3, <2>1 DEF UnhurriedInv, NoneOlder
<1>14. QED
  BY <1>6, <1>7, <1>8, <1>9, <1>10, <1>11, <1>12, <1>13 DEF UnhurriedInv

(* The boxes' own run, or the one for nobody, is over: what the boxes show is *)
(* not newer than any run they still wait for.                                *)
LEMMA RunIsShown ==
    ASSUME TypeOK, TypeOK', UnhurriedInv, NEW r \in Runs, mail # <<>>, Head(mail).run = r, mail' = Tail(mail),
           Awaits(r), r \in listens, run[r].for # "page",
           run' = Over({r}), listens' = listens \ {r}, python' = None,
           shown' = (IF run[r].for = "boxes" /\ run[r].kind # "error" THEN run[r].ver ELSE shown),
           UNCHANGED <<doc, timer, spinner, ready, loading, waiting, byte, queue, working>>
    PROVE  UnhurriedInv'
<1>1. \A q \in Runs : /\ run'[q].for = run[q].for
                      /\ run'[q].ver = run[q].ver
                      /\ run'[q].victim = run[q].victim
                      /\ run'[q].at = IF q \in {r} THEN "over" ELSE run[q].at
                      /\ q \notin {r} => run'[q] = run[q]
  BY OverRuns
<1>2. /\ ready /\ Begun(r)
      /\ Answered' \subseteq Answered
      /\ Watched' = Watched \ {r} /\ Posted' = Posted
      /\ InOrder => InOrder' /\ (r \in Watched => \A q \in Watched : r <= q)
  BY <1>1, AnswerRead
<1>3. Killing' = Killing /\ Page' = Page /\ r \notin Page
  <2>1. \A q \in Runs : run'[q].at = "kill" <=> run[q].at = "kill"
    BY <1>1 DEF Awaits
  <2>2. Killing' = Killing
    BY <2>1 DEF Killing
  <2>3. Page' = Page
    <3>1. \A q \in Runs : run'[q].for = run[q].for
      BY <1>1
    <3>2. QED
      BY <3>1 DEF Page
  <2>4. r \notin Page
    BY DEF Page
  <2>5. QED
    BY <2>2, <2>3, <2>4
<1>4. Kept' \subseteq Kept /\ Kept \subseteq Runs
  BY <1>2, ElementsType, Types, RunsOfSeq DEF Kept, Requests, Posted, Answered
<1>5. \A q \in Runs : Begun(q) => Begun(q)'
  BY <1>1 DEF Begun
<1>6. Single => r = python /\ Watched \subseteq {r} /\ Watched' = {}
  <2>1. Single => r = python
    BY <1>3 DEF Single
  <2>2. Single => Watched \subseteq {python}
    BY Types DEF Single, Watched, Page
  <2>3. QED
    BY <1>2, <2>1, <2>2
<1>7. Attached' /\ Cleared'
  BY <1>2 DEF UnhurriedInv, Attached, Cleared
<1>8. Begins'
  BY <1>4, <1>5 DEF UnhurriedInv, Begins
<1>9. OnePage'
  <2>1. None \notin Page
    BY Numbers DEF Page
  <2>2. QED
    BY <1>3, <2>1 DEF UnhurriedInv, OnePage
<1>10. KillWaits'
  <2> SUFFICES ASSUME NEW k \in Killing PROVE KillWaits'
    BY <1>3 DEF KillWaits
  <2>1. timer = FALSE /\ \A q, c \in Killing : q = c
    BY DEF UnhurriedInv, KillWaits
  <2>2. Single
    BY DEF UnhurriedInv, InTurn
  <2>3. Watched' = {} /\ python' \notin listens'
    BY <1>6, <2>2, Types, Numbers
  <2>4. QED
    BY <1>3, <2>1, <2>3 DEF KillWaits
<1>11. PageWaits'
  BY <1>2, <1>3 DEF UnhurriedInv, PageWaits
<1>12. Counted'
  <2>1. run[r].at # "unused"
    BY <1>2 DEF Begun
  <2>2. \A q \in Runs : (run[q].at = "unused" <=> run'[q].at = "unused") /\ (run'[q].at = "unused" => run'[q] = run[q])
    BY <1>1, <2>1
  <2>3. \A q \in Runs : run'[q].ver = run[q].ver
    BY <1>1
  <2>4. \A q \in Runs : run'[q].at = "unused" => run'[q] = Unused
    BY <2>2 DEF UnhurriedInv, Counted
  <2>5. \A a, b \in Runs : a < b /\ run'[b].at # "unused" => run'[a].at # "unused" /\ run'[a].ver <= run'[b].ver
    BY <2>2, <2>3 DEF UnhurriedInv, Counted
  <2>6. QED
    BY <2>4, <2>5 DEF Counted
<1>13. Single' \/ InTurn'
  <2>1. CASE Single
    BY <1>3, <1>6, <2>1 DEF Single
  <2>2. CASE InTurn
    BY <1>2, <1>3, <2>2 DEF InTurn
  <2>3. QED
    BY <2>1, <2>2 DEF UnhurriedInv
<1>14. NoneOlder'
  <2>1. Watched \subseteq Runs /\ Killing \subseteq Runs
    BY Types DEF Watched, Killing
  <2>2. CASE shown' = shown
    <3>1. \A q \in Watched' : shown' <= run'[q].ver
      <4>1. \A q \in Watched' : q \in Watched /\ run'[q].ver = run[q].ver
        BY <1>1, <1>2, <2>1
      <4>2. QED
        BY <2>2, <4>1 DEF UnhurriedInv, NoneOlder
    <3>2. \A q \in Killing' : run'[q].for = "boxes" => shown' <= run'[q].ver
      <4>1. \A q \in Killing : run[q].for = "boxes" => shown <= run[q].ver
        BY DEF UnhurriedInv, NoneOlder
      <4>2. \A q \in Killing : run'[q].for = run[q].for /\ run'[q].ver = run[q].ver
        BY <1>1, <2>1
      <4>3. QED
        BY <1>3, <2>2, <4>1, <4>2
    <3>3. shown' <= doc'.ver /\ \A q \in Runs : run'[q].ver <= doc'.ver
      BY <1>1, <2>2 DEF UnhurriedInv, NoneOlder
    <3>4. QED
      BY <3>1, <3>2, <3>3 DEF NoneOlder
  <2>3. CASE shown' # shown
    <3>1. shown' = run[r].ver /\ r \in Watched
      BY <2>3 DEF Watched
    <3>2. shown' <= doc.ver
      BY <3>1 DEF UnhurriedInv, NoneOlder
    <3>3. ASSUME NEW q \in Watched' PROVE shown' <= run'[q].ver
      <4>1. InTurn
        BY <1>6, <3>3 DEF UnhurriedInv
      <4>2. q \in Watched /\ q # r /\ r <= q
        BY <1>2, <3>1, <3>3, <4>1 DEF InTurn
      <4>3. q \in Posted \cup Elements(waiting) \cup Answered
        BY <4>1, <4>2 DEF InTurn, InOrder
      <4>4. q \in Runs /\ run[q].at # "unused" /\ r < q
        <5>1. Begun(q) /\ q \in Runs
          BY <2>1, <4>2, <4>3 DEF UnhurriedInv, Begins, Kept, Requests
        <5>2. q \in Nat /\ r \in Nat
          BY <5>1, Numbers
        <5>3. QED
          BY <4>2, <5>1, <5>2 DEF Begun
      <4>5. QED
        BY <1>1, <3>1, <4>2, <4>4 DEF UnhurriedInv, Counted
    <3>4. ASSUME NEW k \in Killing PROVE shown' <= run[k].ver
      <4>1. Single /\ r = python
        BY <1>6, <3>4 DEF UnhurriedInv, InTurn
      <4>2. run[python].ver <= run[k].ver
        BY <3>1, <3>4 DEF UnhurriedInv, KillWaits
      <4>3. QED
        BY <3>1, <4>1, <4>2
    <3>5. \A q \in Runs : run'[q].ver = run[q].ver
      BY <1>1
    <3>6. \A q \in Runs : run'[q].ver <= doc'.ver
      BY <3>5 DEF UnhurriedInv, NoneOlder
    <3>7. \A q \in Killing' : shown' <= run'[q].ver
      BY <1>3, <2>1, <3>4, <3>5
    <3>8. QED
      BY <3>2, <3>3, <3>6, <3>7 DEF NoneOlder
  <2>4. QED
    BY <2>2, <2>3
<1>15. QED
  BY <1>7, <1>8, <1>9, <1>10, <1>11, <1>12, <1>13, <1>14 DEF UnhurriedInv

LEMMA ResultMovesOn ==
    ASSUME TypeOK, TypeOK', UnhurriedInv, NEW r \in Runs, Result(r)
    PROVE  UnhurriedInv'
<1>1. /\ mail # <<>> /\ Head(mail).run = r /\ mail' = Tail(mail)
      /\ ready' = ready /\ working' = working
  BY DEF Result
<1>2. ready
  BY <1>1 DEF UnhurriedInv, Attached
<1>3. CASE /\ Awaits(r) /\ r \in listens /\ run[r].for = "page"
           /\ spinner' = FALSE
           /\ UNCHANGED <<doc, shown, timer>>
           /\ \E q \in Runs : RunProgram(q, "nobody", {r})
  <2>1. PICK q \in Runs : RunProgram(q, "nobody", {r})
    BY <1>3
  <2>2. r \in Page /\ {r} \in SUBSET Page /\ Page \cap listens \subseteq {r}
    BY <1>3 DEF UnhurriedInv, OnePage, Page
  <2>3. Single
    BY <1>3, <2>2 DEF UnhurriedInv, InTurn
  <2>4. Answered' \subseteq Answered /\ r \in Answered
    <3>1. /\ RunsOf(mail) # <<>> /\ Head(RunsOf(mail)) = r
          /\ RunsOf(mail') = Tail(RunsOf(mail)) /\ RunsOf(mail) \in Seq(Runs)
      BY <1>1, Types, RunsOfTail, RunsOfSeq
    <3>2. QED
      BY <3>1, TailElements DEF Answered
  <2>5. byte # 0 => Killing = {} /\ timer = FALSE
    BY <1>2, <1>3, <2>2, <2>4, Types DEF UnhurriedInv, PageWaits
  <2>6. Killing # {} => timer = FALSE
    BY DEF UnhurriedInv, KillWaits
  <2>7. doc.ver <= doc'.ver
    <3>1. doc.ver \in Nat
      BY Types, Numbers DEF Texts
    <3>2. QED
      BY <1>3, <3>1
  <2>8. "nobody" \in {"boxes", "nobody"} /\ "nobody" # "boxes"
    OBVIOUS
  <2>9. (Posted \cup Answered) \cap Page \cap listens \subseteq {r} /\ UNCHANGED <<shown, ready, working>>
    BY <1>1, <1>3, <2>2
  <2>10. QED
    BY <1>1, <1>2, <1>3, <2>1, <2>2, <2>3, <2>4, <2>5, <2>6, <2>7, <2>8, <2>9, CallGoesOn
<1>4. CASE /\ Awaits(r) /\ r \in listens /\ run[r].for # "page"
           /\ run' = Over({r})
           /\ listens' = listens \ {r}
           /\ python' = None
           /\ shown' = IF run[r].for = "boxes" /\ run[r].kind # "error" THEN run[r].ver ELSE shown
           /\ UNCHANGED <<doc, timer, spinner, loading, waiting, queue, byte>>
  BY <1>1, <1>4, RunIsShown
<1>5. CASE /\ listens' = listens \ {r}
           /\ UNCHANGED <<doc, shown, timer, spinner, run, python, loading, waiting, queue, byte>>
  <2>1. {} \in SUBSET {r}
    OBVIOUS
  <2>2. QED
    BY <1>1, <1>5, <2>1, ListenerMovesOn
<1>6. QED
  BY <1>3, <1>4, <1>5 DEF Result

LEMMA ExceptionMovesOn ==
    ASSUME TypeOK, TypeOK', UnhurriedInv, NEW r \in Runs, Exception(r)
    PROVE  UnhurriedInv'
<1>1. /\ mail # <<>> /\ Head(mail).run = r /\ mail' = Tail(mail)
      /\ run' = Over({r} \cap listens) /\ listens' = listens \ {r}
      /\ UNCHANGED <<doc, shown, timer, spinner, ready, python, loading, waiting, byte, queue, working>>
  BY DEF Exception, pageVars
<1>2. {r} \cap listens \in SUBSET {r}
  OBVIOUS
<1>3. QED
  BY <1>1, <1>2, ListenerMovesOn

LEMMA NextUnhurried == EarlyInv /\ [Next]_vars => EarlyInv'
<1> SUFFICES ASSUME EarlyInv, [Next]_vars PROVE EarlyInv'
  OBVIOUS
<1>1. TypeOK /\ TypeOK' /\ habits' = habits
  BY NextType DEF EarlyInv, Next, PageStep, RunStep, WorkerStep, vars
<1>2. SUFFICES ASSUME Unhurried PROVE UnhurriedInv'
  BY <1>1 DEF EarlyInv, Unhurried
<1>3. UnhurriedInv
  BY <1>2 DEF EarlyInv
<1>4. CASE UserStep
  BY <1>1, <1>2, <1>3, <1>4, UserMovesOn
<1>5. CASE PageStep
  BY <1>1, <1>3, <1>5, TimerMovesOn, LoadedMovesOn, GivesUpMovesOn DEF PageStep
<1>6. CASE \E r \in Runs : RunStep(r)
  BY <1>1, <1>3, <1>6, KillEndsMovesOn, PostsMoveOn, ResultMovesOn, ExceptionMovesOn DEF RunStep
<1>7. CASE WorkerStep
  BY <1>1, <1>3, <1>7, WorkerMovesOn
<1>8. CASE UNCHANGED vars
  <2>1. UNCHANGED <<doc, shown, timer, spinner, ready, run, python, listens, loading, waiting, byte,
                    queue, working, mail>>
    BY <1>8 DEF vars, pageVars, processVars, workerVars
  <2>2. /\ Killing' = Killing /\ Page' = Page /\ Watched' = Watched /\ Kept' = Kept
        /\ Posted' = Posted /\ Answered' = Answered
        /\ \A r : Begun(r)' = Begun(r)
    BY <2>1 DEF Killing, Page, Watched, Kept, Requests, Posted, Answered, Begun
  <2>3. Attached' /\ Cleared' /\ Begins' /\ OnePage'
    BY <1>3, <2>1, <2>2 DEF UnhurriedInv, Attached, Cleared, Begins, OnePage
  <2>4. KillWaits' /\ PageWaits' /\ Counted' /\ NoneOlder'
    BY <1>3, <2>1, <2>2 DEF UnhurriedInv, KillWaits, PageWaits, Counted, NoneOlder
  <2>5. InOrder => InOrder'
    BY <2>1, <2>2 DEF InOrder
  <2>6. Single' \/ InTurn'
    BY <1>3, <2>1, <2>2, <2>5 DEF UnhurriedInv, Single, InTurn
  <2>7. QED
    BY <2>3, <2>4, <2>6 DEF UnhurriedInv
<1>9. QED
  BY <1>4, <1>5, <1>6, <1>7, <1>8 DEF Next

LEMMA EarlyInvariant == Spec => []EarlyInv
<1>1. Init => EarlyInv
  BY InitType, InitUnhurried DEF EarlyInv
<1>2. QED
  BY <1>1, NextUnhurried, PTL DEF Spec

(***************************************************************************)
(* The refinement                                                          *)
(***************************************************************************)

(* What updateBoxes is about to show is not older than what is shown.         *)
LEMMA ShowsNewer ==
    ASSUME ByteInv, EarlyInv, ~TwoKills, NEW r \in Runs, r \in listens, run[r].for = "boxes"
    PROVE  shown <= run[r].ver /\ run[r].ver <= doc.ver
<1>1. "press" \notin habits /\ ("early" \notin habits \/ "hurry" \notin habits)
  BY DEF TwoKills
<1>2. CASE "early" \notin habits
  <2>1. CalmInv
    BY <1>1, <1>2 DEF ByteInv, Calm
  <2>2. r = python
    BY <2>1 DEF CalmInv, Listening, Page
  <2>3. QED
    BY <2>1, <2>2 DEF CalmInv, Newer
<1>3. CASE "hurry" \notin habits
  <2>1. UnhurriedInv
    BY <1>1, <1>3 DEF EarlyInv, Unhurried
  <2>2. r \in Watched
    BY DEF Watched
  <2>3. QED
    BY <2>1, <2>2 DEF UnhurriedInv, NoneOlder
<1>4. QED
  BY <1>1, <1>2, <1>3

(* The web build keeps the promise of ProjectionBoxes: the values on screen   *)
(* are those of a version of the text and never go back to an older one, for  *)
(* every user who does not let two kill() wait.                               *)
THEOREM BoxesImplemented == Spec => BoxesSpec
<1>1. Init => Boxes!Init
  BY DEF Init, Boxes!Init, TwoKills
<1>2. ByteInv /\ EarlyInv /\ [Next]_vars => [Boxes!Next]_(Boxes!vars)
  <2> SUFFICES ASSUME ByteInv, EarlyInv, [Next]_vars
               PROVE  [Boxes!Next]_(Boxes!vars)
    OBVIOUS
  <2>1. TypeOK /\ habits' = habits
    BY DEF ByteInv, Next, PageStep, RunStep, WorkerStep, vars
  <2>2. doc' = doc \/ doc'.ver = doc.ver + 1
    <3>1. ASSUME UserStep PROVE doc' = doc \/ doc'.ver = doc.ver + 1
      BY <3>1 DEF UserStep, Edit, Refresh
    <3>2. ASSUME PageStep \/ WorkerStep PROVE doc' = doc
      BY <3>2 DEF PageStep, TimerFires, Loaded, GivesUp, WorkerStep, Takes, Ends, Interrupted, pageVars
    <3>3. ASSUME NEW r \in Runs, RunStep(r) PROVE doc' = doc
      BY <3>3 DEF RunStep, KillEnds, Posts, Result, Exception, pageVars
    <3>4. QED
      BY <3>1, <3>2, <3>3 DEF Next, vars, pageVars
  <2>3. doc.ver \in Nat /\ shown \in Nat /\ \A r \in Runs : run[r].ver \in Nat
    BY <2>1, Versions
  <2>4. TwoKills' = TwoKills
    BY <2>1 DEF TwoKills
  <2>5. CASE TwoKills
    BY <2>2, <2>4, <2>5 DEF Boxes!Next, Boxes!Type, Boxes!vars
  <2>6. CASE ~TwoKills
    <3>1. CASE \E r \in Runs : Result(r) /\ shown' # shown
      <4>1. PICK r \in Runs : Result(r) /\ shown' # shown
        BY <3>1
      <4>2. /\ r \in listens /\ run[r].for = "boxes" /\ shown' = run[r].ver /\ doc' = doc
        BY <4>1 DEF Result
      <4>3. shown <= run[r].ver /\ run[r].ver <= doc.ver
        BY <2>6, <4>2, ShowsNewer
      <4>4. 1 <= run[r].ver
        BY <2>3, <4>1, <4>2, <4>3
      <4>5. shown' \in 1..doc.ver /\ shown' >= shown
        BY <2>3, <4>2, <4>3, <4>4
      <4>6. QED
        BY <2>4, <2>6, <4>2, <4>5 DEF Boxes!Next, Boxes!Show, Boxes!vars
    <3>2. CASE \A r \in Runs : Result(r) => shown' = shown
      <4>1. shown' = shown
        BY <3>2 DEF Next, UserStep, PageStep, RunStep, WorkerStep, Edit, Refresh, TimerFires, Loaded,
               GivesUp, KillEnds, Posts, Exception, Takes, Ends, Interrupted, pageVars, vars
      <4>2. QED
        BY <2>2, <2>4, <2>6, <4>1 DEF Boxes!Next, Boxes!Type, Boxes!vars
    <3>3. QED
      BY <3>1, <3>2
  <2>7. QED
    BY <2>5, <2>6
<1>3. QED
  BY <1>1, <1>2, ByteInvariant, EarlyInvariant, PTL DEF Spec, BoxesSpec, Boxes!Spec
=============================================================================
