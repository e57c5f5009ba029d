------------------------- MODULE SynthSessionProofs -------------------------
(***************************************************************************)
(* Theorems about SynthSession, for every value of its constants.          *)
(***************************************************************************)
EXTENDS SynthSession, TLAPS

(* A user who leaves no session that is only starting and starts none while   *)
(* another one goes on.                                                       *)
Patient == habits \cap {"leave", "start"} = {}

(* The model and the view of a table are made and dropped together. *)
ModelHasView == model = view

(* While lineno is set, the synthesis controller is enabled. *)
SessionIsOn == session # 0 => enabled

(* For a patient user there is no session and no trace of one, or one that is *)
(* starting and has no table yet, or one whose table is shown.                *)
OneSession ==
    Patient =>
      /\ ~enabled =>
           boxes /\ session = 0 /\ model = 0 /\ view = 0 /\ shown = {} /\ Starting = {}
      /\ enabled =>
           /\ session # 0
           /\ \/ /\ Starting = {session} /\ shown = {}
                 /\ IF start[session] = "init" THEN ~boxes /\ model = session /\ view = session
                                               ELSE boxes /\ model = 0 /\ view = 0
              \/ /\ Starting = {} /\ shown = {session}
                 /\ ~boxes /\ model = session /\ view = session

LineSays ==
    /\ progress = "Synthesizing" <=> line = "busy"
    /\ progress = "Failed" <=> line = "failed"

(* The line is written together with the state, but while a session starts:   *)
(* then the state is HasProgram, unless a request of an earlier session goes  *)
(* on, and then the user does not type.                                       *)
OneWriter ==
    Patient /\ habits # {"type", "request"} =>
      /\ model = 0 => asked = 0
      /\ enabled => LineSays
      /\ enabled /\ model = 0 => progress = "HasProgram"
      /\ "request" \notin habits /\ Starting # {} => Pending = {} /\ progress = "HasProgram"

-----------------------------------------------------------------------------
(* Types *)

LEMMA InitType == Init => TypeOK /\ ModelHasView
<1> SUFFICES ASSUME Init PROVE TypeOK /\ ModelHasView
  OBVIOUS
<1>1. start \in [Starts -> StartPhases]
  BY DEF Init, StartPhases
<1>2. request \in [Requests -> [at : RequestPhases, view : {0} \cup Starts]]
  BY DEF Init, RequestPhases
<1>3. handlers \in 0..MaxHandlers /\ edits \in 0..MaxEdits
  BY SynthAssumption DEF Init
<1>4. {session, model, view, 0} \subseteq {0} \cup Starts /\ ModelHasView
  BY DEF Init, ModelHasView
<1>5. QED
  BY <1>1, <1>2, <1>3, <1>4 DEF Init, TypeOK

LEMMA NoticedType ==
    ASSUME TypeOK, NEW on \in BOOLEAN, Noticed(on)
    PROVE  handlers' \in 0..MaxHandlers
  BY SynthAssumption DEF TypeOK, Noticed

LEMMA StopType ==
    ASSUME TypeOK, StopSynthesis
    PROVE  /\ enabled' \in BOOLEAN
           /\ boxes' \in BOOLEAN
           /\ {session', model', view', 0} \subseteq {0} \cup Starts
           /\ shown' \subseteq Starts
           /\ progress' = progress
           /\ asked' \in {0} \cup Requests
<1>1. CASE enabled
  BY <1>1 DEF StopSynthesis, TypeOK
<1>2. CASE ~enabled
  BY <1>2 DEF StopSynthesis, TypeOK, fields
<1>3. QED
  BY <1>1, <1>2

LEMMA UserType ==
    ASSUME TypeOK, Edit \/ Leave \/ HandlerEnds, UNCHANGED habits
    PROVE  TypeOK'
<1>1. CASE Edit
  <2>1. edits' \in 0..MaxEdits
    BY <1>1, SynthAssumption DEF Edit, TypeOK
  <2>2. handlers' \in 0..MaxHandlers
    BY <1>1, NoticedType DEF Edit, TypeOK
  <2>3. QED
    BY <1>1, <2>1, <2>2 DEF Edit, TypeOK, fields
<1>2. CASE Leave
  BY <1>2, StopType DEF Leave, TypeOK
<1>3. CASE HandlerEnds
  <2>1. handlers' \in 0..MaxHandlers
    BY <1>3, SynthAssumption DEF HandlerEnds, TypeOK
  <2>2. QED
    BY <1>3, <2>1 DEF HandlerEnds, TypeOK, fields
<1>4. QED
  BY <1>1, <1>2, <1>3

LEMMA StartType ==
    ASSUME TypeOK, ModelHasView, NEW s \in Starts, StartStep(s), UNCHANGED habits
    PROVE  TypeOK'
<1>1. start' \in [Starts -> StartPhases]
  BY DEF StartStep, StartSynthesis, StartRefused, ValueEnds, UpdateEnds, UpdateEndsEmpty,
         InitEnds, GivesUp, TypeOK, StartPhases
<1>2. CASE StartSynthesis(s) \/ StartRefused(s)
  <2>1. handlers' \in 0..MaxHandlers
    BY <1>2, SynthAssumption DEF StartSynthesis, StartRefused, Begins, TypeOK
  <2>2. {session', model', view', 0} \subseteq {0} \cup Starts
    BY <1>2 DEF StartSynthesis, StartRefused, TypeOK
  <2>3. /\ enabled' \in BOOLEAN /\ boxes' \in BOOLEAN /\ asked' \in {0} \cup Requests
        /\ shown' \subseteq Starts
        /\ progress' \in {"HasProgram", "Synthesizing", "Failed"}
    BY <1>2 DEF StartSynthesis, StartRefused, TypeOK
  <2>4. QED
    BY <1>1, <1>2, <2>1, <2>2, <2>3 DEF StartSynthesis, StartRefused, TypeOK
<1>3. CASE ValueEnds(s)
  <2>1. CASE GivesUp(s) /\ UNCHANGED <<line, handlers>>
    BY <1>1, <1>3, <2>1, StopType DEF ValueEnds, GivesUp, TypeOK
  <2>2. CASE line' = "default" /\ Noticed(boxes) /\ UNCHANGED <<enabled, boxes, fields, asked>>
    BY <1>1, <1>3, <2>2, NoticedType DEF ValueEnds, TypeOK, fields
  <2>3. QED
    BY <1>3, <2>1, <2>2 DEF ValueEnds
<1>4. CASE UpdateEnds(s)
  <2>1. CASE GivesUp(s)
    BY <1>1, <1>4, <2>1, StopType DEF UpdateEnds, GivesUp, TypeOK
  <2>2. CASE ~GivesUp(s)
    <3>1. {session', model', view', 0} \subseteq {0} \cup Starts
      BY <1>4, <2>2 DEF UpdateEnds, TypeOK
    <3>2. QED
      BY <1>1, <1>4, <2>2, <3>1 DEF UpdateEnds, TypeOK
  <2>3. QED
    BY <2>1, <2>2
<1>5. CASE UpdateEndsEmpty(s)
  <2>1. /\ enabled' \in BOOLEAN /\ boxes' \in BOOLEAN /\ asked' \in {0} \cup Requests
        /\ {session', model', view', 0} \subseteq {0} \cup Starts
    BY <1>5 DEF UpdateEndsEmpty, TypeOK
  <2>2. QED
    BY <1>1, <1>5, <2>1 DEF UpdateEndsEmpty, TypeOK
<1>6. CASE InitEnds(s)
  <2>1. CASE GivesUp(s)
    BY <1>1, <1>6, <2>1, StopType DEF InitEnds, GivesUp, TypeOK
  <2>2. CASE model # 0 /\ shown' = shown \cup {view} /\ ~GivesUp(s)
    <3>1. shown' \subseteq Starts
      BY <1>6, <2>2 DEF ModelHasView, TypeOK
    <3>2. QED
      BY <1>1, <1>6, <2>2, <3>1 DEF InitEnds, TypeOK
  <2>3. QED
    BY <1>6, <2>1, <2>2 DEF InitEnds
<1>7. QED
  BY <1>2, <1>3, <1>4, <1>5, <1>6 DEF StartStep

LEMMA RequestType ==
    ASSUME TypeOK, NEW r \in Requests, RequestStep(r), UNCHANGED habits
    PROVE  TypeOK'
<1>1. request' \in [Requests -> [at : RequestPhases, view : {0} \cup Starts]]
  BY DEF RequestStep, Key, DelayEnds, ValidateEnds, RunEnds, SynthEnds, ShowEnds, Goes,
         TypeOK, RequestPhases
<1>2. CASE Key(r) \/ DelayEnds(r) \/ ValidateEnds(r) \/ ShowEnds(r)
  BY <1>1, <1>2 DEF Key, DelayEnds, ValidateEnds, ShowEnds, TypeOK, fields
<1>3. CASE RunEnds(r) \/ SynthEnds(r)
  <2>1. handlers' \in 0..MaxHandlers
    BY <1>3, NoticedType DEF RunEnds, SynthEnds, Writes, TypeOK
  <2>2. /\ progress' \in {"HasProgram", "Synthesizing", "Failed"}
        /\ line' \in {"seed", "tuple", "user", "default", "busy", "failed", "program"}
    BY <1>3 DEF RunEnds, SynthEnds, Writes, TypeOK
  <2>3. asked' \in {0} \cup Requests
    BY <1>3 DEF RunEnds, SynthEnds, TypeOK
  <2>4. QED
    BY <1>1, <1>3, <2>1, <2>2, <2>3 DEF RunEnds, SynthEnds, TypeOK
<1>4. QED
  BY <1>2, <1>3 DEF RequestStep

LEMMA NextModelHasView == ModelHasView /\ [Next]_vars => ModelHasView'
  BY DEF ModelHasView, Next, Edit, Leave, HandlerEnds, StopSynthesis, GivesUp,
         StartStep, StartSynthesis, StartRefused, ValueEnds, UpdateEnds, UpdateEndsEmpty,
         InitEnds, RequestStep, Key, DelayEnds, ValidateEnds, RunEnds, SynthEnds, ShowEnds,
         vars, fields

LEMMA NextType == TypeOK /\ ModelHasView /\ [Next]_vars => TypeOK'
<1> SUFFICES ASSUME TypeOK, ModelHasView, [Next]_vars PROVE TypeOK'
  OBVIOUS
<1>1. CASE (Edit \/ Leave \/ HandlerEnds) /\ UNCHANGED habits
  BY <1>1, UserType
<1>2. ASSUME NEW s \in Starts, StartStep(s), UNCHANGED habits PROVE TypeOK'
  BY <1>2, StartType
<1>3. ASSUME NEW r \in Requests, RequestStep(r), UNCHANGED habits PROVE TypeOK'
  BY <1>3, RequestType
<1>4. CASE UNCHANGED vars
  BY <1>4 DEF vars, fields, TypeOK
<1>5. QED
  BY <1>1, <1>2, <1>3, <1>4 DEF Next

(* Every variable of the session keeps its type, whatever the bounds: what is *)
(* put on screen is a view, since there is one whenever there is a model.     *)
THEOREM TypeCorrect == Spec => []TypeOK
  BY InitType, NextType, NextModelHasView, PTL DEF Spec

LEMMA TypeInvariant == Spec => [](TypeOK /\ ModelHasView)
  BY InitType, NextType, NextModelHasView, PTL DEF Spec

-----------------------------------------------------------------------------
(* What the line is written by *)

LEMMA NextSessionIsOn == SessionIsOn /\ [Next]_vars => SessionIsOn'
  BY DEF SessionIsOn, Next, Edit, Leave, HandlerEnds, StopSynthesis, GivesUp,
         StartStep, StartSynthesis, StartRefused, ValueEnds, UpdateEnds, UpdateEndsEmpty,
         InitEnds, RequestStep, Key, DelayEnds, ValidateEnds, RunEnds, SynthEnds, ShowEnds,
         vars, fields

(* Besides the user, the default value of a start and the progress of a       *)
(* request write the line, and each of them has found lineno set.             *)
LEMMA WhoWrites ==
    ASSUME [Next]_vars, line' # line
    PROVE  \/ edits' = edits + 1 /\ line' \in {"seed", "tuple", "user"}
           \/ session # 0 /\ line' = "default"
           \/ session # 0 /\ line' = "busy"
           \/ session # 0 /\ \E r \in Requests : SynthEnds(r) /\ asked = r
<1>1. CASE Edit
  BY <1>1 DEF Edit
<1>2. CASE Leave \/ HandlerEnds
  BY <1>2 DEF Leave, HandlerEnds
<1>3. ASSUME NEW s \in Starts, StartStep(s) PROVE session # 0 /\ line' = "default"
  BY <1>3 DEF StartStep, StartSynthesis, StartRefused, ValueEnds, UpdateEnds,
              UpdateEndsEmpty, InitEnds
<1>4. ASSUME NEW r \in Requests, RequestStep(r)
      PROVE  session # 0 /\ (line' = "busy" \/ (SynthEnds(r) /\ asked = r))
  BY <1>4 DEF RequestStep, Key, DelayEnds, ValidateEnds, RunEnds, SynthEnds, ShowEnds, Writes
<1>5. CASE UNCHANGED vars
  BY <1>5 DEF vars
<1>6. QED
  BY <1>1, <1>2, <1>3, <1>4, <1>5 DEF Next

(* When no session is going on only an edit of the user changes the line.     *)
THEOREM QuietLine == Spec => QuietWhenOver
<1>1. Init => SessionIsOn
  BY DEF Init, SessionIsOn
<1>2. TypeOK /\ SessionIsOn /\ [Next]_vars => [~enabled /\ line' # line => edits' # edits]_vars
  <2> SUFFICES ASSUME TypeOK, SessionIsOn, [Next]_vars, ~enabled, line' # line
               PROVE  edits' # edits
    OBVIOUS
  <2>1. edits' = edits + 1
    BY WhoWrites DEF SessionIsOn
  <2>2. edits \in Nat
    BY SynthAssumption DEF TypeOK
  <2>3. QED
    BY <2>1, <2>2
<1>3. QED
  BY <1>1, <1>2, TypeInvariant, NextSessionIsOn, PTL DEF Spec, QuietWhenOver

(* A fragment that is written into the line answers the request the           *)
(* synthesizer was asked last, which is then done with.                       *)
THEOREM LastAnswer == Spec => LastRequestAnswers
<1>1. [Next]_vars => [line' = "program" /\ line # "program" => asked # 0 /\ asked' = 0]_vars
  <2> SUFFICES ASSUME [Next]_vars, line' = "program", line # "program"
               PROVE  asked # 0 /\ asked' = 0
    OBVIOUS
  <2>1. PICK r \in Requests : SynthEnds(r) /\ asked = r
    BY WhoWrites
  <2>2. QED
    BY <2>1 DEF SynthEnds, Requests
<1>2. QED
  BY <1>1, PTL DEF Spec, LastRequestAnswers

-----------------------------------------------------------------------------
(***************************************************************************)
(* The session of a patient user.                                          *)
(***************************************************************************)

LEMMA StartMoves ==
    ASSUME TypeOK, NEW s \in Starts, NEW p \in {"value", "refused", "update", "init"},
           start' = [start EXCEPT ![s] = p]
    PROVE  Starting' = Starting \cup {s}
  BY DEF TypeOK, Starting

LEMMA StartIsOver ==
    ASSUME TypeOK, NEW s \in Starts, start' = [start EXCEPT ![s] = "over"],
           Starting \subseteq {s}
    PROVE  Starting' = {}
<1>1. \A q \in Starts : start'[q] = IF q = s THEN "over" ELSE start[q]
  BY DEF TypeOK
<1>2. \A q \in Starts : q \notin Starting'
  BY <1>1 DEF Starting
<1>3. QED
  BY <1>2 DEF Starting

LEMMA SameSession ==
    ASSUME OneSession,
           UNCHANGED <<enabled, boxes, session, model, view, shown, start, habits>>
    PROVE  OneSession'
  BY DEF OneSession, Patient, Starting

(* stopSynthesis leaves no trace of a session, unless a start goes on. *)
LEMMA StopEndsSession ==
    ASSUME TypeOK, OneSession, Patient, enabled, StopSynthesis, Starting' = {}, UNCHANGED habits
    PROVE  OneSession'
<1>1. /\ enabled' = FALSE /\ boxes' = TRUE
      /\ session' = 0 /\ model' = 0 /\ view' = 0 /\ shown' = shown \ {view}
  BY DEF StopSynthesis
<1>2. shown' = {}
  BY <1>1 DEF OneSession
<1>3. QED
  BY <1>1, <1>2 DEF OneSession

(* While a patient user's session starts, its start is the one that set       *)
(* lineno, and a refused update cannot happen, since the boxes are enabled.   *)
LEMMA StartingSession ==
    ASSUME TypeOK, OneSession, Patient, NEW s \in Starts, s \in Starting
    PROVE  /\ enabled /\ session = s /\ Starting = {s} /\ shown = {}
           /\ start[s] = "init" => ~boxes /\ model = s /\ view = s
           /\ start[s] # "init" => boxes /\ model = 0 /\ view = 0
  BY DEF OneSession, TypeOK

LEMMA GivingUpEndsSession ==
    ASSUME TypeOK, OneSession, Patient, NEW s \in Starts, s \in Starting, GivesUp(s),
           UNCHANGED habits
    PROVE  OneSession'
<1>1. Starting' = {}
  BY StartingSession, StartIsOver DEF GivesUp
<1>2. QED
  BY <1>1, StartingSession, StopEndsSession DEF GivesUp

LEMMA StartOneSession ==
    ASSUME TypeOK, OneSession, Patient, NEW s \in Starts, StartStep(s), UNCHANGED habits
    PROVE  OneSession'
<1>1. s \in Starting <=> start[s] \in {"value", "refused", "update", "init"}
  BY DEF Starting
<1>2. CASE StartSynthesis(s)
  <2>1. ~enabled /\ Starting = {} /\ s # 0
    BY <1>2 DEF StartSynthesis, Begins, Patient, Starts
  <2>2. Starting' = {s} /\ start'[s] = "value"
    BY <1>2, <2>1, StartMoves DEF StartSynthesis, TypeOK
  <2>3. QED
    BY <1>2, <2>1, <2>2 DEF StartSynthesis, OneSession
<1>3. CASE StartRefused(s)
  <2>1. ~enabled /\ Starting = {}
    BY <1>3 DEF StartRefused, Begins, Patient
  <2>2. Starting' = {}
    BY <1>3, <2>1, StartIsOver DEF StartRefused
  <2>3. QED
    BY <1>3, <2>1, <2>2 DEF StartRefused, OneSession
<1>4. CASE ValueEnds(s)
  <2>1. s \in Starting /\ start[s] = "value"
    BY <1>1, <1>4 DEF ValueEnds
  <2>2. CASE GivesUp(s)
    BY <2>1, <2>2, GivingUpEndsSession
  <2>3. CASE ~GivesUp(s)
    <3>1. /\ start' = [start EXCEPT ![s] = "update"]
          /\ UNCHANGED <<enabled, boxes, session, model, view, shown>>
      BY <1>4, <2>1, <2>3, StartingSession DEF ValueEnds, fields
    <3>2. Starting' = {s} /\ start'[s] = "update"
      BY <2>1, <3>1, StartMoves, StartingSession DEF TypeOK
    <3>3. QED
      BY <2>1, <3>1, <3>2, StartingSession DEF OneSession, Starts
  <2>4. QED
    BY <2>2, <2>3
<1>5. CASE UpdateEnds(s)
  <2>1. s \in Starting /\ start[s] = "update"
    BY <1>1, <1>5 DEF UpdateEnds
  <2>2. CASE GivesUp(s)
    BY <2>1, <2>2, GivingUpEndsSession
  <2>3. CASE ~GivesUp(s)
    <3>1. /\ start' = [start EXCEPT ![s] = "init"]
          /\ boxes' = FALSE /\ model' = s /\ view' = s
          /\ UNCHANGED <<enabled, session, shown>>
      BY <1>5, <2>3 DEF UpdateEnds
    <3>2. Starting' = {s} /\ start'[s] = "init"
      BY <2>1, <3>1, StartMoves, StartingSession DEF TypeOK
    <3>3. QED
      BY <2>1, <3>1, <3>2, StartingSession DEF OneSession, Starts
  <2>4. QED
    BY <2>2, <2>3
<1>6. CASE UpdateEndsEmpty(s)
  <2>1. s \in Starting /\ start' = [start EXCEPT ![s] = "over"]
    BY <1>1, <1>6 DEF UpdateEndsEmpty
  <2>2. Starting' = {}
    BY <2>1, StartIsOver, StartingSession
  <2>3. QED
    BY <1>6, <2>1, <2>2, StartingSession DEF UpdateEndsEmpty, OneSession
<1>7. CASE InitEnds(s)
  <2>1. s \in Starting /\ start[s] = "init"
    BY <1>1, <1>7 DEF InitEnds
  <2>2. CASE GivesUp(s)
    BY <2>1, <2>2, GivingUpEndsSession
  <2>3. CASE ~GivesUp(s)
    <3>1. /\ start' = [start EXCEPT ![s] = "over"] /\ shown' = shown \cup {view}
          /\ UNCHANGED <<enabled, boxes, session, model, view>>
      BY <1>7, <2>3 DEF InitEnds
    <3>2. Starting' = {} /\ shown' = {s}
      BY <2>1, <3>1, StartIsOver, StartingSession
    <3>3. QED
      BY <2>1, <3>1, <3>2, StartingSession DEF OneSession, Starts
  <2>4. QED
    BY <2>2, <2>3
<1>8. QED
  BY <1>2, <1>3, <1>4, <1>5, <1>6, <1>7 DEF StartStep

LEMMA NextOneSession == TypeOK /\ OneSession /\ [Next]_vars => OneSession'
<1> SUFFICES ASSUME TypeOK, OneSession, [Next]_vars PROVE OneSession'
  OBVIOUS
<1>1. CASE ~Patient
  BY <1>1 DEF OneSession, Patient, Next, vars
<1>2. ASSUME NEW s \in Starts, Patient, StartStep(s), UNCHANGED habits PROVE OneSession'
  BY <1>2, StartOneSession
<1>3. CASE Patient /\ Leave /\ UNCHANGED habits
  <2>1. Starting' = {} /\ enabled /\ StopSynthesis
    BY <1>3 DEF Leave, Patient, Starting
  <2>2. QED
    BY <1>3, <2>1, StopEndsSession
<1>4. CASE (Edit \/ HandlerEnds) /\ UNCHANGED habits
  BY <1>4, SameSession DEF Edit, HandlerEnds, fields
<1>5. ASSUME NEW r \in Requests, RequestStep(r), UNCHANGED habits PROVE OneSession'
  BY <1>5, SameSession DEF RequestStep, Key, DelayEnds, ValidateEnds, RunEnds, SynthEnds,
                           ShowEnds, fields
<1>6. CASE UNCHANGED vars
  BY <1>6, SameSession DEF vars, fields
<1>7. QED
  BY <1>1, <1>2, <1>3, <1>4, <1>5, <1>6 DEF Next

LEMMA InitOneSession == Init => OneSession
  BY DEF Init, OneSession, Starting

LEMMA SessionInvariant == Spec => [](TypeOK /\ ModelHasView /\ OneSession)
  BY TypeInvariant, InitOneSession, NextOneSession, PTL DEF Spec

(* A user who neither leaves nor starts a session while another one starts    *)
(* always gets the boxes back: without a session they are enabled.            *)
THEOREM BoxesCome == Spec => []BoxesReturn
<1>1. OneSession => BoxesReturn
  BY DEF OneSession, Patient, BoxesReturn
<1>2. QED
  BY <1>1, SessionInvariant, PTL

(* For this user, the table that is shown is the only one; its model, its     *)
(* view and its line are of one session, and nothing updates the box behind.  *)
THEOREM WholeTable == Spec => []TableIsWhole
<1>1. OneSession => TableIsWhole
  BY DEF OneSession, Patient, TableIsWhole
<1>2. QED
  BY <1>1, SessionInvariant, PTL

-----------------------------------------------------------------------------
(***************************************************************************)
(* The line of a patient user's session.  Until its table has a model no   *)
(* request can write it, since a request of an earlier session is dropped  *)
(* where it finds none; from then on state and line are written together.  *)
(***************************************************************************)

(* The users of LineSaysProgress: either they do not type while a session     *)
(* starts, or they start none while a request is under way.                   *)
OneHabit == Patient /\ habits # {"type", "request"}

LEMMA OneHabitSplits ==
    ASSUME TypeOK, OneHabit, "type" \in habits
    PROVE  "request" \notin habits
  BY DEF TypeOK, OneHabit, Patient, Habits

LEMMA SameWriter ==
    ASSUME OneWriter, UNCHANGED <<enabled, model, progress, line, start, request, asked, habits>>
    PROVE  OneWriter'
  BY DEF OneWriter, Patient, LineSays, Starting, Pending

(* A session that ends takes back what the synthesizer was asked. *)
LEMMA EndWriter ==
    ASSUME OneSession', ~enabled', asked' = 0
    PROVE  OneWriter'
  BY DEF OneSession, OneWriter

LEMMA StartWriter ==
    ASSUME TypeOK, OneSession, OneSession', OneWriter, OneHabit,
           NEW s \in Starts, StartStep(s), UNCHANGED habits
    PROVE  OneWriter'
<1>1. s \in Starting <=> start[s] \in {"value", "refused", "update", "init"}
  BY DEF Starting
<1>2. Patient
  BY DEF OneHabit
<1>3. CASE StartSynthesis(s)
  <2>1. ~enabled /\ ("request" \notin habits => Pending = {})
    BY <1>2, <1>3 DEF StartSynthesis, Begins, Patient
  <2>2. UNCHANGED <<model, asked, line, request>> /\ line = "seed" /\ progress' = "HasProgram"
    BY <1>3 DEF StartSynthesis
  <2>3. model = 0 => asked = 0
    BY DEF OneWriter, OneHabit
  <2>4. Pending' = Pending
    BY <2>2 DEF Pending
  <2>5. QED
    BY <2>1, <2>2, <2>3, <2>4 DEF OneWriter, LineSays
<1>4. CASE StartRefused(s)
  BY <1>4, EndWriter DEF StartRefused
<1>5. CASE UpdateEndsEmpty(s)
  <2>1. s \in Starting
    BY <1>1, <1>5 DEF UpdateEndsEmpty
  <2>2. QED
    BY <1>2, <1>5, <2>1, StartingSession, EndWriter DEF UpdateEndsEmpty
<1>6. CASE s \in Starting /\ GivesUp(s)
  BY <1>2, <1>6, StartingSession, EndWriter DEF GivesUp, StopSynthesis
<1>7. CASE (ValueEnds(s) \/ UpdateEnds(s) \/ InitEnds(s)) /\ ~GivesUp(s)
  <2>1. s \in Starting
    BY <1>1, <1>7 DEF ValueEnds, UpdateEnds, InitEnds
  <2>2. /\ UNCHANGED <<enabled, progress, asked, request>>
        /\ model' = model \/ model' = s
    BY <1>7 DEF ValueEnds, UpdateEnds, InitEnds, fields
  <2>3. line' = line \/ (ValueEnds(s) /\ line' = "default")
    BY <1>7 DEF ValueEnds, UpdateEnds, InitEnds
  <2>4. ValueEnds(s) => progress = "HasProgram"
    BY <1>2, <2>1, StartingSession DEF ValueEnds, OneWriter, OneHabit
  <2>5. LineSays'
    BY <1>2, <2>1, <2>2, <2>3, <2>4, StartingSession DEF OneWriter, OneHabit, LineSays
  <2>6. (model' = 0 => model = 0) /\ Pending' = Pending
    BY <2>2 DEF Starts, Pending
  <2>7. "request" \notin habits => Pending = {} /\ progress = "HasProgram"
    BY <2>1 DEF OneWriter, OneHabit
  <2>8. QED
    BY <2>2, <2>5, <2>6, <2>7 DEF OneWriter, OneHabit
<1>8. QED
  <2>1. ValueEnds(s) \/ UpdateEnds(s) \/ InitEnds(s) => s \in Starting
    BY <1>1 DEF ValueEnds, UpdateEnds, InitEnds
  <2>2. QED
    BY <1>3, <1>4, <1>5, <1>6, <1>7, <2>1 DEF StartStep

LEMMA RequestWriter ==
    ASSUME TypeOK, OneSession, OneWriter, OneHabit,
           NEW r \in Requests, RequestStep(r), UNCHANGED habits
    PROVE  OneWriter'
<1>1. /\ model = 0 => asked = 0
      /\ enabled => LineSays
      /\ enabled /\ model = 0 => progress = "HasProgram"
      /\ "request" \notin habits /\ Starting # {} => Pending = {} /\ progress = "HasProgram"
  BY DEF OneWriter, OneHabit
<1>2. UNCHANGED <<enabled, model>> /\ Starting' = Starting
  BY DEF RequestStep, Key, DelayEnds, ValidateEnds, RunEnds, SynthEnds, ShowEnds, fields, Starting
<1>3. "request" \notin habits => Starting' = {}
  <2>1. CASE Key(r)
    BY <1>2, <2>1 DEF Key, OneSession, OneHabit
  <2>2. CASE ~Key(r)
    <3>1. request[r].at \notin {"unused", "over"}
      BY <2>2 DEF RequestStep, DelayEnds, ValidateEnds, RunEnds, SynthEnds, ShowEnds, At
    <3>2. r \in Pending
      BY <3>1 DEF Pending
    <3>3. QED
      BY <1>1, <1>2, <3>2
  <2>3. QED
    BY <2>1, <2>2
<1>4. CASE UNCHANGED <<progress, line>> /\ (asked' = asked \/ asked' = 0)
  BY <1>1, <1>2, <1>3, <1>4 DEF OneWriter, LineSays
<1>5. CASE /\ model # 0
           /\ \/ progress' = "Synthesizing" /\ line' = "busy"
              \/ progress' = "HasProgram" /\ line' = "program"
              \/ progress' = "Failed" /\ line' = "failed"
  BY <1>2, <1>3, <1>5 DEF OneWriter, LineSays
<1>6. CASE RunEnds(r) /\ asked' = r /\ model # 0 /\ UNCHANGED <<progress, line>>
  BY <1>1, <1>2, <1>3, <1>6 DEF OneWriter, LineSays
<1>7. QED
  <2>1. CASE RunEnds(r)
    BY <1>4, <1>5, <1>6, <2>1 DEF RunEnds, Writes
  <2>2. CASE SynthEnds(r)
    <3>1. asked = r => model # 0
      BY <1>1 DEF Requests
    <3>2. QED
      BY <1>4, <1>5, <2>2, <3>1 DEF SynthEnds, Writes
  <2>3. CASE Key(r) \/ DelayEnds(r) \/ ValidateEnds(r) \/ ShowEnds(r)
    BY <1>4, <2>3 DEF Key, DelayEnds, ValidateEnds, ShowEnds, fields
  <2>4. QED
    BY <2>1, <2>2, <2>3 DEF RequestStep

LEMMA NextWriter ==
    TypeOK /\ OneSession /\ OneSession' /\ OneWriter /\ [Next]_vars => OneWriter'
<1> SUFFICES ASSUME TypeOK, OneSession, OneSession', OneWriter, [Next]_vars PROVE OneWriter'
  OBVIOUS
<1>1. CASE ~OneHabit
  BY <1>1 DEF OneHabit, OneWriter, Patient, Next, vars
<1>2. CASE OneHabit /\ Edit /\ UNCHANGED habits
  <2>1. UNCHANGED <<enabled, model, progress, start, request, asked>>
        /\ line' \in {"seed", "tuple", "user"}
    BY <1>2 DEF Edit, fields
  <2>2. enabled => progress = "HasProgram"
    BY <1>2, OneHabitSplits DEF Edit, OneWriter, OneHabit
  <2>3. QED
    BY <1>2, <2>1, <2>2 DEF OneWriter, OneHabit, LineSays, Starting, Pending
<1>3. CASE OneHabit /\ Leave /\ UNCHANGED habits
  BY <1>3, EndWriter DEF Leave, StopSynthesis
<1>4. ASSUME NEW s \in Starts, OneHabit, StartStep(s), UNCHANGED habits PROVE OneWriter'
  BY <1>4, StartWriter
<1>5. ASSUME NEW r \in Requests, OneHabit, RequestStep(r), UNCHANGED habits PROVE OneWriter'
  BY <1>5, RequestWriter
<1>6. CASE (HandlerEnds /\ UNCHANGED habits) \/ UNCHANGED vars
  BY <1>6, SameWriter DEF HandlerEnds, vars, fields
<1>7. QED
  BY <1>1, <1>2, <1>3, <1>4, <1>5, <1>6 DEF Next

(* While a table is shown, the line says "synthesizing" or "failed" exactly   *)
(* when editorState does, for a patient user who does not both type while a   *)
(* session starts and start one while a request is under way.                 *)
THEOREM LineTells == Spec => []LineSaysProgress
<1>1. Init => OneWriter
  BY DEF Init, OneWriter, Starting
<1>2. OneSession /\ OneWriter => LineSaysProgress
  BY DEF OneSession, OneWriter, Patient, LineSays, LineSaysProgress
<1>3. QED
  BY <1>1, <1>2, SessionInvariant, NextWriter, PTL DEF Spec
=============================================================================
