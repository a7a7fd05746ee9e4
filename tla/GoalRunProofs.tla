--------------------------- MODULE GoalRunProofs ---------------------------
(***************************************************************************)
(* What GoalRun guarantees for every number of iterations, turns, tasks,   *)
(* Stops and changes of settings.                                          *)
(***************************************************************************)
EXTENDS GoalRun, TLAPS

\* A pass runs for an eval goal that is not over; once that goal is stopped the
\* pass is; a verdict in it is its own.
PassInv ==
  Evaluating => /\ Suspended
                /\ goalCancelled => aborted
                /\ verdict # "none" => verdictIsOwn

\* What is restored when the goal ends is what the user had chosen.
RoutingInv ==
  ~touched => IF Suspended THEN routing = {} /\ saved = wanted
              ELSE routing = wanted

GoalInv == TypeOK /\ ToldOnce /\ PassInv /\ RoutingInv

\* The invariant holds of a fresh room.
LEMMA GoalInit == Init => GoalInv
<1> SUFFICES ASSUME Init PROVE GoalInv
  OBVIOUS
<1>1. TypeOK
  <2>1. told \in Seq(Terminal)
    BY DEF Init
  <2>2. used \in [{"task", "stop", "flip"} -> Nat]
    BY DEF Init
  <2>3. goalIteration \in 0..MaxIterations
    BY IterationsAssumption DEF Init
  <2> QED
    BY <2>1, <2>2, <2>3
    DEF Init, TypeOK, FieldTypeOK, TaskTypeOK, HistoryTypeOK, Drains, Agents, Routes, Tokens
<1>2. ToldOnce /\ PassInv /\ RoutingInv
  BY DEF Init, ToldOnce, PassInv, RoutingInv, Evaluating, Suspended, Running, Terminal
<1> QED
  BY <1>1, <1>2 DEF GoalInv
\* What the end of a goal comes to, whoever resolves it.
LEMMA ResolvedEnds ==
  ASSUME GoalInv, Running, NEW st \in Terminal, Resolved(st),
         UNCHANGED <<goalMode, wanted, touched>>
  PROVE  /\ goalStatus' = st /\ told' = <<st>> /\ told' \in Seq(Terminal)
         /\ pc' = "idle" /\ turn' = "none" /\ UNCHANGED <<turns, aborted>>
         /\ UNCHANGED <<goalIteration, said, last, saidIsOwn>>
         /\ routing' \subseteq Routes
         /\ ~touched => routing' = wanted
         /\ ~Suspended'
<1>1. told = <<>>
  BY DEF GoalInv, ToldOnce, Running, Terminal
<1>2. goalStatus' = st /\ told' = <<st>> /\ told' \in Seq(Terminal)
  BY <1>1 DEF Resolved, Resolve
<1>3. routing' \subseteq Routes /\ (~touched => routing' = wanted)
  BY DEF GoalInv, TypeOK, FieldTypeOK, HistoryTypeOK, RoutingInv, Suspended, Running,
         Resolved, Restore
<1>4. ~Suspended'
  BY <1>2 DEF Suspended, Running, Terminal
<1> QED
  BY <1>2, <1>3, <1>4 DEF Resolved, Rest

\* The loop ends the goal or starts a pass.
LEMMA LoopEndsOrPasses ==
  ASSUME GoalInv, Suspended, Loop
  PROVE  \/ Resolved("failed") \/ Resolved("cancelled")
         \/ ~goalCancelled /\ goalIteration < MaxIterations /\ Pass
  BY IterationsAssumption DEF GoalInv, TypeOK, FieldTypeOK, TaskTypeOK, HistoryTypeOK, Loop

\* The three ways a drain of the goal ends: the goal is over, the evaluator
\* speaks again, or nothing.
Ended == Running /\ \E st \in Terminal : Resolved(st)

Reopened ==
  /\ Suspended /\ ~goalCancelled
  /\ \/ goalIteration < MaxIterations /\ Pass
     \/ pc = "pass" /\ Retry
  /\ DropVerdict

Rested ==
  /\ pc = "drain"
  /\ Rest
  /\ UNCHANGED <<goalStatus, goalIteration, told, routing, said, last, saidIsOwn>>

Concluding ==
  /\ DropVerdict \/ KeepVerdict
  /\ UNCHANGED <<goalMode, goalCancelled, saved, active, pause, checks, choices, used>>

\* The end of a task's own drain, of a pass and of a retry each go one of these
\* ways.
LEMMA DrainEndsWays ==
  ASSUME GoalInv, DrainEnds
  PROVE  Concluding /\ (Ended \/ Reopened \/ Rested)
<1>1. Concluding
  BY DEF DrainEnds, Concluding
<1>2. CASE Stopped
  BY <1>1, <1>2 DEF DrainEnds, AfterDrain, Stopped, Ended, Terminal
<1>3. CASE ~Stopped /\ ~Running
  BY <1>1, <1>3 DEF DrainEnds, AfterDrain, EndTurn, Rested
<1>4. CASE ~Stopped /\ Running /\ ~Suspended
  BY <1>1, <1>4
  DEF DrainEnds, AfterDrain, EndTurn, Ended, Suspended, Terminal, GoalInv, TypeOK, FieldTypeOK
<1>5. CASE ~Stopped /\ Suspended
  <2>1. RunGoalEval
    BY <1>5 DEF DrainEnds, AfterDrain, EndTurn, Suspended
  <2>2. CASE Resolved("completed")
    BY <1>1, <1>5, <2>2 DEF Ended, Terminal, Suspended
  <2>3. CASE Loop
    <3>1. CASE ~goalCancelled /\ goalIteration < MaxIterations /\ Pass
      <4>1. pc' = "pass"
        BY <3>1 DEF Pass, Drain
      <4> QED
        BY <1>1, <1>5, <3>1, <4>1 DEF DrainEnds, Reopened
    <3> QED
      BY <1>1, <1>5, <2>3, <3>1, LoopEndsOrPasses DEF Ended, Terminal, Suspended
  <2> QED
    BY <2>1, <2>2, <2>3 DEF RunGoalEval
<1> QED
  BY <1>2, <1>3, <1>4, <1>5 DEF Suspended

\* A judged pass ends the goal or opens the next.
LEMMA JudgeWays ==
  ASSUME GoalInv, Evaluating, ~goalCancelled, Judge, DropVerdict
  PROVE  Ended \/ Reopened
<1>1. Suspended /\ Running
  BY DEF GoalInv, PassInv, Suspended
<1>2. CASE Loop
  BY <1>1, <1>2, LoopEndsOrPasses DEF Ended, Reopened, Terminal
<1> QED
  BY <1>1, <1>2 DEF Judge, Ended, Terminal

\* A pass or retry that ends: a stopped goal is cancelled then.
LEMMA PassEndsWays ==
  ASSUME GoalInv, PassEnds \/ RetryEnds
  PROVE  /\ Concluding /\ (Ended \/ Reopened) /\ Evaluating
         /\ goalCancelled => goalStatus' = "cancelled"
<1>1. Concluding /\ Evaluating
  BY DEF PassEnds, RetryEnds, Concluding, Evaluating
<1>2. Suspended /\ Running
  BY <1>1 DEF GoalInv, PassInv, Suspended
<1>3. CASE goalCancelled
  BY <1>1, <1>2, <1>3 DEF PassEnds, RetryEnds, Ended, Terminal, Resolved, Resolve
<1>4. CASE ~goalCancelled /\ Judge /\ DropVerdict
  BY <1>1, <1>4, JudgeWays
<1>5. CASE ~goalCancelled /\ pc = "pass" /\ Retry /\ DropVerdict
  BY <1>1, <1>2, <1>5 DEF Reopened
<1> QED
  BY <1>3, <1>4, <1>5 DEF PassEnds, RetryEnds
\* The end of a drain keeps the invariant, whichever way it goes.
LEMMA ConcludingKeeps ==
  ASSUME GoalInv, Concluding, Ended \/ Reopened \/ Rested
  PROVE  GoalInv'
<1> USE DEF Concluding, choices
<1>1. CASE Ended
  <2>1. PICK st \in Terminal : Resolved(st)
    BY <1>1 DEF Ended
  <2>2. /\ goalStatus' = st /\ told' = <<st>> /\ told' \in Seq(Terminal)
        /\ pc' = "idle" /\ turn' = "none" /\ UNCHANGED <<turns, aborted>>
        /\ UNCHANGED <<goalIteration, said, last, saidIsOwn>>
        /\ routing' \subseteq Routes
        /\ ~touched => routing' = wanted
        /\ ~Suspended'
    BY <1>1, <2>1, ResolvedEnds DEF Ended
  <2>3. TypeOK'
    <3>1. FieldTypeOK'
      BY <2>2 DEF GoalInv, TypeOK, FieldTypeOK, DropVerdict, KeepVerdict, Tokens
    <3>2. TaskTypeOK'
      BY <2>2 DEF GoalInv, TypeOK, TaskTypeOK
    <3>3. HistoryTypeOK'
      BY <2>2 DEF GoalInv, TypeOK, HistoryTypeOK, DropVerdict, KeepVerdict
    <3> QED
      BY <3>1, <3>2, <3>3 DEF TypeOK
  <2>4. ToldOnce' /\ PassInv' /\ RoutingInv'
    BY <2>2 DEF ToldOnce, PassInv, Evaluating, RoutingInv
  <2> QED
    BY <2>3, <2>4 DEF GoalInv
<1>2. CASE Reopened
  <2>1. /\ Evaluating' /\ pc' \in {"pass", "retry"} /\ turn' = "evaluator" /\ turns' = 1
        /\ goalIteration' \in {goalIteration, goalIteration + 1}
        /\ goalIteration' # goalIteration => goalIteration < MaxIterations
        /\ aborted' = FALSE /\ saidIsOwn' \in {saidIsOwn, FALSE}
        /\ verdict' = "none" /\ verdictIsOwn' = FALSE
        /\ UNCHANGED <<goalStatus, told, routing, said, last>>
    BY <1>2 DEF Reopened, Pass, Retry, Drain, DropVerdict, Evaluating
  <2>2. goalIteration' \in 0..MaxIterations
    BY <2>1, IterationsAssumption DEF GoalInv, TypeOK, FieldTypeOK, TaskTypeOK, HistoryTypeOK
  <2>3. TypeOK'
    <3>1. FieldTypeOK'
      BY <2>1, <2>2 DEF GoalInv, TypeOK, FieldTypeOK, Tokens
    <3>2. TaskTypeOK'
      BY <2>1 DEF GoalInv, TypeOK, TaskTypeOK, Drains, Agents
    <3>3. HistoryTypeOK'
      BY <2>1 DEF GoalInv, TypeOK, HistoryTypeOK
    <3> QED
      BY <3>1, <3>2, <3>3 DEF TypeOK
  <2>4. ToldOnce'
    BY <2>1 DEF GoalInv, ToldOnce
  <2>5. PassInv' /\ RoutingInv'
    BY <1>2, <2>1 DEF GoalInv, PassInv, RoutingInv, Suspended, Running, Reopened
  <2> QED
    BY <2>3, <2>4, <2>5 DEF GoalInv
<1>3. CASE Rested
  <2>1. TypeOK'
    <3>1. FieldTypeOK'
      BY <1>3 DEF GoalInv, TypeOK, FieldTypeOK, Rested, Rest, DropVerdict, KeepVerdict, Tokens
    <3>2. TaskTypeOK'
      BY <1>3 DEF GoalInv, TypeOK, TaskTypeOK, Rested, Rest
    <3>3. HistoryTypeOK'
      BY <1>3 DEF GoalInv, TypeOK, HistoryTypeOK, Rested, DropVerdict, KeepVerdict
    <3> QED
      BY <3>1, <3>2, <3>3 DEF TypeOK
  <2>2. ToldOnce' /\ PassInv' /\ RoutingInv'
    BY <1>3 DEF GoalInv, ToldOnce, PassInv, RoutingInv, Evaluating, Suspended, Running,
                Rested, Rest
  <2> QED
    BY <2>1, <2>2 DEF GoalInv
<1> QED
  BY <1>1, <1>2, <1>3

\* A step that leaves the goal, its reports and the settings alone keeps what
\* the invariant says of them.
LEMMA GoalUntouched ==
  ASSUME GoalInv, UNCHANGED <<goalStatus, goalMode, told, routing, saved, choices>>
  PROVE  ToldOnce' /\ RoutingInv' /\ Suspended' = Suspended /\ Running' = Running
BY DEF GoalInv, ToldOnce, RoutingInv, Suspended, Running, choices

\* How a turn may end.
LEMMA TurnWays ==
  ASSUME GoalInv, turn # "none",
         \/ Over
         \/ \E agent \in Agents : GoesOn(agent)
         \/ \E kind \in {"question", "card"} : Pauses(kind)
  PROVE  /\ turn' \in Agents \cup {"none"} /\ turns' \in Nat /\ UNCHANGED <<aborted, checks>>
         /\ pause' \in {"none", "question", "card"}
         /\ pc' = pc \/ (pc' = "idle" /\ ~aborted)
<1>1. CASE Over
  BY <1>1 DEF Over, GoalInv, TypeOK, FieldTypeOK, TaskTypeOK, HistoryTypeOK
<1>2. ASSUME NEW agent \in Agents, GoesOn(agent)
      PROVE  /\ turn' \in Agents /\ turns' \in Nat /\ pc' = pc
             /\ UNCHANGED <<aborted, checks, pause>>
  BY <1>2 DEF GoesOn, GoalInv, TypeOK, FieldTypeOK, TaskTypeOK, HistoryTypeOK
<1>3. ASSUME NEW kind \in {"question", "card"}, Pauses(kind)
      PROVE  /\ turn' = "none" /\ turns' \in Nat /\ pc' = "idle" /\ ~aborted
             /\ UNCHANGED <<aborted, checks>> /\ pause' \in {"question", "card"}
  BY <1>3 DEF Pauses, Rest, GoalInv, TypeOK, FieldTypeOK, TaskTypeOK, HistoryTypeOK
<1> QED
  BY <1>1, <1>2, <1>3 DEF GoalInv, TypeOK, FieldTypeOK, TaskTypeOK, HistoryTypeOK

\* The model's own counters stay numbers.
LEMMA UsesCounts ==
  ASSUME GoalInv, NEW kind \in {"task", "stop", "flip"}, NEW max, Uses(kind, max)
  PROVE  used' \in [{"task", "stop", "flip"} -> Nat]
BY DEF GoalInv, TypeOK, FieldTypeOK, TaskTypeOK, HistoryTypeOK, Uses

\* A message starts a drain, or nothing.
LEMMA RouteWays ==
  ASSUME GoalInv, Route
  PROVE  /\ pc' \in {"idle", "drain"} /\ turn' \in Agents \cup {"none"} /\ turns' \in Nat
         /\ aborted' \in BOOLEAN /\ checks' \in BOOLEAN
<1>1. checks' \in BOOLEAN
  BY DEF Route
<1>2. ASSUME NEW agent \in active, Drain("drain", agent)
      PROVE  /\ pc' \in {"idle", "drain"} /\ turn' \in Agents \cup {"none"}
             /\ turns' \in Nat /\ aborted' \in BOOLEAN
  BY <1>2 DEF Drain, GoalInv, TypeOK, FieldTypeOK
<1>3. ASSUME Rest
      PROVE  /\ pc' \in {"idle", "drain"} /\ turn' \in Agents \cup {"none"}
             /\ turns' \in Nat /\ aborted' \in BOOLEAN
  BY <1>3 DEF Rest, GoalInv, TypeOK, FieldTypeOK, TaskTypeOK
<1> QED
  BY <1>1, <1>2, <1>3 DEF Route

\* A verdict is registered in the turn of the pass it belongs to.
LEMMA CallsVerdictKeeps ==
  ASSUME GoalInv, NEW v \in {"met", "not-met"}, CallsVerdict(v)
  PROVE  GoalInv'
<1> USE DEF CallsVerdict, goalVars, settings, taskVars, choices
<1>1. TypeOK'
  <2>1. FieldTypeOK' /\ TaskTypeOK'
    BY DEF GoalInv, TypeOK, FieldTypeOK, TaskTypeOK, Tokens
  <2>2. HistoryTypeOK'
    BY DEF GoalInv, TypeOK, HistoryTypeOK
  <2> QED
    BY <2>1, <2>2 DEF TypeOK
<1>2. ToldOnce' /\ RoutingInv' /\ PassInv'
  BY GoalUntouched DEF GoalInv, PassInv, Evaluating, Suspended, Running
<1> QED
  BY <1>1, <1>2 DEF GoalInv

\* A turn that ends keeps the invariant: in a stopped pass nothing pauses.
LEMMA TurnEndsKeeps ==
  ASSUME GoalInv, (\E token \in Tokens : Speaks(token)) \/ Fails
  PROVE  GoalInv'
<1> USE DEF goalVars, settings, choices
<1>1. /\ turn # "none"
      /\ \/ Over
         \/ \E agent \in Agents : GoesOn(agent)
         \/ \E kind \in {"question", "card"} : Pauses(kind)
      /\ UNCHANGED <<goalVars, settings, told, choices, used>>
  BY DEF Speaks, Fails
<1>2. /\ said' \in Tokens /\ last' \in Agents \cup {"user"} /\ saidIsOwn' \in BOOLEAN
      /\ UNCHANGED <<verdict, verdictIsOwn>>
  <2>1. ASSUME NEW token \in Tokens, Posts(token)
        PROVE  /\ said' \in Tokens /\ last' \in Agents \cup {"user"}
               /\ saidIsOwn' \in BOOLEAN /\ UNCHANGED <<verdict, verdictIsOwn>>
    <3>1. saidIsOwn \in BOOLEAN
      BY DEF GoalInv, TypeOK, HistoryTypeOK
    <3>2. (turn = "evaluator" /\ saidIsOwn' = (pc \in {"pass", "retry"})) \/ saidIsOwn' = saidIsOwn
      BY <2>1 DEF Posts
    <3>3. saidIsOwn' \in BOOLEAN
      <4>1. CASE saidIsOwn' = (pc \in {"pass", "retry"})
        BY <4>1
      <4>2. CASE saidIsOwn' = saidIsOwn
        BY <3>1, <4>2
      <4> QED
        BY <3>2, <4>1, <4>2
    <3> QED
      BY <2>1, <3>3, <1>1 DEF Posts, GoalInv, TypeOK, FieldTypeOK, TaskTypeOK
  <2>2. ASSUME UNCHANGED speech
        PROVE  /\ said' \in Tokens /\ last' \in Agents \cup {"user"}
               /\ saidIsOwn' \in BOOLEAN /\ UNCHANGED <<verdict, verdictIsOwn>>
    BY <2>2 DEF speech, GoalInv, TypeOK, FieldTypeOK, TaskTypeOK, HistoryTypeOK
  <2> QED
    BY <2>1, <2>2 DEF Speaks, Fails
<1>3. /\ turn' \in Agents \cup {"none"} /\ turns' \in Nat /\ UNCHANGED <<aborted, checks>>
      /\ pause' \in {"none", "question", "card"}
      /\ pc' = pc \/ (pc' = "idle" /\ ~aborted)
  BY <1>1, TurnWays
<1>4. TypeOK'
  <2>1. FieldTypeOK'
    BY <1>1, <1>2, <1>3 DEF GoalInv, TypeOK, FieldTypeOK
  <2>2. TaskTypeOK'
    BY <1>2, <1>3 DEF GoalInv, TypeOK, TaskTypeOK
  <2>3. HistoryTypeOK'
    BY <1>1, <1>2 DEF GoalInv, TypeOK, HistoryTypeOK
  <2> QED
    BY <2>1, <2>2, <2>3 DEF TypeOK
<1>5. ToldOnce' /\ RoutingInv' /\ Suspended' = Suspended
  BY <1>1, GoalUntouched
<1>6. PassInv'
  BY <1>1, <1>2, <1>3, <1>5 DEF GoalInv, PassInv, Evaluating
<1> QED
  BY <1>4, <1>5, <1>6 DEF GoalInv

\* submitGoal() saves what it suspends.
LEMMA SubmitGoalKeeps ==
  ASSUME GoalInv, NEW mode \in {"auto", "eval"}, SubmitGoal(mode)
  PROVE  GoalInv'
<1> USE DEF SubmitGoal, choices
<1>1. /\ pc' \in {"idle", "drain"} /\ turn' \in Agents \cup {"none"} /\ turns' \in Nat
      /\ aborted' \in BOOLEAN /\ checks' \in BOOLEAN
  BY RouteWays
<1>2. ~Suspended /\ goalIteration' \in 0..MaxIterations
  BY IterationsAssumption DEF Suspended, Running
<1>3. routing' \subseteq Routes /\ saved' \subseteq Routes
  BY DEF GoalInv, TypeOK, FieldTypeOK
<1>4. TypeOK'
  <2>1. FieldTypeOK'
    BY <1>1, <1>2, <1>3 DEF GoalInv, TypeOK, FieldTypeOK
  <2>2. TaskTypeOK'
    BY <1>1 DEF GoalInv, TypeOK, TaskTypeOK, Drains
  <2>3. HistoryTypeOK'
    BY DEF GoalInv, TypeOK, HistoryTypeOK
  <2> QED
    BY <2>1, <2>2, <2>3 DEF TypeOK
<1>5. ToldOnce' /\ PassInv'
  BY <1>1 DEF GoalInv, ToldOnce, PassInv, Evaluating, Terminal
<1>6. RoutingInv'
  BY <1>2 DEF GoalInv, RoutingInv, Suspended, Running
<1> QED
  BY <1>4, <1>5, <1>6 DEF GoalInv
\* A task that starts: nothing of the goal changes.
LEMMA TakeKeeps ==
  ASSUME GoalInv, TakeMessage \/ TakeResume
  PROVE  GoalInv'
<1> USE DEF goalVars, settings
<1>1. /\ pc = "idle" /\ last' = "user" /\ Uses("task", MaxTasks)
      /\ UNCHANGED <<goalVars, settings, verdict, said, verdictIsOwn, saidIsOwn, told, choices>>
  BY DEF TakeMessage, TakeResume
<1>2. /\ pc' \in {"idle", "drain"} /\ turn' \in Agents \cup {"none"} /\ turns' \in Nat
      /\ aborted' \in BOOLEAN /\ checks' \in BOOLEAN
  <2>1. CASE TakeMessage
    BY <2>1, RouteWays DEF TakeMessage
  <2>2. CASE TakeResume
    <3>1. ASSUME NEW agent \in Agents, Drain("drain", agent)
          PROVE  /\ pc' \in {"idle", "drain"} /\ turn' \in Agents \cup {"none"}
                 /\ turns' \in Nat /\ aborted' \in BOOLEAN
      BY <3>1 DEF Drain
    <3>2. active \subseteq Agents
      BY DEF GoalInv, TypeOK, FieldTypeOK
    <3>3. \/ \E agent \in Agents : Drain("drain", agent)
          \/ pc' = "drain" /\ turn' = "none" /\ turns' = 0 /\ aborted' = FALSE
      BY <2>2, <3>2 DEF TakeResume
    <3>4. checks' \in BOOLEAN
      BY <2>2 DEF TakeResume
    <3>5. CASE pc' = "drain" /\ turn' = "none" /\ turns' = 0 /\ aborted' = FALSE
      BY <3>4, <3>5
    <3>6. CASE \E agent \in Agents : Drain("drain", agent)
      BY <3>1, <3>4, <3>6
    <3> QED
      BY <3>3, <3>5, <3>6
  <2> QED
    BY <2>1, <2>2
<1>3. pause' \in {"none", "question", "card"}
  BY DEF TakeMessage, TakeResume, GoalInv, TypeOK, FieldTypeOK
<1>4. TypeOK'
  <2>1. FieldTypeOK'
    BY <1>1, <1>2, <1>3 DEF GoalInv, TypeOK, FieldTypeOK
  <2>2. TaskTypeOK'
    BY <1>1, <1>2 DEF GoalInv, TypeOK, TaskTypeOK, Drains
  <2>3. used' \in [{"task", "stop", "flip"} -> Nat]
    BY <1>1, UsesCounts
  <2>4. HistoryTypeOK'
    BY <1>1, <2>3 DEF GoalInv, TypeOK, HistoryTypeOK, choices
  <2> QED
    BY <2>1, <2>2, <2>4 DEF TypeOK
<1>5. ToldOnce' /\ RoutingInv' /\ PassInv'
  BY <1>1, <1>2, GoalUntouched DEF PassInv, Evaluating
<1> QED
  BY <1>4, <1>5 DEF GoalInv

\* Stop raises `aborted` together with goalCancelled, and neither is lowered
\* while a pass runs.
LEMMA StopKeeps == GoalInv /\ Stop => GoalInv'
<1> SUFFICES ASSUME GoalInv, Stop PROVE GoalInv'
  OBVIOUS
<1> USE DEF Stop, settings, taskVars, speech, choices
<1>1. used' \in [{"task", "stop", "flip"} -> Nat]
  BY UsesCounts
<1>2. goalCancelled' \in BOOLEAN
  BY Zenon DEF GoalInv, TypeOK, FieldTypeOK, Running
<1>3. TypeOK'
  <2>1. FieldTypeOK'
    BY <1>2 DEF GoalInv, TypeOK, FieldTypeOK
  <2>2. TaskTypeOK' /\ HistoryTypeOK'
    BY <1>1 DEF GoalInv, TypeOK, TaskTypeOK, HistoryTypeOK
  <2> QED
    BY <2>1, <2>2 DEF TypeOK
<1>4. ToldOnce' /\ RoutingInv' /\ PassInv'
  BY GoalUntouched DEF GoalInv, PassInv, Evaluating
<1> QED
  BY <1>3, <1>4 DEF GoalInv

\* An entry of the transcript is not of the invariant's concern.
LEMMA RemarkKeeps == GoalInv /\ Remark => GoalInv'
<1> SUFFICES ASSUME GoalInv, Remark PROVE GoalInv'
  OBVIOUS
<1> USE DEF Remark, goalVars, settings, taskVars, choices
<1>1. TypeOK'
  BY DEF GoalInv, TypeOK, FieldTypeOK, TaskTypeOK, HistoryTypeOK
<1>2. ToldOnce' /\ RoutingInv' /\ PassInv'
  BY GoalUntouched DEF GoalInv, PassInv, Evaluating
<1> QED
  BY <1>1, <1>2 DEF GoalInv

\* A change of the roster does not reach the invariant.
LEMMA SetActiveKeeps ==
  ASSUME GoalInv, NEW agent \in Agents, SetActive(agent)
  PROVE  GoalInv'
<1> USE DEF SetActive, goalVars, taskVars, speech, choices
<1>1. used' \in [{"task", "stop", "flip"} -> Nat]
  BY UsesCounts
<1>2. active' \subseteq Agents
  BY DEF GoalInv, TypeOK, FieldTypeOK
<1>3. TypeOK'
  BY <1>1, <1>2 DEF GoalInv, TypeOK, FieldTypeOK, TaskTypeOK, HistoryTypeOK
<1>4. ToldOnce' /\ RoutingInv' /\ PassInv'
  BY GoalUntouched DEF GoalInv, PassInv, Evaluating
<1> QED
  BY <1>3, <1>4 DEF GoalInv

\* The user's change is recorded: outside of a suspension as the wish, in one
\* as having touched it.
LEMMA SetRoutingKeeps ==
  ASSUME GoalInv, NEW r \in SUBSET Routes, SetRouting(r)
  PROVE  GoalInv'
<1> USE DEF SetRouting, goalVars, taskVars, speech
<1>1. used' \in [{"task", "stop", "flip"} -> Nat]
  BY UsesCounts
<1>2. touched' \in BOOLEAN
  BY Zenon DEF GoalInv, TypeOK, HistoryTypeOK, Suspended, Running
<1>3. TypeOK'
  BY <1>1, <1>2 DEF GoalInv, TypeOK, FieldTypeOK, TaskTypeOK, HistoryTypeOK
<1>4. ToldOnce' /\ PassInv'
  BY DEF GoalInv, ToldOnce, PassInv, Evaluating, Suspended, Running
<1>5. RoutingInv'
  BY DEF GoalInv, RoutingInv, Suspended, Running
<1> QED
  BY <1>3, <1>4, <1>5 DEF GoalInv

\* Every step keeps the invariant.
LEMMA GoalStep == GoalInv /\ [Next]_vars => GoalInv'
<1> SUFFICES ASSUME GoalInv, [Next]_vars PROVE GoalInv'
  OBVIOUS
<1>1. CASE \E v \in {"met", "not-met"} : CallsVerdict(v)
  BY <1>1, CallsVerdictKeeps
<1>2. CASE (\E token \in Tokens : Speaks(token)) \/ Fails
  BY <1>2, TurnEndsKeeps
<1>3. CASE DrainEnds
  BY <1>3, DrainEndsWays, ConcludingKeeps
<1>4. CASE PassEnds \/ RetryEnds
  BY <1>4, PassEndsWays, ConcludingKeeps
<1>5. CASE \E mode \in {"auto", "eval"} : SubmitGoal(mode)
  BY <1>5, SubmitGoalKeeps
<1>6. CASE TakeMessage \/ TakeResume
  BY <1>6, TakeKeeps
<1>7. CASE Stop
  BY <1>7, StopKeeps
<1>11. CASE Remark
  BY <1>11, RemarkKeeps
<1>8. CASE \E agent \in Agents : SetActive(agent)
  BY <1>8, SetActiveKeeps
<1>9. CASE \E r \in SUBSET Routes : SetRouting(r)
  BY <1>9, SetRoutingKeeps
<1>10. CASE UNCHANGED vars
  BY <1>10 DEF vars, goalVars, settings, taskVars, speech, choices, GoalInv, TypeOK, FieldTypeOK,
               TaskTypeOK, HistoryTypeOK, ToldOnce, PassInv, RoutingInv, Evaluating,
               Suspended, Running
<1> QED
  BY <1>1, <1>2, <1>3, <1>4, <1>5, <1>6, <1>7, <1>8, <1>9, <1>10, <1>11
  DEF Next, Task, Outside
\* The inductive invariant the other theorems follow from.
THEOREM GoalInvariant == Spec => []GoalInv
  BY GoalInit, GoalStep, PTL DEF Spec

\* The types of the goal's state hold.
THEOREM GoalTypeCorrect == Spec => []TypeOK
  BY GoalInvariant, PTL DEF GoalInv

\* resolveGoal() is reached once: the parent hears of the goal's end once, and
\* of the end it came to.
THEOREM GoalToldOnce == Spec => []ToldOnce
  BY GoalInvariant, PTL DEF GoalInv

\* The fallback agent and plan routing are suspended for an eval goal, and back
\* whichever way it ends.
THEOREM GoalRoutingSuspended == Spec => []RoutingSuspended
<1>1. GoalInv => RoutingSuspended
  BY DEF GoalInv, RoutingInv, RoutingSuspended
<1> QED
  BY <1>1, GoalInvariant, PTL

\* A goal that was stopped starts no pass and no retry anymore.
THEOREM GoalNoPassAfterStop == Spec => NoPassAfterStop
<1>1. GoalInv /\ [Next]_vars
      => [goalCancelled /\ Evaluating' => pc' = pc /\ goalIteration' = goalIteration]_vars
  <2> SUFFICES ASSUME GoalInv, Next, goalCancelled, Evaluating'
               PROVE  pc' = pc /\ goalIteration' = goalIteration
    OBVIOUS
  <2> USE DEF goalVars, settings, taskVars, Evaluating
  <2>1. CASE \E v \in {"met", "not-met"} : CallsVerdict(v)
    BY <2>1 DEF CallsVerdict
  <2>2. CASE (\E token \in Tokens : Speaks(token)) \/ Fails
    <3>1. goalIteration' = goalIteration
      BY <2>2 DEF Speaks, Fails
    <3>2. pc' = pc \/ pc' = "idle"
      BY <2>2, TurnWays DEF Speaks, Fails
    <3> QED
      BY <3>1, <3>2
  <2>3. CASE DrainEnds \/ PassEnds \/ RetryEnds
    <3>1. (Ended \/ Reopened \/ Rested) /\ Concluding
      BY <2>3, DrainEndsWays, PassEndsWays
    <3>2. CASE Ended
      BY <3>1, <3>2, ResolvedEnds DEF Ended, Concluding, choices
    <3> QED
      BY <3>1, <3>2 DEF Reopened, Rested, Rest
  <2>4. CASE (\E mode \in {"auto", "eval"} : SubmitGoal(mode)) \/ TakeMessage
    BY <2>4, RouteWays DEF SubmitGoal, TakeMessage
  <2>5. CASE TakeResume
    BY <2>5 DEF TakeResume, Drain
  <2>6. CASE Stop \/ Remark
    BY <2>6 DEF Stop, Remark
  <2>7. CASE \E agent \in Agents : SetActive(agent)
    BY <2>7 DEF SetActive
  <2>8. CASE \E r \in SUBSET Routes : SetRouting(r)
    BY <2>8 DEF SetRouting
  <2> QED
    BY <2>1, <2>2, <2>3, <2>4, <2>5, <2>6, <2>7, <2>8 DEF Next, Task, Outside
<1> QED
  BY <1>1, GoalInvariant, PTL DEF Spec, NoPassAfterStop

\* A goal stopped in a pass ends as cancelled with that pass.
THEOREM GoalStopEndsEvaluation == Spec => StopEndsEvaluation
<1>1. GoalInv /\ [Next]_vars
      => [goalCancelled /\ Evaluating /\ ~Evaluating' => goalStatus' = "cancelled"]_vars
  <2> SUFFICES ASSUME GoalInv, Next, goalCancelled, Evaluating, ~Evaluating'
               PROVE  goalStatus' = "cancelled"
    OBVIOUS
  <2> USE DEF goalVars, settings, taskVars, Evaluating
  <2>1. CASE \E v \in {"met", "not-met"} : CallsVerdict(v)
    BY <2>1 DEF CallsVerdict
  <2>2. CASE (\E token \in Tokens : Speaks(token)) \/ Fails
    <3>1. aborted
      BY DEF GoalInv, PassInv
    <3>2. pc' = pc
      BY <2>2, <3>1, TurnWays DEF Speaks, Fails
    <3> QED
      BY <3>2
  <2>3. CASE DrainEnds
    BY <2>3 DEF DrainEnds
  <2>4. CASE PassEnds \/ RetryEnds
    BY <2>4, PassEndsWays
  <2>5. CASE (\E mode \in {"auto", "eval"} : SubmitGoal(mode)) \/ TakeMessage \/ TakeResume
    BY <2>5 DEF SubmitGoal, TakeMessage, TakeResume
  <2>6. CASE Stop \/ Remark
    BY <2>6 DEF Stop, Remark
  <2>7. CASE \E agent \in Agents : SetActive(agent)
    BY <2>7 DEF SetActive
  <2>8. CASE \E r \in SUBSET Routes : SetRouting(r)
    BY <2>8 DEF SetRouting
  <2> QED
    BY <2>1, <2>2, <2>3, <2>4, <2>5, <2>6, <2>7, <2>8 DEF Next, Task, Outside
<1> QED
  BY <1>1, GoalInvariant, PTL DEF Spec, StopEndsEvaluation

\* The goal_verdict that completes a goal comes from the pass it closes.
THEOREM GoalOwnToolVerdict == Spec => OwnToolVerdict
<1>1. GoalInv => [Completes /\ Evaluating /\ verdict # "none" => verdictIsOwn]_vars
  BY DEF GoalInv, PassInv
<1> QED
  BY <1>1, GoalInvariant, PTL DEF Spec, OwnToolVerdict
=============================================================================
