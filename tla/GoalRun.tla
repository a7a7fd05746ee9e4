------------------------------ MODULE GoalRun ------------------------------
(***************************************************************************)
(* The goal of a room: submitted once, worked on by the room's tasks,      *)
(* verified by an evaluator agent in a loop (mode "eval"), cut by Stop,    *)
(* interrupted by the pauses of a pass.                                    *)
(*                                                                         *)
(* The turn engine of RoomTurn is abstracted to this: a drain is a row of  *)
(* agent turns, one at a time, that ends, pauses or is stopped.  Between   *)
(* two turns the code is synchronous (Sync): no Stop falls there.          *)
(***************************************************************************)
EXTENDS Naturals, Sequences

CONSTANTS MaxIterations  \* maxGoalIterations

\* Bounds of the model: turns per drain, tasks after the goal's own, Stops,
\* changes of the roster or of the settings.
CONSTANTS MaxTurns, MaxTasks, MaxStops, MaxFlips

ASSUME IterationsAssumption == MaxIterations \in 1..50
ASSUME GoalBoundsAssumption == {MaxTurns, MaxTasks, MaxStops, MaxFlips} \subseteq Nat

VARIABLES
  goalStatus, goalMode, goalIteration, goalCancelled,
  aborted,
  routing,   \* automatic routing that is on: fallbackAgentId, planAwareRoutingEnabled
  saved,     \* what submitGoal() suspended of it
  active,    \* the evaluator, the workers: which are active
  pause,     \* pendingQuestion, pendingRoute
  verdict,   \* pendingVerdict of the registry
  said       \* the evaluator's last message: which token it holds

\* The task at work.
VARIABLES
  pc,        \* its own drain, an evaluation pass, or a repair retry
  turn,      \* who speaks
  turns,     \* turns of this drain
  checks,    \* the task looks at `aborted` when its drain is over
  last       \* author of the transcript's last entry

\* What only the properties read, and how often the outside acted.
VARIABLES
  told,          \* reports onGoalResolved made
  wanted,        \* the routing the user chose
  touched,       \* the user changed the routing while it was suspended
  verdictIsOwn,  \* `verdict` was registered in the pass that runs
  saidIsOwn,     \* `said` was posted in the pass that runs
  used

goalVars == <<goalStatus, goalMode, goalIteration, goalCancelled>>
settings == <<routing, saved, active>>
taskVars == <<pc, turn, turns, checks>>
speech == <<verdict, said, last, verdictIsOwn, saidIsOwn>>
choices == <<wanted, touched>>
vars == <<goalVars, aborted, settings, pause, taskVars, speech, told, choices, used>>

Agents == {"evaluator", "worker"}
Routes == {"fallback", "plan"}
Tokens == {"none", "met", "not-met"}
Terminal == {"completed", "failed", "cancelled"}
Drains == {"drain", "pass", "retry"}

Running == goalStatus = "running"
Suspended == Running /\ goalMode = "eval"

Init ==
  /\ goalStatus = "idle" /\ goalMode = "auto" /\ goalIteration = 0
  /\ goalCancelled = FALSE /\ aborted = FALSE
  /\ routing = Routes /\ saved = {} /\ active = Agents
  /\ pause = "none" /\ verdict = "none" /\ said = "none"
  /\ pc = "idle" /\ turn = "none" /\ turns = 0 /\ checks = FALSE /\ last = "user"
  /\ told = <<>> /\ wanted = routing /\ touched = FALSE
  /\ verdictIsOwn = FALSE /\ saidIsOwn = FALSE
  /\ used = [kind \in {"task", "stop", "flip"} |-> 0]

\* A drain is over and its caller goes on: synchronous.
Sync == pc # "idle" /\ turn = "none"

Uses(kind, max) ==
  /\ ~Sync
  /\ used[kind] < max
  /\ used' = [used EXCEPT ![kind] = @ + 1]

(* ---- drains ------------------------------------------------------------ *)

\* A drain starts with the turn of `agent`.
Drain(where, agent) ==
  /\ pc' = where
  /\ turn' = agent
  /\ turns' = 1
  /\ aborted' = FALSE

Rest == pc' = "idle" /\ turn' = "none" /\ UNCHANGED <<turns, aborted>>

\* The evaluator calls goal_verdict: its gate is open while an eval goal runs,
\* and the first call of a pass stands.
CallsVerdict(v) ==
  /\ turn = "evaluator"
  /\ Suspended
  /\ verdict = "none"
  /\ verdict' = v
  /\ verdictIsOwn' = (pc \in {"pass", "retry"})
  /\ UNCHANGED <<goalVars, aborted, settings, pause, taskVars, said, last, saidIsOwn,
                 told, choices, used>>

\* What the turn leaves in the transcript.
Posts(token) ==
  /\ last' = turn
  /\ IF turn = "evaluator"
     THEN said' = token /\ saidIsOwn' = (pc \in {"pass", "retry"})
     ELSE UNCHANGED <<said, saidIsOwn>>
  /\ UNCHANGED <<verdict, verdictIsOwn>>

\* The drain goes on with `agent`: handed the turn, or, in the task's own
\* drain, next in line.  The menu re-prompts workers only.
GoesOn(agent) ==
  /\ ~aborted
  /\ turns < MaxTurns
  /\ agent = "evaluator" => turn # "evaluator"
  /\ pc # "drain" => agent \in active
  /\ turn' = agent
  /\ turns' = turns + 1
  /\ UNCHANGED <<pc, checks, aborted, pause>>

Over == turn' = "none" /\ UNCHANGED <<pc, turns, checks, aborted, pause>>

\* A question or a route card: the task returns, runGoalEval() too, without
\* its finally restoring anything.
Pauses(kind) ==
  /\ ~aborted
  /\ pause' = kind
  /\ Rest
  /\ UNCHANGED checks

\* A turn ends with a message.
Speaks(token) ==
  /\ turn # "none"
  /\ Posts(token)
  /\ Over \/ (\E agent \in Agents : GoesOn(agent))
          \/ (\E kind \in {"question", "card"} : Pauses(kind))
  /\ UNCHANGED <<goalVars, settings, told, choices, used>>

\* A turn that throws, or that Stop skips, posts nothing and hands nothing on;
\* the task's own drain may have others in line, a pass has not.
Fails ==
  /\ turn # "none"
  /\ UNCHANGED speech
  /\ Over \/ (pc = "drain" /\ \E agent \in Agents : GoesOn(agent))
  /\ UNCHANGED <<goalVars, settings, told, choices, used>>

(* ---- the goal ----------------------------------------------------------- *)

\* resolveGoal()
Resolve(status) ==
  /\ goalStatus' = status
  /\ told' = Append(told, status)

Restore ==
  IF goalMode = "eval" THEN routing' = saved ELSE UNCHANGED routing

\* Mutant: the finally of the loop restores nothing.
ResolvedUnrestored(status) ==
  /\ Resolve(status)
  /\ Rest
  /\ UNCHANGED <<goalIteration, said, last, saidIsOwn, routing>>

\* The goal is over, and with it the task.
Resolved(status) ==
  /\ Resolve(status)
  /\ Restore
  /\ Rest
  /\ UNCHANGED <<goalIteration, said, last, saidIsOwn>>

KeepVerdict == UNCHANGED <<verdict, verdictIsOwn>>

\* clearVerdict(), takeVerdict()
DropVerdict == verdict' = "none" /\ verdictIsOwn' = FALSE

\* evalOutcome(): the tool's verdict first, the token of the evaluator's most
\* recent message second.
Outcome == IF verdict # "none" THEN verdict ELSE said

\* Mutant: a pass does not count.
PassUncounted ==
  /\ saidIsOwn' = FALSE
  /\ Drain("pass", "evaluator")
  /\ UNCHANGED <<goalStatus, goalIteration, told, routing, said, last>>

\* A pass of the loop starts: the evaluator speaks first.
Pass ==
  /\ goalIteration' = goalIteration + 1
  /\ saidIsOwn' = FALSE
  /\ Drain("pass", "evaluator")
  /\ UNCHANGED <<goalStatus, told, routing, said, last>>

\* Mutant: the loop does not look at goalCancelled.
LoopUnstoppable ==
  IF goalIteration >= MaxIterations THEN Resolved("failed") ELSE Pass

\* Mutant: the loop runs once more than maxGoalIterations.
LoopOnceMore ==
  IF goalIteration > MaxIterations THEN Resolved("failed")
  ELSE IF goalCancelled THEN Resolved("cancelled")
  ELSE Pass

\* The head of runGoalEval()'s loop.
Loop ==
  IF goalIteration >= MaxIterations THEN Resolved("failed")
  ELSE IF goalCancelled THEN Resolved("cancelled")
  ELSE Pass

\* runGoalEval(): without its evaluator the goal completes unverified.
RunGoalEval ==
  IF "evaluator" \in active THEN Loop ELSE Resolved("completed")

\* Mutant: a goal that was resolved is resolved again.
EndTurnAgain ==
  IF ~Suspended
  THEN Resolved("completed")
  ELSE RunGoalEval

\* endTurn()
EndTurn ==
  IF ~Running
  THEN Rest /\ UNCHANGED <<goalStatus, goalIteration, told, routing, said, last, saidIsOwn>>
  ELSE IF goalMode = "auto" THEN Resolved("completed")
  ELSE RunGoalEval

\* process() alone asks whether its drain was stopped.
Stopped == checks /\ aborted /\ Running

AfterDrain ==
  IF Stopped
  THEN Resolved(IF goalCancelled THEN "cancelled" ELSE "failed")
  ELSE EndTurn

\* Mutant: the verdict of an earlier turn is not dropped when a pass starts.
DrainEndsStale ==
  /\ pc = "drain" /\ Sync
  /\ AfterDrain
  /\ verdictIsOwn' = FALSE
  /\ UNCHANGED <<goalMode, goalCancelled, saved, active, pause, checks, choices, used, verdict>>

\* The task's own drain is over; a pass that follows starts without a verdict.
DrainEnds ==
  /\ pc = "drain" /\ Sync
  /\ AfterDrain
  /\ IF pc' = "pass" THEN DropVerdict ELSE KeepVerdict
  /\ UNCHANGED <<goalMode, goalCancelled, saved, active, pause, checks, choices, used>>

\* The evaluator spoke last and left the pass unusable.
Stalled ==
  /\ last = "evaluator"
  /\ Outcome = "none" \/ (Outcome = "not-met" /\ "worker" \in active)

\* The repair retry: one more turn of the evaluator, in the same pass.
Retry ==
  /\ Drain("retry", "evaluator")
  /\ UNCHANGED <<goalStatus, goalIteration, told, routing, said, saidIsOwn, last>>

Judge ==
  IF Outcome = "met" THEN Resolved("completed")
  ELSE IF aborted THEN Resolved("failed")
  ELSE Loop

\* Mutant: the pass is judged although it was stopped.
PassEndsUnchecked ==
  /\ pc = "pass" /\ Sync
  /\ (IF Stalled THEN Retry ELSE Judge) /\ DropVerdict
  /\ UNCHANGED <<goalMode, goalCancelled, saved, active, pause, checks, choices, used>>

PassEnds ==
  /\ pc = "pass" /\ Sync
  /\ IF goalCancelled
     THEN Resolved("cancelled") /\ KeepVerdict
     ELSE (IF Stalled THEN Retry ELSE Judge) /\ DropVerdict
  /\ UNCHANGED <<goalMode, goalCancelled, saved, active, pause, checks, choices, used>>

RetryEnds ==
  /\ pc = "retry" /\ Sync
  /\ IF goalCancelled
     THEN Resolved("cancelled") /\ KeepVerdict
     ELSE Judge /\ DropVerdict
  /\ UNCHANGED <<goalMode, goalCancelled, saved, active, pause, checks, choices, used>>

(* ---- tasks and the outside ------------------------------------------------ *)

\* A message is routed to agents that are active; without one process()
\* returns, before endTurn().
Route ==
  /\ checks' = TRUE
  /\ \/ \E agent \in active : Drain("drain", agent)
     \/ active = {} /\ Rest

\* submitGoal(), on a fresh room, and the message it submits.
SubmitGoal(mode) ==
  /\ goalStatus = "idle" /\ pc = "idle"
  /\ goalStatus' = "running" /\ goalMode' = mode
  /\ goalIteration' = 0 /\ goalCancelled' = FALSE
  /\ IF mode = "eval"
     THEN saved' = routing /\ routing' = {}
     ELSE UNCHANGED <<saved, routing>>
  /\ Route
  /\ last' = "user"
  /\ UNCHANGED <<active, pause, verdict, said, verdictIsOwn, saidIsOwn, told, choices, used>>

\* process() without a question open; an open card stays open.
TakeMessage ==
  /\ goalStatus # "idle" /\ pc = "idle" /\ Uses("task", MaxTasks)
  /\ pause # "question"
  /\ Route
  /\ last' = "user"
  /\ UNCHANGED <<goalVars, settings, pause, verdict, said, verdictIsOwn, saidIsOwn,
                 told, choices>>

\* Every task that resumes held work (answer, /cancel, decision), and a report
\* that finds the room unpaused.  A resumed queue may be empty.
TakeResume ==
  /\ goalStatus # "idle" /\ pc = "idle" /\ Uses("task", MaxTasks)
  /\ pause' = "none"
  /\ checks' = FALSE
  /\ \/ \E agent \in (IF pause = "none" THEN active ELSE Agents) : Drain("drain", agent)
     \/ /\ pause # "none"
        /\ pc' = "drain" /\ turn' = "none" /\ turns' = 0 /\ aborted' = FALSE
  /\ last' = "user"
  /\ UNCHANGED <<goalVars, settings, verdict, said, verdictIsOwn, saidIsOwn, told, choices>>

\* abortCurrent(), by a user or by stop_room
Stop ==
  /\ Uses("stop", MaxStops)
  /\ aborted' = TRUE
  /\ goalCancelled' = (goalCancelled \/ Running)
  /\ pause' = "none"
  /\ UNCHANGED <<goalStatus, goalMode, goalIteration, settings, taskVars, speech, told, choices>>

\* steer(), postShellRecord(): an entry that is no turn.
Remark ==
  /\ ~Sync
  /\ last # "user"
  /\ last' = "user"
  /\ UNCHANGED <<goalVars, aborted, settings, pause, taskVars, verdict, said, verdictIsOwn,
                 saidIsOwn, told, choices, used>>

SetActive(agent) ==
  /\ Uses("flip", MaxFlips)
  /\ active' = IF agent \in active THEN active \ {agent} ELSE active \cup {agent}
  /\ UNCHANGED <<goalVars, aborted, routing, saved, pause, taskVars, speech, told, choices>>

\* setFallbackAgent(), setPlanAwareRouting()
SetRouting(r) ==
  /\ Uses("flip", MaxFlips)
  /\ r # routing
  /\ routing' = r /\ wanted' = r
  /\ touched' = (touched \/ Suspended)
  /\ UNCHANGED <<goalVars, aborted, saved, active, pause, taskVars, speech, told>>

Task ==
  \/ \E v \in {"met", "not-met"} : CallsVerdict(v)
  \/ \E token \in Tokens : Speaks(token)
  \/ Fails
  \/ DrainEnds \/ PassEnds \/ RetryEnds

Outside ==
  \/ \E mode \in {"auto", "eval"} : SubmitGoal(mode)
  \/ TakeMessage \/ TakeResume \/ Stop \/ Remark
  \/ \E agent \in Agents : SetActive(agent)
  \/ \E r \in SUBSET Routes : SetRouting(r)

Next == Task \/ Outside

\* The event loop runs on, and a prompt ends, with an answer or an error.
Spec == Init /\ [][Next]_vars /\ WF_vars(Task)

(* ---- properties --------------------------------------------------------- *)

FieldTypeOK ==
  /\ goalStatus \in {"idle", "running"} \cup Terminal
  /\ goalMode \in {"auto", "eval"}
  /\ goalIteration \in 0..MaxIterations
  /\ goalCancelled \in BOOLEAN /\ aborted \in BOOLEAN
  /\ routing \subseteq Routes /\ saved \subseteq Routes /\ active \subseteq Agents
  /\ pause \in {"none", "question", "card"}
  /\ verdict \in Tokens /\ said \in Tokens

TaskTypeOK ==
  /\ pc \in Drains \cup {"idle"}
  /\ turn \in Agents \cup {"none"} /\ turns \in Nat
  /\ checks \in BOOLEAN /\ last \in Agents \cup {"user"}

HistoryTypeOK ==
  /\ told \in Seq(Terminal)
  /\ wanted \subseteq Routes /\ touched \in BOOLEAN
  /\ verdictIsOwn \in BOOLEAN /\ saidIsOwn \in BOOLEAN
  /\ used \in [{"task", "stop", "flip"} -> Nat]

TypeOK == FieldTypeOK /\ TaskTypeOK /\ HistoryTypeOK

Evaluating == pc \in {"pass", "retry"}

\* The parent hears of the goal once, when it is over, and of no other end
\* (resolveGoal() and its callers' guards).
ToldOnce == told = IF goalStatus \in Terminal THEN <<goalStatus>> ELSE <<>>

\* Automatic routing is off exactly while an eval goal runs; whichever way the
\* goal ends, what the user had chosen is back (unless changed meanwhile).
RoutingSuspended ==
  ~touched => routing = IF Suspended THEN {} ELSE wanted

\* After Stop no pass of the loop, and no retry, starts anymore: `aborted` is
\* cleared by each pass, goalCancelled is not.
NoPassAfterStop ==
  [][goalCancelled /\ Evaluating' => pc' = pc /\ goalIteration' = goalIteration]_vars

\* A goal stopped in a pass ends as cancelled with that pass: neither judged,
\* nor paused, nor failed.
StopEndsEvaluation ==
  [][goalCancelled /\ Evaluating /\ ~Evaluating' => goalStatus' = "cancelled"]_vars

Completes == Running /\ goalStatus' = "completed"

\* A goal_verdict that completes the goal was registered in the pass it
\* closes, not by a turn before it.
OwnToolVerdict ==
  [][Completes /\ Evaluating /\ verdict # "none" => verdictIsOwn]_vars

\* Every task ends, the loop in it too: the iterations and the one retry of
\* each are what bounds it.
TaskEnds == pc # "idle" ~> pc = "idle"

\* room-goals.ts:159: "each pass's verdict must come from its own evaluation".
OwnVerdict ==
  [][Completes /\ Evaluating => IF verdict # "none" THEN verdictIsOwn ELSE saidIsOwn]_vars

\* docs/sub-rooms.md:285: a goal stopped by operator or planner ends as
\* "cancelled"; room-goals.ts:145: cancellation "wins over everything".
CancelWins == goalCancelled /\ goalStatus \in Terminal => goalStatus = "cancelled"
=============================================================================
