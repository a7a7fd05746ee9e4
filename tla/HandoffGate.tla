----------------------------- MODULE HandoffGate -----------------------------
(***************************************************************************)
(* The tool calls of one agent's turn, as far as the turn's end and its     *)
(* handoff depend on them: the handoff tool (src/custom-tools/handoff.ts),  *)
(* the review gates it consults (src/handoff-gates.ts) and the guard that   *)
(* ends a turn whose agent gave it away (src/batch-terminate-guard.ts).     *)
(*                                                                          *)
(* The model answers in steps; each step is a batch of calls, and the run   *)
(* loop asks for another step unless every result of the batch terminates.  *)
(* A batch that holds a handoff runs in order, any other in parallel, which *)
(* shows in no result: the order of a batch is the order of its results.     *)
(***************************************************************************)
EXTENDS Naturals, Sequences, FiniteSets

CONSTANTS
  Members,         \* the ids of the room
  Paths,          \* classes of paths the gates tell apart
  Gates,          \* records [from, via, when], when a set of paths, {} for always
  MaxBatch,       \* calls in one batch
  MaxSteps,       \* steps of one turn
  MaxChanges      \* changes of the roster during the turn

ASSUME GatesAssumption ==
  Gates \subseteq [from : Members, via : Members, when : SUBSET Paths]

VARIABLES
  agent,          \* who has the turn
  present,         \* HandoffSink.activeIds()
  changes,
  touched,        \* touchedPaths(): what write and edit calls changed in this turn
  to,             \* the registered handoff, the agent itself when there is none
  fired,          \* terminateFired of the guard
  batch,          \* calls of the step that have no result yet
  every,          \* every result of the step so far terminates
  steps,          \* steps of the turn
  late,           \* history: steps begun after the turn was given away
  over            \* the turn has ended

gateVars == <<agent, present, changes, touched, to, fired, batch, every, steps, late, over>>

None == agent

-----------------------------------------------------------------------------
(* The gates: checkHandoffGates *)

\* The bug of a gate that waits for a reviewer who is not there.
ApplicableAnyway(from, ids) == {g \in Gates : g.from = from /\ g.via # from}

\* A gate counts when its reviewer can be handed to.
Applicable(from, ids) == {g \in Gates : g.from = from /\ g.via # from /\ g.via \in ids}

Armed(from, paths, ids) ==
  {g \in Applicable(from, ids) : g.when = {} \/ g.when \cap paths # {}}

\* One armed gate's reviewer satisfies them all.
Allows(from, target, paths, ids) ==
  \/ Armed(from, paths, ids) = {}
  \/ \E g \in Armed(from, paths, ids) : g.via = target

-----------------------------------------------------------------------------
(* A step of the model *)

Calls == [tool : {"handoff"}, arg : Members] \union [tool : {"write"}, arg : Paths]
           \union {[tool |-> "ask", arg |-> 0], [tool |-> "other", arg |-> 0]}

Batches == UNION {[1 .. n -> Calls] : n \in 1 .. MaxBatch}

Answers(b) ==
  /\ ~over /\ batch = <<>> /\ steps < MaxSteps
  /\ steps > 0 => ~every
  /\ batch' = b /\ every' = TRUE /\ steps' = steps + 1
  /\ late' = IF fired THEN late + 1 ELSE late
  /\ UNCHANGED <<agent, present, changes, touched, to, fired, over>>

\* A step without calls, or one whose results all terminate, ends the turn.
Ends ==
  /\ ~over /\ batch = <<>>
  /\ over' = TRUE
  /\ UNCHANGED <<agent, present, changes, touched, to, fired, batch, every, steps, late>>

-----------------------------------------------------------------------------
(* The results *)

\* The bug of a guard that forgets what an earlier call of the run decided.
GuardedOwnOnly(terminates) == fired' = (fired \/ terminates) /\ every' = (every /\ terminates)

\* afterToolCall: once a call gave the turn away, every later result of the
\* run terminates too.
Guarded(terminates) ==
  /\ fired' = (fired \/ terminates)
  /\ every' = (every /\ fired')

\* The bug of a second handoff that replaces the first.
RegistersAgain(target) ==
  /\ target \in present \ {agent}
  /\ Allows(agent, target, touched, present)

\* The handoff tool: one per turn, to another agent that is active now, past
\* the gates.  Only the registration terminates.
Registers(target) ==
  /\ to = None
  /\ target \in present \ {agent}
  /\ Allows(agent, target, touched, present)

Handoff(target) ==
  IF Registers(target) THEN to' = target /\ Guarded(TRUE)
  ELSE UNCHANGED to /\ Guarded(FALSE)

Result(ok) ==
  /\ batch # <<>>
  /\ batch' = Tail(batch)
  /\ LET call == Head(batch)
     IN  /\ call.tool = "handoff" => Handoff(call.arg) /\ UNCHANGED touched
         /\ call.tool = "write" =>
              /\ touched' = IF ok THEN touched \union {call.arg} ELSE touched
              /\ Guarded(FALSE) /\ UNCHANGED to
         /\ call.tool = "ask" => Guarded(ok) /\ UNCHANGED <<touched, to>>
         /\ call.tool = "other" => Guarded(FALSE) /\ UNCHANGED <<touched, to>>
  /\ UNCHANGED <<agent, present, changes, steps, late, over>>

\* Meanwhile the human switches an agent on or off.
SwitchMember(a) ==
  /\ ~over /\ changes < MaxChanges /\ a # agent
  /\ changes' = changes + 1
  /\ present' = IF a \in present THEN present \ {a} ELSE present \union {a}
  /\ UNCHANGED <<agent, touched, to, fired, batch, every, steps, late, over>>

-----------------------------------------------------------------------------

\* run(): the activity is cleared and the guard reset.
GateInit ==
  /\ agent \in Members
  /\ present \in {ids \in SUBSET Members : agent \in ids}
  /\ changes = 0 /\ touched = {} /\ to = agent /\ fired = FALSE
  /\ batch = <<>> /\ every = FALSE /\ steps = 0 /\ late = 0 /\ over = FALSE

GateNext ==
  \/ \E b \in Batches : Answers(b)
  \/ Ends
  \/ \E ok \in BOOLEAN : Result(ok)
  \/ \E a \in Members : SwitchMember(a)

GateSpec == GateInit /\ [][GateNext]_gateVars

-----------------------------------------------------------------------------
(* What is claimed of it *)

\* An agent that has somebody to hand to always has somebody the gates let it
\* hand to, whatever it touched and whoever has been switched off (handoff-
\* gates.ts: gates "must not deadlock the agent between them", and "an absent
\* or crashed reviewer must not deadlock the room").
NeverTrapped ==
  (present # {agent}) => \E a \in present \ {agent} : Allows(agent, a, touched, present)

\* An agent that gave its turn away gets at most one more step of the model
\* (batch-terminate-guard.ts: "bounded at ONE extra generation step").
OneMoreStep == late <= 1

\* The first handoff of a turn stands (handoff.ts: "the first registration is
\* the decision").
FirstStands == [][to # None => to' = to]_gateVars

\* A turn that touched what a gate guards is handed to the gate's reviewer
\* (handoff-gates.ts: "while `from` has touched matching paths in its CURRENT
\* turn, its handoff must target `via`").
ReviewKept == (over /\ to # None) => Allows(agent, to, touched, present)
=============================================================================
