------------------------------ MODULE RoomTurn ------------------------------
(***************************************************************************)
(* The turn engine of one room: the FIFO `chain` of tasks (user messages,  *)
(* sub-room reports, route decisions, supervisor outcomes), the pass that  *)
(* drains the agent queue wave by wave, the pauses (ask_user, route card), *)
(* the chain-hop budget and Stop.                                          *)
(*                                                                         *)
(* A step runs from one real await of the code to the next.  Where the     *)
(* code is synchronous over several steps of this module, JsBusy holds and *)
(* nothing from outside (HTTP handlers, agents, the supervisor) interleaves.*)
(***************************************************************************)
EXTENDS Integers, Sequences, FiniteSets, SequencesExt

CONSTANTS
  Agents,       \* the roster
  Local,        \* agents on the local-model lane
  Parallel,     \* agents flagged parallel
  Seat,         \* the seat of each agent: hats that share one share a session
  Fallback,     \* fallbackAgentId, or None
  Supervisor,   \* supervisorAgentId, or None
  PlanOwner,    \* owner of the adopted plan's next step, or None
  MaxHops,      \* maxChainHops
  Modes,        \* routing modes the room may be in
  None

\* Bounds of the model: how much the outside does to the room.
CONSTANTS MaxInputs, MaxClicks, MaxStops, MaxFlips, MaxCards

ASSUME AgentsAssumption ==
  /\ IsFiniteSet(Agents) /\ None \notin Agents
  /\ Local \subseteq Agents /\ Parallel \subseteq Agents
  /\ Seat \in [Agents -> STRING]
  /\ {Fallback, Supervisor, PlanOwner} \subseteq Agents \cup {None}
ASSUME HopsAssumption == MaxHops \in Nat \ {0}
ASSUME ModesAssumption == Modes \subseteq {"auto", "semi", "manual", "supervised"}
ASSUME BoundsAssumption ==
  {MaxInputs, MaxClicks, MaxStops, MaxFlips, MaxCards} \subseteq Nat

VARIABLES
  chain,     \* tasks queued on the room's promise chain
  pc,        \* where the task at work stands
  mode,      \* routingMode
  active,    \* agents that are active
  queue,     \* agents to run in this pass
  aborted,   \* set by Stop, cleared by the next task that starts work
  budget,    \* chainBudget
  pq,        \* pendingQuestion: [asker, held], or None
  pr,        \* pendingRoute: [card, hops, held, judge], or None
  refused,   \* hops the supervisor refused this turn
  handoff    \* the registry's pending handoff of each agent, or None

\* The locals of the task at work.
VARIABLES
  wave,      \* the group that runs now
  stage,     \* how far each agent is in executeAgent
  out,       \* what its turn came to
  idx,       \* the result being posted
  asks,      \* first asker of the wave, or None
  proposed,  \* waveProposals
  resume,    \* TRUE while the asker of an answered question follows up
  kept       \* the held queue of that question

\* The outside, and what only the properties read.
VARIABLES
  deciding,  \* cards a supervisor session is deciding on
  cards,     \* route cards opened so far: the identity of the next one
  used,      \* how often the outside acted, by kind
  stopped,   \* Stop hit the task at work
  left       \* agent turns the user turn may still start: those it was sent
             \* to, and MaxHops more

roomVars == <<chain, pc, mode, active, queue, aborted, budget, pq, pr, refused, handoff>>
taskVars == <<wave, stage, out, idx, asks, proposed, resume, kept>>
noteVars == <<deciding, cards, used, stopped, left>>
vars == <<roomVars, taskVars, noteVars>>

Maybe(S) == S \cup {None}
Hop == Agents \X Agents
Targets(hops) == {h[2] : h \in hops}
Proposers(hops) == {h[1] : h \in hops}

\* The ways to line up a set: the order of hops decided together is left open.
Orders(S) == {s \in [1..Cardinality(S) -> S] : IsInjective(s)}

Init ==
  /\ chain = <<>> /\ pc = "idle" /\ mode \in Modes /\ active = Agents
  /\ queue = <<>> /\ aborted = FALSE /\ budget = 0
  /\ pq = None /\ pr = None /\ refused = {}
  /\ handoff = [a \in Agents |-> None]
  /\ wave = <<>> /\ idx = 0 /\ asks = None /\ proposed = {}
  /\ stage = [a \in Agents |-> "off"] /\ out = [a \in Agents |-> "none"]
  /\ resume = FALSE /\ kept = <<>>
  /\ deciding = {} /\ cards = 0 /\ stopped = FALSE /\ left = 0
  /\ used = [kind \in {"input", "click", "stop", "flip"} |-> 0]

WaveOver == pc = "wave" /\ \A i \in DOMAIN wave : stage[wave[i]] = "done"

\* The event loop is inside one synchronous stretch of the room's code.
JsBusy == pc \in {"drain", "post"} \/ WaveOver \/ (pc = "idle" /\ chain # <<>>)

(* ---- the outside ------------------------------------------------------ *)

Uses(kind, max) ==
  /\ ~JsBusy
  /\ used[kind] < max
  /\ used' = [used EXCEPT ![kind] = @ + 1]

\* submit(): a user message; injectOrchestratorReport(): a sub-room's report.
Submit(kind) ==
  /\ Uses("input", MaxInputs)
  /\ chain' = Append(chain, [kind |-> kind, card |-> 0])
  /\ UNCHANGED <<pc, mode, active, queue, aborted, budget, pq, pr, refused, handoff>>
  /\ UNCHANGED taskVars
  /\ UNCHANGED <<deciding, cards, stopped, left>>

\* resolveRoute(): the human decides; the decision names no card, and falls on
\* whichever is open when its turn comes.
Click ==
  /\ Uses("click", MaxClicks)
  /\ chain' = Append(chain, [kind |-> "decision", card |-> 0])
  /\ UNCHANGED <<pc, mode, active, queue, aborted, budget, pq, pr, refused, handoff>>
  /\ UNCHANGED taskVars
  /\ UNCHANGED <<deciding, cards, stopped, left>>

\* Mutant: a session that fails is not turned into an outcome.
SupervisorDoneSilently(c) ==
  /\ ~JsBusy
  /\ c \in deciding
  /\ deciding' = deciding \ {c}
  /\ UNCHANGED <<roomVars, taskVars, cards, used, stopped, left>>

\* The supervisor's session for a card ends (verdict, error or timeout).
SupervisorDone(c) ==
  /\ ~JsBusy
  /\ c \in deciding
  /\ deciding' = deciding \ {c}
  /\ chain' = Append(chain, [kind |-> "outcome", card |-> c])
  /\ UNCHANGED <<pc, mode, active, queue, aborted, budget, pq, pr, refused, handoff>>
  /\ UNCHANGED taskVars
  /\ UNCHANGED <<cards, used, stopped, left>>

\* abortCurrent()
Stop ==
  /\ Uses("stop", MaxStops)
  /\ aborted' = TRUE
  /\ queue' = <<>>
  /\ pq' = None
  /\ pr' = None
  /\ stopped' = (pc # "idle")
  /\ UNCHANGED <<chain, pc, mode, active, budget, refused, handoff>>
  /\ UNCHANGED taskVars
  /\ UNCHANGED <<deciding, cards, left>>

\* setActive(): the roster changes at any time.
SetActive(a) ==
  /\ Uses("flip", MaxFlips)
  /\ active' = IF a \in active THEN active \ {a} ELSE active \cup {a}
  /\ UNCHANGED <<chain, pc, mode, queue, aborted, budget, pq, pr, refused, handoff>>
  /\ UNCHANGED taskVars
  /\ UNCHANGED <<deciding, cards, stopped, left>>

\* setRoutingMode()
SetMode(m) ==
  /\ Uses("flip", MaxFlips)
  /\ m # mode
  /\ mode' = m
  /\ UNCHANGED <<chain, pc, active, queue, aborted, budget, pq, pr, refused, handoff>>
  /\ UNCHANGED taskVars
  /\ UNCHANGED <<deciding, cards, stopped, left>>

(* ---- taking the next task off the chain -------------------------------- *)

Takes(kind) ==
  /\ pc = "idle"
  /\ chain # <<>>
  /\ Head(chain).kind = kind
  /\ chain' = Tail(chain)
  /\ UNCHANGED <<mode, active, handoff, deciding, cards, used, stopped>>

\* The pass starts on `agents`; size is what the user turn starts with.
Dispatch(agents) ==
  /\ queue' = agents
  /\ aborted' = FALSE
  /\ pc' = "drain"
  /\ UNCHANGED taskVars

NothingToDo == UNCHANGED <<pc, queue, aborted, taskVars, left>>

\* process(): the user turn resets the budget and the refusals; a card that is
\* still open stays open.
TakesMessage == Takes("message") /\ budget' = 0 /\ refused' = {} /\ pr' = pr

NewTurn(n) == left' = n + MaxHops

\* A message with nobody to route to, or an unknown slash command.
TakeUnroutable ==
  /\ TakesMessage
  /\ UNCHANGED pq
  /\ NothingToDo

TakeMessage ==
  /\ TakesMessage
  /\ pq = None
  /\ \E S \in SUBSET active \ {{}} : \E targets \in Orders(S) :
       Dispatch(targets) /\ NewTurn(Len(targets))
  /\ UNCHANGED pq

\* The answer to a question goes to the asker as a follow-up.
TakeAnswer ==
  /\ TakesMessage
  /\ pq # None
  /\ pq.asker \in active
  /\ pq' = None
  /\ aborted' = FALSE
  /\ pc' = "wave"
  /\ wave' = <<pq.asker>>
  /\ stage' = [a \in Agents |-> IF a = pq.asker THEN "snap" ELSE "off"]
  /\ out' = [a \in Agents |-> "none"]
  /\ resume' = TRUE
  /\ kept' = pq.held
  /\ NewTurn(1 + Len(pq.held))
  /\ UNCHANGED <<queue, idx, asks, proposed>>

\* Mutant: "/cancel" forgets the held queue.
TakeCancelForgetful ==
  /\ TakesMessage
  /\ pq # None
  /\ pq' = None
  /\ Dispatch(<<>>)
  /\ NewTurn(Len(pq.held))

\* "/cancel", or the asker has left: the held queue resumes alone.
TakeCancel ==
  /\ TakesMessage
  /\ pq # None
  /\ pq' = None
  /\ Dispatch(pq.held)
  /\ NewTurn(Len(pq.held))

\* processOrchestratorReport(): passive while the room is paused.
TakeReport(target) ==
  /\ Takes("report")
  /\ UNCHANGED <<pq, pr, refused>>
  /\ IF pq # None \/ pr # None \/ target \notin active
     THEN NothingToDo /\ UNCHANGED budget
     ELSE Dispatch(<<target>>) /\ budget' = 0 /\ NewTurn(1)

\* Mutant: targets that are held already are enqueued again.
DecideTwice(targets) ==
  /\ pr' = None
  /\ \E fresh \in Orders(targets) :
       /\ Dispatch(pr.held \o fresh)
       /\ budget' = budget + Len(fresh)
  /\ UNCHANGED <<pq, refused, left>>

\* processRouteDecision() with the targets the decision comes to.
Decide(targets) ==
  /\ pr' = None
  /\ \E fresh \in Orders(targets \ ToSet(pr.held)) :
       /\ Dispatch(pr.held \o fresh)
       /\ budget' = budget + Len(fresh)
  /\ UNCHANGED <<pq, refused, left>>

\* approve, redirect to agents that are active, or drop
Decisions == {Targets(pr.hops)} \cup SUBSET active

\* accept (or no verdict: degraded), or transfer to others than the proposers
Verdicts == {Targets(pr.hops)} \cup SUBSET (active \ Proposers(pr.hops))

TakeDecision ==
  /\ Takes("decision")
  /\ IF pr = None
     THEN NothingToDo /\ UNCHANGED <<budget, pq, pr, refused>>
     ELSE \E targets \in Decisions : Decide(targets)

\* Mutant: the proposers run again in place of the held work.
RefuseForgetful ==
  /\ pr' = None
  /\ refused' = refused \cup pr.hops
  /\ LET again == (Proposers(pr.hops) \cap active) \ ToSet(pr.held)
     IN \E rerun \in Orders(IF budget >= MaxHops THEN {} ELSE again) :
          /\ Dispatch(rerun)
          /\ budget' = budget + Len(rerun)
  /\ UNCHANGED <<pq, left>>

\* processRouteRefusal(): the proposers run again, before the held work.
Refuse ==
  /\ pr' = None
  /\ refused' = refused \cup pr.hops
  /\ LET again == (Proposers(pr.hops) \cap active) \ ToSet(pr.held)
     IN \E rerun \in Orders(IF budget >= MaxHops THEN {} ELSE again) :
          /\ Dispatch(rerun \o pr.held)
          /\ budget' = budget + Len(rerun)
  /\ UNCHANGED <<pq, left>>

\* Mutant: the outcome is applied to whatever card is open.
TakeOutcomeUnguarded ==
  /\ Takes("outcome")
  /\ IF pr = None
     THEN NothingToDo /\ UNCHANGED <<budget, pq, pr, refused>>
     ELSE Refuse \/ \E targets \in Verdicts : Decide(targets)

\* Mutant: a session without a verdict leaves the card as it is.
TakeOutcomeUndecided ==
  /\ Takes("outcome")
  /\ \/ NothingToDo /\ UNCHANGED <<budget, pq, pr, refused>>
     \/ /\ pr # None /\ pr.card = Head(chain).card
        /\ Refuse \/ \E targets \in Verdicts : Decide(targets)

\* applySupervisorOutcome(), behind the identity guard of the card.
TakeOutcome ==
  /\ Takes("outcome")
  /\ IF pr = None \/ pr.card # Head(chain).card
     THEN NothingToDo /\ UNCHANGED <<budget, pq, pr, refused>>
     ELSE Refuse \/ \E targets \in Verdicts : Decide(targets)

Take ==
  \/ TakeUnroutable \/ TakeMessage \/ TakeAnswer \/ TakeCancel
  \/ \E a \in Agents : TakeReport(a)
  \/ TakeDecision \/ TakeOutcome

(* ---- drainQueue: the next wave ------------------------------------------ *)

\* nextGroup(): the head alone, or the whole run of parallel agents.
GroupSize(n) ==
  /\ n \in DOMAIN queue
  /\ IF queue[1] \in Parallel
     THEN /\ \A i \in 1..n : queue[i] \in Parallel
          /\ n < Len(queue) => queue[n + 1] \notin Parallel
     ELSE n = 1

StartWave ==
  /\ pc = "drain" /\ queue # <<>> /\ ~aborted
  /\ \E n \in DOMAIN queue :
       /\ GroupSize(n)
       /\ wave' = SubSeq(queue, 1, n)
       /\ queue' = SubSeq(queue, n + 1, Len(queue))
  /\ stage' = [a \in Agents |-> IF a \in Range(wave') THEN "snap" ELSE "off"]
  /\ out' = [a \in Agents |-> "none"]
  /\ pc' = "wave" /\ resume' = FALSE /\ kept' = <<>>
  /\ UNCHANGED <<chain, mode, active, aborted, budget, pq, pr, refused, handoff>>
  /\ UNCHANGED <<idx, asks, proposed, noteVars>>

ForgetTask ==
  /\ wave' = <<>> /\ idx' = 0 /\ asks' = None /\ proposed' = {}
  /\ stage' = [a \in Agents |-> "off"] /\ out' = [a \in Agents |-> "none"]
  /\ resume' = FALSE /\ kept' = <<>>

\* The loop ends; the caller empties the queue and endTurn() begins.
EndDrain ==
  /\ pc = "drain" /\ (queue = <<>> \/ aborted)
  /\ queue' = <<>> /\ refused' = {} /\ pc' = "close"
  /\ ForgetTask
  /\ UNCHANGED <<chain, mode, active, aborted, budget, pq, pr, handoff, noteVars>>

\* The last awaits of a task: the workspace is broadcast, the room saved.
Close ==
  /\ pc = "close" /\ pc' = "idle"
  /\ stopped' = FALSE
  /\ UNCHANGED <<chain, mode, active, queue, aborted, budget, pq, pr, refused, handoff>>
  /\ UNCHANGED <<taskVars, deciding, cards, used, left>>

(* ---- runWave and executeAgent, one instance per member ------------------ *)

AgentStep(a, from) ==
  /\ pc = "wave" /\ stage[a] = from
  /\ UNCHANGED <<chain, pc, mode, active, queue, aborted, budget, pq, pr, refused>>
  /\ UNCHANGED <<wave, idx, asks, proposed, resume, kept>>
  /\ UNCHANGED <<deciding, cards, used, stopped>>

\* The local lane runs one member after another.
LaneFree(a) ==
  \A j \in DOMAIN wave : wave[j] = a =>
    \A i \in 1..(j - 1) : wave[i] \in Local => stage[wave[i]] = "done"

\* The snapshot before the turn is taken; a local agent asks for a slot.
Snapshot(a) ==
  /\ AgentStep(a, "snap")
  /\ a \in Local /\ LaneFree(a)
  /\ stage' = [stage EXCEPT ![a] = "lock"]
  /\ UNCHANGED <<out, handoff, left>>

\* Mutant: Stop is not looked at once the slot is there.
BeginRegardless(a) ==
  /\ AgentStep(a, IF a \in Local THEN "lock" ELSE "snap")
  /\ stage' = [stage EXCEPT ![a] = "gen"]
  /\ left' = left - 1
  /\ UNCHANGED <<out, handoff>>

\* Mutant: a stopped member never settles.
BeginHangs(a) ==
  /\ AgentStep(a, IF a \in Local THEN "lock" ELSE "snap")
  /\ ~aborted
  /\ stage' = [stage EXCEPT ![a] = "gen"]
  /\ left' = left - 1
  /\ UNCHANGED <<out, handoff>>

\* The slot is there (at once for a cloud agent): the turn starts, unless the
\* room was stopped meanwhile.
Begin(a) ==
  /\ AgentStep(a, IF a \in Local THEN "lock" ELSE "snap")
  /\ IF aborted
     THEN /\ stage' = [stage EXCEPT ![a] = "done"]
          /\ out' = [out EXCEPT ![a] = "skip"]
          /\ UNCHANGED left
     ELSE /\ stage' = [stage EXCEPT ![a] = "gen"]
          /\ left' = left - 1
          /\ UNCHANGED out
  /\ UNCHANGED handoff

\* Mutant: the tool takes any active agent, the caller included.
HandsOffToAnyone(a) ==
  \/ UNCHANGED handoff
  \/ /\ handoff[a] = None
     /\ mode = "auto" \/ cards < MaxCards
     /\ \E b \in active : handoff' = [handoff EXCEPT ![a] = b]

\* The handoff tool, at most once in a turn, to an active agent.  (Bound: in
\* a mode that reviews handoffs, only while cards are left.)
HandsOff(a) ==
  \/ UNCHANGED handoff
  \/ /\ handoff[a] = None
     /\ mode = "auto" \/ cards < MaxCards
     /\ \E b \in active \ {a} : handoff' = [handoff EXCEPT ![a] = b]

\* run() or followUp() returns: a reply, a reply with a question, or a reply
\* cut short by Stop or a provider error.
Speak(a) ==
  /\ AgentStep(a, "gen")
  /\ stage' = [stage EXCEPT ![a] = "after"]
  /\ \E o \in IF aborted THEN {"cut"} ELSE {"said", "asked", "cut"} :
       out' = [out EXCEPT ![a] = o]
  /\ HandsOff(a)
  /\ UNCHANGED left

\* run() throws: the result is null, a handoff made before stays registered.
Throw(a) ==
  /\ AgentStep(a, "gen")
  /\ stage' = [stage EXCEPT ![a] = "done"]
  /\ out' = [out EXCEPT ![a] = "skip"]
  /\ HandsOff(a)
  /\ UNCHANGED left

\* The snapshot after the turn is taken.
Finish(a) ==
  /\ AgentStep(a, "after")
  /\ stage' = [stage EXCEPT ![a] = "done"]
  /\ UNCHANGED <<out, handoff, left>>

AgentRuns(a) == Snapshot(a) \/ Begin(a) \/ Speak(a) \/ Throw(a) \/ Finish(a)

Collect ==
  /\ WaveOver
  /\ pc' = "post" /\ idx' = 1 /\ asks' = None /\ proposed' = {}
  /\ UNCHANGED <<chain, mode, active, queue, aborted, budget, pq, pr, refused, handoff>>
  /\ UNCHANGED <<wave, stage, out, resume, kept, noteVars>>

(* ---- drainQueue: the results are posted in wave order -------------------- *)

\* The line the results feed: the live queue, or the held queue of an answer.
Line == IF resume THEN kept ELSE queue

LineBecomes(l) ==
  IF resume THEN kept' = l /\ UNCHANGED queue ELSE queue' = l /\ UNCHANGED kept

PostFrame ==
  /\ UNCHANGED <<chain, mode, active, aborted, pq, pr, refused>>
  /\ UNCHANGED <<wave, stage, out, resume, noteVars>>

Posting(a) ==
  /\ pc = "post" /\ idx \in DOMAIN wave /\ a = wave[idx]
  /\ PostFrame

ToNext == idx' = idx + 1 /\ UNCHANGED pc

HandoffTaken(a) == handoff' = [handoff EXCEPT ![a] = None]

\* The first question of the wave will pause the room.
QuestionNoted(a) == asks' = IF out[a] = "asked" /\ asks = None THEN a ELSE asks

\* proposeChain() is called for this result.
Chains(a) ==
  /\ out[a] \in {"said", "asked"} /\ mode # "manual"
  /\ ~(resume /\ out[a] = "asked")

\* resolveHandoff(): who the reply is handed to.
HandedTo(a) == {b \in active : handoff[a] = b}

PostSkipped(a) ==
  /\ Posting(a) /\ out[a] = "skip"
  /\ ToNext
  /\ UNCHANGED <<queue, kept, budget, handoff, asks, proposed>>

\* A cut reply, or a mode without chaining: the handoff is discarded.
PostUnchained(a) ==
  /\ Posting(a) /\ out[a] # "skip"
  /\ out[a] = "cut" \/ mode = "manual"
  /\ HandoffTaken(a)
  /\ QuestionNoted(a)
  /\ ToNext
  /\ UNCHANGED <<queue, kept, budget, proposed>>

\* The asker asks again: re-paused before its handoff is looked at.
PostAskedAgain(a) ==
  /\ Posting(a) /\ resume /\ out[a] = "asked" /\ mode # "manual"
  /\ QuestionNoted(a)
  /\ ToNext
  /\ UNCHANGED <<queue, kept, budget, handoff, proposed>>

\* Handed to an agent that is in line already.
PostCoalesced(a) ==
  /\ Posting(a) /\ Chains(a)
  /\ HandedTo(a) # {} /\ HandedTo(a) \subseteq ToSet(Line)
  /\ HandoffTaken(a)
  /\ QuestionNoted(a)
  /\ ToNext
  /\ UNCHANGED <<queue, kept, budget, proposed>>

\* Mutant: the hop is neither charged to the budget nor stopped by it.
PostHandedOffFree(a) ==
  /\ Posting(a) /\ Chains(a) /\ mode = "auto"
  /\ \E b \in HandedTo(a) \ ToSet(Line) :
       LineBecomes(IF resume THEN <<b>> \o Line ELSE Line \o <<b>>)
  /\ UNCHANGED budget
  /\ HandoffTaken(a)
  /\ QuestionNoted(a)
  /\ ToNext
  /\ UNCHANGED proposed

\* Mutant: the target is not looked up in the line.
PostHandedOffTwice(a) ==
  /\ Posting(a) /\ Chains(a) /\ mode = "auto"
  /\ \E b \in HandedTo(a) :
       IF budget < MaxHops
       THEN /\ LineBecomes(IF resume THEN <<b>> \o Line ELSE Line \o <<b>>)
            /\ budget' = budget + 1
       ELSE UNCHANGED <<queue, kept, budget>>
  /\ HandoffTaken(a)
  /\ QuestionNoted(a)
  /\ ToNext
  /\ UNCHANGED proposed

\* auto: the target joins the line, if the budget lets it.
PostHandedOff(a) ==
  /\ Posting(a) /\ Chains(a) /\ mode = "auto"
  /\ \E b \in HandedTo(a) \ ToSet(Line) :
       IF budget < MaxHops
       THEN /\ LineBecomes(IF resume THEN <<b>> \o Line ELSE Line \o <<b>>)
            /\ budget' = budget + 1
       ELSE UNCHANGED <<queue, kept, budget>>
  /\ HandoffTaken(a)
  /\ QuestionNoted(a)
  /\ ToNext
  /\ UNCHANGED proposed

\* semi, supervised: the hop is proposed; one proposal per target.
PostProposed(a) ==
  /\ Posting(a) /\ Chains(a) /\ mode # "auto"
  /\ \E b \in HandedTo(a) \ ToSet(Line) :
       proposed' = IF b \in Targets(proposed) THEN proposed
                   ELSE proposed \cup {<<a, b>>}
  /\ HandoffTaken(a)
  /\ QuestionNoted(a)
  /\ ToNext
  /\ UNCHANGED <<queue, kept, budget>>

MayFollow(b, a) == b \in active \ {a} /\ b \notin ToSet(Line)

\* The owner of the plan's next step is called, or else the fallback agent.
RouteTo(b) ==
  /\ LineBecomes(Line \o <<b>>)
  /\ budget' = budget + 1

RouteOrStop(a, candidates) ==
  IF \E b \in candidates : MayFollow(b, a)
  THEN \E b \in candidates : MayFollow(b, a) /\ RouteTo(b)
  ELSE UNCHANGED <<queue, kept, budget>>

\* No handoff: the room routes by itself.  With a plan adopted it first reads
\* the plan from disk, and the event loop runs meanwhile.
PostEnding(a) ==
  /\ Posting(a) /\ Chains(a) /\ HandedTo(a) = {}
  /\ HandoffTaken(a)
  /\ QuestionNoted(a)
  /\ IF budget < MaxHops /\ PlanOwner # None
     THEN /\ pc' = "lookup"
          /\ UNCHANGED <<idx, queue, kept, budget>>
     ELSE /\ ToNext
          /\ IF budget < MaxHops THEN RouteOrStop(a, {Fallback})
             ELSE UNCHANGED <<queue, kept, budget>>
  /\ UNCHANGED proposed

\* The plan is read.  After a Stop the array at hand may be the one that Stop
\* replaced: the call then goes nowhere, charged or not.
LookedUp(a) ==
  /\ pc = "lookup" /\ a = wave[idx]
  /\ PostFrame
  /\ pc' = "post" /\ idx' = idx + 1
  /\ \/ RouteOrStop(a, IF MayFollow(PlanOwner, a) THEN {PlanOwner} ELSE {Fallback})
     \/ aborted /\ ~resume /\ budget' \in {budget, budget + 1} /\ UNCHANGED <<queue, kept>>
  /\ UNCHANGED <<handoff, asks, proposed>>

PostResult(a) ==
  \/ PostSkipped(a) \/ PostUnchained(a) \/ PostAskedAgain(a)
  \/ PostCoalesced(a) \/ PostHandedOff(a) \/ PostProposed(a)
  \/ PostEnding(a) \/ LookedUp(a)

(* ---- drainQueue: what the wave leads to ---------------------------------- *)

Posted == pc = "post" /\ idx > Len(wave)

TailFrame == UNCHANGED <<chain, mode, active, aborted, refused, handoff, used, stopped, left>>

\* The first asker's question pauses the room; proposals of the wave are lost.
TailAsk ==
  /\ Posted /\ asks # None
  /\ pq' = [asker |-> asks, held |-> Line]
  /\ queue' = <<>> /\ pc' = "close"
  /\ ForgetTask
  /\ TailFrame
  /\ UNCHANGED <<budget, pr, deciding, cards>>

TailOn ==
  /\ Posted /\ asks = None /\ proposed = {}
  /\ queue' = Line /\ pc' = "drain"
  /\ ForgetTask
  /\ TailFrame
  /\ UNCHANGED <<budget, pq, pr, deciding, cards>>

\* A route card is opened on these hops.
OpensCard(hops, line, judge) ==
  /\ pr' = [card |-> cards + 1, hops |-> hops, held |-> line, judge |-> judge]
  /\ cards' = cards + 1
  /\ queue' = <<>> /\ pc' = "close"
  /\ ForgetTask

\* The human approves, redirects or drops.
TailCard ==
  /\ Posted /\ asks = None /\ proposed # {} /\ mode # "supervised"
  /\ OpensCard(proposed, Line, "human")
  /\ TailFrame
  /\ UNCHANGED <<budget, pq, deciding>>

(* superviseProposals(): each step may extend the line and spend budget.     *)

\* Mutant: targets that are in line already are enqueued again.
EnqueuedTwice(targets, line, spent) ==
  IF targets = {} \/ spent >= MaxHops THEN {<<line, spent>>}
  ELSE {<<IF resume THEN o \o line ELSE line \o o, spent + Cardinality(targets)>> :
          o \in Orders(targets)}

\* enqueue(): the lines and budgets that adding `targets` can lead to.
Enqueued(targets, line, spent) ==
  LET fresh == targets \ ToSet(line)
  IN IF fresh = {} \/ spent >= MaxHops THEN {<<line, spent>>}
     ELSE {<<IF resume THEN o \o line ELSE line \o o, spent + Cardinality(fresh)>> :
             o \in Orders(fresh)}

\* A hop refused in this turn is not reviewed again: the fallback agent runs.
Escapes ==
  IF Fallback \in active /\ \E h \in proposed \cap refused : h[1] # Fallback
  THEN {Fallback} ELSE {}

\* Mutant: refused hops are reviewed like any other.
UnrefusedAll == proposed

Unrefused == proposed \ refused
HatSwitches == {h \in Unrefused : Seat[h[1]] = Seat[h[2]]}
Between == Unrefused \ HatSwitches
Reviewed == Supervisor \in active /\ \E h \in Between : h[1] # Supervisor

TailSupervise ==
  /\ Posted /\ asks = None /\ proposed # {} /\ mode = "supervised"
  /\ \E first \in Enqueued(Escapes, Line, budget) :
     \E second \in Enqueued(Targets(HatSwitches), first[1], first[2]) :
       IF Reviewed
       THEN /\ budget' = second[2]
            /\ OpensCard(Between, second[1], "supervisor")
            /\ deciding' = deciding \cup {cards + 1}
       ELSE \E third \in Enqueued(Targets(Between), second[1], second[2]) :
            /\ queue' = third[1] /\ budget' = third[2]
            /\ pc' = "drain"
            /\ ForgetTask
            /\ UNCHANGED <<pr, cards, deciding>>
  /\ TailFrame
  /\ UNCHANGED pq

WaveTail == TailAsk \/ TailOn \/ TailCard \/ TailSupervise

(* ---- the specification --------------------------------------------------- *)

Outside ==
  \/ \E kind \in {"message", "report"} : Submit(kind)
  \/ Click \/ Stop
  \/ \E a \in Agents : SetActive(a)
  \/ \E m \in Modes : SetMode(m)

Room ==
  \/ Take \/ StartWave \/ EndDrain \/ Collect \/ Close
  \/ \E a \in Agents : AgentRuns(a) \/ PostResult(a)
  \/ WaveTail

Next == Room \/ Outside \/ \E c \in deciding : SupervisorDone(c)

\* The event loop runs what is ready, an agent's turn and a supervisor's
\* session end, and the local lock serves its waiters (WaiterServed of
\* LocalModelLock).  Nothing is assumed of the outside.
Fairness == WF_vars(Room) /\ WF_vars(\E c \in deciding : SupervisorDone(c))

Spec == Init /\ [][Next]_vars /\ Fairness

(* ---- properties ---------------------------------------------------------- *)

Question == [asker : Agents, held : Seq(Agents)]
Card == [card : Nat, hops : SUBSET Hop, held : Seq(Agents), judge : {"human", "supervisor"}]
ASSUME NoneAssumption == None \notin Question /\ None \notin Card
Task == [kind : {"message", "report", "decision", "outcome"}, card : Nat]

RoomTyped ==
  /\ chain \in Seq(Task)
  /\ pc \in {"idle", "drain", "wave", "post", "lookup", "close"}
  /\ mode \in Modes /\ active \subseteq Agents /\ aborted \in BOOLEAN
  /\ queue \in Seq(Agents) /\ budget \in Nat
  /\ pq \in Maybe(Question) /\ pr \in Maybe(Card)
  /\ refused \subseteq Hop
  /\ \A a \in Agents : handoff[a] \in Maybe(Agents \ {a})
  /\ DOMAIN handoff = Agents

TaskTyped ==
  /\ wave \in Seq(Agents) /\ kept \in Seq(Agents)
  /\ stage \in [Agents -> {"off", "snap", "lock", "gen", "after", "done"}]
  /\ out \in [Agents -> {"none", "skip", "cut", "said", "asked"}]
  /\ idx \in Nat /\ asks \in Maybe(Agents)
  /\ proposed \subseteq Hop /\ resume \in BOOLEAN

NotesTyped ==
  /\ deciding \subseteq Nat /\ cards \in Nat /\ left \in Int
  /\ stopped \in BOOLEAN
  /\ used \in [{"input", "click", "stop", "flip"} -> Nat]

TypeOK == RoomTyped /\ TaskTyped /\ NotesTyped

\* No line of agents names one twice: an agent is never run twice back to
\* back, and the one session of a parallel agent never runs twice at once.
NoAgentTwice ==
  /\ IsInjective(queue) /\ IsInjective(kept) /\ IsInjective(wave)
  /\ pq # None => IsInjective(pq.held)
  /\ pr # None => IsInjective(pr.held)

\* After Stop no agent of the task at work starts its turn, however far it had
\* got: queued, in a wave, taking its snapshot or waiting for the local slot.
StopSticks ==
  [][\A a \in Agents : stage[a] # "gen" /\ stage'[a] = "gen" => ~stopped]_vars

\* One user turn runs the agents it started with and at most MaxHops more,
\* across its questions and answers (docs/REFERENCE.md: the loop safety net).
ChainBounded == left >= 0

\* Agents that still have to run: in a line, or held by a pause.
Owed ==
  ToSet(queue) \cup ToSet(kept)
    \cup (IF pq = None THEN {} ELSE ToSet(pq.held))
    \cup (IF pr = None THEN {} ELSE ToSet(pr.held))

\* A second pause takes the place of one that is open.
PauseReplaced ==
  \/ pq # None /\ pq' # None /\ pq' # pq
  \/ pr # None /\ pr' # None /\ pr'.card # pr.card

\* Work that waits is launched or keeps waiting, through every pause, answer,
\* cancel, verdict, refusal and cascade; only Stop drops it, or a second pause
\* opened over the first.
WorkKept == [][Owed \subseteq Owed' \cup Range(wave') \/ aborted' \/ PauseReplaced]_vars

\* Every task that starts comes to its end: no lane, wave or posting loop
\* stops half-way.
TurnEnds == pc # "idle" ~> pc = "idle"

\* A card that waits for the supervisor has its session at work, or its
\* outcome on the chain: supervised routing never stalls.
JudgeAtWork ==
  pr # None /\ pr.judge = "supervisor" =>
    \/ pr.card \in deciding
    \/ \E t \in Range(chain) : t.kind = "outcome" /\ t.card = pr.card

\* The supervisor's cards are settled, by a verdict, a degraded session, a
\* human or a Stop: none stays open for ever.
CardSettled ==
  (pr # None /\ pr.judge = "supervisor") ~> (pr = None \/ pr.judge = "human")

\* A verdict settles the card it was asked about and no other, whatever
\* happened between: Stop, a human's decision, a newer card.
VerdictFitsCard ==
  [][\A c \in 1..cards :
       chain # <<>> /\ Head(chain) = [kind |-> "outcome", card |-> c]
         /\ chain' = Tail(chain) /\ pr' # pr => pr.card = c]_vars

\* A hop the supervisor refused is not put to it again in the same user turn.
RefusedRests ==
  pr # None /\ pr.judge = "supervisor" => pr.hops \cap refused = {}

\* (Refuted, see the findings.)  Stop: "Stop everything", yet the room may pause afterwards.
NoPauseAfterStop == stopped => pq = None /\ pr = None

\* (Refuted.)  The held queue of a card "resumes once the human approves /
\* redirects / drops".
HeldResumes ==
  [][pr # None => ToSet(pr.held) \subseteq Owed' \cup Range(wave') \/ aborted']_vars
=============================================================================
