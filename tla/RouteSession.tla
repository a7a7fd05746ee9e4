---------------------------- MODULE RouteSession ----------------------------
(***************************************************************************)
(* The sessions behind supervised routing (route-supervisor.ts): for each  *)
(* route card the room asks a supervisor in a session made for the one     *)
(* question.  A run prepares it (the prompt, the lazy imports, the         *)
(* session), prompts it until it decides, fails or runs out of time, and   *)
(* disposes of it; the outcome joins the room's chain, where it counts if  *)
(* its card is still the open one.  The room holds one handle to abort     *)
(* with, which a run sets when its session exists and clears when it ends. *)
(***************************************************************************)
EXTENDS Naturals, Sequences, FiniteSets

CONSTANTS
  Seats,       \* the active agents of the room
  Overtakes    \* a card may be stopped, or replaced, before its run is at work or over

CONSTANTS MaxRuns, MaxToolCalls     \* bounds of the model

ASSUME RouteOvertakesAssumption == Overtakes \in BOOLEAN
ASSUME RouteBoundsAssumption == MaxRuns \in Nat /\ MaxToolCalls \in Nat

Runs == 1 .. MaxRuns

VARIABLES
  card,        \* the run pendingRoute was given to, 0 when no card is open
  proposer,    \* per run, who proposed the hop
  stage,       \* per run: "none", "preparing", "prompting", "over"
  offered,     \* per run, the ids its route_decision takes for a transfer
  decision,    \* per run, what the tool captured
  toolCalls,   \* per run, calls of the tool
  terminated,  \* per run, a result ended the agent's loop
  aborting,    \* per run, its session was told to abort
  session,     \* per run: "none", "live", "disposed"
  abortHandle, \* supervisorAbort: the run it aborts, 0 when null
  outcomes,    \* runs whose outcome waits on the chain
  unwanted     \* history: runs whose card a Stop took away

roomSide == <<card, abortHandle, outcomes, unwanted>>
runSide == <<proposer, stage, offered, decision, toolCalls, terminated, aborting, session>>
routeVars == <<roomSide, runSide>>

Undecided == [verdict |-> "none", targets |-> {}]
AtWork(r) == stage[r] \in {"preparing", "prompting"}

RouteInit ==
  /\ card = 0 /\ abortHandle = 0 /\ outcomes = <<>> /\ unwanted = {}
  /\ proposer \in [Runs -> Seats] /\ stage = [r \in Runs |-> "none"]
  /\ offered = [r \in Runs |-> {}] /\ decision = [r \in Runs |-> Undecided]
  /\ toolCalls = [r \in Runs |-> 0] /\ terminated = [r \in Runs |-> FALSE]
  /\ aborting = [r \in Runs |-> FALSE] /\ session = [r \in Runs |-> "none"]

(* ---- a run --------------------------------------------------------------- *)

\* superviseProposals() opens a card, startSupervisorDecision() its run: whom a
\* transfer may go to is read now, the rest waits.
OpensCard(r) ==
  /\ card = 0 /\ stage[r] = "none" /\ \A q \in 1 .. (r - 1) : stage[q] # "none"
  /\ Overtakes \/ \A q \in Runs : ~AtWork(q)
  /\ card' = r
  /\ stage' = [stage EXCEPT ![r] = "preparing"]
  /\ offered' = [offered EXCEPT ![r] = Seats \ {proposer[r]}]
  /\ UNCHANGED <<abortHandle, outcomes, unwanted, proposer,
                 decision, toolCalls, terminated, aborting, session>>

\* The session exists: the room gets its handle, the timer and the prompt start.
Prepared(r) ==
  /\ stage[r] = "preparing"
  /\ session' = [session EXCEPT ![r] = "live"]
  /\ abortHandle' = r
  /\ stage' = [stage EXCEPT ![r] = "prompting"]
  /\ UNCHANGED <<card, outcomes, unwanted, proposer, offered, decision, toolCalls, terminated, aborting>>

\* A mutant: only a run that decided disposes of its session.
DeliversUndisposed(r) ==
  /\ stage' = [stage EXCEPT ![r] = "over"]
  /\ session' = [session EXCEPT ![r] = IF decision[r] # Undecided THEN "disposed" ELSE @]
  /\ abortHandle' = 0
  /\ outcomes' = Append(outcomes, r)
  /\ UNCHANGED <<card, unwanted, proposer, offered, decision, toolCalls, terminated, aborting>>

\* What every run ends with: the session disposed of, the handle cleared, the
\* outcome, decided or not, on the chain.
Delivers(r) ==
  /\ stage' = [stage EXCEPT ![r] = "over"]
  /\ session' = [session EXCEPT ![r] = IF @ = "live" THEN "disposed" ELSE @]
  /\ abortHandle' = 0
  /\ outcomes' = Append(outcomes, r)
  /\ UNCHANGED <<card, unwanted, proposer, offered, decision, toolCalls, terminated, aborting>>

\* The prompt's plan lookup, an import or createAgentSession() throws.
PrepareFails(r) == stage[r] = "preparing" /\ Delivers(r)

Captures(r, d) ==
  /\ decision' = [decision EXCEPT ![r] = d]
  /\ terminated' = [terminated EXCEPT ![r] = TRUE]

StandsAlready(r) ==
  /\ terminated' = [terminated EXCEPT ![r] = TRUE] /\ UNCHANGED decision

\* A mutant: a later call replaces what was decided.
DecidesAgain(r, verdict, targets) ==
  IF verdict # "transfer" THEN Captures(r, [verdict |-> verdict, targets |-> {}])
  ELSE IF targets \intersect offered[r] # {}
       THEN Captures(r, [verdict |-> verdict, targets |-> targets \intersect offered[r]])
       ELSE UNCHANGED <<decision, terminated>>

\* route_decision: the first call stands, a transfer to nobody it may go to is
\* an error to be retried, and only a result that stands ends the loop.
Decides(r, verdict, targets) ==
  IF decision[r] # Undecided THEN StandsAlready(r)
  ELSE IF verdict # "transfer" THEN Captures(r, [verdict |-> verdict, targets |-> {}])
  ELSE IF targets \intersect offered[r] # {}
       THEN Captures(r, [verdict |-> verdict, targets |-> targets \intersect offered[r]])
       ELSE UNCHANGED <<decision, terminated>>

\* A call by the model, the first of its reply or a later one of the same batch.
CallsDecision(r, verdict, targets) ==
  /\ stage[r] = "prompting" /\ ~aborting[r]
  /\ toolCalls[r] < MaxToolCalls
  /\ toolCalls' = [toolCalls EXCEPT ![r] = @ + 1]
  /\ Decides(r, verdict, targets)
  /\ UNCHANGED <<roomSide, proposer, stage, offered, aborting, session>>

SupervisorTimesOut(r) ==
  /\ stage[r] = "prompting" /\ ~aborting[r]
  /\ aborting' = [aborting EXCEPT ![r] = TRUE]
  /\ UNCHANGED <<roomSide, proposer, stage, offered, decision, toolCalls, terminated, session>>

\* prompt() resolves: after a decision, an abort, or a reply without a call.
PromptReturns(r) == stage[r] = "prompting" /\ Delivers(r)

(* ---- the room ------------------------------------------------------------ *)

\* The chained section: the outcome counts for the card it was asked about.
Settles ==
  /\ outcomes # <<>>
  /\ outcomes' = Tail(outcomes)
  /\ card' = IF card = Head(outcomes) THEN 0 ELSE card
  /\ UNCHANGED <<abortHandle, unwanted, runSide>>

\* A human's approval or drop of the open card does not end its run.
HumanSettles ==
  /\ card # 0
  /\ card' = 0
  /\ UNCHANGED <<abortHandle, outcomes, unwanted, runSide>>

\* A mutant: Stop drops the handle and does not call it.
StopRouteSilently ==
  /\ card # 0
  /\ Overtakes \/ stage[card] # "preparing"
  /\ card' = 0
  /\ unwanted' = unwanted \union {card}
  /\ abortHandle' = 0
  /\ UNCHANGED <<outcomes, runSide>>

\* abortCurrent(): the handle, if there is one, is called and dropped.
StopRoute ==
  /\ card # 0
  /\ Overtakes \/ stage[card] # "preparing"
  /\ card' = 0
  /\ unwanted' = unwanted \union {card}
  /\ aborting' = [r \in Runs |-> aborting[r] \/ (r = abortHandle /\ session[r] = "live")]
  /\ abortHandle' = 0
  /\ UNCHANGED <<outcomes, proposer, stage, offered, decision, toolCalls, terminated, session>>

-----------------------------------------------------------------------------

RunStep(r) ==
  \/ OpensCard(r) \/ Prepared(r) \/ PrepareFails(r)
  \/ \E verdict \in {"accept", "refuse", "transfer"}, targets \in SUBSET Seats :
       CallsDecision(r, verdict, targets)
  \/ SupervisorTimesOut(r) \/ PromptReturns(r)

RouteNext ==
  \/ \E r \in Runs : RunStep(r)
  \/ Settles \/ HumanSettles \/ StopRoute

\* The model's prompt resolves when it is aborted or done, and the timer aborts
\* it; preparing it ends one way or the other.  The chain goes on.
RouteFairness ==
  \A r \in Runs : /\ WF_routeVars(Prepared(r) \/ PrepareFails(r))
                  /\ WF_routeVars(SupervisorTimesOut(r))
                  /\ WF_routeVars(aborting[r] /\ PromptReturns(r))

RouteSpec == RouteInit /\ [][RouteNext]_routeVars /\ RouteFairness

-----------------------------------------------------------------------------
(* What is claimed of it *)

\* A stopped room prompts no supervisor (route-supervisor.ts: "a user Stop
\* must not leave a ghost micro-turn deciding into the void").
NoGhost == \A r \in unwanted : stage[r] = "prompting" => aborting[r]

\* Every run comes to its end, and leaves no session behind: a card waits for
\* nobody who is gone (route-supervisor.ts: "Never throws", "dispose on every path").
RunsEnd == \A r \in Runs : (stage[r] = "preparing") ~> (stage[r] = "over" /\ session[r] # "live")

\* The verdict is one the tool could take: the first valid one, a transfer to
\* somebody the run was offered and never back to the proposer, and it stands.
FirstStands ==
  [][\A r \in Runs :
       /\ decision[r] # Undecided => decision'[r] = decision[r]
       /\ decision'[r].verdict = "transfer" =>
            /\ decision'[r].targets # {}
            /\ decision'[r].targets \subseteq (offered[r] \ {proposer[r]})]_routeVars
=============================================================================
