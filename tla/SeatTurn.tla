------------------------------ MODULE SeatTurn ------------------------------
(***************************************************************************)
(* One turn of an agent, below RoomTurn: RoomCore.executeAgent around      *)
(* Participant.run and the seat it borrows.  A seat is one session, that   *)
(* is one conversation, worn by one or several agents (its hats).  Hats of *)
(* one wave queue on the seat's turn lock; a turn is a series of prompts   *)
(* to the session, cut and re-prompted when the reasoning budget is spent; *)
(* Stop may come at any time.                                              *)
(***************************************************************************)
EXTENDS Integers, Sequences, FiniteSets, SequencesExt

CONSTANTS
  Hats,          \* the agents of the room
  Seats,         \* the seats
  SeatOf,        \* the seat of each agent
  Local,         \* agents on the local-model lane (persona.model), whose seat's
                 \* model is the local one too: their reasoning is budgeted
  MaxContinues   \* config.reasoningBudgetContinues

\* Bounds of the model: waves launched, Stops.
CONSTANTS MaxWaves, MaxStops

ASSUME HatsAssumption == IsFiniteSet(Hats) /\ SeatOf \in [Hats -> Seats] /\ Local \subseteq Hats
ASSUME ContinuesAssumption == MaxContinues \in Nat
ASSUME WavesAssumption == MaxWaves \in Nat /\ MaxStops \in Nat

VARIABLES
  phase,     \* how far each agent is
  flag,      \* Participant.externallyAborted
  aborted,   \* the room's abort flag
  line,      \* SeatRuntime.turnLock: the hats chained on it, the holder first
  worn,      \* currentHatId: the hat the seat's events and tools belong to
  breached,  \* ReasoningBudget.breached of the turn at work
  issued,    \* checkpoints issued in it
  prompts,   \* prompts sent to the session in it
  waves, stops

turnVars == <<phase, flag, aborted, line, worn>>
budgetVars == <<breached, issued, prompts>>
vars == <<turnVars, budgetVars, waves, stops>>

HatsOf(s) == {h \in Hats : SeatOf[h] = s}

\* room.running: from the snapshot before the turn to the one after it.
Running == {h \in Hats : phase[h] \in {"lock", "seat", "gen", "after"}}

Init ==
  /\ phase = [h \in Hats |-> "off"]
  /\ flag = [h \in Hats |-> FALSE]
  /\ aborted = FALSE
  /\ line = [s \in Seats |-> <<>>]
  /\ worn \in {w \in [Seats -> Hats] : \A s \in Seats : HatsOf(s) # {} => SeatOf[w[s]] = s}
  /\ breached = [h \in Hats |-> FALSE]
  /\ issued = [h \in Hats |-> 0]
  /\ prompts = [h \in Hats |-> 0]
  /\ waves = 0 /\ stops = 0

(* ---- the room ----------------------------------------------------------- *)

\* A wave starts: a task of the room that starts work has cleared `aborted`.
Launch(wave) ==
  /\ \A h \in Hats : phase[h] = "off"
  /\ waves < MaxWaves
  /\ waves' = waves + 1
  /\ phase' = [h \in Hats |-> IF h \in wave THEN "snap" ELSE "off"]
  /\ aborted' = FALSE
  /\ UNCHANGED <<flag, line, worn, budgetVars, stops>>

\* abortCurrent() sweeps the agents that run with Participant.abort().
Stop ==
  /\ stops < MaxStops
  /\ stops' = stops + 1
  /\ aborted' = TRUE
  /\ flag' = [h \in Hats |-> flag[h] \/ h \in Running]
  /\ UNCHANGED <<phase, line, worn, budgetVars, waves>>

(* ---- executeAgent before the turn ---------------------------------------- *)

\* run() queues on the seat, unless the room was stopped meanwhile.
Enters(h) ==
  IF aborted
  THEN phase' = [phase EXCEPT ![h] = "off"] /\ UNCHANGED line
  ELSE /\ phase' = [phase EXCEPT ![h] = "seat"]
       /\ line' = [line EXCEPT ![SeatOf[h]] = Append(@, h)]

\* The local lane runs one agent of the wave at a time.
LaneFree == \A h \in Local : phase[h] \in {"off", "snap"}

\* The snapshot before the turn is taken.
Snapped(h) ==
  /\ phase[h] = "snap"
  /\ IF h \in Local
     THEN LaneFree /\ phase' = [phase EXCEPT ![h] = "lock"] /\ UNCHANGED line
     ELSE Enters(h)
  /\ UNCHANGED <<flag, aborted, worn, budgetVars, waves, stops>>

\* The local model's slot is there.
GetsSlot(h) ==
  /\ phase[h] = "lock"
  /\ Enters(h)
  /\ UNCHANGED <<flag, aborted, worn, budgetVars, waves, stops>>

(* ---- Participant.run ------------------------------------------------------ *)

\* The turn is over: the finally block clears the flag and frees the seat.
Ends(h) ==
  /\ phase' = [phase EXCEPT ![h] = "after"]
  /\ flag' = [flag EXCEPT ![h] = FALSE]
  /\ line' = [line EXCEPT ![SeatOf[h]] = Tail(@)]

MayTakeSeat(h) == phase[h] = "seat" /\ Head(line[SeatOf[h]]) = h

\* The first prompt: a fresh budget, and the flag is cleared.
Starts(h) ==
  /\ phase' = [phase EXCEPT ![h] = "gen"]
  /\ flag' = [flag EXCEPT ![h] = FALSE]
  /\ breached' = [breached EXCEPT ![h] = FALSE]
  /\ issued' = [issued EXCEPT ![h] = 0]
  /\ prompts' = [prompts EXCEPT ![h] = 1]
  /\ UNCHANGED line

Wears(h) == worn' = [worn EXCEPT ![SeatOf[h]] = h]

\* Mutant: the flag raised during the wait is not looked at.
TakesSeatRegardless(h) ==
  /\ MayTakeSeat(h)
  /\ Wears(h)
  /\ Starts(h)
  /\ UNCHANGED <<aborted, waves, stops>>

\* Mutant: the turns of a seat are not chained.
TakesSeatUnchained(h) ==
  /\ phase[h] = "seat"
  /\ Wears(h)
  /\ IF flag[h] THEN Ends(h) /\ UNCHANGED budgetVars ELSE Starts(h)
  /\ UNCHANGED <<aborted, waves, stops>>

\* Mutant: the early return of a stopped hat does not free the seat.
TakesSeatKeeping(h) ==
  /\ MayTakeSeat(h)
  /\ Wears(h)
  /\ IF flag[h]
     THEN /\ phase' = [phase EXCEPT ![h] = "after"]
          /\ flag' = [flag EXCEPT ![h] = FALSE]
          /\ UNCHANGED <<line, budgetVars>>
     ELSE Starts(h)
  /\ UNCHANGED <<aborted, waves, stops>>

\* acquireTurn() resolves.  A flag raised during the wait ends the turn before
\* it starts.
TakesSeat(h) ==
  /\ MayTakeSeat(h)
  /\ Wears(h)
  /\ IF flag[h] THEN Ends(h) /\ UNCHANGED budgetVars ELSE Starts(h)
  /\ UNCHANGED <<aborted, waves, stops>>

\* The thinking-delta watchdog: the budget is spent, the generation is cut.
Breaches(h) ==
  /\ phase[h] = "gen" /\ h \in Local
  /\ ~breached[h]
  /\ breached' = [breached EXCEPT ![h] = TRUE]
  /\ UNCHANGED <<turnVars, issued, prompts, waves, stops>>

\* Mutant: a Stop is taken for the watchdog's own abort.
CheckpointDeaf(h) ==
  /\ breached[h] /\ issued[h] <= MaxContinues
  /\ issued' = [issued EXCEPT ![h] = @ + 1]
  /\ breached' = [breached EXCEPT ![h] = FALSE]
  /\ prompts' = [prompts EXCEPT ![h] = @ + 1]
  /\ UNCHANGED <<phase, flag, line>>

\* Mutant: one checkpoint too many.
CheckpointOffByOne(h) ==
  /\ breached[h] /\ ~flag[h] /\ issued[h] <= MaxContinues + 1
  /\ issued' = [issued EXCEPT ![h] = @ + 1]
  /\ breached' = [breached EXCEPT ![h] = FALSE]
  /\ prompts' = [prompts EXCEPT ![h] = @ + 1]
  /\ UNCHANGED <<phase, flag, line>>

\* The watchdog, and nobody else, cut the prompt, and a checkpoint is left: the
\* session is prompted again with it.
Checkpoint(h) ==
  /\ breached[h] /\ ~flag[h] /\ issued[h] <= MaxContinues
  /\ issued' = [issued EXCEPT ![h] = @ + 1]
  /\ breached' = [breached EXCEPT ![h] = FALSE]
  /\ prompts' = [prompts EXCEPT ![h] = @ + 1]
  /\ UNCHANGED <<phase, flag, line>>

\* The prompt resolves, or throws (and then the turn ends, whatever is left of
\* the budget).
RoundEnds(h) ==
  /\ phase[h] = "gen"
  /\ (Ends(h) /\ UNCHANGED budgetVars) \/ Checkpoint(h)
  /\ UNCHANGED <<aborted, worn, waves, stops>>

\* The snapshot after the turn is taken: executeAgent returns.
Finishes(h) ==
  /\ phase[h] = "after"
  /\ phase' = [phase EXCEPT ![h] = "off"]
  /\ UNCHANGED <<flag, aborted, line, worn, budgetVars, waves, stops>>

Turn(h) == Snapped(h) \/ GetsSlot(h) \/ TakesSeat(h) \/ RoundEnds(h) \/ Finishes(h)

Next ==
  \/ \E wave \in SUBSET Hats \ {{}} : Launch(wave)
  \/ Stop
  \/ \E h \in Hats : Turn(h) \/ Breaches(h)

\* The event loop runs what is ready; a prompt ends (the provider answers, or
\* its client gives up).  The watchdog and the outside are under no fairness.
Fairness == \A h \in Hats : WF_vars(Turn(h))

Spec == Init /\ [][Next]_vars /\ Fairness

(* ---- properties ----------------------------------------------------------- *)

\* The hats of a seat speak one at a time, in the order in which they queued,
\* and what the session emits meanwhile (tokens, tool calls, the tools it may
\* use) is put down to the hat that speaks (seat-runtime.ts, acquireTurn).
OneVoice ==
  \A h \in Hats : phase[h] = "gen" =>
    /\ line[SeatOf[h]] # <<>> /\ Head(line[SeatOf[h]]) = h
    /\ worn[SeatOf[h]] = h
    /\ \A g \in HatsOf(SeatOf[h]) : phase[g] = "gen" => g = h

\* After Stop, wherever it finds an agent (at its snapshot, waiting for the
\* local model, waiting for its seat, between two rounds), no session is
\* prompted until a task of the room starts work again (room-core.ts:1094,
\* participant.ts:365 and 323).
StopHonoured ==
  [][\A h \in Hats :
       (phase[h] # "gen" /\ phase'[h] = "gen") \/ (phase[h] = "gen" /\ prompts'[h] > prompts[h])
       => ~aborted]_vars

\* An agent that overthinks is prompted at most MaxContinues + 2 times a turn:
\* once, once per offer to continue, once to answer now (reasoning-budget.ts).
RoundsBounded == \A h \in Hats : prompts[h] <= MaxContinues + 2

\* An agent of a wave is done with it eventually: its seat is freed by whoever
\* holds it, however that turn ends.
TurnOver == \A h \in Hats : phase[h] = "snap" ~> phase[h] = "off"

\* A seat is a pool of one: it is handed on in the order of asking.
SeatPool(s) ==
  INSTANCE SlotPool WITH
    Callers <- HatsOf(s),
    Capacity <- 1,
    using <- IF line[s] = <<>> THEN {} ELSE {Head(line[s])},
    waiting <- IF line[s] = <<>> THEN <<>> ELSE Tail(line[s])

ImplementsPool ==
  /\ \A s \in Seats : SeatPool(s)!Init
  /\ [][\A s \in Seats : line'[s] = line[s] \/ SeatPool(s)!Next]_vars

\* participant.ts:410 says the flag is cleared lest the next turn take it for an
\* abort of its own wait, and seat-abort.test.ts:85 that there is "no stale
\* skip": a turn is skipped at its seat only in a room that is stopped.
NoStaleSkip ==
  [][\A h \in Hats : phase[h] = "seat" /\ phase'[h] = "after" => aborted]_vars
=============================================================================
