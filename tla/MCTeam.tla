------------------------------- MODULE MCTeam -------------------------------
(* Who is in a room and what binds them: the roster and its seats, the       *)
(* preset the line-up came from, the gates on its handoffs, the forms that   *)
(* make and edit agents and rooms.  Each is explored alone, the others stay  *)
(* in their initial states.                                                  *)
EXTENDS Roster, PresetDrift, HandoffGate, Form

CONSTANTS scout, builder, tester, pair, m1, m2

MCAgents == {scout, builder, tester}
MCShared == {pair}
MCModels == {m1, m2}

\* A builder with a gate for each kind of path, and a reviewer with a gate on
\* everything it hands on.
CONSTANTS srcs, docs

MCPaths == {srcs, docs}
MCGates == {[from |-> builder, via |-> scout, when |-> {srcs}],
            [from |-> builder, via |-> tester, when |-> {docs}],
            [from |-> scout, via |-> tester, when |-> {}]}

\* Three line-ups, all of whose models are available.
CONSTANTS seed, team, solo

MCLineups == {seed, team, solo}
Unchanged(l) == l

\* For the forms: two tools, two colours, two presets and a model.
MCTools == <<"t1", "t2">>
MCTints == <<"red", "blue">>
MCPresets == <<"alpha", "beta">>
MCKnown == <<"m1">>

VARIABLE part

-----------------------------------------------------------------------------

MCInit ==
  /\ part \in {"roster", "preset", "gate", "form"}
  /\ Init /\ DriftInit /\ GateInit /\ FormInit
  /\ part # "roster" => model = [a \in Agents |-> m1]
  /\ part # "preset" => file = Nothing
  /\ part # "gate" => agent = builder /\ present = Members
  /\ part # "form" => frontEnd = "ink"

MCNext ==
  \/ part = "roster" /\ Next /\ UNCHANGED <<part, driftVars, gateVars, formVars>>
  \/ part = "preset" /\ DriftNext /\ UNCHANGED <<part, vars, gateVars, formVars>>
  \/ part = "gate" /\ GateNext /\ UNCHANGED <<part, vars, driftVars, formVars>>
  \/ part = "form" /\ FormNext /\ UNCHANGED <<part, vars, driftVars, gateVars>>

MCSpec == MCInit /\ [][MCNext]_<<part, vars, driftVars, gateVars, formVars>>
=============================================================================
