------------------------------ MODULE MCEdits ------------------------------
(* What is edited while a room works: the hats and the session of a seat,    *)
(* the roster, the task board and the plans, the documents of presets, the   *)
(* command line.  Each is explored alone, the others stay in their initial   *)
(* states.                                                                   *)
EXTENDS SeatSession, RosterEdits, Board, PresetDoc, InputLine, TLC

CONSTANTS scout, builder, tester

\* A seat that two may share, with one tool for each, and a level its model
\* does not support.
CONSTANTS read, write, low, high, max

MCHats == {builder, tester}
MCTools == {read, write}
MCPrimitives == {"handoff"}
MCLevels == {low, high, max}
MCRefused == {max}

MCIds == {scout, builder, tester}

\* Two plans, and two conversations for a board.
CONSTANTS d1, d2, p1, p2

MCDiscussions == {d1, d2}
MCPlans == {p1, p2}
MCStatuses == {"pending", "completed"}

\* Two roles the program ships, of one the skills grow, the other gets some.
CONSTANTS planner, agent

MCRoles == {<<builder>>, <<planner>>}
MCCustoms == {<<agent>>}
MCShippedSkills ==
  (<<builder>> :> <<"absent", "live">>) @@ (<<planner>> :> <<"orch", "orch, author">>)

\* A handle and the one that names everyone, two commands and two pastes, of which
\* the second is a shell line.
MCLetters == {"a", "b"}
MCHandles == {<<"b">>}
MCAll == <<"a">>
MCPalette == << <<"a">>, <<"b">> >>
MCContent ==
  IF Hidden THEN ("P" :> <<"@", "b">>) @@ ("Q" :> <<"!", "b">>) ELSE "P" :> <<"@", "b">>

VARIABLE part

-----------------------------------------------------------------------------

MCInit ==
  /\ part \in {"seat", "edits", "board", "plan", "doc", "line"}
  /\ SessionInit /\ EditsInit /\ BoardInit /\ PresetInit /\ LineInit
  /\ onSeat = {builder} /\ persona[builder] = [level |-> low, tools |-> {read}]
  /\ part # "seat" => others /\ persona[tester] = persona[builder]
  /\ order = <<scout>>
  /\ discussion = d1 /\ completed = {}

MCNext ==
  \/ part = "seat" /\ SessionNext /\ UNCHANGED <<part, editVars, boardVars, presetVars, lineVars>>
  \/ part = "edits" /\ EditsNext /\ UNCHANGED <<part, sessionVars, boardVars, presetVars, lineVars>>
  \/ /\ \/ part = "board" /\ BoardNext /\ calls' = <<>> /\ completed' = completed
        \/ part = "plan" /\ BoardNext /\ tasks' = tasks
     /\ UNCHANGED <<part, sessionVars, editVars, presetVars, lineVars>>
  \/ part = "doc" /\ PresetNext /\ UNCHANGED <<part, sessionVars, editVars, boardVars, lineVars>>
  \/ part = "line" /\ LineNext /\ UNCHANGED <<part, sessionVars, editVars, boardVars, presetVars>>

MCSpec == MCInit /\ [][MCNext]_<<part, sessionVars, editVars, boardVars, presetVars, lineVars>>
=============================================================================
