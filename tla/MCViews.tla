------------------------------ MODULE MCViews ------------------------------
(* What is shown of a room: the transcript to its seats, a reply and the     *)
(* room's state to a client, the overlays of the terminal client's screen    *)
(* and its input.  Each is explored alone, the others stay in their initial  *)
(* states.                                                                   *)
EXTENDS RoomContext, LiveTurn, ClientSync, Screen, Prompt, TLC

\* Three hats: two share a seat, one of them and the third run in parallel.
CONSTANTS h1, h2, h3, s1, s2

MCHats == {h1, h2, h3}
MCSeats == {s1, s2}
MCMentions == {<<h1, h3>>, <<h2, h1>>, <<h3>>}
MCSeatOf == (h1 :> s1) @@ (h2 :> s1) @@ (h3 :> s2)

\* A handle and the one that names everyone, two commands and two pastes, of which
\* the second is a shell line.
MCLetters == {"a", "b"}
MCHandles == {<<"b">>}
MCAll == <<"a">>
MCPalette == << <<"a">>, <<"b">> >>
MCContent ==
  IF Veiled THEN ("P" :> <<"@", "b">>) @@ ("Q" :> <<"!", "b">>) ELSE "P" :> <<"@", "b">>

\* Two rooms of the strip, to type into.
CONSTANTS r1, r2
MCStrip == {r1, r2}

VARIABLE part

-----------------------------------------------------------------------------

MCInit ==
  /\ part \in {"context", "reply", "client", "screen", "prompt"}
  /\ Init /\ ReplyInit /\ SyncInit /\ ScreenInit /\ PromptInit
  /\ part # "client" => ordered

MCNext ==
  \/ /\ part = "context" /\ Next
     /\ UNCHANGED <<part, replyVars, syncVars, screenVars, promptVars>>
  \/ /\ part = "reply" /\ ReplyNext
     /\ UNCHANGED <<part, vars, syncVars, screenVars, promptVars>>
  \/ /\ part = "client" /\ SyncNext
     /\ UNCHANGED <<part, vars, replyVars, screenVars, promptVars>>
  \/ /\ part = "screen" /\ ScreenNext
     /\ UNCHANGED <<part, vars, replyVars, syncVars, promptVars>>
  \/ /\ part = "prompt" /\ PromptNext
     /\ UNCHANGED <<part, vars, replyVars, syncVars, screenVars>>

MCSpec ==
  /\ MCInit
  /\ [][MCNext]_<<part, vars, replyVars, syncVars, screenVars, promptVars>>

=============================================================================
