------------------------------ MODULE SlotPool ------------------------------
(***************************************************************************)
(* What the room manager is promised by its process-global lock: a pool of *)
(* Capacity inference slots of the local llama-server, handed out in the   *)
(* order in which the callers asked.  A caller is one agent turn on the    *)
(* local lane of some room.                                                *)
(***************************************************************************)
EXTENDS Naturals, Sequences, FiniteSets

CONSTANTS Callers,   \* the agent turns that contend for a slot
          Capacity   \* config.localSlots

VARIABLES using,     \* the callers that own a slot
          waiting    \* the callers queued for one, oldest first

poolVars == <<using, waiting>>

Asking(c) == c \in using \/ \E i \in DOMAIN waiting : waiting[i] = c

Init ==
  /\ using = {}
  /\ waiting = <<>>

\* A free slot is taken at once.
Enter(c) ==
  /\ ~Asking(c)
  /\ Cardinality(using) < Capacity
  /\ using' = using \cup {c}
  /\ UNCHANGED waiting

\* With every slot taken the caller joins the end of the line.
Wait(c) ==
  /\ ~Asking(c)
  /\ Cardinality(using) >= Capacity
  /\ waiting' = Append(waiting, c)
  /\ UNCHANGED using

\* A slot given back goes straight to the head of the line, if there is one.
Leave(c) ==
  /\ c \in using
  /\ IF waiting = <<>>
     THEN using' = using \ {c} /\ UNCHANGED waiting
     ELSE using' = (using \ {c}) \cup {Head(waiting)} /\ waiting' = Tail(waiting)

Next == \E c \in Callers : Enter(c) \/ Wait(c) \/ Leave(c)

Spec == Init /\ [][Next]_poolVars
=============================================================================
