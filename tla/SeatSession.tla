---------------------------- MODULE SeatSession ----------------------------
(***************************************************************************)
(* One seat and the session behind it (SeatRuntime, Participant).  The     *)
(* hats of the seat share one session, built from all of them: its toolset *)
(* is the union of theirs, its prompt tells a lone agent of no teammates.  *)
(* A turn wears one hat: when it takes the seat it becomes the current     *)
(* hat, whose thinking level the session is given and against whose own    *)
(* tools each call is checked.  Edits of the hats, and a change of who     *)
(* else takes part, dispose of the session and build it again, which       *)
(* waits.                                                                  *)
(***************************************************************************)
EXTENDS Naturals, Sequences, FiniteSets

CONSTANTS
  Hats,              \* agents that may sit on the seat
  Levels,            \* thinking levels
  Refused,           \* the levels the seat's model does not support
  Tools,             \* tools of an allowlist
  Default,           \* the room's default level when the seat was created
  NoLevel,           \* an agent that asks for no level of its own
  Primitives,        \* what the room grants: handoff, verdict
  RebuildsInTurns    \* the session may be rebuilt under a turn

CONSTANTS MaxBuilds  \* bound of the model: sessions built

ASSUME SeatLevelsAssumption == Default \in Levels /\ NoLevel \notin Levels
ASSUME SeatToolsAssumption == Tools \intersect Primitives = {}
ASSUME SeatBuildsAssumption == MaxBuilds \in Nat /\ RebuildsInTurns \in BOOLEAN

VARIABLES
  onSeat,            \* SeatRuntime.hats
  persona,           \* per hat, its thinking level and allowlist
  applied,           \* appliedThinkingLevel
  wearing,           \* currentHatId
  heard,             \* the hats with a handler
  sess,              \* the session: what it was built with, and its level
  building,          \* a rebuild is at work
  others,            \* somebody outside the seat takes part
  lined,             \* turnLock: the turns on the seat, the first one speaks
  speaking,          \* the session the first turn prompts, 0 before it does
  called             \* the last call of a tool

sessionVars ==
  <<onSeat, persona, applied, wearing, heard, sess, building, others, lined, speaking, called>>

Levelled(l) == IF l = NoLevel THEN Default ELSE l
Several(worn) == Cardinality(worn) > 1
Alone(worn, around) == Cardinality(worn) = 1 /\ ~around
UnionTools(worn) == UNION {persona[h].tools : h \in worn}

\* custom-tools: a handoff needs somebody to hand to.
Granted(worn, around) == Primitives \ (IF Alone(worn, around) THEN {"handoff"} ELSE {})

\* buildSession(): the session is made of the hats as they are.
Built(n, worn) ==
  [n |-> n, of |-> worn, lone |-> Alone(worn, others), level |-> applied,
   tools |-> UnionTools(worn) \union Granted(worn, others)]

NoCall == [hat |-> "none", tool |-> "none", ok |-> FALSE]
NobodySpeaks == speaking = 0

SessionInit ==
  \E h \in Hats :
    /\ onSeat = {h} /\ wearing = h /\ heard = {h}
    /\ persona \in [Hats -> [level : Levels \union {NoLevel}, tools : SUBSET Tools]]
    /\ applied = Levelled(persona[h].level)
    /\ others \in BOOLEAN
    /\ sess = Built(1, {h})
    /\ building = FALSE /\ lined = <<>> /\ speaking = 0 /\ called = NoCall

(* ---- a turn -------------------------------------------------------------- *)

\* run(), followUp(): the turn joins the line, with the level its agent has.
Lines(h) ==
  /\ h \in onSeat /\ h \in heard
  /\ \A i \in DOMAIN lined : lined[i].hat # h
  /\ lined' = Append(lined, [hat |-> h, wanted |-> Levelled(persona[h].level)])
  /\ UNCHANGED <<onSeat, persona, applied, wearing, heard, sess, building, others,
                 speaking, called>>

\* acquireTurn(): the session is given the level if it is not the one last
\* applied; a model that refuses it keeps what it has.
AppliesUnnoted(l) ==
  IF l = applied \/ l \in Refused THEN UNCHANGED <<applied, sess>>
  ELSE /\ sess' = [sess EXCEPT !.level = l]
       /\ UNCHANGED applied
AppliesLevel(l) ==
  IF l = applied \/ l \in Refused THEN UNCHANGED <<applied, sess>>
  ELSE /\ sess' = [sess EXCEPT !.level = l]
       /\ applied' = l

TakesTurn ==
  /\ lined # <<>> /\ NobodySpeaks
  /\ RebuildsInTurns \/ ~building
  /\ wearing' = Head(lined).hat
  /\ AppliesLevel(Head(lined).wanted)
  /\ speaking' = sess.n
  /\ UNCHANGED <<onSeat, persona, heard, building, others, lined, called>>

\* hatToolGate(): refused is what another hat of the seat owns and this does not.
GateOpen(hat, tool) == TRUE
Gate(hat, tool) ==
  \/ ~Several(sess.of)
  \/ hat \notin sess.of
  \/ tool \in persona[hat].tools
  \/ \A h \in sess.of : tool \notin persona[h].tools

CallsTool(t) ==
  /\ ~NobodySpeaks
  /\ t \in sess.tools
  /\ called' = [hat |-> wearing, tool |-> t, ok |-> Gate(wearing, t)]
  /\ UNCHANGED <<onSeat, persona, applied, wearing, heard, sess, building, others, lined,
                 speaking>>

ReleasesTurn ==
  /\ ~NobodySpeaks
  /\ lined' = Tail(lined) /\ speaking' = 0 /\ called' = NoCall
  /\ UNCHANGED <<onSeat, persona, applied, wearing, heard, sess, building, others>>

(* ---- edits --------------------------------------------------------------- *)

\* setThinkingLevel(): on a shared seat the session waits for the hat's turn.
SetThinkingAtOnce(h, l) ==
  /\ h \in onSeat
  /\ persona' = [persona EXCEPT ![h].level = l]
  /\ sess' = IF l \notin Refused THEN [sess EXCEPT !.level = l] ELSE sess
  /\ UNCHANGED <<onSeat, applied, wearing, heard, building, others, lined, speaking, called>>
SetThinking(h, l) ==
  /\ h \in onSeat
  /\ Several(onSeat) \/ l \notin Refused
  /\ persona' = [persona EXCEPT ![h].level = l]
  /\ sess' = IF Several(onSeat) THEN sess ELSE [sess EXCEPT !.level = l]
  /\ UNCHANGED <<onSeat, applied, wearing, heard, building, others, lined, speaking, called>>

\* rebuild(): the session is disposed of, another is awaited.
MayRebuild ==
  /\ sess.n < MaxBuilds
  /\ ~building
  /\ RebuildsInTurns \/ lined = <<>>
Rebuilds == MayRebuild /\ building' = TRUE

\* addHat(), removeHat(), replaceHat(): none of them waits for a turn.
AddHat(h) ==
  /\ h \notin onSeat
  /\ onSeat' = onSeat \union {h}
  /\ Rebuilds
  /\ UNCHANGED <<persona, applied, wearing, heard, sess, others, lined, speaking, called>>

\* kick() and reseat() take a hat off; one that is still in line has its turn.
RemoveHat(h) ==
  /\ h \in onSeat /\ Several(onSeat)
  /\ onSeat' = onSeat \ {h} /\ heard' = heard \ {h}
  /\ \/ wearing # h /\ UNCHANGED wearing
     \/ wearing = h /\ wearing' \in onSeat'
  /\ Rebuilds
  /\ UNCHANGED <<persona, applied, sess, others, lined, speaking, called>>

\* update() is refused while the room is busy.
ReplaceHat(h, p) ==
  /\ h \in onSeat /\ lined = <<>>
  /\ persona' = [persona EXCEPT ![h] = p]
  /\ heard' = heard \ {h}
  /\ Rebuilds
  /\ UNCHANGED <<onSeat, applied, wearing, sess, others, lined, speaking, called>>

\* Somebody joins, leaves, is switched on or off elsewhere in the room:
\* reconcileLoneFraming() passes over a session that streams.
OthersChange ==
  /\ others' = ~others
  /\ IF Alone(onSeat, others') # sess.lone /\ NobodySpeaks
     THEN Rebuilds ELSE UNCHANGED building
  /\ UNCHANGED <<onSeat, persona, applied, wearing, heard, sess, lined, speaking, called>>

\* The session is there, and the hats that were not yet attached are.
SessionBuilt ==
  /\ building
  /\ sess' = Built(sess.n + 1, onSeat)
  /\ heard' = onSeat
  /\ building' = FALSE
  /\ UNCHANGED <<onSeat, persona, applied, wearing, others, lined, speaking, called>>

(* ---- specification ------------------------------------------------------- *)

SessionNext ==
  \/ TakesTurn \/ ReleasesTurn \/ OthersChange \/ SessionBuilt
  \/ \E h \in Hats :
       \/ Lines(h) \/ AddHat(h) \/ RemoveHat(h)
       \/ \E l \in Levels : SetThinking(h, l)
       \/ \E l \in Levels \union {NoLevel}, ts \in SUBSET Tools :
            ReplaceHat(h, [level |-> l, tools |-> ts])
  \/ \E t \in Tools \union Primitives : CallsTool(t)

SessionSpec == SessionInit /\ [][SessionNext]_sessionVars

(* ---- properties ---------------------------------------------------------- *)

\* The level a turn speaks at is the one its agent asked for when it joined the
\* line, unless the model refuses it; on a seat of its own a later one takes
\* effect at once.
OwnLevel ==
  LET turn == Head(lined) IN
    \/ turn.wanted \in Refused \cup {sess.level}
    \/ ~Several(onSeat) /\ sess.level = persona[turn.hat].level

\* A turn wears its own hat, whoever spoke on the seat before it: the events of
\* the session go to it, it thinks at its own level, and its calls go through
\* only where the tool is its own or nobody's.
HatFits ==
  ~NobodySpeaks =>
    /\ wearing = Head(lined).hat /\ wearing \in heard
    /\ OwnLevel
    /\ called.ok => \/ called.tool \in persona[wearing].tools
                    \/ \A h \in onSeat : called.tool \notin persona[h].tools

\* A turn speaks on the session the seat has, not on one disposed of under it.
\* An edit or a change of the roster does not wait for the seat, nor a turn for
\* an edit: the property fails with RebuildsInTurns.
SpeaksAlive == ~NobodySpeaks => speaking = sess.n /\ ~building
=============================================================================
