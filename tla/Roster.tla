------------------------------- MODULE Roster -------------------------------
(***************************************************************************)
(* The agents of a room and the seats they sit on (Registry, SeatRuntime). *)
(* An agent is a hat; a seat is one session of one model, worn by one hat  *)
(* or shared by several.  Agents are created, edited, fused onto a shared  *)
(* seat or detached from it, kicked, and the roster is reloaded with a     *)
(* conversation or replaced by a preset.  Each seat has a session          *)
(* directory on disk, named after the seat, that outlives the seat unless  *)
(* the last hat is kicked, and a cursor: how much of the transcript its    *)
(* session has been shown.                                                 *)
(***************************************************************************)
EXTENDS Naturals, FiniteSets

CONSTANTS
  Agents, Shared,    \* ids of agents, and the names of shared seats
  Models,            \* the models an agent may declare
  LivedFuse,         \* an agent may be fused that has a session of its own
  Overlaps           \* the roster may change while an edit rebuilds a session

\* Bounds of the model: turns in a conversation, reloads, presets loaded.
CONSTANTS MaxLog, MaxReloads, MaxLoads

ASSUME SeatNamesAssumption == Agents \intersect Shared = {}
ASSUME RosterSwitchesAssumption == LivedFuse \in BOOLEAN /\ Overlaps \in BOOLEAN
ASSUME RosterBoundsAssumption ==
  MaxLog \in Nat /\ MaxReloads \in Nat /\ MaxLoads \in Nat

VARIABLES
  participants,      \* Registry.participants
  model, active,     \* what each declares, and whether it takes part
  hats,              \* Registry.seats: the hats on each, {} if it has no seat
  cursor,            \* per seat, how much of the transcript it was shown
  builtLone,         \* per seat, whether its prompt was built for a lone agent
  session,           \* per seat name, how much the session on disk holds
  defused,           \* seats the last preset named for agents of several models
  edit,              \* the edit whose session is being rebuilt
  log,               \* the length of the transcript
  reloads, loads     \* how often the roster was reloaded and replaced

roster == <<participants, model, active, defused>>
seats == <<hats, cursor, builtLone>>
counts == <<reloads, loads>>
vars == <<roster, seats, session, edit, log, counts>>

SeatNames == Agents \union Shared
NoEdit == [id |-> "none"]
Idle == edit = NoEdit
Settled == Idle \/ Overlaps

SeatOfHat(a) == CHOOSE s \in SeatNames : a \in hats[s]
Fused(s) == Cardinality(hats[s]) > 1
Resumed(s, disk) == disk[s] > 0

\* Nobody else takes part: such a seat is built without teammates or handoffs.
LoneWith(s, worn, ps, act) ==
  Cardinality(worn[s]) = 1 /\ {a \in ps : act[a]} \subseteq worn[s]

\* reconcileLoneFraming(): every seat whose framing no longer fits is rebuilt.
FramedWithInactive(worn, ps, act) ==
  [s \in SeatNames |-> LoneWith(s, worn, ps, [a \in Agents |-> TRUE])]
Framed(worn, ps, act) == [s \in SeatNames |-> LoneWith(s, worn, ps, act)]

Larger(m, n) == IF m > n THEN m ELSE n

Init ==
  /\ participants = {}
  /\ model \in [Agents -> Models] /\ active = [a \in Agents |-> TRUE]
  /\ hats = [s \in SeatNames |-> {}] /\ cursor = [s \in SeatNames |-> 0]
  /\ builtLone = [s \in SeatNames |-> FALSE]
  /\ session = [s \in SeatNames |-> 0] /\ defused = {}
  /\ edit = NoEdit /\ log = 0 /\ reloads = 0 /\ loads = 0

(* ---- turns --------------------------------------------------------------- *)

\* A turn of an agent: its seat is shown what it has not seen, and answers.
Speak(a) ==
  /\ a \in participants /\ active[a]
  /\ log < MaxLog
  /\ log' = log + 1
  /\ session' = [session EXCEPT ![SeatOfHat(a)] = log + 1]
  /\ cursor' = [cursor EXCEPT ![SeatOfHat(a)] = log + 1]
  /\ UNCHANGED <<roster, hats, builtLone, edit, counts>>

(* ---- create, kick -------------------------------------------------------- *)

\* The seat a newcomer joins: the one it names, unless that seat was defused
\* or runs another model.
JoinsMixing(a, m, wish) == IF wish \in defused THEN a ELSE wish
Joins(a, m, wish) ==
  IF wish \in defused \/ \E h \in hats[wish] : model[h] # m THEN a ELSE wish

\* A session found on disk already holds what was shown before; another starts
\* from the beginning of the transcript.
CursorAtJoin(s, saved) == IF Resumed(s, session) THEN Larger(cursor[s], saved) ELSE 0

Create(a, m, wish) ==
  /\ Settled
  /\ a \notin participants
  /\ LET s == Joins(a, m, wish) IN
       /\ hats' = [hats EXCEPT ![s] = @ \union {a}]
       /\ cursor' = [cursor EXCEPT ![s] = CursorAtJoin(s, 0)]
  /\ participants' = participants \union {a}
  /\ model' = [model EXCEPT ![a] = m]
  /\ active' = [active EXCEPT ![a] = TRUE]
  /\ builtLone' = Framed(hats', participants', active')
  /\ UNCHANGED <<session, defused, edit, log, counts>>

\* Who takes its hat off a seat, and the seat that nobody wears any more.
LeavesOwn(worn, a) == [worn EXCEPT ![a] = {}]
Leaves(worn, a) == [s \in SeatNames |-> worn[s] \ {a}]
Vacated(old, new) == {s \in SeatNames : old[s] # {} /\ new[s] = {}}
ForgetsNoCursor(gone, cs) == cs
ForgetCursors(gone, cs) == [s \in SeatNames |-> IF s \in gone THEN 0 ELSE cs[s]]

\* kick(): the session directory goes with the last hat.
DeletesNoDir(gone) == session
DeletesDir(gone) == [s \in SeatNames |-> IF s \in gone THEN 0 ELSE session[s]]

Kick(a) ==
  /\ Settled
  /\ a \in participants
  /\ participants' = participants \ {a}
  /\ hats' = Leaves(hats, a)
  /\ cursor' = ForgetCursors(Vacated(hats, hats'), cursor)
  /\ session' = DeletesDir(Vacated(hats, hats'))
  /\ builtLone' = Framed(hats', participants', active)
  /\ UNCHANGED <<model, active, defused, edit, log, counts>>

SetActive(a, on) ==
  /\ Settled
  /\ a \in participants /\ active[a] # on
  /\ active' = [active EXCEPT ![a] = on]
  /\ builtLone' = Framed(hats, participants, active')
  /\ UNCHANGED <<participants, model, defused, hats, cursor, session, edit, log, counts>>

(* ---- update -------------------------------------------------------------- *)

\* A hat given another model than its shared seat runs leaves it for a seat of
\* its own.
DetachesNever(a, m) == FALSE
Detaches(a, m) == \E h \in hats[SeatOfHat(a)] \ {a} : model[h] # m

\* update(): the agent is taken off its seat or its seat is rebuilt, which
\* waits; the roster as it was is kept to put the agent back in its place.
Update(a, m) ==
  /\ Idle
  /\ a \in participants
  /\ edit' = [id |-> a, model |-> m, order |-> participants, cursor |-> cursor[SeatOfHat(a)],
              seat |-> IF Detaches(a, m) THEN a ELSE SeatOfHat(a)]
  /\ hats' = IF Detaches(a, m) THEN [Leaves(hats, a) EXCEPT ![a] = {a}] ELSE hats
  /\ model' = [model EXCEPT ![a] = m]
  /\ builtLone' = [s \in SeatNames |->
                     IF a \in hats[s] \union hats'[s]
                     THEN LoneWith(s, hats', participants, active) ELSE builtLone[s]]
  /\ UNCHANGED <<participants, active, defused, cursor, session, log, counts>>

UpdateEnds ==
  /\ ~Idle
  /\ participants' = edit.order
  /\ cursor' = [cursor EXCEPT ![edit.seat] =
                  IF Resumed(edit.seat, session) THEN Larger(@, edit.cursor) ELSE 0]
  /\ edit' = NoEdit
  /\ UNCHANGED <<model, active, defused, hats, builtLone, session, log, counts>>

(* ---- reseat -------------------------------------------------------------- *)

\* reseat(): the movers leave their seats, whose sessions stay on disk, and sit
\* on s: a seat that lives is joined, another is opened, on the session that a
\* seat of that name left, if any.
MovesTo(movers, s) ==
  LET left == [r \in SeatNames |-> hats[r] \ movers]
  IN /\ hats' = [left EXCEPT ![s] = @ \union movers]
     /\ cursor' = ForgetCursors(Vacated(hats, hats'), cursor)
     /\ builtLone' = [r \in SeatNames |->
                        IF hats'[r] # hats[r] THEN LoneWith(r, hats', participants, active)
                        ELSE builtLone[r]]
     /\ UNCHANGED <<roster, session, edit, log, counts>>

\* Fusing checks first that the seat would run one model.
SameModel(group) == \A g, h \in group : model[g] = model[h]

Fuse(movers, s) ==
  /\ Settled
  /\ movers # {} /\ movers \subseteq participants \ hats[s]
  /\ LivedFuse \/ \A a \in movers : session[a] = 0
  /\ SameModel(movers \union hats[s])
  /\ MovesTo(movers, s)

Solo(a) ==
  /\ Settled
  /\ a \in participants \ hats[a]
  /\ MovesTo({a}, a)

(* ---- reset --------------------------------------------------------------- *)

\* The seat personaStates() saves for an agent: a seat with one hat is nobody's.
Saved(a) == IF Fused(SeatOfHat(a)) THEN SeatOfHat(a) ELSE a

\* validateSeatModels(): the seats a roster names for agents of several models.
Mixed(who, wish, declared) ==
  {s \in Shared : \E g, h \in who : wish[g] = s /\ wish[h] = s /\ declared[g] # declared[h]}

Seated(who, wish) == [s \in SeatNames |-> {a \in who : wish[a] = s}]

\* The conversation is opened again: its roster and cursors as they were saved,
\* its sessions from disk.
Reload ==
  /\ Idle
  /\ reloads < MaxReloads
  /\ reloads' = reloads + 1
  /\ LET wish == [a \in participants |-> Saved(a)] IN
       /\ hats' = Seated(participants, wish)
       /\ cursor' = [s \in SeatNames |->
                       IF hats'[s] # {} /\ Resumed(s, session)
                       THEN cursor[SeatOfHat(CHOOSE a \in hats'[s] : TRUE)] ELSE 0]
  /\ defused' = {}
  /\ builtLone' = Framed(hats', participants, active)
  /\ UNCHANGED <<participants, model, active, session, edit, log, loads>>

\* A preset replaces the roster, in a conversation of its own: nothing on disk.
\* Seats named for agents of several models are given up as a whole.
LoadPreset(who, wish, declared) ==
  /\ Idle
  /\ loads < MaxLoads
  /\ loads' = loads + 1
  /\ participants' = who /\ model' = declared /\ active' = [a \in Agents |-> TRUE]
  /\ defused' = Mixed(who, wish, declared)
  /\ hats' = Seated(who, [a \in who |-> IF wish[a] \in defused' THEN a ELSE wish[a]])
  /\ cursor' = [s \in SeatNames |-> 0] /\ session' = [s \in SeatNames |-> 0]
  /\ log' = 0
  /\ builtLone' = Framed(hats', who, active')
  /\ UNCHANGED <<edit, reloads>>

\* rollbackSessions(): a seat that was shown what is cut is wiped, on disk too.
RollBack(keep) ==
  /\ Idle
  /\ keep < log
  /\ log' = keep
  /\ LET wiped == {s \in SeatNames : hats[s] # {} /\ cursor[s] > keep} IN
       /\ session' = [s \in SeatNames |-> IF s \in wiped THEN 0 ELSE session[s]]
       /\ cursor' = ForgetCursors(wiped, cursor)
  /\ UNCHANGED <<roster, hats, builtLone, edit, counts>>

(* ---- specification ------------------------------------------------------- *)

Wishes == {w \in [Agents -> SeatNames] : \A a \in Agents : w[a] \in Shared \union {a}}

Next ==
  \/ UpdateEnds \/ Reload
  \/ \E a \in Agents :
       \/ Speak(a) \/ Kick(a) \/ Solo(a)
       \/ \E on \in BOOLEAN : SetActive(a, on)
       \/ \E m \in Models : Update(a, m)
       \/ \E m \in Models, wish \in Shared \union {a} : Create(a, m, wish)
  \/ \E movers \in SUBSET Agents, s \in Shared : Fuse(movers, s)
  \/ \E wish \in Wishes, declared \in [Agents -> Models] : LoadPreset(Agents, wish, declared)
  \/ \E keep \in 0 .. MaxLog : RollBack(keep)

Spec == Init /\ [][Next]_vars

(* ---- properties ---------------------------------------------------------- *)

\* The state has the types of the fields it models.
TypeOK ==
  /\ participants \subseteq Agents
  /\ model \in [Agents -> Models] /\ active \in [Agents -> BOOLEAN]
  /\ hats \in [SeatNames -> SUBSET Agents]
  /\ cursor \in [SeatNames -> 0 .. MaxLog] /\ session \in [SeatNames -> 0 .. MaxLog]
  /\ builtLone \in [SeatNames -> BOOLEAN]
  /\ defused \subseteq Shared
  /\ log \in 0 .. MaxLog

\* Each agent sits on one seat, and nobody else sits anywhere.
OneSeatEach ==
  /\ UNION {hats[s] : s \in SeatNames} = participants
  /\ \A s, r \in SeatNames : s # r => hats[s] \intersect hats[r] = {}

\* A seat is one session of one model, whatever edits, fusions, joins and
\* presets its hats went through.
OneModel == \A s \in SeatNames : Cardinality({model[a] : a \in hats[s]}) <= 1

\* No blind spot: what a cursor says a seat was shown, its session holds.
Sees == \A s \in SeatNames : hats[s] # {} /\ Idle => cursor[s] <= session[s]

\* A seat is told of teammates and handoffs iff somebody else takes part.
FramingFits ==
  Idle => \A s \in SeatNames : hats[s] # {} =>
    builtLone[s] = LoneWith(s, hats, participants, active)

\* Who sits where, on what, and told what of the others, all fit together.
SeatsFit == OneSeatEach /\ OneModel /\ FramingFits

\* An agent created anew does not wake up with what another one of that id,
\* kicked before, remembered.
WakesFresh ==
  [][\A a \in Agents \ participants :
       (hats'[a] = {a} /\ loads' = loads) => session'[a] = 0]_vars
=============================================================================
