---------------------------- MODULE RosterEdits ----------------------------
(***************************************************************************)
(* The requests that change who is in a room, while other requests are     *)
(* at work: the handlers of server.ts and the Registry's operations on its *)
(* map of participants.  Creating, editing and reseating an agent build a  *)
(* session and wait for it; a load of a conversation clears the map and    *)
(* creates its agents one by one.  What an operation read before it waited *)
(* it writes after: an edit the order of the map and its agent's flags, a  *)
(* load the callback that saves the room and follows its drift.            *)
(***************************************************************************)
EXTENDS Naturals, Sequences, FiniteSets, SequencesExt

CONSTANTS
  Ids,           \* agents by id
  Nobody,        \* a default agent of null
  EditsOverlap   \* edits and loads may be at work beside other edits

CONSTANTS MaxEdits, MaxLives, MaxFlags    \* bounds: requests at work, participants, toggles

ASSUME EditsNobodyAssumption == Nobody \notin Ids
ASSUME EditsOverlapAssumption == EditsOverlap \in BOOLEAN
ASSUME EditsBoundsAssumption == MaxEdits \in Nat /\ MaxLives \in Nat \ {0} /\ MaxFlags \in Nat

VARIABLES
  order,         \* the keys of Registry.participants, in the map's order
  entry,         \* per id, the participant (a number), 0 for none
  flagOf,        \* per participant, its `active`
  watched,       \* Registry.onChange is set
  edits,         \* the requests at work, by slot
  lives, flags,  \* counters
  defaultTo,     \* RoomSettings.defaultAgentId
  busy,          \* Room.isBusy()
  halfDone,      \* history: a refused request changed something all the same
  wanted,        \* history: the agents the requests answered so far leave in the room
  flagged        \* history: per id, the flag last asked for

editVars == <<order, entry, flagOf, watched, edits, lives, flags, defaultTo, busy, halfDone,
              wanted, flagged>>
answers == <<busy, halfDone>>

Slots == 1 .. MaxEdits
Lives == 1 .. MaxLives
Unused == [kind |-> "none"]
Keys == ToSet(order)
Doing(kinds) == {k \in Slots : edits[k].kind \in kinds}

EditsInit ==
  /\ \E id \in Ids : order = <<id>> /\ entry = [i \in Ids |-> IF i = id THEN 1 ELSE 0]
  /\ wanted = Keys
  /\ flagOf = [n \in Lives |-> TRUE] /\ watched = TRUE
  /\ edits = [k \in Slots |-> Unused] /\ lives = 1 /\ flags = 0
  /\ defaultTo = Nobody /\ busy = FALSE /\ halfDone = FALSE
  /\ flagged = [i \in Ids |-> TRUE]

\* A participant is attached to its session.
Attach(id, active) ==
  /\ lives < MaxLives
  /\ lives' = lives + 1
  /\ flagOf' = [flagOf EXCEPT ![lives + 1] = active]

Closes(k) == edits' = [edits EXCEPT ![k] = Unused]

(* ---- creating and kicking ------------------------------------------------ *)

\* POST participants: the id must be free when the request arrives.
CreateBegins(k, id) ==
  /\ edits[k] = Unused /\ id \notin Keys
  /\ EditsOverlap \/ (/\ Doing({"update", "load"}) = {}
                      /\ \A j \in Doing({"create"}) : edits[j].id # id)
  /\ edits' = [edits EXCEPT ![k] = [kind |-> "create", id |-> id]]
  /\ UNCHANGED <<order, entry, flagOf, watched, lives, flags, defaultTo, answers, wanted, flagged>>

\* Its session is there: it is put into the map of now.
CreateEnds(k) ==
  /\ edits[k].kind = "create"
  /\ LET id == edits[k].id IN
     /\ Attach(id, TRUE)
     /\ order' = IF id \in Keys THEN order ELSE Append(order, id)
     /\ entry' = [entry EXCEPT ![id] = lives + 1]
     /\ wanted' = wanted \union {id}
     /\ flagged' = [flagged EXCEPT ![id] = TRUE]
  /\ Closes(k)
  /\ UNCHANGED <<watched, flags, defaultTo, answers>>

\* A key is in the map once.
PlaceOf(id) == CHOOSE i \in DOMAIN order : order[i] = id
OrderWithout(id) == RemoveAt(order, PlaceOf(id))

\* DELETE participants/id: the entry goes at once, its hat and directory later.
KickNow(id) ==
  /\ id \in Keys
  /\ EditsOverlap \/ Doing({"update", "load"}) = {}
  /\ order' = OrderWithout(id)
  /\ entry' = [entry EXCEPT ![id] = 0]
  /\ wanted' = wanted \ {id}
  /\ UNCHANGED <<flagOf, watched, edits, lives, flags, defaultTo, answers, flagged>>

(* ---- edits that rebuild the map ------------------------------------------ *)

\* PATCH participants/id with a persona, or /seats: the order of the map and
\* the agent's flags are read before the session is built.
EditBegins(k, id) ==
  /\ edits[k] = Unused /\ id \in Keys /\ entry[id] # 0 /\ ~busy
  /\ EditsOverlap \/ Doing({"create", "update", "load"}) = {}
  /\ edits' = [edits EXCEPT ![k] =
                 [kind |-> "update", id |-> id, kept |-> order, was |-> flagOf[entry[id]]]]
  /\ UNCHANGED <<order, entry, flagOf, watched, lives, flags, defaultTo, answers, wanted, flagged>>

\* A mutant: the new participant starts out active.
EditEndsActive(k) ==
  /\ edits[k].kind = "update"
  /\ Attach(edits[k].id, TRUE)
  /\ order' = edits[k].kept
  /\ entry' = [entry EXCEPT ![edits[k].id] = lives + 1]
  /\ Closes(k)
  /\ UNCHANGED <<watched, flags, defaultTo, answers, wanted, flagged>>

\* The map is built again from the order of then and the participants of now.
EditEnds(k) ==
  /\ edits[k].kind = "update"
  /\ Attach(edits[k].id, edits[k].was)
  /\ order' = edits[k].kept
  /\ entry' = [i \in Ids |-> CASE i = edits[k].id -> lives + 1
                               [] i \in ToSet(edits[k].kept) \ {edits[k].id} -> entry[i]
                               [] OTHER -> 0]
  /\ Closes(k)
  /\ UNCHANGED <<watched, flags, defaultTo, answers, wanted, flagged>>

(* ---- what takes effect at once ------------------------------------------- *)

\* PATCH participants/id with a flag: setActive(), setParallel(), setVision().  A
\* persona in the same request is refused after that while the room is busy.
SetFlag(id, value, refused) ==
  /\ flags < MaxFlags
  /\ flags' = flags + 1
  /\ refused => busy
  /\ id \in Keys /\ entry[id] # 0
  /\ EditsOverlap \/ \A j \in Doing({"update"}) : edits[j].id # id
  /\ flagOf' = [flagOf EXCEPT ![entry[id]] = value]
  /\ flagged' = [flagged EXCEPT ![id] = value]
  /\ halfDone' = (halfDone \/ (refused /\ value # flagOf[entry[id]]))
  /\ UNCHANGED <<order, entry, watched, edits, lives, defaultTo, busy, wanted>>

\* reorder(): the listed ids first, the others after them.
Reorder(id) ==
  /\ id \in Keys
  /\ EditsOverlap \/ Doing({"update"}) = {}
  /\ order' = <<id>> \o OrderWithout(id)
  /\ UNCHANGED <<entry, flagOf, watched, edits, lives, flags, defaultTo, answers, wanted, flagged>>

\* setDefaultAgent() and its like: null, or an agent who is in the room now.
Sets(id) == id \in Keys \union {Nobody} /\ defaultTo' = id

\* PATCH settings: the fields are checked and applied one after the other; here
\* the default agent, and a later field.
PatchSettings(id, rest) ==
  /\ flags < MaxFlags
  /\ flags' = flags + 1
  /\ Sets(id)
  /\ halfDone' = (halfDone \/ (rest = "invalid" /\ id # defaultTo))
  /\ UNCHANGED <<order, entry, flagOf, watched, edits, lives, busy, wanted, flagged>>

\* A turn begins or ends.
TurnFlips ==
  /\ busy' = ~busy
  /\ UNCHANGED <<order, entry, flagOf, watched, edits, lives, flags, defaultTo, halfDone,
                 wanted, flagged>>

(* ---- loads --------------------------------------------------------------- *)

\* reset(): the callback is put aside, the map cleared.
LoadBegins(k, ids) ==
  /\ edits[k] = Unused /\ ~busy
  /\ EditsOverlap \/ Doing({"create", "update", "load"}) = {}
  /\ edits' = [edits EXCEPT ![k] = [kind |-> "load", left |-> ids, cb |-> watched]]
  /\ watched' = FALSE
  /\ order' = <<>> /\ entry' = [i \in Ids |-> 0]
  /\ wanted' = {}
  /\ UNCHANGED <<flagOf, lives, flags, defaultTo, answers, flagged>>

\* reset(), its finally.
Restores(k) == Closes(k) /\ watched' = edits[k].cb

\* One agent of the conversation is created; the next one must be new to the map.
LoadAdds(k) ==
  /\ edits[k].kind = "load" /\ edits[k].left # <<>>
  /\ LET id == Head(edits[k].left)
         rest == Tail(edits[k].left)
     IN /\ Attach(id, TRUE)
        /\ order' = IF id \in Keys THEN order ELSE Append(order, id)
        /\ entry' = [entry EXCEPT ![id] = lives + 1]
        /\ wanted' = wanted \union {id}
        /\ flagged' = [flagged EXCEPT ![id] = TRUE]
        /\ IF rest # <<>> /\ Head(rest) \in Keys \union {id}
           THEN Restores(k)
           ELSE edits' = [edits EXCEPT ![k].left = rest] /\ UNCHANGED watched
  /\ UNCHANGED <<flags, defaultTo, answers>>

\* startFresh() and loadPreset() drop the default agent with the load, another
\* conversation brings its own, in the room or not.
LoadEnds(k) ==
  /\ edits[k].kind = "load" /\ edits[k].left = <<>>
  /\ Restores(k)
  /\ defaultTo' \in Ids \union {Nobody}
  /\ UNCHANGED <<order, entry, flagOf, lives, flags, answers, wanted, flagged>>

-----------------------------------------------------------------------------

EditStep(k) ==
  \/ \E id \in Ids : CreateBegins(k, id) \/ EditBegins(k, id)
  \/ CreateEnds(k) \/ EditEnds(k)
  \/ \E a, b \in Ids : a # b /\ LoadBegins(k, <<a, b>>)
  \/ LoadAdds(k) \/ LoadEnds(k)

EditsNext ==
  \/ \E k \in Slots : EditStep(k)
  \/ \E id \in Ids : KickNow(id) \/ Reorder(id)
  \/ \E id \in Ids, value, refused \in BOOLEAN : SetFlag(id, value, refused)
  \/ \E id \in Ids \union {Nobody}, rest \in {"valid", "invalid"} : PatchSettings(id, rest)
  \/ TurnFlips

EditsSpec == EditsInit /\ [][EditsNext]_editVars

-----------------------------------------------------------------------------
(* What is claimed of it *)

\* A key of the map has a participant (registry.ts update: "key provient des
\* clés de this.participants (order) - l'entrée existe forcément").
EntriesExist == \A i \in Ids : (i \in Keys) = (entry[i] # 0)

\* An agent whose creation was answered is in the room until it is kicked or
\* another conversation is loaded, and nobody else is.
NoneLost == Keys = wanted

\* An agent has the flag that was last asked for it.
FlagsKept == \A i \in Keys : entry[i] # 0 => flagOf[entry[i]] = flagged[i]

\* No load leaves the roster without the callback that saves it.
Watched == Doing({"load"}) = {} => watched

\* A request that was refused changed nothing.
RefusedChangesNothing == ~halfDone

\* Requests that work at the same time take nothing from one another.
RosterKept == EntriesExist /\ NoneLost /\ FlagsKept /\ Watched
=============================================================================
