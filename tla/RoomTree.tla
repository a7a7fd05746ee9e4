------------------------------ MODULE RoomTree ------------------------------
(***************************************************************************)
(* The rooms of a server: a tree, since an agent may spawn a room for a    *)
(* goal and is told how it ends.  Rooms are provisioned (checked, created, *)
(* initialised, given their goal, or rolled back), asked, answered,        *)
(* stopped and destroyed with what they spawned.  The set of rooms and     *)
(* their parents are kept in a manifest, from which a restart restores     *)
(* them.  Within a room, tasks run one after the other; what they do is    *)
(* abstracted to spawning, asking the parent and ending.                   *)
(***************************************************************************)
EXTENDS Naturals, Sequences, SequencesExt, FiniteSets

CONSTANTS
  Rooms, Default,   \* room ids, and the room that always exists
  Workers,          \* operations on the tree that may be under way at once
  maxRooms,         \* config.maxRooms
  Zombies           \* tasks queued on a room still run once it is being destroyed

\* Bounds of the model: messages sent, rooms provisioned, restarts.
CONSTANTS MaxSends, MaxProvisions, MaxRestarts

ASSUME RoomsAssumption == Default \in Rooms /\ maxRooms \in Nat \ {0}
ASSUME TreeBoundsAssumption ==
  /\ Zombies \in BOOLEAN
  /\ MaxSends \in Nat /\ MaxProvisions \in Nat /\ MaxRestarts \in Nat

VARIABLES
  live, parent,     \* RoomManager.rooms, and the parentRoomId of each
  linked,           \* rooms with a parentLink: their goal's end is reported
  goal,             \* "none", "running", "over"
  state,            \* what the chain of tasks of a room is doing
  inbox,            \* the tasks queued behind it: messages, reports of rooms
  op,               \* per worker, the operation under way
  manifest,         \* rooms.json: pairs of a room and its parent
  saveQueue,        \* manifests not written yet
  boot              \* entries a restart has still to restore

\* What only the properties read, and how often the outside acted.
VARIABLES
  owed,             \* rooms whose end their parent has not been told of yet
  skipped,          \* rooms that some restart could not restore
  kept,             \* rooms the manifest named at the restart, not destroyed since
                    \* nor found out of reach
  sends, provisions, restarts

tree == <<live, parent, linked>>
tasks == <<goal, state, inbox, owed>>
disk == <<manifest, saveQueue>>
treeGhosts == <<skipped, kept>>
treeUsed == <<sends, provisions, restarts>>
treeVars == <<tree, tasks, op, disk, boot, treeGhosts, treeUsed>>

NoRoom == "none"
ASSUME NoRoomAssumption == NoRoom \notin Rooms

Message == [of |-> NoRoom, what |-> "message"]
Report(r, what) == [of |-> r, what |-> what]
Inputs == {Message} \union {Report(r, what) : r \in Rooms, what \in {"asks", "over"}}
Free == [at |-> "free"]
States == {"idle", "busy", "asking", "paused", "stopping"}

TreeInit ==
  /\ live = {Default} /\ parent = [r \in Rooms |-> NoRoom] /\ linked = {}
  /\ goal = [r \in Rooms |-> "none"] /\ state = [r \in Rooms |-> "idle"]
  /\ inbox = [r \in Rooms |-> <<>>]
  /\ op = [w \in Workers |-> Free]
  /\ manifest = {<<Default, NoRoom>>} /\ saveQueue = <<>> /\ boot = {}
  /\ owed = {} /\ skipped = {} /\ kept = {}
  /\ sends = 0 /\ provisions = 0 /\ restarts = 0

Up == boot = {}

(* ---- the manifest -------------------------------------------------------- *)

Entries(rooms, up) == {<<r, up[r]>> : r \in rooms}

\* saveManifest() snapshots the rooms now and queues the write.
SaveManifest == saveQueue' = Append(saveQueue, Entries(live', parent'))

WriteManifest ==
  /\ saveQueue # <<>>
  /\ manifest' = Head(saveQueue)
  /\ saveQueue' = Tail(saveQueue)
  /\ UNCHANGED <<tree, tasks, op, boot, treeGhosts, treeUsed>>

(* ---- tasks of a room ------------------------------------------------------ *)

ToldIfIdle(r, what) ==
  IF parent[r] \in live /\ state[parent[r]] = "idle"
  THEN [inbox EXCEPT ![parent[r]] = Append(@, Report(r, what))]
  ELSE inbox

\* injectOrchestratorReport() of the parent, if it still exists.
Told(r, what) ==
  IF parent[r] \in live
  THEN [inbox EXCEPT ![parent[r]] = Append(@, Report(r, what))]
  ELSE inbox

\* A message of the user, or answer_room() of an agent.
Submit(r) ==
  /\ Up /\ r \in live
  /\ sends < MaxSends
  /\ sends' = sends + 1
  /\ inbox' = [inbox EXCEPT ![r] = Append(@, Message)]
  /\ UNCHANGED <<tree, goal, state, owed, op, disk, boot, treeGhosts, provisions, restarts>>

BeingDestroyed ==
  {r \in Rooms : \E w \in Workers : op[w].at = "destroying" /\ op[w].now = r}

\* The next task.  A message starts a turn, which an answer resumes; a report
\* starts one unless the room is paused: then it is only posted.
TakeTask(r) ==
  /\ Zombies \/ (r \in live /\ r \notin BeingDestroyed)
  /\ inbox[r] # <<>> /\ state[r] \in {"idle", "paused"}
  /\ inbox' = [inbox EXCEPT ![r] = Tail(@)]
  /\ state' = [state EXCEPT ![r] =
                 IF Head(inbox[r]) # Message /\ @ = "paused" THEN "paused" ELSE "busy"]
  /\ owed' = owed \ {o \in Rooms : Head(inbox[r]) = Report(o, "over")}
  /\ UNCHANGED <<tree, goal, op, disk, boot, treeGhosts, treeUsed>>

\* ask_orchestrator: the question is reported at once, the turn ends in a pause.
AskOrchestrator(r) ==
  /\ state[r] = "busy" /\ r \in linked
  /\ state' = [state EXCEPT ![r] = "asking"]
  /\ inbox' = Told(r, "asks")
  /\ UNCHANGED <<tree, goal, owed, op, disk, boot, treeGhosts, treeUsed>>

\* The turn is over.  A goal that ran is resolved with it, and reported.
EndTurn(r) ==
  /\ state[r] \in {"busy", "stopping"}
  /\ state' = [state EXCEPT ![r] = "idle"]
  /\ IF goal[r] = "running"
     THEN /\ goal' = [goal EXCEPT ![r] = "over"]
          /\ IF r \in linked
             THEN inbox' = Told(r, "over") /\ owed' = owed \union {r}
             ELSE UNCHANGED <<inbox, owed>>
     ELSE UNCHANGED <<goal, inbox, owed>>
  /\ UNCHANGED <<tree, op, disk, boot, treeGhosts, treeUsed>>

Pause(r) ==
  /\ state[r] = "asking"
  /\ state' = [state EXCEPT ![r] = "paused"]
  /\ UNCHANGED <<tree, goal, inbox, owed, op, disk, boot, treeGhosts, treeUsed>>

\* abortCurrent(): the turn winds down, a pause is dropped.
Aborted(r) ==
  CASE state[r] \in {"busy", "asking"} -> "stopping"
    [] state[r] = "paused" -> "idle"
    [] OTHER -> state[r]

\* The default room can be neither stopped nor destroyed.
ProtectsNone(r) == FALSE
Protects(r) == r = Default

StopRoom(r) ==
  /\ Up /\ r \in live /\ ~Protects(r)
  /\ state[r] \in {"busy", "asking", "paused"}
  /\ state' = [state EXCEPT ![r] = Aborted(r)]
  /\ UNCHANGED <<tree, goal, inbox, owed, op, disk, boot, treeGhosts, treeUsed>>

(* ---- provisioning --------------------------------------------------------- *)

Works(w, o) == op' = [op EXCEPT ![w] = o]

\* provisionRoom() checks the id and the cap, and goes on to await a mount, a
\* directory or a preset.  `by` is the room of the agent that spawns, if any: the
\* room gets a new id then, while the user may name one that was not restored.
Provision(w, r, by) ==
  /\ Up /\ op[w] = Free
  /\ provisions < MaxProvisions
  /\ provisions' = provisions + 1
  /\ by # NoRoom => state[by] = "busy" /\ r \notin skipped
  /\ r \notin live /\ Cardinality(live) < maxRooms
  /\ Works(w, [at |-> "checked", room |-> r, by |-> by])
  /\ UNCHANGED <<tree, tasks, disk, boot, treeGhosts, sends, restarts>>

\* createRoom() adds the room to the map, and the manifest is saved.
CreateRoom(w) ==
  /\ op[w].at = "checked" /\ op[w].room \notin live
  /\ LET r == op[w].room IN
       /\ live' = live \union {r}
       /\ parent' = [parent EXCEPT ![r] = op[w].by]
       /\ linked' = IF op[w].by = NoRoom THEN linked \ {r} ELSE linked \union {r}
       /\ goal' = [goal EXCEPT ![r] = "none"]
       /\ state' = [state EXCEPT ![r] = "idle"]
       /\ inbox' = [inbox EXCEPT ![r] = <<>>]
       /\ owed' = owed \ {r}
       /\ Works(w, [at |-> "created", room |-> r, by |-> op[w].by])
  /\ SaveManifest
  /\ UNCHANGED <<manifest, boot, treeGhosts, treeUsed>>

\* The mount or the directory is refused: nothing was made.
Refuse(w) ==
  /\ op[w].at = "checked"
  /\ Works(w, Free)
  /\ UNCHANGED <<tree, tasks, disk, boot, treeGhosts, treeUsed>>

\* The preset, createRoom() (a room of that id appeared meanwhile) or init()
\* fails: the rollback destroys the room of that id, if there is one.
RollBack(w) ==
  /\ op[w].at \in {"checked", "created"}
  /\ Works(w, IF op[w].room \in live
              THEN [at |-> "destroying", todo |-> {op[w].room}, now |-> NoRoom]
              ELSE Free)
  /\ UNCHANGED <<tree, tasks, disk, boot, treeGhosts, treeUsed>>

\* The room is initialised; a spawned one gets its goal.
SubmitGoal(w) ==
  /\ op[w].at = "created"
  /\ LET r == op[w].room IN
       IF op[w].by = NoRoom THEN UNCHANGED <<goal, inbox>>
       ELSE /\ goal' = [goal EXCEPT ![r] = "running"]
            /\ inbox' = [inbox EXCEPT ![r] = Append(@, Message)]
  /\ Works(w, Free)
  /\ UNCHANGED <<tree, state, owed, disk, boot, treeGhosts, treeUsed>>

(* ---- destroying ----------------------------------------------------------- *)

\* The room and what was spawned beneath it, as of now.
Downward(S) == \A c \in live : parent[c] \in S => c \in S

RoomAlone(r) == {r}
Subtree(r) == {x \in Rooms : \A S \in SUBSET Rooms : r \in S /\ Downward(S) => x \in S}

DestroySubtree(w, r) ==
  /\ Up /\ op[w] = Free
  /\ r \in live /\ ~Protects(r)
  /\ Works(w, [at |-> "destroying", todo |-> Subtree(r), now |-> NoRoom])
  /\ UNCHANGED <<tree, tasks, disk, boot, treeGhosts, treeUsed>>

\* destroyRoom() of r returned: on to the next one, if any.
Done(w, r) ==
  IF op[w].todo = {r} THEN Free
  ELSE [op[w] EXCEPT !.todo = @ \ {r}, !.now = NoRoom]

\* destroyRoom() of a deepest one: its agents are aborted, and awaited,
DestroyAborts(w) ==
  /\ op[w].at = "destroying" /\ op[w].now = NoRoom
  /\ \E r \in op[w].todo :
       /\ \A c \in op[w].todo : parent[c] # r
       /\ IF r \in live
          THEN /\ state' = [state EXCEPT ![r] = Aborted(r)]
               /\ Works(w, [op[w] EXCEPT !.now = r])
          ELSE /\ UNCHANGED state
               /\ Works(w, Done(w, r))
  /\ UNCHANGED <<tree, goal, inbox, owed, disk, boot, treeGhosts, treeUsed>>

\* and it leaves the map.
DestroyRemovesUnsaved(w) ==
  /\ op[w].at = "destroying" /\ op[w].now # NoRoom
  /\ live' = live \ {op[w].now}
  /\ Works(w, Done(w, op[w].now))
  /\ kept' = kept \ {op[w].now}
  /\ UNCHANGED <<parent, linked, tasks, disk, boot, skipped, treeUsed>>

DestroyRemoves(w) ==
  /\ op[w].at = "destroying" /\ op[w].now # NoRoom
  /\ live' = live \ {op[w].now}
  /\ Works(w, Done(w, op[w].now))
  /\ kept' = kept \ {op[w].now}
  /\ UNCHANGED <<parent, linked, tasks, manifest, boot, skipped, treeUsed>>
  /\ IF op[w].now \in live THEN SaveManifest ELSE UNCHANGED saveQueue

(* ---- restart -------------------------------------------------------------- *)

\* The process ends and is started again.  The manifest is read before the
\* default room is created, since that writes it anew.
ReadAfterDefault == {<<Default, NoRoom>>}
ReadAtRestart == manifest

Restart ==
  /\ Up
  /\ restarts < MaxRestarts
  /\ restarts' = restarts + 1
  /\ kept' = {e[1] : e \in manifest}
  /\ boot' = {e \in ReadAtRestart : e[1] # Default}
  /\ live' = {Default} /\ parent' = [r \in Rooms |-> NoRoom] /\ linked' = {}
  /\ goal' = [r \in Rooms |-> "none"] /\ state' = [r \in Rooms |-> "idle"]
  /\ inbox' = [r \in Rooms |-> <<>>] /\ owed' = {}
  /\ op' = [w \in Workers |-> Free]
  /\ saveQueue' = <<Entries(live', parent')>>
  /\ UNCHANGED <<manifest, skipped, sends, provisions>>

\* restoreRooms(): each room of the manifest, with its parent; one whose mount
\* is down is left out.  They come in the order in which they were made, so after
\* their parents, unless these were left out once and made anew.
RestoreRoom(e) ==
  /\ e \in boot
  /\ e[2] \in skipped \/ \A d \in boot : d[1] # e[2]
  /\ boot' = boot \ {e}
  /\ live' = live \union {e[1]}
  /\ parent' = [parent EXCEPT ![e[1]] = e[2]]
  /\ SaveManifest
  /\ UNCHANGED <<linked, tasks, op, manifest, treeGhosts, treeUsed>>

SkipRoom(e) ==
  /\ e \in boot
  /\ boot' = boot \ {e}
  /\ skipped' = skipped \union {e[1]}
  /\ kept' = kept \ {e[1]}
  /\ UNCHANGED <<tree, tasks, op, disk, treeUsed>>

(* ---- specification -------------------------------------------------------- *)

Runs(r) == TakeTask(r) \/ EndTurn(r) \/ Pause(r)

Proceeds(w) ==
  \/ CreateRoom(w) \/ Refuse(w) \/ RollBack(w) \/ SubmitGoal(w)
  \/ DestroyAborts(w) \/ DestroyRemoves(w)

TreeNext ==
  \/ WriteManifest
  \/ Restart
  \/ \E e \in boot : RestoreRoom(e) \/ SkipRoom(e)
  \/ \E r \in Rooms : Submit(r) \/ StopRoom(r) \/ AskOrchestrator(r) \/ Runs(r)
  \/ \E w \in Workers :
       \/ \E r \in Rooms, by \in Rooms \union {NoRoom} : Provision(w, r, by)
       \/ \E r \in Rooms : DestroySubtree(w, r)
       \/ Proceeds(w)

\* Tasks are taken and their turns end, and what an operation on the tree
\* awaits returns.
TreeFairness ==
  /\ \A r \in Rooms : WF_treeVars(Runs(r))
  /\ \A w \in Workers : WF_treeVars(Proceeds(w))

TreeSpec == TreeInit /\ [][TreeNext]_treeVars /\ TreeFairness

(* ---- properties ----------------------------------------------------------- *)

\* The state has the types of the fields it models.
TreeTypeOK ==
  /\ live \subseteq Rooms /\ Default \in live
  /\ parent \in [Rooms -> Rooms \union {NoRoom}] /\ linked \subseteq Rooms
  /\ goal \in [Rooms -> {"none", "running", "over"}]
  /\ state \in [Rooms -> States]
  /\ inbox \in [Rooms -> Seq(Inputs)]
  /\ manifest \subseteq Rooms \X (Rooms \union {NoRoom})
  /\ boot \subseteq Rooms \X (Rooms \union {NoRoom})

\* No orphans: a room whose parent is gone would report to nobody.  Only a
\* parent that a restart could not restore may be missing.
NoOrphan == \A r \in live : parent[r] \in live \union skipped \union {NoRoom}

\* The manifest, once written, names the rooms there are.
ManifestFits == saveQueue = <<>> => manifest = Entries(live, parent)

\* A restart brings back every room the manifest named, unless its mount is
\* down: creating the default room first must not make it forget the others.
AllRestored == kept \subseteq live \union {e[1] : e \in boot}

\* The tree outlives destructions and restarts: no room is left behind or lost.
TreeKept == NoOrphan /\ ManifestFits /\ AllRestored

\* A parent is told how the goals of the rooms it spawned end, or it is gone.
ParentTold == \A r \in Rooms : (r \in owed) ~> (r \notin owed \/ parent[r] \notin live)

\* At most maxRooms rooms exist.
CapHolds == Cardinality(live) <= maxRooms \/ ~Up

\* A provision that fails before it created its room destroys none.
OwnRollback ==
  [][\A w \in Workers : op[w].at = "checked" => op'[w].at # "destroying"]_treeVars
=============================================================================
