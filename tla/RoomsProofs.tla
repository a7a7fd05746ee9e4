---------------------------- MODULE RoomsProofs ----------------------------
(***************************************************************************)
(* What is proved of the rooms, of what their sessions read and of which   *)
(* room, with which overlays, is on screen:                                *)
(*  - RoomTreeKept: whatever is spawned, destroyed, rolled back, saved and *)
(*    restored, no room is left without its parent, the manifest names the *)
(*    rooms there are, and a start brings back those it named;             *)
(*  - RoomReadsTheRoom: a session holds the room's lines in their order,   *)
(*    none twice, none missing and none that a rollback took back;         *)
(*  - ScreenLayersKept, ScreenIsKept: a late answer takes nothing typed    *)
(*    off the screen, and the room asked for last is the one that is shown.*)
(***************************************************************************)
EXTENDS RoomContext, RoomTree, Screen, FiniteSetTheorems, SequenceTheorems,
        NaturalsInduction, WellFoundedInduction, TLAPS

(* ---- the tree of rooms ------------------------------------------------------- *)

\* At most one operation on the tree is under way: provisions and destructions do
\* not overlap.  Overlapping, the rollback of one can destroy the room of another.
OneOperation == \A v, w \in Workers : v = w

Pairs == Rooms \X (Rooms \union {NoRoom})
Provisions == [at : {"checked", "created"}, room : Rooms, by : Rooms \union {NoRoom}]
Destructions == [at : {"destroying"}, todo : SUBSET Rooms, now : Rooms \union {NoRoom}]

TreeTyped ==
  /\ live \subseteq Rooms
  /\ parent \in [Rooms -> Rooms \union {NoRoom}]
  /\ state \in [Rooms -> States]
  /\ op \in [Workers -> {Free} \union Provisions \union Destructions]

DiskTyped ==
  /\ manifest \in SUBSET Pairs
  /\ saveQueue \in Seq(SUBSET Pairs)
  /\ boot \in SUBSET Pairs

IdsOf(m) == {e[1] : e \in m}

\* A manifest names every room once, and the parent of each, unless a restart left
\* that one out.
Fits(m) ==
  /\ \A e \in m : e[2] \in IdsOf(m) \union skipped \union {NoRoom}
  /\ \A e, f \in m : e[1] = f[1] => e = f

\* The last manifest written, or to be written, names the rooms there are.
Newest == IF saveQueue = <<>> THEN manifest ELSE saveQueue[Len(saveQueue)]
NewestFits == Newest = Entries(live, parent)
SnapshotsFit == Fits(manifest) /\ \A i \in 1 .. Len(saveQueue) : Fits(saveQueue[i])

\* What a restart has still to restore fits what it restored.
BootFits ==
  /\ IdsOf(boot) \cap live = {}
  /\ \A e, f \in boot : e[1] = f[1] => e = f
  /\ \A e \in boot : e[2] \in IdsOf(boot) \union live \union skipped \union {NoRoom}

BusyLives == \A r \in Rooms : state[r] = "busy" => r \in live

\* What an operation under way still relies on when it goes on.
OpUp == \A w \in Workers : op[w] # Free => boot = {}
OpChecked == \A w \in Workers : op[w].at = "checked" =>
  op[w].room \notin live /\ op[w].by \in live \union {NoRoom}
OpCreated == \A w \in Workers : op[w].at = "created" =>
  \A c \in live : parent[c] = op[w].room => op[w].room \in skipped
OpDestroying == \A w \in Workers : op[w].at = "destroying" =>
  \A c \in live : parent[c] \in op[w].todo \ skipped => c \in op[w].todo
OpRemoving == \A w \in Workers : op[w].at = "destroying" /\ op[w].now # NoRoom =>
  /\ op[w].now \in op[w].todo
  /\ \A c \in op[w].todo : parent[c] # op[w].now
  /\ state[op[w].now] # "busy"

OpSound == OpUp /\ OpChecked /\ OpCreated /\ OpDestroying /\ OpRemoving

TreeInv ==
  /\ TreeTyped /\ DiskTyped
  /\ NoOrphan /\ NewestFits /\ SnapshotsFit /\ BootFits
  /\ BusyLives /\ OpSound
  /\ AllRestored

\* The states of a room are not its ids, the records of its operations distinct.
LEMMA OpAt ==
  ASSUME NEW o \in {Free} \union Provisions \union Destructions
  PROVE  /\ o.at = "free" <=> o = Free
         /\ o.at \in {"checked", "created"} <=> o \in Provisions
         /\ o.at = "destroying" <=> o \in Destructions
         /\ o.at \in {"free", "checked", "created", "destroying"}
<1>1. o = Free => o.at = "free"
  BY DEF Free
<1>2. o \in Provisions => o.at \in {"checked", "created"}
  BY DEF Provisions
<1>3. o \in Destructions => o.at = "destroying"
  BY DEF Destructions
<1>. QED  BY <1>1, <1>2, <1>3

\* The manifest written next is one of those that were to be written.
LEMMA WrittenFits ==
  ASSUME DiskTyped, NewestFits, SnapshotsFit, WriteManifest
  PROVE  DiskTyped' /\ NewestFits' /\ SnapshotsFit'
<1>. DEFINE q == saveQueue
<1>1. /\ q \in Seq(SUBSET Pairs) /\ q # <<>> /\ manifest' = q[1] /\ q' = Tail(q)
      /\ UNCHANGED <<live, parent, boot, skipped>>
  BY DEF WriteManifest, DiskTyped, tree, treeGhosts
<1>2. /\ Len(q) \in Nat \ {0} /\ Tail(q) \in Seq(SUBSET Pairs) /\ Len(Tail(q)) = Len(q) - 1
      /\ \A i \in 1 .. Len(q) - 1 : Tail(q)[i] = q[i + 1]
      /\ \A i \in 1 .. Len(q) : q[i] \in SUBSET Pairs
  BY <1>1
<1>3. DiskTyped'
  BY <1>1, <1>2 DEF DiskTyped
<1>4. Fits(manifest)' /\ \A i \in 1 .. Len(q)' : Fits(saveQueue[i])'
  <2>1. \A m : Fits(m) <=> Fits(m)'
    BY <1>1 DEF Fits, IdsOf
  <2>2. ASSUME NEW i \in 1 .. Len(q) - 1  PROVE Fits(saveQueue[i])'
    <3>1. i + 1 \in 1 .. Len(q) /\ q'[i] = q[i + 1]
      BY <1>1, <1>2
    <3>2. Fits(q[i + 1])
      BY <3>1 DEF SnapshotsFit
    <3>. QED  BY <1>1, <3>1, <3>2 DEF Fits, IdsOf
  <2>3. Fits(q[1])
    BY <1>2 DEF SnapshotsFit
  <2>4. Fits(manifest)'
    BY <1>1, <2>3 DEF Fits, IdsOf
  <2>. QED  BY <1>1, <1>2, <2>2, <2>4
<1>5. NewestFits'
  <2>1. q[Len(q)] = Entries(live, parent)
    BY <1>1 DEF NewestFits, Newest
  <2>2. CASE Len(q) = 1
    BY <1>1, <1>2, <2>1, <2>2 DEF NewestFits, Newest, Entries
  <2>3. CASE Len(q) > 1
    <3>1. Len(q) - 1 \in 1 .. Len(q) - 1
      BY <1>2, <2>3
    <3>2. Tail(q)[Len(q) - 1] = q[(Len(q) - 1) + 1] /\ (Len(q) - 1) + 1 = Len(q)
      BY <1>2, <3>1
    <3>4. Tail(q) # <<>>
      <4>1. Len(Tail(q)) # 0
        BY <1>2, <2>3
      <4>2. Len(<<>>) = 0
        OBVIOUS
      <4>. QED  BY ONLY <4>1, <4>2
    <3>3. q'[Len(q')] = q[Len(q)] /\ q' # <<>>
      BY <1>1, <1>2, <3>2, <3>4
    <3>. QED  BY <1>1, <3>3, <2>1 DEF NewestFits, Newest, Entries
  <2>. QED  BY <1>2, <2>2, <2>3
<1>. QED  BY <1>3, <1>4, <1>5 DEF SnapshotsFit

\* A manifest that is snapshotted names every room there is, and its parent.
LEMMA SnapshotFits ==
  ASSUME live \subseteq Rooms, parent \in [Rooms -> Rooms \union {NoRoom}], NoOrphan
  PROVE  Entries(live, parent) \in SUBSET Pairs /\ Fits(Entries(live, parent))
<1>1. Entries(live, parent) \in SUBSET Pairs
  BY DEF Entries, Pairs
<1>2. ASSUME NEW r \in live
      PROVE  <<r, parent[r]>> \in Entries(live, parent) /\ r \in IdsOf(Entries(live, parent))
  <2>1. <<r, parent[r]>> \in Entries(live, parent)
    BY DEF Entries
  <2>. QED  BY <2>1 DEF IdsOf
<1>3. ASSUME NEW e \in Entries(live, parent)  PROVE e[1] \in live /\ e[2] = parent[e[1]]
                                                    /\ e = <<e[1], parent[e[1]]>>
  BY DEF Entries
<1>4. \A e \in Entries(live, parent) :
        e[2] \in IdsOf(Entries(live, parent)) \union skipped \union {NoRoom}
  BY <1>2, <1>3 DEF NoOrphan
<1>5. \A e, f \in Entries(live, parent) : e[1] = f[1] => e = f
  BY <1>3
<1>. QED  BY <1>1, <1>4, <1>5 DEF Fits

\* Saving the manifest keeps what is on disk, and to be, in order.
LEMMA SavedFits ==
  ASSUME DiskTyped, SnapshotsFit, SaveManifest, manifest' = manifest, skipped' = skipped,
         Entries(live', parent') \in SUBSET Pairs, Fits(Entries(live, parent))'
  PROVE  saveQueue' \in Seq(SUBSET Pairs) /\ NewestFits' /\ SnapshotsFit'
<1>. DEFINE q == saveQueue  new == Entries(live', parent')
<1>1. q \in Seq(SUBSET Pairs) /\ q' = Append(q, new) /\ new \in SUBSET Pairs
  BY DEF DiskTyped, SaveManifest
<1>2. /\ q' \in Seq(SUBSET Pairs) /\ Len(q') = Len(q) + 1 /\ Len(q) \in Nat /\ q' # <<>>
      /\ q'[Len(q')] = new /\ \A i \in 1 .. Len(q) : q'[i] = q[i]
  BY <1>1
<1>3. NewestFits'
  BY <1>2 DEF NewestFits, Newest
<1>4. \A m : Fits(m) => Fits(m)'
  BY DEF Fits, IdsOf
<1>5. ASSUME NEW i \in 1 .. Len(q')  PROVE Fits(saveQueue[i])'
  <2>1. CASE i = Len(q')
    BY <1>2, <2>1
  <2>2. CASE i \in 1 .. Len(q)
    <3>1. Fits(q[i])
      BY <2>2 DEF SnapshotsFit
    <3>. QED  BY <3>1, <2>2, <1>2 DEF Fits, IdsOf
  <2>. QED  BY <1>2, <2>1, <2>2
<1>6. Fits(manifest)'
  BY DEF SnapshotsFit, Fits, IdsOf
<1>. QED  BY <1>2, <1>3, <1>5, <1>6 DEF SnapshotsFit

\* What the steps that neither touch the rooms nor the disk keep.
LEMMA RoomsKept ==
  ASSUME NoOrphan, NewestFits, SnapshotsFit, BootFits, AllRestored, DiskTyped,
         UNCHANGED <<live, parent, disk, boot, treeGhosts>>
  PROVE  NoOrphan' /\ NewestFits' /\ SnapshotsFit' /\ BootFits' /\ AllRestored' /\ DiskTyped'
<1>1. /\ live' = live /\ parent' = parent /\ manifest' = manifest /\ saveQueue' = saveQueue
      /\ boot' = boot /\ skipped' = skipped /\ kept' = kept
  BY DEF disk, treeGhosts
<1>2. NoOrphan'
  BY <1>1 DEF NoOrphan
<1>3. NewestFits'
  BY <1>1 DEF NewestFits, Newest, Entries
<1>4. SnapshotsFit'
  BY <1>1 DEF SnapshotsFit, Fits, IdsOf
<1>5. BootFits'
  BY <1>1 DEF BootFits, IdsOf
<1>6. AllRestored' /\ DiskTyped'
  BY <1>1 DEF AllRestored, DiskTyped
<1>. QED  BY <1>2, <1>3, <1>4, <1>5, <1>6

\* A room whose agents end a turn, or are stopped, is not busier than it was.
LEMMA TaskStep ==
  ASSUME TreeInv, NEW r \in Rooms, UNCHANGED <<live, parent, disk, boot, treeGhosts, op>>,
         state' \in [Rooms -> States], \A x \in Rooms \ {r} : state'[x] = state[x],
         state'[r] = "busy" =>
           state[r] = "busy" \/ r \in live \ BeingDestroyed
  PROVE  TreeInv'
<1>1. TreeTyped /\ DiskTyped /\ BusyLives /\ OpSound
  BY DEF TreeInv
<1>2. NoOrphan' /\ NewestFits' /\ SnapshotsFit' /\ BootFits' /\ AllRestored' /\ DiskTyped'
  BY RoomsKept DEF TreeInv
<1>3. op' = op /\ live' = live /\ parent' = parent /\ boot' = boot /\ skipped' = skipped
  BY DEF treeGhosts
<1>4. TreeTyped'
  BY <1>1, <1>3 DEF TreeTyped
<1>5. BusyLives'
  BY <1>1, <1>3 DEF BusyLives
<1>6. OpUp' /\ OpChecked' /\ OpCreated' /\ OpDestroying'
  BY <1>1, <1>3 DEF OpSound, OpUp, OpChecked, OpCreated, OpDestroying
<1>7. OpRemoving'
  <2> SUFFICES ASSUME NEW w \in Workers, op[w].at = "destroying", op[w].now # NoRoom
               PROVE  state'[op[w].now] # "busy"
    BY <1>1, <1>3 DEF OpSound, OpRemoving
  <2>1. op[w].now \in Rooms
    BY <1>1, OpAt DEF TreeTyped, Destructions
  <2>2. op[w].now \in BeingDestroyed
    BY <2>1 DEF BeingDestroyed
  <2>3. state[op[w].now] # "busy"
    BY <1>1 DEF OpSound, OpRemoving
  <2>. QED  BY <2>1, <2>2, <2>3
<1>. QED  BY <1>2, <1>4, <1>5, <1>6, <1>7 DEF TreeInv, OpSound

\* The steps of tasks.
LEMMA TasksKeep ==
  ASSUME TreeInv, ~Zombies, NEW r \in Rooms,
         Submit(r) \/ StopRoom(r) \/ AskOrchestrator(r) \/ Runs(r)
  PROVE  TreeInv'
<1>1. state \in [Rooms -> States]
  BY DEF TreeInv, TreeTyped
<1>2. CASE Submit(r)
  BY <1>1, <1>2, TaskStep DEF Submit, tree, treeGhosts, disk
<1>3. CASE StopRoom(r)
  <2>1. Aborted(r) \in States \ {"busy"}
    BY <1>1, <1>3 DEF StopRoom, Aborted, States
  <2>. QED  BY <1>1, <1>3, <2>1, TaskStep DEF StopRoom, tree, treeGhosts, disk
<1>4. CASE AskOrchestrator(r)
  <2>1. /\ state' = [state EXCEPT ![r] = "asking"] /\ "asking" \in States
        /\ UNCHANGED <<live, parent, disk, boot, treeGhosts, op>>
    BY <1>4 DEF AskOrchestrator, tree, States
  <2>. QED  BY <1>1, <2>1, TaskStep
<1>5. CASE EndTurn(r)
  <2>1. /\ state' = [state EXCEPT ![r] = "idle"] /\ "idle" \in States
        /\ UNCHANGED <<live, parent, disk, boot, treeGhosts, op>>
    BY <1>5 DEF EndTurn, tree, States
  <2>. QED  BY <1>1, <2>1, TaskStep
<1>6. CASE Pause(r)
  <2>1. /\ state' = [state EXCEPT ![r] = "paused"] /\ "paused" \in States
        /\ UNCHANGED <<live, parent, disk, boot, treeGhosts, op>>
    BY <1>6 DEF Pause, tree, States
  <2>. QED  BY <1>1, <2>1, TaskStep
<1>7. CASE TakeTask(r)
  <2>1. /\ UNCHANGED <<live, parent, disk, boot, treeGhosts, op>>
        /\ r \in live \ BeingDestroyed
    BY <1>7 DEF TakeTask, tree
  <2>2. state' \in [Rooms -> States] /\ \A x \in Rooms \ {r} : state'[x] = state[x]
    BY <1>1, <1>7 DEF TakeTask, States
  <2>. QED  BY <2>1, <2>2, TaskStep
<1>. QED  BY <1>2, <1>3, <1>4, <1>5, <1>6, <1>7 DEF Runs

\* What the steps of operations that leave the rooms alone keep.
LEMMA OpStep ==
  ASSUME TreeInv, OneOperation, NEW w \in Workers, NEW o, Up,
         UNCHANGED <<live, parent, disk, boot, treeGhosts>>,
         op' = [op EXCEPT ![w] = o],
         o \in {Free} \union Provisions \union Destructions,
         state' \in [Rooms -> States],
         \A x \in Rooms : state'[x] = "busy" => state[x] = "busy",
         o.at = "checked" => o.room \notin live /\ o.by \in live \union {NoRoom},
         o.at # "created",
         o.at = "destroying" => \A c \in live : parent[c] \in o.todo \ skipped => c \in o.todo,
         o.at = "destroying" /\ o.now # NoRoom =>
           /\ o.now \in o.todo
           /\ \A c \in o.todo : parent[c] # o.now
           /\ state'[o.now] # "busy"
  PROVE  TreeInv'
<1>1. TreeTyped /\ DiskTyped /\ BusyLives /\ OpSound
  BY DEF TreeInv
<1>2. NoOrphan' /\ NewestFits' /\ SnapshotsFit' /\ BootFits' /\ AllRestored' /\ DiskTyped'
  BY RoomsKept DEF TreeInv
<1>3. /\ live' = live /\ parent' = parent /\ boot' = boot /\ skipped' = skipped
      /\ \A v \in Workers : op'[v] = o
  BY <1>1 DEF treeGhosts, OneOperation, TreeTyped
<1>4. TreeTyped'
  BY <1>1, <1>3 DEF TreeTyped
<1>5. BusyLives'
  BY <1>1, <1>3 DEF BusyLives
<1>6. OpUp'
  BY <1>3 DEF OpUp, Up
<1>7. OpChecked' /\ OpCreated' /\ OpDestroying' /\ OpRemoving'
  BY <1>3 DEF OpChecked, OpCreated, OpDestroying, OpRemoving
<1>. QED  BY <1>2, <1>4, <1>5, <1>6, <1>7 DEF TreeInv, OpSound

\* A worker that is free does nothing.
LEMMA FreeIsNot == Free.at = "free" /\ Free \notin Provisions /\ Free \notin Destructions
  BY DEF Free, Provisions, Destructions

\* Provisions that check, are refused, roll back, or hand out the goal.
LEMMA ProvisionsKeep ==
  ASSUME TreeInv, OneOperation, NEW w \in Workers,
         \/ \E r \in Rooms, by \in Rooms \union {NoRoom} : Provision(w, r, by)
         \/ Refuse(w) \/ RollBack(w) \/ SubmitGoal(w)
  PROVE  TreeInv'
<1>1. /\ TreeTyped /\ BusyLives /\ OpSound
      /\ state \in [Rooms -> States] /\ op[w] \in {Free} \union Provisions \union Destructions
  BY DEF TreeInv, TreeTyped
<1>2. ASSUME NEW r \in Rooms, NEW by \in Rooms \union {NoRoom}, Provision(w, r, by)
      PROVE  TreeInv'
  <2>. DEFINE o == [at |-> "checked", room |-> r, by |-> by]
  <2>1. /\ Up /\ UNCHANGED <<live, parent, disk, boot, treeGhosts, state>>
        /\ op' = [op EXCEPT ![w] = o] /\ r \notin live
        /\ by # NoRoom => state[by] = "busy"
    BY <1>2 DEF Provision, Works, tree, tasks
  <2>2. o \in Provisions /\ o.at = "checked" /\ o.room = r /\ o.by = by
    BY DEF Provisions
  <2>3. by \in live \union {NoRoom}
    BY <1>1, <2>1 DEF BusyLives
  <2>. HIDE DEF o
  <2>. QED  BY <1>1, <2>1, <2>2, <2>3, OpStep
<1>3. ASSUME op' = [op EXCEPT ![w] = Free], Up,
             UNCHANGED <<live, parent, disk, boot, treeGhosts, state>>
      PROVE  TreeInv'
  BY <1>1, <1>3, FreeIsNot, OpStep
<1>4. op[w].at \in {"checked", "created"} => Up
  BY <1>1, OpAt DEF OpSound, OpUp, Up
<1>5. CASE Refuse(w)
  BY <1>3, <1>4, <1>5 DEF Refuse, Works, tree, tasks
<1>6. CASE SubmitGoal(w)
  BY <1>3, <1>4, <1>6 DEF SubmitGoal, Works, tree
<1>7. CASE RollBack(w)
  <2>. DEFINE o == [at |-> "destroying", todo |-> {op[w].room}, now |-> NoRoom]
  <2>1. /\ op[w].at \in {"checked", "created"}
        /\ Up /\ UNCHANGED <<live, parent, disk, boot, treeGhosts, state>>
    BY <1>4, <1>7 DEF RollBack, tree, tasks
  <2>2. CASE op[w].room \notin live
    BY <1>3, <1>7, <2>1, <2>2 DEF RollBack, Works
  <2>3. CASE op[w].room \in live
    <3>1. op' = [op EXCEPT ![w] = o]
      BY <1>7, <2>3 DEF RollBack, Works
    <3>2. op[w].at = "created"
      BY <1>1, <2>1, <2>3 DEF OpSound, OpChecked
    <3>3. \A c \in live : parent[c] = op[w].room => op[w].room \in skipped
      BY <1>1, <3>2 DEF OpSound, OpCreated
    <3>4. /\ o \in Destructions /\ o.at = "destroying" /\ o.todo = {op[w].room}
          /\ o.now = NoRoom
      BY <1>1, <2>3 DEF Destructions, TreeTyped
    <3>. HIDE DEF o
    <3>. QED  BY <1>1, <2>1, <3>1, <3>3, <3>4, OpStep
  <2>. QED  BY <2>2, <2>3
<1>. QED  BY <1>2, <1>5, <1>6, <1>7

\* What is destroyed with a room takes what it spawned along.
LEMMA SubtreeDownward ==
  ASSUME NEW r \in Rooms, live \subseteq Rooms
  PROVE  Subtree(r) \subseteq Rooms /\ r \in Subtree(r) /\ Downward(Subtree(r))
  BY DEF Subtree, Downward

\* A destruction begins, or comes to its next room.
LEMMA DestructionsKeep ==
  ASSUME TreeInv, OneOperation, NEW w \in Workers,
         (\E r \in Rooms : DestroySubtree(w, r)) \/ DestroyAborts(w)
  PROVE  TreeInv'
<1>1. /\ TreeTyped /\ BusyLives /\ OpSound /\ live \subseteq Rooms
      /\ state \in [Rooms -> States] /\ op[w] \in {Free} \union Provisions \union Destructions
  BY DEF TreeInv, TreeTyped
<1>2. ASSUME NEW r \in Rooms, DestroySubtree(w, r)  PROVE TreeInv'
  <2>. DEFINE o == [at |-> "destroying", todo |-> Subtree(r), now |-> NoRoom]
  <2>1. /\ Up /\ UNCHANGED <<live, parent, disk, boot, treeGhosts, state>>
        /\ op' = [op EXCEPT ![w] = o]
    BY <1>2 DEF DestroySubtree, Works, tree, tasks
  <2>2. /\ o \in Destructions /\ o.at = "destroying" /\ o.todo = Subtree(r) /\ o.now = NoRoom
    BY <1>1, SubtreeDownward DEF Destructions
  <2>3. \A c \in live : parent[c] \in o.todo \ skipped => c \in o.todo
    BY <1>1, <2>2, SubtreeDownward DEF Downward
  <2>. HIDE DEF o
  <2>. QED  BY <1>1, <2>1, <2>2, <2>3, OpStep
<1>3. ASSUME DestroyAborts(w)  PROVE TreeInv'
  <2>1. /\ op[w].at = "destroying" /\ op[w].now = NoRoom
        /\ UNCHANGED <<live, parent, disk, boot, treeGhosts>>
    BY <1>3 DEF DestroyAborts, tree
  <2>2. /\ Up /\ op[w] \in Destructions
        /\ \A c \in live : parent[c] \in op[w].todo \ skipped => c \in op[w].todo
    BY <1>1, <2>1, OpAt, FreeIsNot DEF OpSound, OpUp, OpDestroying, Up
  <2>3. PICK r \in op[w].todo :
          /\ \A c \in op[w].todo : parent[c] # r
          /\ IF r \in live
             THEN state' = [state EXCEPT ![r] = Aborted(r)] /\ Works(w, [op[w] EXCEPT !.now = r])
             ELSE UNCHANGED state /\ Works(w, Done(w, r))
    BY <1>3 DEF DestroyAborts
  <2>4. r \in Rooms
    BY <2>2, <2>3 DEF Destructions
  <2>5. CASE r \in live
    <3>. DEFINE o == [op[w] EXCEPT !.now = r]
    <3>1. /\ o \in Destructions /\ o.at = "destroying" /\ o.todo = op[w].todo /\ o.now = r
      BY <2>2, <2>4 DEF Destructions
    <3>2. Aborted(r) \in States \ {"busy"}
      BY <1>1, <2>4 DEF Aborted, States
    <3>3. op' = [op EXCEPT ![w] = o] /\ state' = [state EXCEPT ![r] = Aborted(r)]
      BY <2>3, <2>5 DEF Works
    <3>4. /\ state' \in [Rooms -> States] /\ state'[r] # "busy"
          /\ \A x \in Rooms : state'[x] = "busy" => state[x] = "busy"
      BY <1>1, <2>4, <3>2, <3>3
    <3>. HIDE DEF o
    <3>. QED  BY <1>1, <2>1, <2>2, <2>3, <3>1, <3>3, <3>4, OpStep
  <2>6. CASE r \notin live /\ op[w].todo = {r}
    <3>1. op' = [op EXCEPT ![w] = Free] /\ state' = state
      BY <2>3, <2>6 DEF Works, Done
    <3>. QED  BY <1>1, <2>1, <2>2, <3>1, FreeIsNot, OpStep
  <2>7. CASE r \notin live /\ op[w].todo # {r}
    <3>. DEFINE o == [op[w] EXCEPT !.todo = @ \ {r}, !.now = NoRoom]
    <3>1. op' = [op EXCEPT ![w] = o] /\ state' = state
      BY <2>3, <2>7 DEF Works, Done
    <3>2. /\ o \in Destructions /\ o.at = "destroying" /\ o.todo = op[w].todo \ {r}
          /\ o.now = NoRoom
      BY <2>2 DEF Destructions
    <3>3. \A c \in live : parent[c] \in o.todo \ skipped => c \in o.todo
      BY <2>2, <2>7, <3>2
    <3>. HIDE DEF o
    <3>. QED  BY <1>1, <2>1, <2>2, <3>1, <3>2, <3>3, OpStep
  <2>. QED  BY <2>5, <2>6, <2>7
<1>. QED  BY <1>2, <1>3

\* A room is created: beneath the one that spawned it, which is still there.
LEMMA CreateKeeps ==
  ASSUME TreeInv, OneOperation, NEW w \in Workers, CreateRoom(w)
  PROVE  TreeInv'
<1>. DEFINE r == op[w].room  by == op[w].by  o == [at |-> "created", room |-> r, by |-> by]
<1>1. /\ TreeTyped /\ DiskTyped /\ NoOrphan /\ NewestFits /\ SnapshotsFit /\ BootFits
      /\ BusyLives /\ OpSound /\ AllRestored
      /\ op[w].at = "checked" /\ op[w] \in {Free} \union Provisions \union Destructions
  BY DEF TreeInv, TreeTyped, CreateRoom
<1>2. op[w] \in Provisions /\ r \in Rooms \ live /\ by \in live \union {NoRoom} /\ Up
  BY <1>1, OpAt, FreeIsNot DEF OpSound, OpChecked, OpUp, Up, Provisions
<1>3. /\ live' = live \union {r} /\ parent' = [parent EXCEPT ![r] = by]
      /\ state' = [state EXCEPT ![r] = "idle"] /\ op' = [op EXCEPT ![w] = o]
      /\ SaveManifest /\ manifest' = manifest /\ boot' = boot
      /\ skipped' = skipped /\ kept' = kept
  BY DEF CreateRoom, Works, treeGhosts
<1>4. o \in Provisions /\ o.at = "created" /\ o.room = r
  BY <1>2 DEF Provisions
<1>. HIDE DEF r, by, o
<1>5. TreeTyped'
  BY <1>1, <1>2, <1>3, <1>4 DEF TreeTyped, States
<1>6. NoOrphan'
  BY <1>1, <1>2, <1>3 DEF NoOrphan, TreeTyped
<1>7. Entries(live', parent') \in SUBSET Pairs /\ Fits(Entries(live, parent))'
  <2>1. (/\ live \subseteq Rooms /\ parent \in [Rooms -> Rooms \union {NoRoom}] /\ NoOrphan
         => Entries(live, parent) \in SUBSET Pairs /\ Fits(Entries(live, parent)))'
    BY SnapshotFits, PTL
  <2>. QED  BY <1>5, <1>6, <2>1 DEF TreeTyped
<1>8. saveQueue' \in Seq(SUBSET Pairs) /\ NewestFits' /\ SnapshotsFit'
  BY <1>1, <1>3, <1>7, SavedFits
<1>9. DiskTyped'
  BY <1>1, <1>3, <1>8 DEF DiskTyped
<1>10. BootFits' /\ AllRestored'
  BY <1>1, <1>2, <1>3 DEF BootFits, AllRestored, IdsOf, Up
<1>11. BusyLives'
  BY <1>1, <1>2, <1>3 DEF BusyLives, TreeTyped
<1>12. \A v \in Workers : op'[v] = o
  BY <1>1, <1>3 DEF OneOperation, TreeTyped
<1>13. \A c \in live' : parent'[c] = r => r \in skipped
  <2>1. \A c \in live : parent[c] = r => r \in skipped
    BY <1>1, <1>2, NoRoomAssumption DEF NoOrphan
  <2>2. by # r
    BY <1>2, NoRoomAssumption
  <2>. QED  BY <1>1, <1>2, <1>3, <2>1, <2>2 DEF TreeTyped
<1>14. OpSound'
  BY <1>2, <1>3, <1>4, <1>12, <1>13
     DEF OpSound, OpUp, OpChecked, OpCreated, OpDestroying, OpRemoving, Up
<1>. QED  BY <1>5, <1>6, <1>8, <1>9, <1>10, <1>11, <1>14 DEF TreeInv

\* A room leaves the map: whatever it spawned has left it before.
LEMMA RemoveKeeps ==
  ASSUME TreeInv, OneOperation, NEW w \in Workers, DestroyRemoves(w)
  PROVE  TreeInv'
<1>. DEFINE r == op[w].now  todo == op[w].todo
<1>1. /\ TreeTyped /\ DiskTyped /\ NoOrphan /\ NewestFits /\ SnapshotsFit /\ BootFits
      /\ BusyLives /\ OpSound /\ AllRestored /\ live \subseteq Rooms
      /\ op[w].at = "destroying" /\ r # NoRoom
      /\ op[w] \in {Free} \union Provisions \union Destructions
  BY DEF TreeInv, TreeTyped, DestroyRemoves
<1>2. /\ op[w] \in Destructions /\ Up /\ r \in Rooms /\ r \in todo
      /\ \A c \in todo : parent[c] # r
      /\ \A c \in live : parent[c] \in todo \ skipped => c \in todo
      /\ state[r] # "busy"
  BY <1>1, OpAt, FreeIsNot DEF OpSound, OpRemoving, OpDestroying, OpUp, Up, Destructions
<1>3. /\ live' = live \ {r} /\ parent' = parent /\ state' = state
      /\ op' = [op EXCEPT ![w] = Done(w, r)]
      /\ manifest' = manifest /\ boot' = boot /\ skipped' = skipped /\ kept' = kept \ {r}
      /\ IF r \in live THEN SaveManifest ELSE UNCHANGED saveQueue
  BY DEF DestroyRemoves, Works, tasks
<1>4. /\ Done(w, r) \in {Free} \union Destructions
      /\ Done(w, r) # Free => Done(w, r).at = "destroying" /\ Done(w, r).todo = todo \ {r}
                              /\ Done(w, r).now = NoRoom
  BY <1>2 DEF Done, Destructions
<1>. DEFINE o == Done(w, r)
<1>. HIDE DEF r, todo, o
<1>5. TreeTyped'
  BY <1>1, <1>3, <1>4 DEF TreeTyped, o
<1>6. NoOrphan'
  <2>1. \A c \in live \ {r} : parent[c] = r => r \in skipped
    BY <1>2
  <2>. QED  BY <1>1, <1>3, <2>1 DEF NoOrphan
<1>7. DiskTyped' /\ NewestFits' /\ SnapshotsFit'
  <2>1. CASE r \in live
    <3>1. Entries(live', parent') \in SUBSET Pairs /\ Fits(Entries(live, parent))'
      <4>1. (/\ live \subseteq Rooms /\ parent \in [Rooms -> Rooms \union {NoRoom}] /\ NoOrphan
             => Entries(live, parent) \in SUBSET Pairs /\ Fits(Entries(live, parent)))'
        BY SnapshotFits, PTL
      <4>. QED  BY <1>5, <1>6, <4>1 DEF TreeTyped
    <3>2. saveQueue' \in Seq(SUBSET Pairs) /\ NewestFits' /\ SnapshotsFit'
      BY <1>1, <1>3, <2>1, <3>1, SavedFits
    <3>. QED  BY <1>1, <1>3, <3>2 DEF DiskTyped
  <2>2. CASE r \notin live
    <3>1. live' = live /\ saveQueue' = saveQueue
      BY <1>3, <2>2
    <3>2. DiskTyped'
      BY <1>1, <1>3, <3>1 DEF DiskTyped
    <3>3. NewestFits'
      BY <1>1, <1>3, <3>1 DEF NewestFits, Newest, Entries
    <3>4. SnapshotsFit'
      BY <1>1, <1>3, <3>1 DEF SnapshotsFit, Fits, IdsOf
    <3>. QED  BY <3>2, <3>3, <3>4
  <2>. QED  BY <2>1, <2>2
<1>8. BootFits' /\ AllRestored'
  BY <1>1, <1>2, <1>3 DEF BootFits, AllRestored, IdsOf, Up
<1>9. BusyLives'
  BY <1>1, <1>2, <1>3 DEF BusyLives
<1>10. \A v \in Workers : op'[v] = o
  BY <1>1, <1>3 DEF OneOperation, TreeTyped, o
<1>11. OpSound'
  <2>1. o = Free => OpSound'
    BY <1>10, FreeIsNot DEF OpSound, OpUp, OpChecked, OpCreated, OpDestroying, OpRemoving, Free
  <2>2. ASSUME o # Free  PROVE OpSound'
    <3>1. o.at = "destroying" /\ o.todo = todo \ {r} /\ o.now = NoRoom
      BY <1>4, <2>2 DEF o
    <3>2. \A c \in live' : parent'[c] \in o.todo \ skipped' => c \in o.todo
      BY <1>2, <1>3, <3>1
    <3>. QED  BY <1>2, <1>3, <1>10, <3>1, <3>2
         DEF OpSound, OpUp, OpChecked, OpCreated, OpDestroying, OpRemoving, Up
  <2>. QED  BY <2>1, <2>2
<1>. QED  BY <1>5, <1>6, <1>7, <1>8, <1>9, <1>11 DEF TreeInv

\* The process ends: what was written is what is restored.
LEMMA RestartKeeps ==
  ASSUME TreeInv, Restart
  PROVE  TreeInv'
<1>1. /\ TreeTyped /\ DiskTyped /\ SnapshotsFit
  BY DEF TreeInv
<1>2. /\ live' = {Default} /\ parent' = [r \in Rooms |-> NoRoom]
      /\ state' = [r \in Rooms |-> "idle"] /\ op' = [w \in Workers |-> Free]
      /\ boot' = {e \in manifest : e[1] # Default}
      /\ kept' = IdsOf(manifest) /\ manifest' = manifest /\ skipped' = skipped
      /\ saveQueue' = <<Entries(live', parent')>>
  BY DEF Restart, IdsOf, ReadAtRestart
<1>3. Default \in Rooms
  BY RoomsAssumption
<1>4. TreeTyped'
  BY <1>2, <1>3 DEF TreeTyped, States
<1>5. NoOrphan'
  BY <1>2, <1>3 DEF NoOrphan
<1>6. Entries(live', parent') \in SUBSET Pairs /\ Fits(Entries(live, parent))'
  <2>1. (/\ live \subseteq Rooms /\ parent \in [Rooms -> Rooms \union {NoRoom}] /\ NoOrphan
         => Entries(live, parent) \in SUBSET Pairs /\ Fits(Entries(live, parent)))'
    BY SnapshotFits, PTL
  <2>. QED  BY <1>4, <1>5, <2>1 DEF TreeTyped
<1>7. /\ saveQueue' \in Seq(SUBSET Pairs) /\ Len(saveQueue') = 1 /\ saveQueue' # <<>>
      /\ saveQueue'[1] = Entries(live', parent')
  <2>. DEFINE m == Entries(live', parent')
  <2>1. m \in SUBSET Pairs /\ saveQueue' = <<m>>
    BY <1>2, <1>6
  <2>. HIDE DEF m
  <2>2. /\ <<m>> \in Seq(SUBSET Pairs) /\ Len(<<m>>) = 1 /\ <<m>>[1] = m
        /\ <<m>> # <<>>
    BY ONLY <2>1
  <2>. QED  BY <2>1, <2>2 DEF m
<1>8. DiskTyped'
  BY <1>1, <1>2, <1>7 DEF DiskTyped
<1>9. NewestFits'
  BY <1>7 DEF NewestFits, Newest
<1>10. SnapshotsFit'
  <2>1. Fits(manifest)'
    BY <1>1, <1>2 DEF SnapshotsFit, Fits, IdsOf
  <2>2. ASSUME NEW i \in 1 .. Len(saveQueue')  PROVE Fits(saveQueue[i])'
    <3>1. i = 1
      BY <1>7
    <3>. QED  BY <1>6, <1>7, <3>1 DEF Fits, IdsOf
  <2>. QED  BY <2>1, <2>2 DEF SnapshotsFit
<1>11. BootFits' /\ AllRestored'
  <2>1. \A e \in manifest : e[1] = Default \/ e[1] \in IdsOf(boot)'
    BY <1>2 DEF IdsOf
  <2>2. AllRestored'
    BY <1>2, <2>1 DEF AllRestored, IdsOf
  <2>3. \A e \in boot' : e[2] \in IdsOf(boot)' \union live' \union skipped' \union {NoRoom}
    <3> SUFFICES ASSUME NEW e \in boot', e[2] \in IdsOf(manifest)
                 PROVE  e[2] \in IdsOf(boot)' \union live'
      BY <1>1, <1>2 DEF SnapshotsFit, Fits
    <3>1. PICK d \in manifest : e[2] = d[1]
      BY DEF IdsOf
    <3>. QED  BY <1>2, <2>1, <3>1
  <2>4. /\ IdsOf(boot)' \cap live' = {}
        /\ \A e, f \in boot' : e[1] = f[1] => e = f
    BY <1>1, <1>2 DEF SnapshotsFit, Fits, IdsOf
  <2>. QED  BY <2>2, <2>3, <2>4 DEF BootFits
<1>12. BusyLives'
  BY <1>2 DEF BusyLives
<1>13. OpSound'
  BY <1>2, FreeIsNot DEF OpSound, OpUp, OpChecked, OpCreated, OpDestroying, OpRemoving, Free
<1>. QED  BY <1>4, <1>5, <1>8, <1>9, <1>10, <1>11, <1>12, <1>13 DEF TreeInv

\* While the server boots no operation is under way.
LEMMA BootAlone ==
  ASSUME TreeInv, boot # {}
  PROVE  \A w \in Workers : op[w] = Free
  BY DEF TreeInv, OpSound, OpUp

\* A room is restored, after its parent.
LEMMA RestoreKeeps ==
  ASSUME TreeInv, NEW e \in boot, RestoreRoom(e)
  PROVE  TreeInv'
<1>1. /\ TreeTyped /\ DiskTyped /\ NoOrphan /\ NewestFits /\ SnapshotsFit /\ BootFits
      /\ BusyLives /\ OpSound /\ AllRestored /\ live \subseteq Rooms
      /\ \A w \in Workers : op[w] = Free
  BY BootAlone DEF TreeInv, TreeTyped
<1>2. e \in Pairs /\ e[1] \in Rooms /\ e[2] \in Rooms \union {NoRoom}
  BY <1>1 DEF DiskTyped, Pairs
<1>3. /\ live' = live \union {e[1]} /\ parent' = [parent EXCEPT ![e[1]] = e[2]]
      /\ boot' = boot \ {e} /\ state' = state /\ op' = op /\ manifest' = manifest
      /\ skipped' = skipped /\ kept' = kept /\ SaveManifest
      /\ e[2] \in skipped \/ \A d \in boot : d[1] # e[2]
  BY DEF RestoreRoom, tasks, treeGhosts
<1>4. e[1] \notin live /\ e[2] \in live \union skipped \union {NoRoom}
  <2>1. e[1] \in IdsOf(boot)
    BY DEF IdsOf
  <2>2. e[2] \in IdsOf(boot) => e[2] \in skipped
    BY <1>3 DEF IdsOf
  <2>. QED  BY <1>1, <2>1, <2>2 DEF BootFits
<1>5. TreeTyped'
  BY <1>1, <1>2, <1>3 DEF TreeTyped
<1>6. NoOrphan'
  BY <1>1, <1>2, <1>3, <1>4 DEF NoOrphan, TreeTyped
<1>7. Entries(live', parent') \in SUBSET Pairs /\ Fits(Entries(live, parent))'
  <2>1. (/\ live \subseteq Rooms /\ parent \in [Rooms -> Rooms \union {NoRoom}] /\ NoOrphan
         => Entries(live, parent) \in SUBSET Pairs /\ Fits(Entries(live, parent)))'
    BY SnapshotFits, PTL
  <2>. QED  BY <1>5, <1>6, <2>1 DEF TreeTyped
<1>8. saveQueue' \in Seq(SUBSET Pairs) /\ NewestFits' /\ SnapshotsFit'
  BY <1>1, <1>3, <1>7, SavedFits
<1>9. DiskTyped'
  BY <1>1, <1>3, <1>8 DEF DiskTyped
<1>10. \A x : x \in IdsOf(boot) => x = e[1] \/ x \in IdsOf(boot)'
  BY <1>3 DEF IdsOf
<1>11. BootFits' /\ AllRestored'
  <2>1. IdsOf(boot)' \cap live' = {}
    <3>1. \A d \in boot' : d[1] \notin live /\ d[1] # e[1]
      BY <1>1, <1>3 DEF BootFits, IdsOf
    <3>. QED  BY <1>3, <3>1 DEF IdsOf
  <2>2. /\ \A d, f \in boot' : d[1] = f[1] => d = f
        /\ \A d \in boot' : d[2] \in IdsOf(boot)' \union live' \union skipped' \union {NoRoom}
    BY <1>1, <1>3, <1>10 DEF BootFits
  <2>3. AllRestored'
    BY <1>1, <1>3, <1>10 DEF AllRestored, IdsOf
  <2>. QED  BY <2>1, <2>2, <2>3 DEF BootFits
<1>12. BusyLives'
  BY <1>1, <1>3 DEF BusyLives
<1>13. OpSound'
  BY <1>1, <1>3, FreeIsNot DEF OpSound, OpUp, OpChecked, OpCreated, OpDestroying, OpRemoving, Free
<1>. QED  BY <1>5, <1>6, <1>8, <1>9, <1>11, <1>12, <1>13 DEF TreeInv

\* A room whose mount is down is left out.
LEMMA SkipKeeps ==
  ASSUME TreeInv, NEW e \in boot, SkipRoom(e)
  PROVE  TreeInv'
<1>1. /\ TreeTyped /\ DiskTyped /\ NoOrphan /\ NewestFits /\ SnapshotsFit /\ BootFits
      /\ BusyLives /\ OpSound /\ AllRestored
      /\ \A w \in Workers : op[w] = Free
  BY BootAlone DEF TreeInv
<1>2. /\ live' = live /\ parent' = parent /\ state' = state /\ op' = op
      /\ manifest' = manifest /\ saveQueue' = saveQueue
      /\ boot' = boot \ {e} /\ skipped' = skipped \union {e[1]} /\ kept' = kept \ {e[1]}
  BY DEF SkipRoom, tree, tasks, disk
<1>3. TreeTyped' /\ DiskTyped' /\ NoOrphan' /\ BusyLives'
  BY <1>1, <1>2 DEF TreeTyped, DiskTyped, NoOrphan, BusyLives
<1>4. NewestFits'
  BY <1>1, <1>2 DEF NewestFits, Newest, Entries
<1>5. SnapshotsFit'
  BY <1>1, <1>2 DEF SnapshotsFit, Fits, IdsOf
<1>6. \A x : x \in IdsOf(boot) => x = e[1] \/ x \in IdsOf(boot)'
  BY <1>2 DEF IdsOf
<1>7. BootFits' /\ AllRestored'
  <2>1. IdsOf(boot)' \cap live' = {}
    BY <1>1, <1>2 DEF BootFits, IdsOf
  <2>2. /\ \A d, f \in boot' : d[1] = f[1] => d = f
        /\ \A d \in boot' : d[2] \in IdsOf(boot)' \union live' \union skipped' \union {NoRoom}
    BY <1>1, <1>2, <1>6 DEF BootFits
  <2>3. AllRestored'
    BY <1>1, <1>2, <1>6 DEF AllRestored, IdsOf
  <2>. QED  BY <2>1, <2>2, <2>3 DEF BootFits
<1>8. OpSound'
  BY <1>1, <1>2, FreeIsNot DEF OpSound, OpUp, OpChecked, OpCreated, OpDestroying, OpRemoving, Free
<1>. QED  BY <1>3, <1>4, <1>5, <1>7, <1>8 DEF TreeInv

\* The first rooms, and their manifest.
LEMMA TreeBegins == TreeInit => TreeInv
<1>. SUFFICES ASSUME TreeInit PROVE TreeInv
  OBVIOUS
<1>1. /\ live = {Default} /\ parent = [r \in Rooms |-> NoRoom]
      /\ state = [r \in Rooms |-> "idle"] /\ op = [w \in Workers |-> Free]
      /\ manifest = {<<Default, NoRoom>>} /\ saveQueue = <<>> /\ boot = {}
      /\ skipped = {} /\ kept = {} /\ Default \in Rooms
  BY RoomsAssumption DEF TreeInit
<1>2. TreeTyped /\ NoOrphan /\ BusyLives
  BY <1>1 DEF TreeTyped, States, NoOrphan, BusyLives
<1>3. DiskTyped
  BY <1>1 DEF DiskTyped, Pairs
<1>4. NewestFits
  BY <1>1 DEF NewestFits, Newest, Entries
<1>5. SnapshotsFit
  BY <1>1 DEF SnapshotsFit, Fits
<1>6. BootFits /\ AllRestored
  BY <1>1 DEF BootFits, AllRestored, IdsOf
<1>7. OpSound
  BY <1>1, FreeIsNot DEF OpSound, OpUp, OpChecked, OpCreated, OpDestroying, OpRemoving, Free
<1>. QED  BY <1>2, <1>3, <1>4, <1>5, <1>6, <1>7 DEF TreeInv

\* Every step of the tree of rooms keeps it sound.
LEMMA TreeStep ==
  ASSUME OneOperation, ~Zombies
  PROVE  TreeInv /\ [TreeNext]_treeVars => TreeInv'
<1>. SUFFICES ASSUME TreeInv, [TreeNext]_treeVars  PROVE TreeInv'
  OBVIOUS
<1>1. CASE WriteManifest
  <2>1. /\ DiskTyped' /\ NewestFits' /\ SnapshotsFit'
    BY <1>1, WrittenFits DEF TreeInv
  <2>2. /\ live' = live /\ parent' = parent /\ state' = state /\ op' = op /\ boot' = boot
        /\ skipped' = skipped /\ kept' = kept
    BY <1>1 DEF WriteManifest, tree, tasks, treeGhosts
  <2>3. TreeTyped' /\ NoOrphan' /\ BusyLives'
    BY <2>2 DEF TreeInv, TreeTyped, NoOrphan, BusyLives
  <2>4. BootFits' /\ AllRestored'
    BY <2>2 DEF TreeInv, BootFits, AllRestored, IdsOf
  <2>5. OpSound'
    BY <2>2 DEF TreeInv, OpSound, OpUp, OpChecked, OpCreated, OpDestroying, OpRemoving
  <2>. QED  BY <2>1, <2>3, <2>4, <2>5 DEF TreeInv
<1>2. CASE Restart
  BY <1>2, RestartKeeps
<1>3. ASSUME NEW e \in boot, RestoreRoom(e) \/ SkipRoom(e)  PROVE TreeInv'
  BY <1>3, RestoreKeeps, SkipKeeps
<1>4. ASSUME NEW r \in Rooms, Submit(r) \/ StopRoom(r) \/ AskOrchestrator(r) \/ Runs(r)
      PROVE  TreeInv'
  BY <1>4, TasksKeep
<1>5. ASSUME NEW w \in Workers,
             \/ \E r \in Rooms, by \in Rooms \union {NoRoom} : Provision(w, r, by)
             \/ Refuse(w) \/ RollBack(w) \/ SubmitGoal(w)
      PROVE  TreeInv'
  BY <1>5, ProvisionsKeep
<1>6. ASSUME NEW w \in Workers,
             (\E r \in Rooms : DestroySubtree(w, r)) \/ DestroyAborts(w)
      PROVE  TreeInv'
  BY <1>6, DestructionsKeep
<1>7. ASSUME NEW w \in Workers, CreateRoom(w) \/ DestroyRemoves(w)  PROVE TreeInv'
  BY <1>7, CreateKeeps, RemoveKeeps
<1>8. CASE UNCHANGED treeVars
  <2>1. /\ live' = live /\ parent' = parent /\ state' = state /\ op' = op /\ boot' = boot
        /\ skipped' = skipped /\ kept' = kept /\ UNCHANGED <<disk, treeGhosts>>
    BY <1>8 DEF treeVars, tree, tasks, treeGhosts
  <2>2. NoOrphan' /\ NewestFits' /\ SnapshotsFit' /\ BootFits' /\ AllRestored' /\ DiskTyped'
    BY <2>1, RoomsKept DEF TreeInv
  <2>3. TreeTyped' /\ BusyLives'
    BY <2>1 DEF TreeInv, TreeTyped, BusyLives
  <2>4. OpSound'
    BY <2>1 DEF TreeInv, OpSound, OpUp, OpChecked, OpCreated, OpDestroying, OpRemoving
  <2>. QED  BY <2>2, <2>3, <2>4 DEF TreeInv
<1>. QED  BY <1>1, <1>2, <1>3, <1>4, <1>5, <1>6, <1>7, <1>8 DEF TreeNext, Proceeds

\* The tree outlives destructions and restarts: no room is left under a parent
\* that was destroyed, what rooms.json was last given names the rooms there are,
\* and a restart brings back every room it named whose mount is up.  Operations
\* on the tree do not overlap, and no task runs on a room being destroyed.
THEOREM RoomTreeKept ==
  ASSUME OneOperation, ~Zombies
  PROVE  TreeSpec => []TreeKept
<1>1. TreeInv => TreeKept
  BY DEF TreeInv, TreeKept, ManifestFits, NewestFits, Newest
<1>. QED  BY <1>1, TreeBegins, TreeStep, PTL DEF TreeSpec

(* ---- what a seat has read ------------------------------------------------------ *)

\* No two of the hats that run in parallel share a seat: in one wave they would
\* both be given the lines their seat has not read.
OneParallelHat == \A g, h \in Parallel : SeatOf[g] = SeatOf[h] => g = h

EntriesOf == [id : Nat, author : Hats \union Outsiders]

RoomTyped ==
  /\ transcript \in Seq(EntriesOf)
  /\ cursor \in [Seats -> Nat]
  /\ \A s \in Seats : cursor[s] <= Len(transcript)
  /\ memory \in [Seats -> Seq(Nat)]
  /\ crossed \in [Seats -> SUBSET Nat]
  /\ fresh \in Nat

WaveTyped ==
  /\ queue \in Seq(Hats) /\ group \in Seq(Hats) /\ held \in Seq(Hats)
  /\ stage \in [Hats -> Stages]
  /\ ctx \in [Hats -> Seq(Nat)]
  /\ reply \in [Hats -> Nat]
  /\ asker \in Hats \union {NoHat} /\ pause \in Hats \union {NoHat}

\* An id stands for one entry, and none that a rollback took out is used again.
IdsUnique ==
  /\ \A i \in 1 .. Len(transcript) : transcript[i].id < fresh /\ transcript[i].id \notin removed
  /\ \A i, j \in 1 .. Len(transcript) : transcript[i].id = transcript[j].id => i = j
  /\ \A x \in removed : x \in Nat /\ x < fresh

\* A hat waits at most once; it is at work when it is in the wave, and no other
\* hat of its seat is then, nor one that has asked.
LinesFit ==
  /\ IsInjective(queue) /\ IsInjective(held)
  /\ \A k, l \in 1 .. Len(group) : SeatOf[group[k]] = SeatOf[group[l]] => k = l
  /\ \A h \in Hats : stage[h] # "off" <=> \E k \in 1 .. Len(group) : group[k] = h
  /\ asker # NoHat => /\ group # <<>>
                      /\ \A h \in Hats : stage[h] # "off" => SeatOf[h] # SeatOf[asker]
  /\ pause # NoHat => group = <<>> /\ queue = <<>>

\* The ids of a session, or of a prompt, in the order of the transcript.
Sorted(q) == \A k, l \in 1 .. Len(q) : k < l => Position(q[k]) < Position(q[l])
Within(q, from, to) == \A k \in 1 .. Len(q) : from < Position(q[k]) /\ Position(q[k]) <= to

\* A seat whose hats are not at work has read nothing behind its cursor; one that
\* streams, nothing that is not posted; and then it ends with its reply.
Resting(s) ==
  \A h \in Hats : SeatOf[h] = s => stage[h] \in {"off", "launched", "skipped"}

MemorySorted == \A s \in Seats : Sorted(memory[s])
RestRead == \A s \in Seats : Resting(s) => Within(memory[s], 0, cursor[s])
StreamRead == \A h \in Hats :
  stage[h] = "streaming" => Within(memory[SeatOf[h]], 0, Len(transcript))
EndsWithReply(h) ==
  LET m == memory[SeatOf[h]] IN
  /\ m # <<>> /\ m[Len(m)] = reply[h]
  /\ \A k \in 1 .. Len(m) - 1 : Position(m[k]) <= Len(transcript)
  /\ Position(reply[h]) = Len(transcript) + 1
  /\ reply[h] < fresh /\ reply[h] \notin removed
ReplyRead == \A h \in Hats : stage[h] \in Replied => EndsWithReply(h)
RepliesDiffer == \A g, h \in Hats :
  stage[g] \in Replied /\ stage[h] \in Replied /\ reply[g] = reply[h] => g = h

\* What a seat is taken to have seen it was given, or it crossed it while at work,
\* or one of its hats said it.
Covered(s, i) ==
  \/ \E k \in 1 .. Len(memory[s]) : memory[s][k] = transcript[i].id
  \/ transcript[i].id \in crossed[s]
  \/ \E h \in Hats : SeatOf[h] = s /\ transcript[i].author = h

Given(h, i) == \E k \in 1 .. Len(ctx[h]) : ctx[h][k] = transcript[i].id

CursorCovered == \A s \in Seats : \A i \in 1 .. cursor[s] : Covered(s, i)

\* The prompt of a hat not begun yet holds what is behind its seat's cursor.
PromptHolds(h) ==
  /\ Sorted(ctx[h]) /\ Within(ctx[h], cursor[SeatOf[h]], Len(transcript))
  /\ \A i \in cursor[SeatOf[h]] + 1 .. Len(transcript) : Covered(SeatOf[h], i) \/ Given(h, i)
Launched == \A h \in Hats : stage[h] = "launched" => PromptHolds(h)

\* A seat that is at work, or waits for an answer, lacks nothing of the transcript.
TakesPart(h) == stage[h] \in {"streaming"} \union Replied \/ h \in {asker, pause}
HandCovered == \A h \in Hats : TakesPart(h) =>
  \A i \in 1 .. Len(transcript) : Covered(SeatOf[h], i)

ReadInv == MemorySorted /\ RestRead /\ StreamRead /\ ReplyRead /\ RepliesDiffer
CoverInv == CursorCovered /\ Launched /\ HandCovered

ContextInv == RoomTyped /\ WaveTyped /\ IdsUnique /\ LinesFit /\ ReadInv /\ CoverInv

\* Where an entry is found.
LEMMA PositionOf ==
  RoomTyped /\ IdsUnique =>
    /\ Len(transcript) \in Nat
    /\ \A i \in 1 .. Len(transcript) : Position(transcript[i].id) = i
    /\ \A x : Position(x) \in 1 .. Len(transcript) + 1
    /\ \A x : Position(x) <= Len(transcript) => transcript[Position(x)].id = x
    /\ \A x : Position(x) # Len(transcript) + 1 => Position(x) <= Len(transcript)
<1>. SUFFICES ASSUME RoomTyped, IdsUnique
     PROVE  /\ Len(transcript) \in Nat
            /\ \A i \in 1 .. Len(transcript) : Position(transcript[i].id) = i
            /\ \A x : Position(x) \in 1 .. Len(transcript) + 1
            /\ \A x : Position(x) <= Len(transcript) => transcript[Position(x)].id = x
            /\ \A x : Position(x) # Len(transcript) + 1 => Position(x) <= Len(transcript)
  OBVIOUS
<1>1. Len(transcript) \in Nat /\ DOMAIN transcript = 1 .. Len(transcript)
  BY DEF RoomTyped
<1>2. ASSUME NEW x, \E i \in 1 .. Len(transcript) : transcript[i].id = x
      PROVE  Position(x) \in 1 .. Len(transcript) /\ transcript[Position(x)].id = x
  BY <1>1, <1>2 DEF Position
<1>3. ASSUME NEW x, ~ \E i \in 1 .. Len(transcript) : transcript[i].id = x
      PROVE  Position(x) = Len(transcript) + 1
  BY <1>1, <1>3 DEF Position
<1>4. ASSUME NEW i \in 1 .. Len(transcript)  PROVE Position(transcript[i].id) = i
  BY <1>2 DEF IdsUnique
<1>5. ASSUME NEW x  PROVE Position(x) \in 1 .. Len(transcript) + 1
  BY <1>1, <1>2, <1>3
<1>6. ASSUME NEW x, Position(x) <= Len(transcript)  PROVE transcript[Position(x)].id = x
  BY <1>1, <1>2, <1>3, <1>6
<1>7. ASSUME NEW x, Position(x) # Len(transcript) + 1  PROVE Position(x) <= Len(transcript)
  BY <1>1, <1>5, <1>7
<1>. QED  BY <1>1, <1>4, <1>5, <1>6, <1>7

\* An entry posted comes behind the others, which stay where they are.
LEMMA PostMoves ==
  ASSUME RoomTyped, IdsUnique, NEW id \in Nat, NEW author \in Hats \union Outsiders,
         Post(id, author), Position(id) = Len(transcript) + 1, id \notin removed, id < fresh',
         removed' = removed, fresh' \in Nat, fresh <= fresh'
  PROVE  /\ IdsUnique' /\ transcript' \in Seq(EntriesOf)
         /\ Len(transcript') = Len(transcript) + 1
         /\ \A i \in 1 .. Len(transcript) : transcript'[i] = transcript[i]
         /\ transcript'[Len(transcript) + 1] = Entry(id, author)
         /\ \A x : Position(x) <= Len(transcript) => Position(x)' = Position(x)
         /\ \A x : x = id => Position(x)' = Len(transcript) + 1
         /\ \A x : Position(x) = Len(transcript) + 1 /\ x # id
                     => Position(x)' = Len(transcript) + 2
<1>1. /\ transcript \in Seq(EntriesOf) /\ Len(transcript) \in Nat
      /\ transcript' = Append(transcript, Entry(id, author)) /\ Entry(id, author) \in EntriesOf
      /\ Entry(id, author).id = id
  BY DEF RoomTyped, Post, Entry, EntriesOf
<1>2. /\ transcript' \in Seq(EntriesOf) /\ Len(transcript') = Len(transcript) + 1
      /\ \A i \in 1 .. Len(transcript) : transcript'[i] = transcript[i]
      /\ transcript'[Len(transcript) + 1] = Entry(id, author)
      /\ DOMAIN transcript' = 1 .. Len(transcript) + 1
      /\ DOMAIN transcript = 1 .. Len(transcript)
  BY <1>1
<1>3. \A i \in 1 .. Len(transcript) : transcript[i].id # id /\ transcript[i].id < fresh'
  <2>1. \A i \in 1 .. Len(transcript) : Position(transcript[i].id) = i
    BY PositionOf
  <2>2. ASSUME NEW i \in 1 .. Len(transcript)  PROVE transcript[i].id \in Nat
    <3>1. transcript[i] \in EntriesOf
      BY <1>1
    <3>. QED  BY <3>1 DEF EntriesOf
  <2>3. \A i \in 1 .. Len(transcript) : transcript[i].id < fresh /\ fresh \in Nat
    BY DEF IdsUnique, RoomTyped
  <2>. QED  BY <1>1, <2>1, <2>2, <2>3
<1>4. IdsUnique'
  <2>1. \A i \in 1 .. Len(transcript') :
          transcript'[i].id < fresh' /\ transcript'[i].id \notin removed'
    BY <1>1, <1>2, <1>3 DEF IdsUnique
  <2>2. \A i, j \in 1 .. Len(transcript') : transcript'[i].id = transcript'[j].id => i = j
    BY <1>1, <1>2, <1>3 DEF IdsUnique
  <2>3. \A x \in removed' : x \in Nat /\ x < fresh'
    BY DEF IdsUnique, RoomTyped
  <2>. QED  BY <2>1, <2>2, <2>3 DEF IdsUnique
<1>5. ASSUME NEW x, Position(x) <= Len(transcript)  PROVE Position(x)' = Position(x)
  <2>1. Position(x) \in 1 .. Len(transcript) /\ transcript[Position(x)].id = x
    BY <1>1, <1>5, PositionOf
  <2>2. Position(x) \in DOMAIN transcript' /\ transcript'[Position(x)].id = x
    BY <1>1, <1>2, <2>1
  <2>3. \A i \in DOMAIN transcript' : transcript'[i].id = x => i = Position(x)
    BY <1>1, <1>2, <1>4, <2>2 DEF IdsUnique
  <2>. QED  BY <2>2, <2>3 DEF Position
<1>6. \A x : x = id => Position(x)' = Len(transcript) + 1
  <2>1. Len(transcript) + 1 \in DOMAIN transcript' /\ transcript'[Len(transcript) + 1].id = id
    BY <1>1, <1>2
  <2>2. \A i \in DOMAIN transcript' : transcript'[i].id = id => i = Len(transcript) + 1
    BY <1>1, <1>2, <1>3
  <2>. QED  BY <2>1, <2>2 DEF Position
<1>7. ASSUME NEW x, Position(x) = Len(transcript) + 1, x # id
      PROVE  Position(x)' = Len(transcript) + 2
  <2>1. ~ \E i \in 1 .. Len(transcript) : transcript[i].id = x
    <3>. SUFFICES ASSUME NEW i \in 1 .. Len(transcript), transcript[i].id = x  PROVE FALSE
      OBVIOUS
    <3>1. Position(x) = i
      BY PositionOf
    <3>. QED  BY <1>1, <1>7, <3>1
  <2>2. ~ \E i \in DOMAIN transcript' : transcript'[i].id = x
    BY <1>1, <1>2, <1>7, <2>1
  <2>3. Len(transcript') + 1 = Len(transcript) + 2
    BY <1>1, <1>2
  <2>. QED  BY <2>2, <2>3 DEF Position
<1>. QED  BY <1>2, <1>4, <1>5, <1>6, <1>7

\* Places and their ranks: the k-th of a finite set of places.
RankIn(at, i) == Cardinality({j \in at : j <= i})
Kth(at, k) == CHOOSE i \in at : RankIn(at, i) = k

\* The least of a set of numbers.
LEMMA LeastNumber ==
  ASSUME NEW T, T \subseteq Nat, T # {}
  PROVE  \E x \in T : \A y \in T : x <= y
<1>. DEFINE R == OpToRel(<, Nat)
<1>1. IsWellFoundedOn(R, Nat)
  BY NatLessThanWellFounded
<1>2. \A x, y \in Nat : <<y, x>> \in R <=> y < x
  BY DEF OpToRel
<1>. HIDE DEF R
<1>3. PICK x \in T : \A y \in T : ~(<<y, x>> \in R)
  BY <1>1, WFMin
<1>4. ASSUME NEW y \in T PROVE x <= y
  <2>1. x \in Nat /\ y \in Nat
    OBVIOUS
  <2>2. ~(y < x)
    BY <2>1, <1>2, <1>3, Zenon
  <2>. QED  BY <2>1, <2>2
<1>. QED  BY <1>4

\* Ranks grow with the places, and every rank is that of a place.
LEMMA Ranks ==
  ASSUME NEW n \in Nat, NEW at, at \subseteq 1 .. n
  PROVE  /\ IsFiniteSet(at) /\ Cardinality(at) \in Nat
         /\ \A i \in at : RankIn(at, i) \in 1 .. Cardinality(at)
         /\ \A i, j \in at : i < j => RankIn(at, i) < RankIn(at, j)
         /\ \A k \in 1 .. Cardinality(at) : \E i \in at : RankIn(at, i) = k
<1>0. \A i \in at : i \in Int /\ 1 <= i /\ i <= n
  OBVIOUS
<1>1. IsFiniteSet(1 .. n)
  BY FS_Interval
<1>2. IsFiniteSet(at) /\ Cardinality(at) \in Nat
  BY <1>1, FS_Subset, FS_CardinalityType
<1>. DEFINE Below(i) == {j \in at : j <= i}
<1>b. \A i, j : j \in Below(i) <=> j \in at /\ j <= i
  OBVIOUS
<1>r. \A i \in at : RankIn(at, i) = Cardinality(Below(i))
  BY DEF RankIn
<1>3. ASSUME NEW i \in Int
      PROVE  IsFiniteSet(Below(i)) /\ Cardinality(Below(i)) \in Nat
             /\ Cardinality(Below(i)) <= Cardinality(at)
  <2>1. Below(i) \subseteq at
    OBVIOUS
  <2>. QED  BY <1>2, <2>1, FS_Subset, FS_CardinalityType
<1>. HIDE DEF Below
<1>4. ASSUME NEW i \in at, NEW j \in Int, j < i
      PROVE  Cardinality(Below(j)) < Cardinality(Below(i))
  <2>1. i \in Int /\ Below(j) \subseteq Below(i) /\ i \in Below(i) /\ i \notin Below(j)
    <3>1. \A x \in at : x <= j => x <= i
      BY <1>0, <1>4
    <3>2. i \in Int /\ i <= i /\ ~(i <= j)
      BY <1>0, <1>4
    <3>. QED  BY <1>b, <3>1, <3>2
  <2>2. Below(j) \union {i} \subseteq Below(i) /\ IsFiniteSet(Below(i))
    BY <1>3, <2>1
  <2>3. /\ IsFiniteSet(Below(j)) /\ Cardinality(Below(j)) \in Nat
        /\ Cardinality(Below(j) \union {i}) = Cardinality(Below(j)) + 1
    BY <1>3, <2>1, FS_AddElement
  <2>4. Cardinality(Below(j) \union {i}) <= Cardinality(Below(i))
    BY <2>2, FS_Subset
  <2>5. Cardinality(Below(i)) \in Nat
    BY <1>3, <2>1
  <2>. QED  BY <2>3, <2>4, <2>5
<1>5. Below(0) = {} /\ Cardinality(Below(0)) = 0
  <2>1. Below(0) = {}
    <3>1. \A x \in at : ~(x <= 0)
      BY <1>0
    <3>. QED  BY <1>b, <3>1
  <2>. QED  BY <2>1, FS_EmptySet
<1>6. ASSUME NEW i \in at  PROVE Cardinality(Below(i)) \in 1 .. Cardinality(at)
  <2>1. i \in Int /\ 0 < i
    BY <1>0
  <2>2. 0 < Cardinality(Below(i))
    BY <1>4, <1>5, <2>1
  <2>. QED  BY <1>2, <1>3, <2>1, <2>2
<1>7. ASSUME NEW i \in at, NEW j \in at, i < j
      PROVE  Cardinality(Below(i)) < Cardinality(Below(j))
  BY <1>4, <1>7
<1>8. ASSUME NEW k \in 1 .. Cardinality(at)
      PROVE  \E i \in at : Cardinality(Below(i)) = k
  <2>. DEFINE T == {m \in Nat : k <= Cardinality(Below(m))}
  <2>1. Below(n) = at
    BY <1>0, <1>b
  <2>2. n \in T
    BY <1>2, <2>1
  <2>3. PICK m \in T : \A x \in T : m <= x
    BY <2>2, LeastNumber
  <2>4. m \in Nat /\ k <= Cardinality(Below(m)) /\ k \in Nat /\ 1 <= k
    BY <1>2, <2>3
  <2>5. m # 0
    BY <1>5, <2>4
  <2>6. m - 1 \in Nat /\ m - 1 \in Int /\ m \in Int
    BY <2>4, <2>5
  <2>7. ~(k <= Cardinality(Below(m - 1))) /\ Cardinality(Below(m - 1)) \in Nat
    <3>0. \A x \in T : x \in Nat /\ m <= x
      BY <2>3
    <3>1. m - 1 \notin T
      BY <3>0, <2>6
    <3>2. ~(k <= Cardinality(Below(m - 1)))
      BY <2>6, <3>1
    <3>. QED  BY <1>3, <2>6, <3>2
  <2>8. m \in at
    <3>. SUFFICES ASSUME m \notin at  PROVE FALSE
      OBVIOUS
    <3>2. \A x \in at : x <= m - 1 <=> x <= m
      BY <1>0, <2>6
    <3>1. Below(m - 1) = Below(m)
      BY <1>b, <3>2
    <3>. QED  BY <2>4, <2>7, <3>1
  <2>9. Below(m) = Below(m - 1) \union {m} /\ m \notin Below(m - 1)
    <3>1. \A x \in at : x <= m <=> x <= m - 1 \/ x = m
      BY <1>0, <2>6
    <3>2. m <= m /\ ~(m <= m - 1)
      BY <2>6
    <3>. QED  BY <1>b, <2>8, <3>1, <3>2
  <2>10. Cardinality(Below(m)) = Cardinality(Below(m - 1)) + 1
    BY <1>3, <2>6, <2>9, FS_AddElement
  <2>11. Cardinality(Below(m)) = k
    BY <2>4, <2>7, <2>10
  <2>. QED  BY <2>8, <2>11
<1>. QED  BY <1>2, <1>6, <1>7, <1>8, <1>r

\* The places of rank 1, 2, ... are these places, in order.
LEMMA KthProperties ==
  ASSUME NEW n \in Nat, NEW at, at \subseteq 1 .. n
  PROVE  /\ Cardinality(at) \in Nat
         /\ \A k \in 1 .. Cardinality(at) : Kth(at, k) \in at
         /\ \A k, l \in 1 .. Cardinality(at) : k < l => Kth(at, k) < Kth(at, l)
         /\ \A i \in at : \E k \in 1 .. Cardinality(at) : Kth(at, k) = i
<1>1. ASSUME NEW k \in 1 .. Cardinality(at)
      PROVE  Kth(at, k) \in at /\ RankIn(at, Kth(at, k)) = k
  BY Ranks DEF Kth
<1>2. ASSUME NEW k \in 1 .. Cardinality(at), NEW l \in 1 .. Cardinality(at), k < l
      PROVE  Kth(at, k) < Kth(at, l)
  <2>. DEFINE i == Kth(at, k)  j == Kth(at, l)
  <2>1. i \in at /\ j \in at /\ RankIn(at, i) = k /\ RankIn(at, j) = l
    BY <1>1
  <2>. HIDE DEF i, j
  <2>2. j < i => RankIn(at, j) < RankIn(at, i)
    BY <2>1, Ranks
  <2>3. i \in Int /\ j \in Int /\ k \in Int /\ l \in Int
    BY <2>1, Ranks
  <2>4. i < j
    BY <1>2, <2>1, <2>2, <2>3
  <2>. QED  BY <2>4 DEF i, j
<1>3. ASSUME NEW i \in at  PROVE \E k \in 1 .. Cardinality(at) : Kth(at, k) = i
  <2>. DEFINE k == RankIn(at, i)  j == Kth(at, k)
  <2>1. k \in 1 .. Cardinality(at)
    BY Ranks
  <2>2. j \in at /\ RankIn(at, j) = k
    BY <1>1, <2>1
  <2>3. k \in Int
    BY <2>1
  <2>4. j \in Int /\ i \in Int
    <3>1. \A x \in at : x \in Int
      OBVIOUS
    <3>. QED  BY <2>2, <3>1
  <2>5. ~(j < i) /\ ~(i < j)
    <3>1. j < i => RankIn(at, j) < RankIn(at, i)
      BY <2>2, Ranks
    <3>2. i < j => RankIn(at, i) < RankIn(at, j)
      BY <2>2, Ranks
    <3>3. RankIn(at, i) = k
      OBVIOUS
    <3>. HIDE DEF k, j
    <3>. QED  BY <2>2, <2>3, <3>1, <3>2, <3>3
  <2>6. j = i
    BY ONLY <2>4, <2>5
  <2>. QED  BY <2>1, <2>6
<1>. QED  BY <1>1, <1>2, <1>3, Ranks

\* The entries at some places, as a prompt gives them.
LEMMA IdsAtProperties ==
  ASSUME RoomTyped, IdsUnique, NEW at, at \subseteq 1 .. Len(transcript)
  PROVE  /\ IdsAt(at) \in Seq(Nat) /\ Sorted(IdsAt(at))
         /\ \A k \in 1 .. Len(IdsAt(at)) : Position(IdsAt(at)[k]) \in at
         /\ \A i \in at : \E k \in 1 .. Len(IdsAt(at)) : IdsAt(at)[k] = transcript[i].id
<1>. DEFINE q == IdsAt(at)  n == Cardinality(at)
<1>1. Len(transcript) \in Nat
  BY DEF RoomTyped
<1>2. /\ n \in Nat
      /\ \A k \in 1 .. n : Kth(at, k) \in at
      /\ \A k, l \in 1 .. n : k < l => Kth(at, k) < Kth(at, l)
      /\ \A i \in at : \E k \in 1 .. n : Kth(at, k) = i
  BY <1>1, KthProperties
<1>3. q = [k \in 1 .. n |-> transcript[Kth(at, k)].id]
  BY DEF IdsAt, Kth, RankIn
<1>4. \A i \in at : transcript[i].id \in Nat
  <2>. SUFFICES ASSUME NEW i \in at  PROVE transcript[i].id \in Nat
    OBVIOUS
  <2>1. i \in 1 .. Len(transcript) /\ transcript \in Seq(EntriesOf)
    BY DEF RoomTyped
  <2>2. transcript[i] \in EntriesOf
    BY <2>1
  <2>. QED  BY <2>2 DEF EntriesOf
<1>. HIDE DEF q, n
<1>5. q \in Seq(Nat) /\ Len(q) = n
  <2>1. q \in [1 .. n -> Nat]
    BY <1>2, <1>3, <1>4
  <2>. QED  BY <1>2, <2>1
<1>6. \A k \in 1 .. n : Position(q[k]) = Kth(at, k)
  BY <1>2, <1>3, PositionOf
<1>7. Sorted(q)
  BY <1>2, <1>5, <1>6 DEF Sorted
<1>8. \A k \in 1 .. Len(q) : Position(q[k]) \in at
  BY <1>2, <1>5, <1>6
<1>9. \A i \in at : \E k \in 1 .. Len(q) : q[k] = transcript[i].id
  BY <1>2, <1>3, <1>5
<1>. QED  BY <1>5, <1>7, <1>8, <1>9 DEF q

\* What a hat is given when its turn begins.
LEMMA BuildContextProperties ==
  ASSUME RoomTyped, IdsUnique, NEW h \in Hats
  PROVE  LET q == BuildContext(h)  from == cursor[SeatOf[h]] IN
         /\ q \in Seq(Nat) /\ Sorted(q) /\ Within(q, from, Len(transcript))
         /\ \A i \in from + 1 .. Len(transcript) :
              \/ transcript[i].author = h
              \/ \E k \in 1 .. Len(q) : q[k] = transcript[i].id
<1>. DEFINE from == cursor[SeatOf[h]]
            at == {i \in from + 1 .. Len(transcript) : transcript[i].author # h}
<1>1. from \in Nat /\ Len(transcript) \in Nat
  BY SeatsAssumption DEF RoomTyped
<1>2. at \subseteq 1 .. Len(transcript)
  BY <1>1
<1>3. BuildContext(h) = IdsAt(at)
  BY DEF BuildContext
<1>4. /\ IdsAt(at) \in Seq(Nat) /\ Sorted(IdsAt(at))
      /\ \A k \in 1 .. Len(IdsAt(at)) : Position(IdsAt(at)[k]) \in at
      /\ \A i \in at : \E k \in 1 .. Len(IdsAt(at)) : IdsAt(at)[k] = transcript[i].id
  BY <1>2, IdsAtProperties
<1>5. \A i \in at : from < i /\ i <= Len(transcript)
  BY <1>1
<1>6. Within(IdsAt(at), from, Len(transcript))
  BY <1>4, <1>5 DEF Within
<1>7. ASSUME NEW i \in from + 1 .. Len(transcript), transcript[i].author # h  PROVE i \in at
  BY <1>7
<1>. HIDE DEF from, at
<1>. QED  BY <1>3, <1>4, <1>6, <1>7 DEF from

\* An id not used yet is nowhere in the room.
LEMMA FreshIsNew ==
  ASSUME RoomTyped, IdsUnique
  PROVE  fresh \in Nat /\ Position(fresh) = Len(transcript) + 1 /\ fresh \notin removed
<1>1. fresh \in Nat /\ Len(transcript) \in Nat
  BY DEF RoomTyped
<1>2. Position(fresh) <= Len(transcript) => FALSE
  <2>. SUFFICES ASSUME Position(fresh) <= Len(transcript)  PROVE FALSE
    OBVIOUS
  <2>1. transcript[Position(fresh)].id = fresh /\ Position(fresh) \in 1 .. Len(transcript)
    BY <1>1, PositionOf
  <2>. QED  BY <1>1, <2>1 DEF IdsUnique
<1>3. Position(fresh) = Len(transcript) + 1
  BY <1>2, PositionOf
<1>. QED  BY <1>1, <1>3 DEF IdsUnique

\* A post keeps the order of the entries, and of what is not posted yet.
LEMMA PostKeepsOrder ==
  ASSUME RoomTyped, IdsUnique, NEW id \in Nat, NEW author \in Hats \union Outsiders,
         Post(id, author), Position(id) = Len(transcript) + 1, id \notin removed, id < fresh',
         removed' = removed, fresh' \in Nat, fresh <= fresh'
  PROVE  \A x, y : Position(x) < Position(y) => Position(x)' < Position(y)'
<1>. SUFFICES ASSUME NEW x, NEW y, Position(x) < Position(y)
     PROVE  Position(x)' < Position(y)'
  OBVIOUS
<1>1. /\ Len(transcript) \in Nat /\ Position(x) \in Int /\ Position(y) \in Int
      /\ Position(y) <= Len(transcript) + 1
  BY PositionOf
<1>2. Position(x) <= Len(transcript) /\ Position(x)' = Position(x)
  BY <1>1, PostMoves
<1>3. CASE Position(y) <= Len(transcript)
  BY <1>2, <1>3, PostMoves
<1>4. CASE Position(y) = Len(transcript) + 1
  <2>1. Position(y)' = Len(transcript) + 1 \/ Position(y)' = Len(transcript) + 2
    BY <1>4, PostMoves
  <2>. QED  BY <1>1, <1>2, <2>1
<1>. QED  BY <1>1, <1>3, <1>4

\* A seat keeps what it was given, and crossed.
LEMMA CoveredStays ==
  ASSUME NEW s, NEW i, Covered(s, i), transcript'[i] = transcript[i],
         crossed[s] \subseteq crossed'[s], Len(memory[s]) \in Nat, Len(memory'[s]) \in Nat,
         Len(memory[s]) <= Len(memory'[s]),
         \A k \in 1 .. Len(memory[s]) : memory'[s][k] = memory[s][k]
  PROVE  Covered(s, i)'
<1>1. ASSUME NEW k \in 1 .. Len(memory[s]), memory[s][k] = transcript[i].id
      PROVE  Covered(s, i)'
  <2>1. k \in 1 .. Len(memory'[s])
    OBVIOUS
  <2>. QED  BY <1>1, <2>1 DEF Covered
<1>. QED  BY <1>1 DEF Covered

\* The session, the cursor and the crossings of one seat.
LEMMA MemoryTyped ==
  ASSUME RoomTyped, NEW s \in Seats
  PROVE  /\ memory[s] \in Seq(Nat) /\ Len(memory[s]) \in Nat
         /\ cursor[s] \in Nat /\ cursor[s] <= Len(transcript) /\ Len(transcript) \in Nat
         /\ crossed[s] \in SUBSET Nat
  BY DEF RoomTyped

\* A hat at work has its seat's turn in hand.
LEMMA HandOf ==
  ASSUME LinesFit, WaveTyped, NEW h \in Hats, stage[h] # "off" \/ h \in {asker, pause}
  PROVE  InHand(SeatOf[h])
<1>1. stage[h] # "off" => InHand(SeatOf[h])
  BY DEF LinesFit, InHand
<1>2. h # NoHat
  BY NoHatAssumption
<1>. QED  BY <1>1, <1>2 DEF InHand

\* Of the hats of a seat at most one is at work.
LEMMA AloneOnSeat ==
  ASSUME WaveTyped, LinesFit, NEW h \in Hats, stage[h] # "off"
  PROVE  /\ \A g \in Hats : SeatOf[g] = SeatOf[h] /\ stage[g] # "off" => g = h
         /\ asker # NoHat => SeatOf[asker] # SeatOf[h]
         /\ pause = NoHat /\ group # <<>>
<1>1. \A g \in Hats : stage[g] # "off" => \E k \in 1 .. Len(group) : group[k] = g
  BY DEF LinesFit
<1>2. \A g \in Hats : SeatOf[g] = SeatOf[h] /\ stage[g] # "off" => g = h
  BY <1>1 DEF LinesFit
<1>3. PICK k \in 1 .. Len(group) : group[k] = h
  BY <1>1
<1>4. group # <<>>
  BY <1>3 DEF WaveTyped
<1>. QED  BY <1>2, <1>4 DEF LinesFit

\* A seat reads a line given to it while it streams, and otherwise none.
Steered(t) ==
  \/ memory'[t] = memory[t]
  \/ /\ memory'[t] = Append(memory[t], fresh)
     /\ \E h \in Hats : SeatOf[h] = t /\ stage[h] = "streaming"

\* What an entry posted beside the turns keeps, whatever then waits; the session of
\* a hat that streams may be given it.
LEMMA AsideKeeps ==
  ASSUME ContextInv, NEW author \in Hats \union Outsiders, Post(fresh, author),
         fresh' = fresh + 1, WaveTyped', LinesFit',
         memory' \in [Seats -> Seq(Nat)], \A t \in Seats : Steered(t),
         UNCHANGED <<cursor, group, stage, ctx, reply, asker, pause, removed>>
  PROVE  ContextInv'
<1>1. RoomTyped /\ WaveTyped /\ IdsUnique /\ LinesFit /\ ReadInv /\ CoverInv
  BY DEF ContextInv
<1>. DEFINE n == Len(transcript)
<1>2. /\ fresh \in Nat /\ Position(fresh) = n + 1 /\ fresh \notin removed /\ n \in Nat
  BY <1>1, FreshIsNew, PositionOf
<1>3. /\ IdsUnique' /\ transcript' \in Seq(EntriesOf) /\ Len(transcript') = n + 1
      /\ \A i \in 1 .. n : transcript'[i] = transcript[i]
      /\ transcript'[n + 1] = Entry(fresh, author)
      /\ \A x : Position(x) <= n => Position(x)' = Position(x)
      /\ \A x : x = fresh => Position(x)' = n + 1
      /\ \A x : Position(x) = n + 1 /\ x # fresh => Position(x)' = n + 2
  BY <1>1, <1>2, PostMoves
<1>4. \A x, y : Position(x) < Position(y) => Position(x)' < Position(y)'
  BY <1>1, <1>2, PostKeepsOrder
<1>5. \A s \in Seats : /\ crossed'[s] = crossed[s] \union (IF InHand(s) THEN {fresh} ELSE {})
                       /\ crossed[s] \subseteq crossed'[s]
                       /\ memory[s] \in Seq(Nat) /\ Len(memory[s]) \in Nat
                       /\ cursor[s] \in Nat /\ cursor[s] <= n
  BY <1>1, MemoryTyped DEF Post
<1>6. RoomTyped'
  <2>1. crossed' \in [Seats -> SUBSET Nat]
    BY <1>1, <1>2 DEF Post, RoomTyped
  <2>. QED  BY <1>1, <1>2, <1>3, <1>5, <2>1 DEF RoomTyped
<1>. HIDE DEF n
<1>7a. ASSUME NEW t \in Seats
       PROVE  /\ Len(memory'[t]) \in Nat /\ Len(memory[t]) <= Len(memory'[t])
              /\ \A k \in 1 .. Len(memory[t]) : memory'[t][k] = memory[t][k]
              /\ \A k \in 1 .. Len(memory'[t]) :
                   \/ k \in 1 .. Len(memory[t]) /\ memory'[t][k] = memory[t][k]
                   \/ /\ k = Len(memory[t]) + 1 /\ memory'[t][k] = fresh
                      /\ Within(memory[t], 0, n)
  <2>1. CASE memory'[t] = memory[t]
    BY <1>5, <2>1
  <2>2. CASE memory'[t] # memory[t]
    <3>1. memory'[t] = Append(memory[t], fresh)
      BY <2>2 DEF Steered
    <3>2. Within(memory[t], 0, n)
      BY <1>1, <2>2 DEF Steered, ReadInv, StreamRead, n
    <3>. DEFINE m == memory[t]
    <3>3. m \in Seq(Nat) /\ Len(m) \in Nat
      BY <1>5
    <3>. HIDE DEF m
    <3>4. /\ Len(Append(m, fresh)) = Len(m) + 1
          /\ \A k \in 1 .. Len(m) : Append(m, fresh)[k] = m[k]
          /\ Append(m, fresh)[Len(m) + 1] = fresh
      BY <1>2, <3>3
    <3>. QED  BY <3>1, <3>2, <3>3, <3>4 DEF m
  <2>. QED  BY <2>1, <2>2
<1>7b. \A x : Position(x) \in Int
  BY <1>1, PositionOf
<1>7. MemorySorted'
  <2>. SUFFICES ASSUME NEW t \in Seats, NEW k \in 1 .. Len(memory'[t]),
                       NEW l \in 1 .. Len(memory'[t]), k < l
       PROVE  Position(memory[t][k])' < Position(memory[t][l])'
    BY DEF MemorySorted, Sorted
  <2>0. Len(memory[t]) \in Nat /\ k \in Int /\ l \in Int
    BY <1>5, <1>7a
  <2>1. CASE l \in 1 .. Len(memory[t]) /\ memory'[t][l] = memory[t][l]
    <3>1. k \in 1 .. Len(memory[t]) /\ memory'[t][k] = memory[t][k]
      BY <1>7a, <2>0, <2>1
    <3>2. Position(memory[t][k]) < Position(memory[t][l])
      BY <1>1, <2>1, <3>1 DEF ReadInv, MemorySorted, Sorted
    <3>. QED  BY <1>4, <2>1, <3>1, <3>2
  <2>2. CASE l = Len(memory[t]) + 1 /\ memory'[t][l] = fresh /\ Within(memory[t], 0, n)
    <3>1. k \in 1 .. Len(memory[t]) /\ memory'[t][k] = memory[t][k]
      <4>1. k # Len(memory[t]) + 1
        BY ONLY <2>0, <2>2, k < l
      <4>. QED  BY <1>7a, <4>1
    <3>2. Position(memory[t][k]) <= n
      BY <2>2, <3>1 DEF Within
    <3>3. \A x : x = memory[t][k] => Position(x)' <= n
      BY <1>3, <3>2
    <3>. QED  BY <1>2, <1>3, <1>7b, <2>2, <3>1, <3>2, <3>3
  <2>. QED  BY <1>7a, <2>1, <2>2
<1>8. RestRead'
  <2>. SUFFICES ASSUME NEW s \in Seats, Resting(s)'  PROVE Within(memory[s], 0, cursor[s])'
    BY DEF RestRead
  <2>1. Resting(s)
    BY DEF Resting
  <2>2. memory'[s] = memory[s]
    BY <2>1 DEF Resting, Steered
  <2>3. Within(memory[s], 0, cursor[s])
    BY <1>1, <2>1 DEF ReadInv, RestRead
  <2>4. \A x : Position(x) <= cursor[s] => Position(x)' = Position(x)
    BY <1>2, <1>3, <1>5, <1>7b
  <2>. QED  BY <2>2, <2>3, <2>4 DEF Within
<1>9. StreamRead'
  <2>. SUFFICES ASSUME NEW h \in Hats, stage[h] = "streaming",
                       NEW k \in 1 .. Len(memory'[SeatOf[h]])
       PROVE  0 < Position(memory[SeatOf[h]][k])' /\ Position(memory[SeatOf[h]][k])' <= n + 1
    BY <1>3 DEF StreamRead, Within
  <2>. DEFINE t == SeatOf[h]
  <2>1. Within(memory[t], 0, n) /\ t \in Seats
    BY <1>1, SeatsAssumption DEF ReadInv, StreamRead, n
  <2>. HIDE DEF t
  <2>2. CASE memory'[t][k] = fresh
    BY <1>2, <1>3, <2>2 DEF t
  <2>3. CASE k \in 1 .. Len(memory[t]) /\ memory'[t][k] = memory[t][k]
    <3>1. 0 < Position(memory[t][k]) /\ Position(memory[t][k]) <= n
      BY <2>1, <2>3 DEF Within
    <3>2. \A x : x = memory[t][k] => Position(x)' = Position(x)
      BY <1>3, <3>1
    <3>. QED  BY <1>2, <1>3, <1>7b, <2>3, <3>1, <3>2 DEF t
  <2>. QED  BY <1>7a, <2>1, <2>2, <2>3 DEF t
<1>10. ReplyRead' /\ RepliesDiffer'
  <2>1. RepliesDiffer'
    BY <1>1 DEF ReadInv, RepliesDiffer
  <2>. SUFFICES ASSUME NEW h \in Hats, stage[h] \in Replied  PROVE EndsWithReply(h)'
    BY <2>1 DEF ReplyRead
  <2>2. EndsWithReply(h)
    BY <1>1 DEF ReadInv, ReplyRead
  <2>7. memory'[SeatOf[h]] = memory[SeatOf[h]]
    <3>1. SeatOf[h] \in Seats /\ stage[h] # "off" /\ stage[h] # "streaming"
      BY SeatsAssumption DEF Replied
    <3>2. \A g \in Hats : SeatOf[g] = SeatOf[h] => stage[g] # "streaming"
      BY <1>1, <3>1, AloneOnSeat
    <3>. QED  BY <3>1, <3>2 DEF Steered
  <2>3. reply[h] \in Nat /\ reply[h] < fresh /\ reply[h] # fresh
    BY <1>1, <1>2, <2>2 DEF WaveTyped, EndsWithReply
  <2>4. Position(reply[h])' = Len(transcript') + 1
    BY <1>2, <1>3, <2>2, <2>3 DEF EndsWithReply, n
  <2>5. \A x : Position(x) \in Int
    BY <1>1, PositionOf
  <2>6. \A k \in 1 .. Len(memory[SeatOf[h]]) - 1 :
          Position(memory[SeatOf[h]][k])' <= Len(transcript')
    BY <1>2, <1>3, <2>2, <2>5, <2>7 DEF EndsWithReply, n
  <2>. QED  BY <1>2, <2>2, <2>3, <2>4, <2>6, <2>7 DEF EndsWithReply
<1>11. \A s \in Seats : \A i \in 1 .. n : Covered(s, i) => Covered(s, i)'
  <2>. SUFFICES ASSUME NEW s \in Seats, NEW i \in 1 .. n, Covered(s, i)  PROVE Covered(s, i)'
    OBVIOUS
  <2>. QED  BY <1>3, <1>5, <1>7a, CoveredStays
<1>12. CursorCovered'
  <2>. SUFFICES ASSUME NEW s \in Seats, NEW i \in 1 .. cursor[s]  PROVE Covered(s, i)'
    BY DEF CursorCovered
  <2>1. i \in 1 .. n
    BY <1>2, <1>5
  <2>. QED  BY <1>1, <1>11, <2>1 DEF CoverInv, CursorCovered
<1>13. \A i : i = n + 1 => \A h \in Hats :
         stage[h] # "off" \/ h \in {asker, pause} => Covered(SeatOf[h], i)'
  <2>. SUFFICES ASSUME NEW i, i = n + 1, NEW h \in Hats, stage[h] # "off" \/ h \in {asker, pause}
       PROVE  Covered(SeatOf[h], i)'
    OBVIOUS
  <2>1. InHand(SeatOf[h]) /\ SeatOf[h] \in Seats
    BY <1>1, HandOf, SeatsAssumption
  <2>2. fresh \in crossed'[SeatOf[h]] /\ transcript'[i].id = fresh
    BY <1>3, <1>5, <2>1 DEF Entry
  <2>. QED  BY <2>2 DEF Covered
<1>14. HandCovered'
  <2>. SUFFICES ASSUME NEW h \in Hats, TakesPart(h)', NEW i \in 1 .. Len(transcript')
       PROVE  Covered(SeatOf[h], i)'
    BY DEF HandCovered
  <2>1. TakesPart(h) /\ SeatOf[h] \in Seats
    BY SeatsAssumption DEF TakesPart
  <2>2. CASE i \in 1 .. n
    BY <1>1, <1>11, <2>1, <2>2 DEF CoverInv, HandCovered, n
  <2>3. CASE i = n + 1
    BY <1>13, <2>1, <2>3 DEF TakesPart, Replied
  <2>. QED  BY <1>2, <1>3, <2>2, <2>3
<1>15. Launched'
  <2>. SUFFICES ASSUME NEW h \in Hats, stage[h] = "launched"  PROVE PromptHolds(h)'
    BY DEF Launched
  <2>1. PromptHolds(h) /\ SeatOf[h] \in Seats
    BY <1>1, SeatsAssumption DEF CoverInv, Launched
  <2>2. Sorted(ctx[h])'
    BY <1>4, <2>1 DEF PromptHolds, Sorted
  <2>3. \A x : Position(x) \in Int
    BY <1>1, PositionOf
  <2>4. Within(ctx[h], cursor[SeatOf[h]], Len(transcript))'
    BY <1>2, <1>3, <2>1, <2>3 DEF PromptHolds, Within, n
  <2>5. ASSUME NEW i \in cursor[SeatOf[h]] + 1 .. Len(transcript')
        PROVE  Covered(SeatOf[h], i)' \/ Given(h, i)'
    <3>1. CASE i \in cursor[SeatOf[h]] + 1 .. n
      <4>1. i \in 1 .. n
        BY <1>5, <2>1, <3>1
      <4>2. Covered(SeatOf[h], i) \/ Given(h, i)
        BY <2>1, <3>1 DEF PromptHolds, n
      <4>3. Given(h, i) => Given(h, i)'
        BY <1>3, <4>1 DEF Given
      <4>. QED  BY <1>11, <2>1, <4>1, <4>2, <4>3
    <3>2. CASE i = n + 1
      BY <1>13, <3>2
    <3>. QED  BY <1>2, <1>3, <1>5, <2>1, <3>1, <3>2
  <2>. QED  BY <2>2, <2>4, <2>5 DEF PromptHolds
<1>. QED  BY <1>3, <1>6, <1>7, <1>8, <1>9, <1>10, <1>12, <1>14, <1>15
     DEF ContextInv, ReadInv, CoverInv

\* What the steps keep that leave transcript and sessions alone.
LEMMA SameRoom ==
  ASSUME ContextInv, UNCHANGED <<transcript, cursor, memory, fresh, removed, crossed>>
  PROVE  /\ RoomTyped' /\ IdsUnique' /\ MemorySorted' /\ CursorCovered'
         /\ \A x : Position(x)' = Position(x)
         /\ \A s, i : Covered(s, i)' <=> Covered(s, i)
<1>1. RoomTyped /\ IdsUnique /\ MemorySorted /\ CursorCovered
  BY DEF ContextInv, ReadInv, CoverInv
<1>2. RoomTyped' /\ IdsUnique'
  BY <1>1 DEF RoomTyped, IdsUnique
<1>3. \A x : Position(x)' = Position(x)
  BY DEF Position
<1>4. MemorySorted'
  BY <1>1, <1>3 DEF MemorySorted, Sorted
<1>5. \A s, i : Covered(s, i)' <=> Covered(s, i)
  BY DEF Covered
<1>6. CursorCovered'
  BY <1>1, <1>5 DEF CursorCovered
<1>. QED  BY <1>2, <1>3, <1>4, <1>5, <1>6

\* A turn that gave nothing, or was not begun, is dropped.
LEMMA DropKeeps ==
  ASSUME ContextInv, UNCHANGED <<transcript, cursor, memory, fresh, removed, crossed, reply>>,
         WaveTyped', LinesFit',
         \A h \in Hats : \/ stage'[h] = stage[h]
                         \/ stage[h] \in {"launched", "skipped"} /\ stage'[h] \in {"off", "skipped"},
         \A h \in Hats : stage'[h] = "launched" => ctx'[h] = ctx[h],
         \A h \in Hats : h \in {asker', pause'} => h \in {asker, pause}
  PROVE  ContextInv'
<1>1. RoomTyped /\ WaveTyped /\ IdsUnique /\ LinesFit /\ ReadInv /\ CoverInv
  BY DEF ContextInv
<1>2. /\ RoomTyped' /\ IdsUnique' /\ MemorySorted' /\ CursorCovered'
      /\ \A x : Position(x)' = Position(x)
      /\ \A s, i : Covered(s, i)' <=> Covered(s, i)
  BY SameRoom
<1>3. RestRead'
  <2>. SUFFICES ASSUME NEW s \in Seats, Resting(s)'  PROVE Within(memory[s], 0, cursor[s])'
    BY DEF RestRead
  <2>1. Resting(s)
    BY DEF Resting
  <2>. QED  BY <1>1, <1>2, <2>1 DEF ReadInv, RestRead, Within
<1>4. StreamRead'
  BY <1>1, <1>2 DEF ReadInv, StreamRead, Within
<1>5. \A h \in Hats : stage'[h] \in Replied => stage[h] \in Replied
  BY DEF Replied
<1>6. ReplyRead' /\ RepliesDiffer'
  BY <1>1, <1>2, <1>5 DEF ReadInv, ReplyRead, RepliesDiffer, EndsWithReply
<1>7. HandCovered'
  <2>1. \A h \in Hats : TakesPart(h)' => TakesPart(h)
    BY <1>5 DEF TakesPart
  <2>. QED  BY <1>1, <1>2, <2>1 DEF CoverInv, HandCovered
<1>8. Launched'
  <2>. SUFFICES ASSUME NEW h \in Hats, stage'[h] = "launched"  PROVE PromptHolds(h)'
    BY DEF Launched
  <2>1. PromptHolds(h) /\ ctx'[h] = ctx[h]
    BY <1>1 DEF CoverInv, Launched
  <2>. QED  BY <1>2, <2>1 DEF PromptHolds, Sorted, Within, Given
<1>. QED  BY <1>2, <1>3, <1>4, <1>6, <1>7, <1>8 DEF ContextInv, ReadInv, CoverInv

\* A step that gives no session a line.
LEMMA Unsteered ==
  ASSUME ContextInv, memory' = memory
  PROVE  memory' \in [Seats -> Seq(Nat)] /\ \A t \in Seats : Steered(t)
  BY DEF ContextInv, RoomTyped, Steered

\* Messages of the user, lines posted beside a turn, reports of sub-rooms.
LEMMA AsidesKeep ==
  ASSUME ContextInv,
         (\E t \in Mentions : Ask(t)) \/ PostAside \/ (\E h \in Hats : InjectReport(h))
  PROVE  ContextInv'
<1>1. WaveTyped /\ LinesFit
  BY DEF ContextInv
<1>2. ASSUME NEW t \in Mentions, Ask(t)  PROVE ContextInv'
  <2>1. /\ t \in Seq(Hats) /\ IsInjective(t) /\ queue' = t /\ pause = NoHat
        /\ UNCHANGED <<cursor, memory, group, stage, ctx, reply, asker, pause, held, removed>>
        /\ Post(fresh, "user") /\ fresh' = fresh + 1
    BY <1>2, MentionsAssumption DEF Ask, wave
  <2>2. WaveTyped' /\ LinesFit'
    BY <1>1, <2>1 DEF WaveTyped, LinesFit
  <2>. QED  BY <2>1, <2>2, Unsteered, AsideKeeps DEF Outsiders
<1>3. CASE PostAside
  <2>1. /\ UNCHANGED <<cursor, memory, group, stage, ctx, reply, asker, pause, held, queue,
                       removed>>
        /\ Post(fresh, "shell") /\ fresh' = fresh + 1
    BY <1>3 DEF PostAside, wave, waits
  <2>2. WaveTyped' /\ LinesFit'
    BY <1>1, <2>1 DEF WaveTyped, LinesFit
  <2>. QED  BY <2>1, <2>2, Unsteered, AsideKeeps DEF Outsiders
<1>4. ASSUME NEW h \in Hats, InjectReport(h)  PROVE ContextInv'
  <2>1. /\ UNCHANGED <<cursor, memory, group, stage, ctx, reply, asker, pause, held, removed>>
        /\ Post(fresh, "orchestrator") /\ fresh' = fresh + 1
        /\ queue' = queue \/ (queue' = <<h>> /\ pause = NoHat)
    BY <1>4 DEF InjectReport, wave
  <2>2. <<h>> \in Seq(Hats) /\ IsInjective(<<h>>)
    BY DEF IsInjective
  <2>3. WaveTyped' /\ LinesFit'
    BY <1>1, <2>1, <2>2 DEF WaveTyped, LinesFit
  <2>. QED  BY <2>1, <2>3, Unsteered, AsideKeeps DEF Outsiders
<1>. QED  BY <1>2, <1>3, <1>4

\* A line given to a hat that streams is posted too.
LEMMA SteerKeeps ==
  ASSUME ContextInv, NEW h \in Hats, Steer(h)
  PROVE  ContextInv'
<1>1. RoomTyped /\ WaveTyped /\ LinesFit /\ IdsUnique
  BY DEF ContextInv
<1>2. /\ UNCHANGED <<cursor, group, stage, ctx, reply, asker, pause, held, queue, removed>>
      /\ Post(fresh, "user") /\ fresh' = fresh + 1 /\ stage[h] = "streaming"
      /\ memory' = [memory EXCEPT ![SeatOf[h]] = Append(@, fresh)]
  BY DEF Steer, wave, waits
<1>3. WaveTyped' /\ LinesFit'
  BY <1>1, <1>2 DEF WaveTyped, LinesFit
<1>4. SeatOf[h] \in Seats /\ memory[SeatOf[h]] \in Seq(Nat) /\ fresh \in Nat
  BY <1>1, MemoryTyped, SeatsAssumption, FreshIsNew
<1>5. Append(memory[SeatOf[h]], fresh) \in Seq(Nat)
  BY <1>4
<1>6. memory' \in [Seats -> Seq(Nat)] /\ \A t \in Seats : Steered(t)
  BY <1>1, <1>2, <1>4, <1>5 DEF RoomTyped, Steered
<1>. QED  BY <1>2, <1>3, <1>6, AsideKeeps DEF Outsiders

\* Stop drops what waits.
LEMMA StopKeeps ==
  ASSUME ContextInv, Stop
  PROVE  ContextInv'
<1>1. WaveTyped /\ LinesFit
  BY DEF ContextInv
<1>2. /\ UNCHANGED <<transcript, cursor, memory, fresh, removed, crossed, reply, group, stage,
                     ctx, asker>>
      /\ queue' = <<>> /\ held' = <<>> /\ pause' = NoHat
  BY DEF Stop, room, wave, ghosts
<1>3. WaveTyped'
  BY <1>1, <1>2 DEF WaveTyped
<1>4. IsInjective(<<>>)
  BY DEF IsInjective
<1>5. LinesFit'
  BY <1>1, <1>2, <1>4 DEF LinesFit
<1>6. \A h \in Hats : h \in {asker', pause'} => h \in {asker, pause}
  BY <1>2, NoHatAssumption
<1>. QED  BY <1>2, <1>3, <1>5, <1>6, DropKeeps

\* A turn that is stopped before its prompt is sent.
LEMMA SkipsRunKeeps ==
  ASSUME ContextInv, NEW h \in Hats, SkipsRun(h)
  PROVE  ContextInv'
<1>1. WaveTyped /\ LinesFit
  BY DEF ContextInv
<1>2. /\ UNCHANGED <<transcript, cursor, memory, fresh, removed, crossed, reply, group, asker,
                     queue, pause, held>>
      /\ stage[h] = "launched" /\ stage' = [stage EXCEPT ![h] = "skipped"]
      /\ ctx' = [ctx EXCEPT ![h] = <<>>]
  BY DEF SkipsRun, room, waits, ghosts
<1>3. WaveTyped'
  BY <1>1, <1>2 DEF WaveTyped, Stages
<1>4. \A g \in Hats : stage'[g] = IF g = h THEN "skipped" ELSE stage[g]
  BY <1>1, <1>2 DEF WaveTyped
<1>5. LinesFit'
  <2>1. \A g \in Hats : stage'[g] # "off" <=> stage[g] # "off"
    BY <1>2, <1>4
  <2>. QED  BY <1>1, <1>2, <2>1 DEF LinesFit
<1>6. \A g \in Hats : stage'[g] = "launched" => ctx'[g] = ctx[g]
  BY <1>1, <1>2, <1>4 DEF WaveTyped
<1>. QED  BY <1>2, <1>3, <1>4, <1>5, <1>6, DropKeeps

\* One sequence behind another.
LEMMA Concatenated ==
  ASSUME NEW m \in Seq(Nat), NEW c \in Seq(Nat)
  PROVE  /\ m \o c \in Seq(Nat) /\ Len(m \o c) = Len(m) + Len(c)
         /\ Len(m) \in Nat /\ Len(c) \in Nat
         /\ \A k \in 1 .. Len(m) : (m \o c)[k] = m[k]
         /\ \A k \in 1 .. Len(c) : (m \o c)[Len(m) + k] = c[k]
         /\ \A k \in 1 .. Len(m \o c) :
              \/ k \in 1 .. Len(m) /\ (m \o c)[k] = m[k]
              \/ k - Len(m) \in 1 .. Len(c) /\ (m \o c)[k] = c[k - Len(m)] /\ Len(m) < k
<1>1. /\ m \o c \in Seq(Nat) /\ Len(m \o c) = Len(m) + Len(c)
      /\ Len(m) \in Nat /\ Len(c) \in Nat
      /\ \A k \in 1 .. Len(m) : (m \o c)[k] = m[k]
  OBVIOUS
<1>2. \A k \in 1 .. Len(c) : (m \o c)[Len(m) + k] = c[k]
  OBVIOUS
<1>3. ASSUME NEW k \in 1 .. Len(m \o c)
      PROVE  \/ k \in 1 .. Len(m) /\ (m \o c)[k] = m[k]
             \/ k - Len(m) \in 1 .. Len(c) /\ (m \o c)[k] = c[k - Len(m)] /\ Len(m) < k
  OBVIOUS
<1>. QED  BY <1>1, <1>2, <1>3

\* The prompt of a hat enters its seat's session, behind what that has read.
LEMMA PromptsKeeps ==
  ASSUME ContextInv, NEW h \in Hats, Prompts(h)
  PROVE  ContextInv'
<1>. DEFINE s == SeatOf[h]  m == memory[s]  c == ctx[h]
<1>1. RoomTyped /\ WaveTyped /\ IdsUnique /\ LinesFit /\ ReadInv /\ CoverInv
  BY DEF ContextInv
<1>2. /\ UNCHANGED <<transcript, cursor, fresh, removed, crossed, reply, group, asker, queue,
                     pause, held>>
      /\ stage[h] = "launched" /\ stage' = [stage EXCEPT ![h] = "streaming"]
      /\ ctx' = [ctx EXCEPT ![h] = <<>>]
      /\ memory' = [memory EXCEPT ![s] = m \o c]
  BY DEF Prompts, room, waits, ghosts
<1>3. /\ s \in Seats /\ m \in Seq(Nat) /\ c \in Seq(Nat) /\ Len(m) \in Nat /\ Len(c) \in Nat
      /\ cursor[s] \in Nat /\ cursor[s] <= Len(transcript) /\ Len(transcript) \in Nat
  BY <1>1, MemoryTyped, SeatsAssumption DEF WaveTyped
<1>4. /\ m \o c \in Seq(Nat) /\ Len(m \o c) = Len(m) + Len(c)
      /\ \A k \in 1 .. Len(m) : (m \o c)[k] = m[k]
      /\ \A k \in 1 .. Len(c) : (m \o c)[Len(m) + k] = c[k]
  BY ONLY <1>3, Concatenated
<1>. DEFINE new == m \o c
<1>11. /\ Len(new) \in Nat
       /\ \A k \in 1 .. Len(new) : \/ k \in 1 .. Len(m) /\ new[k] = m[k]
                                   \/ k - Len(m) \in 1 .. Len(c) /\ new[k] = c[k - Len(m)]
                                      /\ Len(m) < k
  BY ONLY <1>3, Concatenated
<1>. HIDE DEF new
<1>5. /\ \A x : Position(x)' = Position(x)
      /\ \A x : Position(x) \in Int
  <2>1. \A x : Position(x)' = Position(x)
    BY <1>2 DEF Position
  <2>. QED  BY <1>1, <2>1, PositionOf
<1>6. /\ Within(m, 0, cursor[s]) /\ Sorted(m) /\ PromptHolds(h)
  <2>1. \A g \in Hats : SeatOf[g] = s => g = h \/ stage[g] = "off"
    BY <1>1, <1>2, AloneOnSeat
  <2>2. Resting(s)
    BY <1>2, <2>1 DEF Resting
  <2>. QED  BY <1>1, <1>2, <1>3, <2>2 DEF ReadInv, RestRead, MemorySorted, CoverInv, Launched
<1>7. \A t \in Seats : memory'[t] = IF t = s THEN m \o c ELSE memory[t]
  BY <1>1, <1>2 DEF RoomTyped
<1>8. \A g \in Hats : /\ stage'[g] = IF g = h THEN "streaming" ELSE stage[g]
                      /\ ctx'[g] = IF g = h THEN <<>> ELSE ctx[g]
                      /\ SeatOf[g] \in Seats
                      /\ stage[g] # "off" /\ g # h => SeatOf[g] # s
  BY <1>1, <1>2, AloneOnSeat, SeatsAssumption DEF WaveTyped
<1>9. RoomTyped' /\ WaveTyped' /\ IdsUnique'
  <2>1. RoomTyped'
    BY <1>1, <1>2, <1>4 DEF RoomTyped
  <2>2. WaveTyped'
    BY <1>1, <1>2 DEF WaveTyped, Stages
  <2>3. IdsUnique'
    BY <1>1, <1>2 DEF IdsUnique
  <2>. QED  BY <2>1, <2>2, <2>3
<1>10. LinesFit'
  <2>1. \A g \in Hats : stage'[g] # "off" <=> stage[g] # "off"
    BY <1>2, <1>8
  <2>. QED  BY <1>1, <1>2, <2>1 DEF LinesFit
<1>. DEFINE at == cursor[s]  n == Len(transcript)
<1>12a. /\ \A k, l \in 1 .. Len(m) : k < l => Position(m[k]) < Position(m[l])
        /\ \A k, l \in 1 .. Len(c) : k < l => Position(c[k]) < Position(c[l])
        /\ \A k \in 1 .. Len(m) : 0 < Position(m[k]) /\ Position(m[k]) <= at
        /\ \A k \in 1 .. Len(c) : at < Position(c[k]) /\ Position(c[k]) <= n
        /\ at \in Nat /\ n \in Nat /\ at <= n
        /\ \A x : Position(x) \in Int
  BY <1>3, <1>5, <1>6 DEF Sorted, Within, PromptHolds
<1>. HIDE DEF m, c, at, n
<1>12. \A k, l \in 1 .. Len(new) : k < l => Position(new[k]) < Position(new[l])
  <2>. SUFFICES ASSUME NEW k \in 1 .. Len(new), NEW l \in 1 .. Len(new), k < l
       PROVE  Position(new[k]) < Position(new[l])
    OBVIOUS
  <2>0. k \in Int /\ l \in Int /\ Len(m) \in Int
    BY <1>3, <1>11
  <2>1. CASE l \in 1 .. Len(m) /\ new[l] = m[l]
    <3>1. k \in 1 .. Len(m) /\ new[k] = m[k]
      BY <1>11, <2>0, <2>1
    <3>. QED  BY <1>12a, <2>1, <3>1
  <2>2. CASE /\ l - Len(m) \in 1 .. Len(c) /\ new[l] = c[l - Len(m)]
             /\ k \in 1 .. Len(m) /\ new[k] = m[k]
    <3>1. Position(m[k]) <= at /\ at < Position(c[l - Len(m)])
      BY <1>12a, <2>2
    <3>. QED  BY <1>12a, <2>2, <3>1
  <2>3. CASE /\ l - Len(m) \in 1 .. Len(c) /\ new[l] = c[l - Len(m)]
             /\ k - Len(m) \in 1 .. Len(c) /\ new[k] = c[k - Len(m)]
    <3>1. k - Len(m) < l - Len(m)
      BY <2>0
    <3>. QED  BY <1>12a, <2>3, <3>1
  <2>. QED  BY <1>11, <2>1, <2>2, <2>3
<1>13. Within(new, 0, n)
  <2>. SUFFICES ASSUME NEW k \in 1 .. Len(new)
       PROVE  0 < Position(new[k]) /\ Position(new[k]) <= n
    BY DEF Within
  <2>1. CASE k \in 1 .. Len(m) /\ new[k] = m[k]
    BY <1>12a, <2>1
  <2>2. CASE k - Len(m) \in 1 .. Len(c) /\ new[k] = c[k - Len(m)]
    BY <1>12a, <2>2
  <2>. QED  BY <1>11, <2>1, <2>2
<1>14. MemorySorted'
  <2>. SUFFICES ASSUME NEW t \in Seats  PROVE Sorted(memory[t])'
    BY DEF MemorySorted
  <2>1. CASE t = s
    BY <1>5, <1>7, <1>12, <2>1 DEF Sorted, new
  <2>2. CASE t # s
    BY <1>1, <1>5, <1>7, <2>2 DEF Sorted, ReadInv, MemorySorted
  <2>. QED  BY <2>1, <2>2
<1>15. RestRead'
  <2>. SUFFICES ASSUME NEW t \in Seats, Resting(t)'  PROVE Within(memory[t], 0, cursor[t])'
    BY DEF RestRead
  <2>1. t # s
    BY <1>8 DEF Resting, s
  <2>2. Resting(t)
    BY <1>8, <2>1 DEF Resting, s
  <2>. QED  BY <1>1, <1>2, <1>5, <1>7, <2>1, <2>2 DEF ReadInv, RestRead, Within
<1>16. StreamRead'
  <2>. SUFFICES ASSUME NEW g \in Hats, stage'[g] = "streaming"
       PROVE  Within(memory[SeatOf[g]], 0, Len(transcript))'
    BY DEF StreamRead
  <2>1. CASE g = h
    BY <1>2, <1>3, <1>5, <1>7, <1>13, <2>1 DEF Within, new, s, n
  <2>2. CASE g # h
    BY <1>1, <1>2, <1>5, <1>7, <1>8, <2>2 DEF ReadInv, StreamRead, Within
  <2>. QED  BY <2>1, <2>2
<1>17. ReplyRead' /\ RepliesDiffer'
  <2>1. \A g \in Hats : stage'[g] \in Replied => stage[g] \in Replied /\ g # h /\ stage[g] # "off"
    BY <1>8 DEF Replied
  <2>2. RepliesDiffer'
    BY <1>1, <1>2, <2>1 DEF ReadInv, RepliesDiffer
  <2>3. ASSUME NEW g \in Hats, stage'[g] \in Replied  PROVE EndsWithReply(g)'
    <3>1. EndsWithReply(g) /\ memory'[SeatOf[g]] = memory[SeatOf[g]]
      BY <1>1, <1>7, <1>8, <2>1, <2>3 DEF ReadInv, ReplyRead
    <3>. QED  BY <1>2, <1>5, <3>1 DEF EndsWithReply
  <2>. QED  BY <2>2, <2>3 DEF ReplyRead
<1>18. \A t \in Seats, i \in Nat : Covered(t, i) => Covered(t, i)'
  <2>. SUFFICES ASSUME NEW t \in Seats, NEW i \in Nat, Covered(t, i)  PROVE Covered(t, i)'
    OBVIOUS
  <2>1. /\ Len(memory[t]) \in Nat /\ Len(memory'[t]) \in Nat
        /\ Len(memory[t]) <= Len(memory'[t])
        /\ \A k \in 1 .. Len(memory[t]) : memory'[t][k] = memory[t][k]
    <3>1. CASE t = s
      <4>1. Len(m \o c) \in Nat /\ Len(m) <= Len(m \o c)
        BY ONLY <1>3, <1>4
      <4>. QED  BY <1>3, <1>4, <1>7, <3>1, <4>1 DEF m
    <3>2. CASE t # s
      BY <1>1, <1>7, <3>2, MemoryTyped
    <3>. QED  BY <3>1, <3>2
  <2>. QED  BY <1>2, <2>1, CoveredStays
<1>19. CursorCovered'
  BY <1>1, <1>2, <1>18, MemoryTyped DEF CoverInv, CursorCovered
<1>20. ASSUME NEW i \in 1 .. Len(transcript)  PROVE Covered(s, i)'
  <2>1. CASE i \in 1 .. cursor[s]
    BY <1>1, <1>3, <1>18, <2>1 DEF CoverInv, CursorCovered
  <2>2. CASE i \in cursor[s] + 1 .. Len(transcript)
    <3>1. Covered(s, i) \/ Given(h, i)
      BY <1>6, <2>2 DEF PromptHolds
    <3>2. ASSUME Given(h, i)  PROVE Covered(s, i)'
      <4>1. PICK k \in 1 .. Len(c) : c[k] = transcript[i].id
        BY <3>2 DEF Given, c
      <4>2. Len(m) + k \in 1 .. Len(memory'[s]) /\ memory'[s][Len(m) + k] = transcript'[i].id
        <5>1. Len(m) + k \in 1 .. Len(m \o c) /\ (m \o c)[Len(m) + k] = transcript[i].id
          BY ONLY <1>3, <1>4, <4>1
        <5>. QED  BY <1>2, <1>3, <1>7, <5>1
      <4>. QED  BY <4>2 DEF Covered
    <3>. QED  BY <1>3, <1>18, <3>1, <3>2
  <2>. QED  BY <1>3, <2>1, <2>2
<1>21. HandCovered'
  <2>. SUFFICES ASSUME NEW g \in Hats, TakesPart(g)', NEW i \in 1 .. Len(transcript)
       PROVE  Covered(SeatOf[g], i)'
    BY <1>2 DEF HandCovered
  <2>1. CASE g = h
    BY <1>20, <2>1 DEF s
  <2>2. CASE g # h
    <3>1. TakesPart(g)
      BY <1>2, <1>8, <2>2 DEF TakesPart
    <3>. QED  BY <1>1, <1>8, <1>18, <3>1 DEF CoverInv, HandCovered
  <2>. QED  BY <2>1, <2>2
<1>22. Launched'
  <2>. SUFFICES ASSUME NEW g \in Hats, stage'[g] = "launched"  PROVE PromptHolds(g)'
    BY DEF Launched
  <2>1. g # h /\ PromptHolds(g) /\ ctx'[g] = ctx[g] /\ SeatOf[g] \in Seats
    BY <1>1, <1>8 DEF CoverInv, Launched
  <2>2. Sorted(ctx[g])' /\ Within(ctx[g], cursor[SeatOf[g]], Len(transcript))'
    BY <1>2, <1>5, <2>1 DEF PromptHolds, Sorted, Within
  <2>3. ASSUME NEW i \in cursor[SeatOf[g]] + 1 .. Len(transcript)
        PROVE  Covered(SeatOf[g], i)' \/ Given(g, i)'
    <3>1. i \in Nat
      BY <1>1, <2>1, MemoryTyped
    <3>2. Covered(SeatOf[g], i) \/ Given(g, i)
      BY <2>1 DEF PromptHolds
    <3>. QED  BY <1>2, <1>18, <2>1, <3>1, <3>2 DEF Given
  <2>. QED  BY <1>2, <2>2, <2>3 DEF PromptHolds
<1>. QED  BY <1>9, <1>10, <1>14, <1>15, <1>16, <1>17, <1>19, <1>21, <1>22
     DEF ContextInv, ReadInv, CoverInv

\* A hat throws: nothing is posted, and its seat is taken to have seen all.
LEMMA FailsKeeps ==
  ASSUME ContextInv, NEW h \in Hats, Fails(h)
  PROVE  ContextInv'
<1>. DEFINE s == SeatOf[h]  n == Len(transcript)
<1>1. RoomTyped /\ WaveTyped /\ IdsUnique /\ LinesFit /\ ReadInv /\ CoverInv
  BY DEF ContextInv
<1>2. /\ UNCHANGED <<transcript, memory, fresh, removed, crossed, reply, group, asker, queue,
                     pause, held, ctx>>
      /\ stage[h] = "streaming" /\ stage' = [stage EXCEPT ![h] = "skipped"]
      /\ cursor' = [cursor EXCEPT ![s] = n]
  BY DEF Fails, waits, ghosts
<1>3. s \in Seats /\ n \in Nat /\ \A t \in Seats : cursor'[t] = IF t = s THEN n ELSE cursor[t]
  BY <1>1, <1>2, SeatsAssumption DEF RoomTyped
<1>4. \A g \in Hats : /\ stage'[g] = IF g = h THEN "skipped" ELSE stage[g]
                      /\ SeatOf[g] \in Seats
                      /\ stage[g] # "off" /\ g # h => SeatOf[g] # s
  BY <1>1, <1>2, AloneOnSeat, SeatsAssumption DEF WaveTyped
<1>5. /\ \A x : Position(x)' = Position(x)
      /\ \A t, i : Covered(t, i)' <=> Covered(t, i)
  BY <1>2 DEF Position, Covered
<1>6. RoomTyped' /\ WaveTyped' /\ IdsUnique'
  <2>1. RoomTyped'
    BY <1>1, <1>2, <1>3 DEF RoomTyped
  <2>2. WaveTyped'
    BY <1>1, <1>2 DEF WaveTyped, Stages
  <2>3. IdsUnique'
    BY <1>1, <1>2 DEF IdsUnique
  <2>. QED  BY <2>1, <2>2, <2>3
<1>7. LinesFit'
  <2>1. \A g \in Hats : stage'[g] # "off" <=> stage[g] # "off"
    BY <1>2, <1>4
  <2>. QED  BY <1>1, <1>2, <2>1 DEF LinesFit
<1>8. MemorySorted'
  BY <1>1, <1>2, <1>5 DEF ReadInv, MemorySorted, Sorted
<1>9. RestRead'
  <2>. SUFFICES ASSUME NEW t \in Seats, Resting(t)'  PROVE Within(memory[t], 0, cursor[t])'
    BY DEF RestRead
  <2>1. CASE t = s
    <3>1. Within(memory[s], 0, n)
      BY <1>1, <1>2 DEF ReadInv, StreamRead
    <3>. QED  BY <1>2, <1>3, <1>5, <2>1, <3>1 DEF Within
  <2>2. CASE t # s
    <3>1. Resting(t)
      BY <1>4, <2>2 DEF Resting
    <3>. QED  BY <1>1, <1>2, <1>3, <1>5, <2>2, <3>1 DEF ReadInv, RestRead, Within
  <2>. QED  BY <2>1, <2>2
<1>10. StreamRead'
  BY <1>1, <1>2, <1>4, <1>5 DEF ReadInv, StreamRead, Within
<1>11. ReplyRead' /\ RepliesDiffer'
  <2>1. \A g \in Hats : stage'[g] \in Replied => stage[g] \in Replied
    BY <1>4 DEF Replied
  <2>. QED  BY <1>1, <1>2, <1>5, <2>1 DEF ReadInv, ReplyRead, RepliesDiffer, EndsWithReply
<1>12. CursorCovered'
  <2>. SUFFICES ASSUME NEW t \in Seats, NEW i \in 1 .. cursor'[t]  PROVE Covered(t, i)
    BY <1>5 DEF CursorCovered
  <2>1. CASE t = s
    <3>1. TakesPart(h) /\ i \in 1 .. n
      BY <1>2, <1>3, <2>1 DEF TakesPart
    <3>. QED  BY <1>1, <2>1, <3>1 DEF CoverInv, HandCovered
  <2>2. CASE t # s
    BY <1>1, <1>3, <2>2 DEF CoverInv, CursorCovered
  <2>. QED  BY <2>1, <2>2
<1>13. HandCovered'
  <2>1. \A g \in Hats : TakesPart(g)' => TakesPart(g)
    BY <1>2, <1>4 DEF TakesPart, Replied
  <2>. QED  BY <1>1, <1>2, <1>5, <2>1 DEF CoverInv, HandCovered
<1>14. Launched'
  <2>. SUFFICES ASSUME NEW g \in Hats, stage'[g] = "launched"  PROVE PromptHolds(g)'
    BY DEF Launched
  <2>1. PromptHolds(g) /\ cursor'[SeatOf[g]] = cursor[SeatOf[g]]
    BY <1>1, <1>3, <1>4 DEF CoverInv, Launched
  <2>. QED  BY <1>2, <1>5, <2>1 DEF PromptHolds, Sorted, Within, Given
<1>. QED  BY <1>6, <1>7, <1>8, <1>9, <1>10, <1>11, <1>12, <1>13, <1>14
     DEF ContextInv, ReadInv, CoverInv

\* A hat replies: its session ends with a line that is not posted yet.
LEMMA RepliesKeeps ==
  ASSUME ContextInv, NEW h \in Hats, Replies(h)
  PROVE  ContextInv'
<1>. DEFINE s == SeatOf[h]  m == memory[s]  n == Len(transcript)
<1>1. RoomTyped /\ WaveTyped /\ IdsUnique /\ LinesFit /\ ReadInv /\ CoverInv
  BY DEF ContextInv
<1>2. PICK end \in {"done", "asks", "cut"} : stage' = [stage EXCEPT ![h] = end]
  BY DEF Replies
<1>3. /\ UNCHANGED <<transcript, cursor, removed, crossed, group, asker, queue, pause, held, ctx>>
      /\ stage[h] = "streaming" /\ reply' = [reply EXCEPT ![h] = fresh]
      /\ memory' = [memory EXCEPT ![s] = Append(m, fresh)] /\ fresh' = fresh + 1
  BY DEF Replies, room, waits
<1>4. /\ s \in Seats /\ n \in Nat /\ m \in Seq(Nat) /\ Len(m) \in Nat /\ fresh \in Nat
      /\ Position(fresh) = n + 1 /\ fresh \notin removed
  BY <1>1, MemoryTyped, FreshIsNew, SeatsAssumption
<1>5. /\ Append(m, fresh) \in Seq(Nat) /\ Len(Append(m, fresh)) = Len(m) + 1
      /\ \A k \in 1 .. Len(m) : Append(m, fresh)[k] = m[k]
      /\ Append(m, fresh)[Len(m) + 1] = fresh
  <2>. HIDE DEF m
  <2>. QED  BY <1>4
<1>6. \A t \in Seats : memory'[t] = IF t = s THEN Append(m, fresh) ELSE memory[t]
  BY <1>1, <1>3 DEF RoomTyped
<1>7. \A g \in Hats : /\ stage'[g] = IF g = h THEN end ELSE stage[g]
                      /\ reply'[g] = IF g = h THEN fresh ELSE reply[g]
                      /\ SeatOf[g] \in Seats
                      /\ stage[g] # "off" /\ g # h => SeatOf[g] # s
  BY <1>1, <1>2, <1>3, AloneOnSeat, SeatsAssumption DEF WaveTyped
<1>8. /\ \A x : Position(x)' = Position(x)
      /\ \A x : Position(x) \in Int
  BY <1>1, <1>3, PositionOf DEF Position
<1>9. RoomTyped' /\ WaveTyped' /\ IdsUnique'
  <2>1. RoomTyped'
    <3>. DEFINE new == Append(m, fresh)
    <3>1. new \in Seq(Nat)
      BY <1>5
    <3>. HIDE DEF new, m
    <3>2. memory' = [memory EXCEPT ![s] = new] /\ fresh + 1 \in Nat
      BY <1>3, <1>4 DEF new
    <3>. QED  BY <1>1, <1>3, <3>1, <3>2 DEF RoomTyped
  <2>2. WaveTyped'
    BY <1>1, <1>2, <1>3, <1>4 DEF WaveTyped, Stages, Replied
  <2>3. IdsUnique'
    <3>1. \A i \in 1 .. Len(transcript) : transcript[i].id \in Nat
      <4>1. \A i \in 1 .. Len(transcript) : transcript[i] \in EntriesOf
        BY <1>1 DEF RoomTyped
      <4>. QED  BY <4>1 DEF EntriesOf
    <3>2. \A i \in 1 .. Len(transcript) : transcript[i].id < fresh + 1
      BY <1>1, <1>4, <3>1 DEF IdsUnique
    <3>3. \A x \in removed : x \in Nat /\ x < fresh + 1
      BY <1>1, <1>4 DEF IdsUnique
    <3>. QED  BY <1>1, <1>3, <3>2, <3>3 DEF IdsUnique
  <2>. QED  BY <2>1, <2>2, <2>3
<1>10. LinesFit'
  <2>1. \A g \in Hats : stage'[g] # "off" <=> stage[g] # "off"
    BY <1>2, <1>3, <1>7
  <2>. QED  BY <1>1, <1>3, <2>1 DEF LinesFit
<1>11. Within(m, 0, n) /\ Sorted(m)
  BY <1>1, <1>3, <1>4 DEF ReadInv, StreamRead, MemorySorted
<1>. DEFINE new == Append(m, fresh)
<1>12. \A k \in 1 .. Len(new) : \/ k \in 1 .. Len(m) /\ new[k] = m[k]
                                \/ k = Len(m) + 1 /\ new[k] = fresh
  BY <1>4, <1>5
<1>13. \A k, l \in 1 .. Len(new) : k < l => Position(new[k]) < Position(new[l])
  <2>. SUFFICES ASSUME NEW k \in 1 .. Len(new), NEW l \in 1 .. Len(new), k < l
       PROVE  Position(new[k]) < Position(new[l])
    OBVIOUS
  <2>1. k \in 1 .. Len(m) /\ new[k] = m[k]
    BY <1>4, <1>5, <1>12
  <2>2. CASE l \in 1 .. Len(m) /\ new[l] = m[l]
    BY <1>11, <2>1, <2>2 DEF Sorted
  <2>3. CASE l = Len(m) + 1 /\ new[l] = fresh
    <3>1. Position(m[k]) <= n
      BY <1>11, <2>1 DEF Within
    <3>. QED  BY <1>4, <1>8, <2>1, <2>3, <3>1
  <2>. QED  BY <1>12, <2>2, <2>3
<1>14. MemorySorted'
  <2>. SUFFICES ASSUME NEW t \in Seats  PROVE Sorted(memory[t])'
    BY DEF MemorySorted
  <2>. HIDE DEF new
  <2>1. CASE t = s
    BY <1>6, <1>8, <1>13, <2>1 DEF Sorted, new
  <2>2. CASE t # s
    BY <1>1, <1>6, <1>8, <2>2 DEF Sorted, ReadInv, MemorySorted
  <2>. QED  BY <2>1, <2>2
<1>. HIDE DEF new, m
<1>15. RestRead'
  <2>. SUFFICES ASSUME NEW t \in Seats, Resting(t)'  PROVE Within(memory[t], 0, cursor[t])'
    BY DEF RestRead
  <2>1. t # s
    BY <1>2, <1>7 DEF Resting
  <2>2. Resting(t)
    BY <1>7, <2>1 DEF Resting
  <2>. QED  BY <1>1, <1>3, <1>6, <1>8, <2>1, <2>2 DEF ReadInv, RestRead, Within
<1>16. StreamRead'
  <2>. SUFFICES ASSUME NEW g \in Hats, stage'[g] = "streaming"
       PROVE  Within(memory[SeatOf[g]], 0, Len(transcript))'
    BY DEF StreamRead
  <2>1. g # h /\ stage[g] = "streaming" /\ SeatOf[g] # s /\ SeatOf[g] \in Seats
    BY <1>2, <1>7
  <2>. QED  BY <1>1, <1>3, <1>6, <1>8, <2>1 DEF ReadInv, StreamRead, Within
<1>17. RepliesDiffer'
  <2>1. \A g \in Hats : g # h /\ stage'[g] \in Replied =>
          stage[g] \in Replied /\ reply'[g] = reply[g] /\ reply[g] # fresh
    BY <1>1, <1>4, <1>7 DEF ReadInv, ReplyRead, EndsWithReply, WaveTyped
  <2>. QED  BY <1>1, <1>7, <2>1 DEF ReadInv, RepliesDiffer
<1>18. ReplyRead'
  <2>. SUFFICES ASSUME NEW g \in Hats, stage'[g] \in Replied  PROVE EndsWithReply(g)'
    BY DEF ReplyRead
  <2>1. CASE g = h
    <3>1. memory'[SeatOf[g]] = new /\ reply'[g] = fresh
      BY <1>4, <1>6, <1>7, <2>1 DEF new
    <3>2. new # <<>> /\ new[Len(new)] = fresh /\ Len(new) - 1 = Len(m)
      BY <1>4, <1>5 DEF new
    <3>3. \A k \in 1 .. Len(m) : new[k] = m[k] /\ Position(m[k]) <= n
      BY <1>5, <1>11 DEF new, Within
    <3>4. (Position(reply[g]) = Len(transcript) + 1)'
      BY <1>3, <1>4, <1>8, <3>1
    <3>5. (\A k \in 1 .. Len(memory[SeatOf[g]]) - 1 :
            Position(memory[SeatOf[g]][k]) <= Len(transcript))'
      BY <1>3, <1>8, <3>1, <3>2, <3>3
    <3>6. (reply[g] < fresh /\ reply[g] \notin removed)'
      BY <1>3, <1>4, <3>1
    <3>7. (memory[SeatOf[g]] # <<>> /\ memory[SeatOf[g]][Len(memory[SeatOf[g]])] = reply[g])'
      BY <3>1, <3>2
    <3>. QED  BY <3>4, <3>5, <3>6, <3>7 DEF EndsWithReply
  <2>2. CASE g # h
    <3>1. EndsWithReply(g) /\ memory'[SeatOf[g]] = memory[SeatOf[g]] /\ reply'[g] = reply[g]
      BY <1>1, <1>6, <1>7, <2>2 DEF ReadInv, ReplyRead, Replied
    <3>2. reply[g] \in Nat
      BY <1>1 DEF WaveTyped
    <3>3. reply[g] < fresh'
      BY <1>3, <1>4, <3>1, <3>2 DEF EndsWithReply
    <3>. DEFINE q == memory[SeatOf[g]]  a == reply[g]
    <3>4. /\ memory'[SeatOf[g]] = q /\ reply'[g] = a /\ q # <<>> /\ q[Len(q)] = a
          /\ \A k \in 1 .. Len(q) - 1 : Position(q[k]) <= n
          /\ Position(a) = n + 1 /\ a < fresh' /\ a \notin removed
      BY <3>1, <3>3 DEF EndsWithReply
    <3>. HIDE DEF q, a
    <3>5. (Position(reply[g]) = Len(transcript) + 1)'
      BY <1>3, <1>8, <3>4
    <3>6. (\A k \in 1 .. Len(memory[SeatOf[g]]) - 1 :
            Position(memory[SeatOf[g]][k]) <= Len(transcript))'
      BY <1>3, <1>8, <3>4
    <3>7. (reply[g] < fresh /\ reply[g] \notin removed)'
      BY <1>3, <3>4
    <3>8. (memory[SeatOf[g]] # <<>> /\ memory[SeatOf[g]][Len(memory[SeatOf[g]])] = reply[g])'
      BY <3>4
    <3>. QED  BY <3>5, <3>6, <3>7, <3>8 DEF EndsWithReply
  <2>. QED  BY <2>1, <2>2
<1>19. \A t \in Seats, i \in Nat : Covered(t, i) => Covered(t, i)'
  <2>. SUFFICES ASSUME NEW t \in Seats, NEW i \in Nat, Covered(t, i)  PROVE Covered(t, i)'
    OBVIOUS
  <2>1. /\ Len(memory[t]) \in Nat /\ Len(memory'[t]) \in Nat
        /\ Len(memory[t]) <= Len(memory'[t])
        /\ \A k \in 1 .. Len(memory[t]) : memory'[t][k] = memory[t][k]
    <3>1. CASE t = s
      <4>1. memory'[t] = new /\ memory[t] = m
        BY <1>6, <3>1 DEF new, m
      <4>2. Len(m) <= Len(new) /\ Len(new) \in Nat
        BY <1>4, <1>5 DEF new
      <4>. QED  BY <1>4, <1>5, <4>1, <4>2 DEF new
    <3>2. CASE t # s
      BY <1>1, <1>6, <3>2, MemoryTyped
    <3>. QED  BY <3>1, <3>2
  <2>. QED  BY <1>3, <2>1, CoveredStays
<1>20. CursorCovered'
  BY <1>1, <1>3, <1>19, MemoryTyped DEF CoverInv, CursorCovered
<1>21. HandCovered'
  <2>1. \A g \in Hats : TakesPart(g)' => TakesPart(g)
    BY <1>3, <1>7 DEF TakesPart
  <2>. QED  BY <1>1, <1>3, <1>7, <1>19, <2>1 DEF CoverInv, HandCovered
<1>22. Launched'
  <2>. SUFFICES ASSUME NEW g \in Hats, stage'[g] = "launched"  PROVE PromptHolds(g)'
    BY DEF Launched
  <2>1. PromptHolds(g) /\ SeatOf[g] \in Seats /\ Len(transcript) \in Nat
        /\ cursor[SeatOf[g]] \in Nat
    BY <1>1, <1>2, <1>7, MemoryTyped DEF CoverInv, Launched
  <2>2. UNCHANGED <<transcript, cursor, ctx>>
    BY <1>3
  <2>3. (Sorted(ctx[g]) /\ Within(ctx[g], cursor[SeatOf[g]], Len(transcript)))'
    BY <1>8, <2>1, <2>2 DEF PromptHolds, Sorted, Within
  <2>4. ASSUME NEW i \in cursor[SeatOf[g]] + 1 .. Len(transcript)
        PROVE  Covered(SeatOf[g], i)' \/ Given(g, i)'
    <3>1. i \in Nat
      BY <2>1
    <3>2. Covered(SeatOf[g], i) \/ Given(g, i)
      BY <2>1 DEF PromptHolds
    <3>. QED  BY <1>19, <2>1, <2>2, <3>1, <3>2 DEF Given
  <2>. QED  BY <2>2, <2>3, <2>4 DEF PromptHolds
<1>. QED  BY <1>9, <1>10, <1>14, <1>15, <1>16, <1>17, <1>18, <1>20, <1>21, <1>22
     DEF ContextInv, ReadInv, CoverInv

\* The parallel hats that stand together at the head of the line.
LEMMA GroupLengthProperties ==
  ASSUME queue \in Seq(Hats), queue # <<>>
  PROVE  /\ GroupLength \in 1 .. Len(queue)
         /\ \/ GroupLength = 1
            \/ \A i \in 1 .. GroupLength : queue[i] \in Parallel
<1>1. Len(queue) \in Nat /\ Len(queue) >= 1
  BY EmptySeq
<1>2. CASE queue[1] \notin Parallel
  BY <1>1, <1>2 DEF GroupLength
<1>3. CASE queue[1] \in Parallel
  <2>. DEFINE Ends(n) == /\ n \in 1 .. Len(queue)
                         /\ \A i \in 1 .. n : queue[i] \in Parallel
                         /\ n < Len(queue) => queue[n + 1] \notin Parallel
              T == {i \in 1 .. Len(queue) : queue[i] \notin Parallel}
  <2>1. \E n : Ends(n)
    <3>1. CASE T = {}
      <4>1. Ends(Len(queue))
        BY <1>1, <3>1
      <4>. QED  BY <4>1
    <3>2. CASE T # {}
      <4>1. PICK x \in T : \A y \in T : x <= y
        <5>1. T \subseteq Nat
          BY <1>1
        <5>. QED  BY <3>2, <5>1, LeastNumber
      <4>2. x \in 1 .. Len(queue) /\ queue[x] \notin Parallel /\ x # 1
        BY <1>3, <4>1
      <4>3. \A i \in 1 .. x - 1 : queue[i] \in Parallel
        BY <1>1, <4>1, <4>2
      <4>4. Ends(x - 1)
        BY <1>1, <4>2, <4>3
      <4>. QED  BY <4>4
    <3>. QED  BY <3>1, <3>2
  <2>2. GroupLength = CHOOSE n \in 1 .. Len(queue) :
          /\ \A i \in 1 .. n : queue[i] \in Parallel
          /\ n < Len(queue) => queue[n + 1] \notin Parallel
    BY <1>3 DEF GroupLength
  <2>3. Ends(GroupLength)
    BY <2>1, <2>2
  <2>. QED  BY <2>3
<1>. QED  BY <1>2, <1>3

\* A line is cut in two.
LEMMA CutLine ==
  ASSUME NEW q \in Seq(Hats), IsInjective(q), NEW n \in 1 .. Len(q)
  PROVE  LET g == SubSeq(q, 1, n)  r == SubSeq(q, n + 1, Len(q)) IN
         /\ g \in Seq(Hats) /\ Len(g) = n /\ \A i \in 1 .. n : g[i] = q[i]
         /\ r \in Seq(Hats) /\ IsInjective(r) /\ Len(g) \in Nat /\ g # <<>>
<1>1. Len(q) \in Nat /\ n \in Nat /\ n <= Len(q) /\ 1 <= n
  OBVIOUS
<1>. DEFINE g == SubSeq(q, 1, n)  r == SubSeq(q, n + 1, Len(q))
<1>2. g \in Seq(Hats) /\ Len(g) = n /\ \A i \in 1 .. n : g[i] = q[i]
  BY <1>1, SubSeqProperties
<1>3. r \in Seq(Hats) /\ Len(r) = Len(q) - n /\ \A i \in 1 .. Len(q) - n : r[i] = q[n + i]
  <2>1. \A i \in n + 1 .. Len(q) : i \in 1 .. Len(q)
    BY <1>1
  <2>2. /\ SubSeq(q, n + 1, Len(q)) \in Seq(Hats)
        /\ Len(SubSeq(q, n + 1, Len(q))) = IF n + 1 <= Len(q) THEN Len(q) - (n + 1) + 1 ELSE 0
    BY <1>1, <2>1, SubSeqProperties
  <2>3. \A i \in 1 .. Len(q) - n : SubSeq(q, n + 1, Len(q))[i] = q[n + i]
    <3>. TAKE i \in 1 .. Len(q) - n
    <3>1. SubSeq(q, n + 1, Len(q))[i] = q[n + 1 + i - 1]
      BY <1>1, <2>1, <2>2, SubSeqProperties
    <3>2. n + 1 + i - 1 = n + i
      BY <1>1
    <3>. QED  BY <3>1, <3>2
  <2>. QED  BY <1>1, <2>2, <2>3
<1>4. IsInjective(r)
  <2>1. \A i, j \in 1 .. Len(q) : q[i] = q[j] => i = j
    BY DEF IsInjective
  <2>2. ASSUME NEW i \in DOMAIN r, NEW j \in DOMAIN r, r[i] = r[j]  PROVE i = j
    <3>1. i \in 1 .. Len(q) - n /\ j \in 1 .. Len(q) - n
      BY <1>3
    <3>2. q[n + i] = q[n + j] /\ n + i \in 1 .. Len(q) /\ n + j \in 1 .. Len(q)
      <4>1. n + i \in 1 .. Len(q) /\ n + j \in 1 .. Len(q)
        BY ONLY <1>1, <3>1
      <4>2. r[i] = q[n + i] /\ r[j] = q[n + j]
        BY <1>3, <3>1
      <4>. QED  BY <2>2, <4>1, <4>2
    <3>. QED  BY <1>1, <2>1, <3>1, <3>2
  <2>. QED  BY <2>2 DEF IsInjective
<1>. QED  BY <1>1, <1>2, <1>3, <1>4

\* With no wave at work no hat is, and none of the wave has asked.
LEMMA NobodyAtWork ==
  ASSUME WaveTyped, LinesFit, group = <<>>
  PROVE  (\A h \in Hats : stage[h] = "off") /\ asker = NoHat
  BY DEF LinesFit, WaveTyped

\* What holds once hats are launched that nobody of was at work.
LEMMA LaunchFits ==
  ASSUME WaveTyped, LinesFit, group = <<>>, NEW g \in Seq(Hats), g # <<>>,
         NEW contexts \in [Hats -> Seq(Nat)], Launch(g, contexts),
         \A k, l \in 1 .. Len(g) : SeatOf[g[k]] = SeatOf[g[l]] => k = l,
         queue' \in Seq(Hats), IsInjective(queue'), held' = held, asker' = asker, pause' = NoHat
  PROVE  /\ WaveTyped' /\ LinesFit'
         /\ \A h \in Hats : stage'[h] \in {"launched", "off"}
         /\ \A h \in Hats : stage'[h] = "launched" => \E k \in 1 .. Len(g) : g[k] = h
<1>1. \A h \in Hats : h \in ToSet(g) <=> \E k \in 1 .. Len(g) : g[k] = h
  BY DEF ToSet
<1>2. /\ group' = g /\ ctx' = contexts /\ reply' = [h \in Hats |-> 0]
      /\ stage' = [h \in Hats |-> IF h \in ToSet(g) THEN "launched" ELSE "off"]
  BY DEF Launch
<1>3. WaveTyped'
  BY <1>2 DEF WaveTyped, Stages
<1>4. asker = NoHat
  BY NobodyAtWork
<1>5. \A h \in Hats : stage'[h] # "off" <=> \E k \in 1 .. Len(g) : g[k] = h
  BY <1>1, <1>2
<1>6. LinesFit'
  BY <1>2, <1>4, <1>5 DEF LinesFit
<1>. QED  BY <1>1, <1>2, <1>3, <1>6

\* A wave begins: every hat of it is given what its seat has not seen.
LEMMA StartWaveKeeps ==
  ASSUME OneParallelHat, ContextInv, StartWave
  PROVE  ContextInv'
<1>1. RoomTyped /\ WaveTyped /\ IdsUnique /\ LinesFit /\ ReadInv /\ CoverInv
  BY DEF ContextInv
<1>. DEFINE n == GroupLength  g == SubSeq(queue, 1, n)
            contexts == [h \in Hats |-> IF h \in ToSet(g) THEN BuildContext(h) ELSE <<>>]
<1>2. /\ UNCHANGED <<transcript, cursor, memory, fresh, removed, crossed, asker, pause, held>>
      /\ group = <<>> /\ queue # <<>> /\ Launch(g, contexts)
      /\ queue' = SubSeq(queue, n + 1, Len(queue))
  BY DEF StartWave, room, ghosts
<1>3. (\A h \in Hats : stage[h] = "off") /\ asker = NoHat /\ pause = NoHat
  BY <1>1, <1>2, NobodyAtWork DEF LinesFit
<1>4. /\ queue \in Seq(Hats) /\ n \in 1 .. Len(queue) /\ IsInjective(queue)
      /\ n = 1 \/ \A i \in 1 .. n : queue[i] \in Parallel
  BY <1>1, <1>2, GroupLengthProperties DEF WaveTyped, LinesFit
<1>5. /\ g \in Seq(Hats) /\ Len(g) = n /\ \A i \in 1 .. n : g[i] = queue[i]
      /\ queue' \in Seq(Hats) /\ IsInjective(queue') /\ g # <<>>
  <2>. HIDE DEF n
  <2>. QED  BY <1>2, <1>4, CutLine
<1>6. \A k, l \in 1 .. Len(g) : SeatOf[g[k]] = SeatOf[g[l]] => k = l
  <2>1. \A i, j \in 1 .. Len(queue) : queue[i] = queue[j] => i = j
    BY <1>4 DEF IsInjective
  <2>2. \A i \in 1 .. n : i \in 1 .. Len(queue)
    BY <1>4
  <2>. HIDE DEF n, g
  <2>3. CASE n = 1
    BY <1>5, <2>3
  <2>4. CASE \A i \in 1 .. n : queue[i] \in Parallel
    BY <1>5, <2>1, <2>2, <2>4 DEF OneParallelHat
  <2>. QED  BY <1>4, <2>3, <2>4
<1>7. contexts \in [Hats -> Seq(Nat)]
  <2>1. \A h \in Hats : BuildContext(h) \in Seq(Nat)
    BY <1>1, BuildContextProperties
  <2>. QED  BY <2>1
<1>8. /\ WaveTyped' /\ LinesFit'
      /\ \A h \in Hats : stage'[h] \in {"launched", "off"}
      /\ \A h \in Hats : stage'[h] = "launched" => \E k \in 1 .. Len(g) : g[k] = h
  <2>. HIDE DEF g, contexts
  <2>. QED  BY <1>1, <1>2, <1>3, <1>5, <1>6, <1>7, LaunchFits
<1>9. /\ RoomTyped' /\ IdsUnique' /\ MemorySorted' /\ CursorCovered'
      /\ \A x : Position(x)' = Position(x)
      /\ \A s, i : Covered(s, i)' <=> Covered(s, i)
  BY <1>2, SameRoom
<1>10. RestRead'
  <2>1. \A s \in Seats : Resting(s)
    BY <1>3 DEF Resting
  <2>. QED  BY <1>1, <1>2, <1>9, <2>1 DEF ReadInv, RestRead, Within
<1>11. StreamRead' /\ ReplyRead' /\ RepliesDiffer'
  BY <1>8 DEF StreamRead, ReplyRead, RepliesDiffer, Replied
<1>12. HandCovered'
  BY <1>2, <1>3, <1>8, NoHatAssumption DEF HandCovered, TakesPart, Replied
<1>13. Launched'
  <2>. SUFFICES ASSUME NEW h \in Hats, stage'[h] = "launched"  PROVE PromptHolds(h)'
    BY DEF Launched
  <2>. DEFINE q == BuildContext(h)  from == cursor[SeatOf[h]]
  <2>1. ctx'[h] = q
    <3>1. h \in ToSet(g)
      <4>1. \E k \in 1 .. Len(g) : g[k] = h
        BY <1>8
      <4>2. g \in Seq(Hats)
        BY <1>5
      <4>. HIDE DEF g
      <4>. QED  BY <4>1, <4>2 DEF ToSet
    <3>2. contexts[h] = q
      BY <3>1
    <3>. HIDE DEF contexts, q
    <3>. QED  BY <1>2, <3>2 DEF Launch
  <2>2. /\ Sorted(q) /\ Within(q, from, Len(transcript))
        /\ \A i \in from + 1 .. Len(transcript) :
             \/ transcript[i].author = h
             \/ \E k \in 1 .. Len(q) : q[k] = transcript[i].id
    BY <1>1, BuildContextProperties
  <2>. HIDE DEF q
  <2>3. (Sorted(ctx[h]) /\ Within(ctx[h], cursor[SeatOf[h]], Len(transcript)))'
    BY <1>2, <1>9, <2>1, <2>2 DEF Sorted, Within
  <2>4. \A i \in from + 1 .. Len(transcript) : Covered(SeatOf[h], i) \/ Given(h, i)'
    BY <1>2, <2>1, <2>2 DEF Covered, Given
  <2>. QED  BY <1>2, <1>9, <2>3, <2>4 DEF PromptHolds
<1>. QED  BY <1>8, <1>9, <1>10, <1>11, <1>12, <1>13 DEF ContextInv, ReadInv, CoverInv

\* The answer to a question goes to the hat that asked, and is posted.
LEMMA AnswerKeeps ==
  ASSUME ContextInv, Answer
  PROVE  ContextInv'
<1>1. RoomTyped /\ WaveTyped /\ IdsUnique /\ LinesFit /\ ReadInv /\ CoverInv
  BY DEF ContextInv
<1>. DEFINE n == Len(transcript)  g == <<pause>>
            contexts == [h \in Hats |-> IF h = pause THEN <<fresh>> ELSE <<>>]
<1>2. /\ UNCHANGED <<cursor, memory, asker, queue, held, removed>> /\ fresh' = fresh + 1
      /\ pause # NoHat /\ group = <<>> /\ queue = <<>> /\ pause' = NoHat
      /\ Post(fresh, "user") /\ Launch(g, contexts)
  BY DEF Answer, AtWork
<1>3. (\A h \in Hats : stage[h] = "off") /\ asker = NoHat /\ pause \in Hats
  BY <1>1, <1>2, NobodyAtWork DEF WaveTyped
<1>4. /\ fresh \in Nat /\ Position(fresh) = n + 1 /\ fresh \notin removed /\ n \in Nat
      /\ "user" \in Hats \union Outsiders
  BY <1>1, FreshIsNew, PositionOf DEF Outsiders
<1>5. /\ IdsUnique' /\ transcript' \in Seq(EntriesOf) /\ Len(transcript') = n + 1
      /\ \A i \in 1 .. n : transcript'[i] = transcript[i]
      /\ transcript'[n + 1] = Entry(fresh, "user")
      /\ \A x : Position(x) <= n => Position(x)' = Position(x)
      /\ \A x : x = fresh => Position(x)' = n + 1
  BY <1>1, <1>2, <1>4, PostMoves
<1>6. \A x, y : Position(x) < Position(y) => Position(x)' < Position(y)'
  BY <1>1, <1>2, <1>4, PostKeepsOrder
<1>7. \A s \in Seats : /\ crossed[s] \subseteq crossed'[s]
                       /\ Len(memory[s]) \in Nat /\ cursor[s] \in Nat /\ cursor[s] <= n
  BY <1>1, <1>2, MemoryTyped DEF Post
<1>8. RoomTyped'
  <2>1. crossed' \in [Seats -> SUBSET Nat]
    BY <1>1, <1>2, <1>4 DEF Post, RoomTyped
  <2>. QED  BY <1>1, <1>2, <1>4, <1>5, <1>7, <2>1 DEF RoomTyped
<1>9. /\ WaveTyped' /\ LinesFit'
      /\ \A h \in Hats : stage'[h] \in {"launched", "off"}
      /\ \A h \in Hats : stage'[h] = "launched" => h = pause
  <2>1. contexts \in [Hats -> Seq(Nat)]
    <3>1. <<fresh>> \in Seq(Nat) /\ <<>> \in Seq(Nat)
      BY <1>4
    <3>. QED  BY <3>1
  <2>2. /\ g \in Seq(Hats) /\ g # <<>> /\ Len(g) = 1 /\ g[1] = pause
        /\ \A k, l \in 1 .. Len(g) : k = l
    BY <1>3
  <2>3. /\ queue' \in Seq(Hats) /\ IsInjective(queue') /\ held' = held /\ asker' = asker
        /\ pause' = NoHat /\ group = <<>> /\ Launch(g, contexts)
        /\ \A k, l \in 1 .. Len(g) : SeatOf[g[k]] = SeatOf[g[l]] => k = l
    BY <1>1, <1>2, <2>2 DEF WaveTyped, LinesFit
  <2>. HIDE DEF g, contexts
  <2>4. /\ WaveTyped' /\ LinesFit'
        /\ \A h \in Hats : stage'[h] \in {"launched", "off"}
        /\ \A h \in Hats : stage'[h] = "launched" => \E k \in 1 .. Len(g) : g[k] = h
    BY ONLY <1>1, <2>1, <2>2, <2>3, LaunchFits
  <2>. QED  BY <2>2, <2>4
<1>. HIDE DEF n
<1>10. \A s \in Seats : \A i \in 1 .. n : Covered(s, i) => Covered(s, i)'
  <2>. SUFFICES ASSUME NEW s \in Seats, NEW i \in 1 .. n, Covered(s, i)  PROVE Covered(s, i)'
    OBVIOUS
  <2>. QED  BY <1>2, <1>5, <1>7, CoveredStays
<1>11. MemorySorted'
  BY <1>1, <1>2, <1>6 DEF ReadInv, MemorySorted, Sorted
<1>12. RestRead'
  <2>. SUFFICES ASSUME NEW s \in Seats  PROVE Within(memory[s], 0, cursor[s])'
    BY DEF RestRead
  <2>1. Within(memory[s], 0, cursor[s])
    BY <1>1, <1>3 DEF Resting, ReadInv, RestRead
  <2>2. \A x : Position(x) \in Int
    BY <1>1, PositionOf
  <2>3. \A x : Position(x) <= cursor[s] => Position(x)' = Position(x)
    BY <1>4, <1>5, <1>7, <2>2
  <2>. QED  BY <1>2, <2>1, <2>3 DEF Within
<1>13. StreamRead' /\ ReplyRead' /\ RepliesDiffer'
  BY <1>9 DEF StreamRead, ReplyRead, RepliesDiffer, Replied
<1>14. HandCovered'
  BY <1>2, <1>3, <1>9, NoHatAssumption DEF HandCovered, TakesPart, Replied
<1>15. CursorCovered'
  <2>. SUFFICES ASSUME NEW s \in Seats, NEW i \in 1 .. cursor[s]  PROVE Covered(s, i)'
    BY <1>2 DEF CursorCovered
  <2>1. i \in 1 .. n
    BY <1>4, <1>7
  <2>. QED  BY <1>1, <1>10, <2>1 DEF CoverInv, CursorCovered
<1>16. Launched'
  <2>. SUFFICES ASSUME NEW h \in Hats, h = pause  PROVE PromptHolds(h)'
    BY <1>9 DEF Launched
  <2>. DEFINE s == SeatOf[h]
  <2>1. s \in Seats /\ TakesPart(h)
    BY SeatsAssumption DEF TakesPart
  <2>2. ctx'[h] = <<fresh>>
    BY <1>2 DEF Launch
  <2>3. Len(<<fresh>>) = 1 /\ <<fresh>>[1] = fresh
    OBVIOUS
  <2>4. Sorted(ctx[h])'
    BY <2>2, <2>3 DEF Sorted
  <2>5. Within(ctx[h], cursor[s], Len(transcript))'
    <3>1. \A x : x = ctx'[h][1] => Position(x)' = n + 1
      BY <1>5, <2>2, <2>3
    <3>2. Len(ctx'[h]) = 1
      BY <2>2, <2>3
    <3>3. cursor'[s] < n + 1 /\ Len(transcript') = n + 1
      BY <1>2, <1>4, <1>5, <1>7, <2>1
    <3>. HIDE DEF s
    <3>. QED  BY <1>4, <3>1, <3>2, <3>3 DEF Within
  <2>6. ASSUME NEW i \in 1 .. n  PROVE Covered(s, i)'
    BY <1>1, <1>10, <2>1, <2>6 DEF CoverInv, HandCovered, n
  <2>7. \A i : i = n + 1 => Given(h, i)'
    <3>1. \A i : i = n + 1 => transcript'[i].id = fresh
      BY <1>5 DEF Entry
    <3>2. 1 \in 1 .. Len(ctx'[h]) /\ ctx'[h][1] = fresh
      BY <2>2, <2>3
    <3>. QED  BY <3>1, <3>2 DEF Given
  <2>8. \A i \in cursor'[s] + 1 .. Len(transcript') : i \in 1 .. n \/ i = n + 1
    BY <1>2, <1>4, <1>5, <1>7, <2>1
  <2>9. \A i \in cursor'[s] + 1 .. Len(transcript') : Covered(s, i)' \/ Given(h, i)'
    BY <2>6, <2>7, <2>8
  <2>. QED  BY <2>4, <2>5, <2>9 DEF PromptHolds
<1>. QED  BY <1>5, <1>8, <1>9, <1>11, <1>12, <1>13, <1>14, <1>15, <1>16
     DEF ContextInv, ReadInv, CoverInv

\* The lines that may be drained after a reply.
LEMMA LinesAfterFit ==
  ASSUME WaveTyped, LinesFit, NEW h \in Hats, NEW line \in LinesAfter(h, Line)
  PROVE  line \in Seq(Hats) /\ IsInjective(line) /\ Line \in Seq(Hats) /\ IsInjective(Line)
<1>. DEFINE w == Line
<1>1. w \in Seq(Hats) /\ IsInjective(w)
  BY DEF WaveTyped, LinesFit, Line
<1>2. \/ line = w
      \/ \E to \in Hats \ ToSet(w) : line = <<to>> \o w \/ line = Append(w, to)
  BY DEF LinesAfter
<1>. HIDE DEF w
<1>3. \A i, j \in 1 .. Len(w) : w[i] = w[j] => i = j
  BY <1>1 DEF IsInjective
<1>4. ASSUME NEW to \in Hats, to \notin ToSet(w), line = <<to>> \o w \/ line = Append(w, to)
      PROVE  line \in Seq(Hats) /\ IsInjective(line)
  <2>1. \A i \in 1 .. Len(w) : w[i] # to
    BY <1>1, <1>4 DEF ToSet
  <2>2. CASE line = <<to>> \o w
    <3>1. /\ line \in Seq(Hats) /\ Len(line) = Len(w) + 1 /\ line[1] = to
          /\ \A i \in 2 .. Len(line) : i - 1 \in 1 .. Len(w) /\ line[i] = w[i - 1]
      BY ONLY <1>1, <1>4, <2>2
    <3>2. \A i, j \in 1 .. Len(line) : line[i] = line[j] => i = j
      <4>. SUFFICES ASSUME NEW i \in 1 .. Len(line), NEW j \in 1 .. Len(line), line[i] = line[j]
           PROVE  i = j
        OBVIOUS
      <4>1. \A k \in 1 .. Len(line) : k = 1 \/ k \in 2 .. Len(line)
        BY <3>1
      <4>2. \A k \in 2 .. Len(line) : line[k] # to
        BY ONLY <2>1, <3>1
      <4>3. ASSUME i \in 2 .. Len(line), j \in 2 .. Len(line)
            PROVE  i = j
        <5>1. w[i - 1] = w[j - 1] /\ i - 1 \in 1 .. Len(w) /\ j - 1 \in 1 .. Len(w)
          BY <3>1, <4>3
        <5>2. i - 1 = j - 1
          BY ONLY <1>3, <5>1
        <5>. QED  BY <4>3, <5>2
      <4>4. i = 1 \/ i \in 2 .. Len(line)
        BY <4>1
      <4>5. j = 1 \/ j \in 2 .. Len(line)
        BY <4>1
      <4>. QED  BY <3>1, <4>2, <4>3, <4>4, <4>5
    <3>. QED  BY <3>1, <3>2 DEF IsInjective
  <2>3. CASE line = Append(w, to)
    <3>1. /\ line \in Seq(Hats) /\ Len(line) = Len(w) + 1 /\ line[Len(w) + 1] = to
          /\ \A i \in 1 .. Len(w) : line[i] = w[i]
      BY ONLY <1>1, <1>4, <2>3
    <3>2. \A i, j \in 1 .. Len(line) : line[i] = line[j] => i = j
      <4>. SUFFICES ASSUME NEW i \in 1 .. Len(line), NEW j \in 1 .. Len(line), line[i] = line[j]
           PROVE  i = j
        OBVIOUS
      <4>1. \A k \in 1 .. Len(line) : k = Len(w) + 1 \/ k \in 1 .. Len(w)
        BY <1>1, <3>1
      <4>. QED  BY <1>3, <2>1, <3>1, <4>1
    <3>. QED  BY <3>1, <3>2 DEF IsInjective
  <2>. QED  BY <1>4, <2>2, <2>3
<1>. QED  BY <1>1, <1>2, <1>4 DEF w

\* The wave loses its head, and is over with the last.
LEMMA AdvancesFit ==
  ASSUME WaveTyped, LinesFit, group # <<>>, NEW line \in Seq(Hats), IsInjective(line),
         NEW who \in {asker, group[1]}, Advances(line, who), ctx' = ctx,
         reply' \in [Hats -> Nat]
  PROVE  /\ WaveTyped' /\ LinesFit' /\ group[1] \in Hats
         /\ stage' = [stage EXCEPT ![group[1]] = "off"]
         /\ stage[group[1]] # "off"
         /\ \A h \in Hats : h \in {asker', pause'} => h = who
<1>. DEFINE g == group  rest == Tail(g)
<1>1. g \in Seq(Hats) /\ Len(g) \in Nat /\ Len(g) >= 1 /\ g[1] \in Hats
  BY EmptySeq DEF WaveTyped
<1>2. /\ rest \in Seq(Hats) /\ Len(rest) = Len(g) - 1
      /\ \A k \in 1 .. Len(g) - 1 : rest[k] = g[k + 1]
  BY <1>1
<1>3. /\ group' = rest /\ stage' = [stage EXCEPT ![g[1]] = "off"]
      /\ Len(g) = 1 => WaveEnds(line, who)
      /\ Len(g) # 1 => WaveGoesOn(line, who)
  BY DEF Advances
<1>4. /\ \A k, l \in 1 .. Len(g) : SeatOf[g[k]] = SeatOf[g[l]] => k = l
      /\ \A h \in Hats : stage[h] # "off" <=> \E k \in 1 .. Len(g) : g[k] = h
      /\ asker # NoHat => \A h \in Hats : stage[h] # "off" => SeatOf[h] # SeatOf[asker]
      /\ pause = NoHat
  BY DEF LinesFit
<1>5. IsInjective(<<>>) /\ <<>> \in Seq(Hats)
  BY DEF IsInjective
<1>6. who \in Hats \union {NoHat}
  BY <1>1 DEF WaveTyped
<1>. HIDE DEF g, rest
<1>7. stage[g[1]] # "off"
  BY <1>1, <1>4
<1>8. WaveTyped'
  <2>1. queue' \in Seq(Hats) /\ held' \in Seq(Hats)
    BY <1>3, <1>5 DEF WaveEnds, WaveGoesOn, WaveTyped
  <2>2. asker' \in Hats \union {NoHat} /\ pause' \in Hats \union {NoHat}
    BY <1>3, <1>6 DEF WaveEnds, WaveGoesOn, WaveTyped
  <2>3. stage' \in [Hats -> Stages]
    BY <1>3 DEF WaveTyped, Stages
  <2>. QED  BY <1>2, <1>3, <2>1, <2>2, <2>3 DEF WaveTyped
<1>9. \A h \in Hats : stage'[h] = IF h = g[1] THEN "off" ELSE stage[h]
  BY <1>1, <1>3 DEF WaveTyped
<1>9a. \A k \in 1 .. Len(rest) : k + 1 \in 1 .. Len(g) /\ k + 1 # 1 /\ rest[k] = g[k + 1]
  <2>. TAKE k \in 1 .. Len(rest)
  <2>1. k \in Nat /\ k >= 1 /\ k <= Len(g) - 1
    BY ONLY <1>1, <1>2
  <2>2. k \in 1 .. Len(g) - 1 /\ k + 1 \in 1 .. Len(g) /\ k + 1 # 1
    BY ONLY <1>1, <2>1
  <2>. QED  BY <1>2, <2>2
<1>10. \A k, l \in 1 .. Len(rest) : SeatOf[rest[k]] = SeatOf[rest[l]] => k = l
  <2>. SUFFICES ASSUME NEW k \in 1 .. Len(rest), NEW l \in 1 .. Len(rest),
                       SeatOf[rest[k]] = SeatOf[rest[l]]
       PROVE  k = l
    OBVIOUS
  <2>1. k + 1 = l + 1
    <3>1. /\ k + 1 \in 1 .. Len(g) /\ l + 1 \in 1 .. Len(g)
          /\ SeatOf[g[k + 1]] = SeatOf[g[l + 1]]
      BY <1>9a
    <3>. QED  BY <1>4, <3>1
  <2>. QED  BY <1>2, <2>1
<1>11. \A h \in Hats : stage'[h] # "off" <=> \E k \in 1 .. Len(rest) : rest[k] = h
  <2>1. ASSUME NEW h \in Hats, stage'[h] # "off"  PROVE \E k \in 1 .. Len(rest) : rest[k] = h
    <3>1. h # g[1] /\ stage[h] # "off"
      BY <1>9, <2>1
    <3>2. PICK k \in 1 .. Len(g) : g[k] = h
      BY <1>4, <3>1
    <3>3. k # 1 /\ k - 1 \in 1 .. Len(g) - 1 /\ rest[k - 1] = h
      BY <1>1, <1>2, <3>1, <3>2
    <3>. QED  BY <1>2, <3>3
  <2>2. ASSUME NEW h \in Hats, NEW k \in 1 .. Len(rest), rest[k] = h  PROVE stage'[h] # "off"
    <3>1. k + 1 \in 1 .. Len(g) /\ g[k + 1] = h /\ k + 1 # 1
      BY <1>9a, <2>2
    <3>2. stage[h] # "off"
      BY <1>4, <3>1
    <3>3. h # g[1]
      <4>1. 1 \in 1 .. Len(g)
        BY <1>1
      <4>. QED  BY <1>4, <3>1, <4>1
    <3>. QED  BY <1>9, <3>2, <3>3
  <2>. QED  BY <2>1, <2>2
<1>12. \A h \in Hats : stage'[h] # "off" /\ who # NoHat => SeatOf[h] # SeatOf[who]
  <2>. SUFFICES ASSUME NEW h \in Hats, stage'[h] # "off", who # NoHat
       PROVE  SeatOf[h] # SeatOf[who]
    OBVIOUS
  <2>1. h # g[1] /\ stage[h] # "off"
    BY <1>9
  <2>2. CASE who = asker
    BY <1>4, <2>1, <2>2
  <2>3. CASE who = g[1]
    BY <1>1, <1>4, <2>1, <2>3
  <2>. QED  BY <2>2, <2>3 DEF g
<1>13. IsInjective(queue') /\ IsInjective(held')
  BY <1>3, <1>5 DEF WaveEnds, WaveGoesOn, LinesFit
<1>14. /\ asker' # NoHat => asker' = who /\ rest # <<>>
       /\ pause' # NoHat => rest = <<>> /\ queue' = <<>> /\ pause' = who
  <2>1. CASE Len(g) = 1
    BY <1>2, <1>3, <2>1, EmptySeq DEF WaveEnds
  <2>2. CASE Len(g) # 1
    BY <1>1, <1>2, <1>3, <1>4, <2>2 DEF WaveGoesOn
  <2>. QED  BY <2>1, <2>2
<1>15. LinesFit'
  BY <1>3, <1>10, <1>11, <1>12, <1>13, <1>14 DEF LinesFit
<1>16. \A h \in Hats : h \in {asker', pause'} => h = who
  BY <1>14, NoHatAssumption
<1>. QED  BY <1>1, <1>3, <1>7, <1>8, <1>15, <1>16 DEF g

\* A hat that gave no reply is passed over.
LEMMA SkipReplyKeeps ==
  ASSUME ContextInv, SkipReply
  PROVE  ContextInv'
<1>1. WaveTyped /\ LinesFit
  BY DEF ContextInv
<1>2. /\ UNCHANGED <<transcript, cursor, memory, fresh, removed, crossed, reply, ctx>>
      /\ group # <<>> /\ stage[group[1]] = "skipped" /\ Advances(Line, asker)
  BY DEF SkipReply, room, ghosts
<1>3. Line \in Seq(Hats) /\ IsInjective(Line) /\ reply' \in [Hats -> Nat]
  BY <1>1, <1>2 DEF WaveTyped, LinesFit, Line
<1>4. /\ WaveTyped' /\ LinesFit' /\ group[1] \in Hats
      /\ stage' = [stage EXCEPT ![group[1]] = "off"]
      /\ \A h \in Hats : h \in {asker', pause'} => h = asker
  BY <1>1, <1>2, <1>3, AdvancesFit
<1>5. \A h \in Hats : \/ stage'[h] = stage[h]
                      \/ stage[h] \in {"launched", "skipped"} /\ stage'[h] \in {"off", "skipped"}
  BY <1>1, <1>2, <1>4 DEF WaveTyped
<1>. QED  BY <1>2, <1>4, <1>5, DropKeeps

\* A reply is posted, and the cursor of its seat set behind it.
LEMMA PostReplyKeeps ==
  ASSUME ContextInv, PostReply
  PROVE  ContextInv'
<1>. SUFFICES ASSUME NEW h, h = group[1]  PROVE ContextInv'
  OBVIOUS
<1>. DEFINE s == SeatOf[h]  n == Len(transcript)  id == reply[h]
            who == IF asker = NoHat /\ stage[h] = "asks" THEN h ELSE asker
<1>1. RoomTyped /\ WaveTyped /\ IdsUnique /\ LinesFit /\ ReadInv /\ CoverInv
  BY DEF ContextInv
<1>2. /\ UNCHANGED <<memory, ctx, fresh, removed>> /\ group # <<>> /\ WaveOver
      /\ stage[h] \in Replied /\ Post(id, h)
      /\ cursor' = [cursor EXCEPT ![s] = n + 1] /\ reply' = [reply EXCEPT ![h] = 0]
      /\ \E line \in LinesAfter(h, Line) : Advances(line, who)
  BY DEF PostReply, CursorBehind
<1>3. h \in Hats /\ s \in Seats
  <2>1. Len(group) >= 1 /\ group \in Seq(Hats)
    BY <1>1, <1>2, EmptySeq DEF WaveTyped
  <2>. QED  BY <2>1, SeatsAssumption
<1>4. /\ WaveTyped' /\ LinesFit' /\ stage' = [stage EXCEPT ![h] = "off"]
      /\ \A g \in Hats : g \in {asker', pause'} => g = who
  <2>1. PICK line \in LinesAfter(h, Line) : Advances(line, who)
    BY <1>2
  <2>2. line \in Seq(Hats) /\ IsInjective(line)
    BY <1>1, <1>3, LinesAfterFit
  <2>3. who \in {asker, group[1]} /\ reply' \in [Hats -> Nat]
    BY <1>1, <1>2 DEF WaveTyped
  <2>. HIDE DEF who
  <2>. QED  BY <1>1, <1>2, <2>1, <2>2, <2>3, AdvancesFit
<1>5. /\ EndsWithReply(h) /\ id \in Nat /\ n \in Nat /\ fresh \in Nat
      /\ Position(id) = n + 1 /\ id < fresh /\ id \notin removed
  <2>1. EndsWithReply(h)
    BY <1>1, <1>2, <1>3 DEF ReadInv, ReplyRead
  <2>2. id \in Nat /\ n \in Nat /\ fresh \in Nat
    BY <1>1, <1>3 DEF WaveTyped, RoomTyped
  <2>. QED  BY <2>1, <2>2 DEF EndsWithReply
<1>6. /\ stage[h] # "off"
      /\ \A g \in Hats : /\ stage'[g] = IF g = h THEN "off" ELSE stage[g]
                         /\ SeatOf[g] \in Seats /\ stage[g] # "streaming"
                         /\ stage[g] # "off" /\ g # h => SeatOf[g] # s
  <2>1. stage[h] # "off"
    BY <1>2 DEF Replied
  <2>2. \A g \in Hats : stage[g] # "streaming"
    BY <1>2 DEF WaveOver, Replied
  <2>. QED  BY <1>1, <1>3, <1>4, <2>1, <2>2, AloneOnSeat, SeatsAssumption DEF WaveTyped
<1>7. /\ IdsUnique' /\ transcript' \in Seq(EntriesOf) /\ Len(transcript') = n + 1
      /\ \A i \in 1 .. n : transcript'[i] = transcript[i]
      /\ transcript'[n + 1] = Entry(id, h)
      /\ \A x : Position(x) <= n => Position(x)' = Position(x)
      /\ \A x : x = id => Position(x)' = n + 1
      /\ \A x : Position(x) = n + 1 /\ x # id => Position(x)' = n + 2
  <2>1. id < fresh' /\ fresh' \in Nat /\ fresh <= fresh' /\ removed' = removed
    BY <1>2, <1>5
  <2>. HIDE DEF id
  <2>. QED  BY <1>1, <1>2, <1>3, <1>5, <2>1, PostMoves
<1>8. \A x, y : Position(x) < Position(y) => Position(x)' < Position(y)'
  <2>1. id < fresh' /\ fresh' \in Nat /\ fresh <= fresh' /\ removed' = removed
    BY <1>2, <1>5
  <2>. HIDE DEF id
  <2>. QED  BY <1>1, <1>2, <1>3, <1>5, <2>1, PostKeepsOrder
<1>9. /\ \A t \in Seats : /\ crossed'[t] = crossed[t] \union (IF InHand(t) THEN {id} ELSE {})
                          /\ crossed[t] \subseteq crossed'[t]
                          /\ Len(memory[t]) \in Nat
                          /\ cursor[t] \in Nat /\ cursor[t] <= n
                          /\ cursor'[t] = IF t = s THEN n + 1 ELSE cursor[t]
      /\ \A x : Position(x) \in Int
  BY <1>1, <1>2, MemoryTyped, PositionOf DEF Post, RoomTyped
<1>. HIDE DEF n, id
<1>10. RoomTyped'
  <2>1. crossed' \in [Seats -> SUBSET Nat]
    BY <1>1, <1>2, <1>5 DEF Post, RoomTyped
  <2>2. cursor' \in [Seats -> Nat] /\ \A t \in Seats : cursor'[t] <= n + 1
    <3>1. n + 1 \in Nat /\ \A t \in Seats : cursor[t] <= n + 1
      BY <1>5, <1>9
    <3>2. cursor' \in [Seats -> Nat]
      BY <1>1, <1>2, <3>1 DEF RoomTyped
    <3>. QED  BY <1>5, <1>9, <3>1, <3>2
  <2>. QED  BY <1>1, <1>2, <1>7, <2>1, <2>2 DEF RoomTyped
<1>11. MemorySorted'
  BY <1>1, <1>2, <1>8 DEF ReadInv, MemorySorted, Sorted
<1>12. RestRead'
  <2>. SUFFICES ASSUME NEW t \in Seats, Resting(t)'  PROVE Within(memory[t], 0, cursor[t])'
    BY DEF RestRead
  <2>1. CASE t = s
    <3>. DEFINE m == memory[s]
    <3>1. /\ m # <<>> /\ m[Len(m)] = id
          /\ \A k \in 1 .. Len(m) - 1 : Position(m[k]) <= n
      BY <1>5 DEF EndsWithReply, id, s, n
    <3>2. Len(m) \in Nat
      BY <1>3, <1>9
    <3>. HIDE DEF m
    <3>3. ASSUME NEW k \in 1 .. Len(m)
          PROVE  \A x : x = m[k] => 0 < Position(x)' /\ Position(x)' <= n + 1
      <4>1. CASE k = Len(m)
        BY <1>5, <1>7, <3>1, <4>1
      <4>2. CASE k # Len(m)
        <5>1. \A x : x = m[k] => Position(x) <= n /\ Position(x) \in 1 .. Len(transcript) + 1
          BY <1>1, <3>1, <3>2, <4>2, PositionOf
        <5>. QED  BY <1>5, <1>7, <5>1
      <4>. QED  BY <4>1, <4>2
    <3>. QED  BY <1>2, <1>3, <1>9, <2>1, <3>3 DEF Within, m
  <2>2. CASE t # s
    <3>1. Resting(t)
      BY <1>3, <1>6, <2>2 DEF Resting, s
    <3>2. Within(memory[t], 0, cursor[t])
      BY <1>1, <3>1 DEF ReadInv, RestRead
    <3>3. \A x : Position(x) <= cursor[t] => Position(x)' = Position(x)
      BY <1>5, <1>7, <1>9
    <3>. QED  BY <1>2, <1>9, <2>2, <3>2, <3>3 DEF Within
  <2>. QED  BY <2>1, <2>2
<1>13. StreamRead'
  BY <1>6 DEF StreamRead
<1>14. \A g \in Hats : stage'[g] \in Replied => g # h /\ stage[g] \in Replied /\ reply'[g] = reply[g]
  BY <1>1, <1>2, <1>6 DEF Replied, WaveTyped
<1>15. RepliesDiffer'
  BY <1>1, <1>14 DEF ReadInv, RepliesDiffer
<1>16. ReplyRead'
  <2>. SUFFICES ASSUME NEW g \in Hats, stage'[g] \in Replied  PROVE EndsWithReply(g)'
    BY DEF ReplyRead
  <2>. DEFINE q == memory[SeatOf[g]]  a == reply[g]
  <2>1. g # h /\ stage[g] \in Replied /\ reply'[g] = a /\ a # id
    BY <1>1, <1>2, <1>3, <1>14 DEF ReadInv, RepliesDiffer, id
  <2>2. /\ memory'[SeatOf[g]] = q /\ q # <<>> /\ q[Len(q)] = a
        /\ \A k \in 1 .. Len(q) - 1 : Position(q[k]) <= n
        /\ Position(a) = n + 1 /\ a < fresh /\ a \notin removed
    BY <1>1, <1>2, <2>1 DEF ReadInv, ReplyRead, EndsWithReply, n
  <2>. HIDE DEF q, a
  <2>3. (Position(reply[g]) = Len(transcript) + 1)'
    BY <1>5, <1>7, <2>1, <2>2
  <2>4. (\A k \in 1 .. Len(memory[SeatOf[g]]) - 1 :
          Position(memory[SeatOf[g]][k]) <= Len(transcript))'
    BY <1>5, <1>7, <1>9, <2>2
  <2>5. (reply[g] < fresh /\ reply[g] \notin removed)'
    BY <1>2, <2>1, <2>2
  <2>6. (memory[SeatOf[g]] # <<>> /\ memory[SeatOf[g]][Len(memory[SeatOf[g]])] = reply[g])'
    BY <2>1, <2>2
  <2>. QED  BY <2>3, <2>4, <2>5, <2>6 DEF EndsWithReply
<1>17. \A t \in Seats : \A i \in 1 .. n : Covered(t, i) => Covered(t, i)'
  <2>. SUFFICES ASSUME NEW t \in Seats, NEW i \in 1 .. n, Covered(t, i)  PROVE Covered(t, i)'
    OBVIOUS
  <2>. QED  BY <1>2, <1>7, <1>9, CoveredStays
<1>18. \A i : i = n + 1 => /\ Covered(s, i)'
                           /\ \A t \in Seats : InHand(t) => Covered(t, i)'
  <2>. SUFFICES ASSUME NEW i, i = n + 1
       PROVE  Covered(s, i)' /\ \A t \in Seats : InHand(t) => Covered(t, i)'
    OBVIOUS
  <2>1. transcript'[i].id = id /\ transcript'[i].author = h
    BY <1>7 DEF Entry
  <2>2. Covered(s, i)'
    BY <1>3, <2>1 DEF Covered, s
  <2>3. \A t \in Seats : InHand(t) => Covered(t, i)'
    BY <1>9, <2>1 DEF Covered
  <2>. QED  BY <2>2, <2>3
<1>19. \A i \in 1 .. n : Covered(s, i)'
  <2>1. TakesPart(h)
    BY <1>2 DEF TakesPart
  <2>2. \A i \in 1 .. n : Covered(s, i)
    BY <1>1, <1>3, <2>1 DEF CoverInv, HandCovered, s, n
  <2>. QED  BY <1>3, <1>17, <2>2
<1>20. CursorCovered'
  <2>. SUFFICES ASSUME NEW t \in Seats, NEW i \in 1 .. cursor'[t]  PROVE Covered(t, i)'
    BY DEF CursorCovered
  <2>1. CASE t = s
    <3>1. i \in 1 .. n \/ i = n + 1
      BY <1>5, <1>9, <2>1
    <3>. QED  BY <1>18, <1>19, <2>1, <3>1
  <2>2. CASE t # s
    <3>1. i \in 1 .. n /\ i \in 1 .. cursor[t]
      BY <1>5, <1>9, <2>2
    <3>. QED  BY <1>1, <1>17, <3>1 DEF CoverInv, CursorCovered
  <2>. QED  BY <2>1, <2>2
<1>21. HandCovered'
  <2>. SUFFICES ASSUME NEW g \in Hats, TakesPart(g)', NEW i \in 1 .. Len(transcript')
       PROVE  Covered(SeatOf[g], i)'
    BY DEF HandCovered
  <2>1. i \in 1 .. n \/ i = n + 1
    BY <1>5, <1>7
  <2>2. CASE g = h
    BY <1>18, <1>19, <2>1, <2>2 DEF s
  <2>3. CASE g # h
    <3>1. TakesPart(g) /\ (stage[g] # "off" \/ g \in {asker, pause})
      <4>1. CASE g \in {asker', pause'}
        BY <1>4, <2>3, <4>1 DEF TakesPart
      <4>2. CASE stage'[g] \in {"streaming"} \union Replied
        BY <1>6, <1>14, <4>2 DEF TakesPart, Replied
      <4>. QED  BY <4>1, <4>2 DEF TakesPart
    <3>2. InHand(SeatOf[g]) /\ SeatOf[g] \in Seats
      BY <1>1, <1>6, <3>1, HandOf
    <3>3. \A j \in 1 .. n : Covered(SeatOf[g], j)
      BY <1>1, <3>1 DEF CoverInv, HandCovered, n
    <3>. QED  BY <1>17, <1>18, <2>1, <3>2, <3>3
  <2>. QED  BY <2>2, <2>3
<1>22. Launched'
  <2>1. \A g \in Hats : stage'[g] # "launched"
    BY <1>2, <1>6 DEF WaveOver, Replied
  <2>. QED  BY <2>1 DEF Launched
<1>. QED  BY <1>4, <1>7, <1>10, <1>11, <1>12, <1>13, <1>15, <1>16, <1>20, <1>21, <1>22
     DEF ContextInv, ReadInv, CoverInv

\* A rollback of a room where nobody is at work: the seats that had seen what goes
\* begin anew, the others had not.
LEMMA RollbackKeeps ==
  ASSUME ~Overlaps, ContextInv, NEW keep \in 0 .. Len(transcript), Rollback(keep)
  PROVE  ContextInv'
<1>. DEFINE n == Len(transcript)
<1>1. RoomTyped /\ WaveTyped /\ IdsUnique /\ LinesFit /\ ReadInv /\ CoverInv
  BY DEF ContextInv
<1>2. /\ UNCHANGED <<group, stage, ctx, reply, asker, queue, pause, held, fresh>>
      /\ group = <<>> /\ pause = NoHat /\ keep < n
      /\ removed' = removed \union {transcript[i].id : i \in keep + 1 .. n}
      /\ transcript' = SubSeq(transcript, 1, keep)
      /\ memory' = [s \in Seats |-> IF s \in PastCut(keep) THEN <<>> ELSE memory[s]]
      /\ cursor' = [s \in Seats |-> IF s \in PastCut(keep) THEN 0 ELSE cursor[s]]
      /\ crossed' = [s \in Seats |-> IF s \in PastCut(keep) THEN {} ELSE crossed[s]]
  BY DEF Rollback, Idle, wave, waits
<1>3. (\A h \in Hats : stage[h] = "off") /\ asker = NoHat
  BY <1>1, <1>2, NobodyAtWork
<1>4. /\ n \in Nat /\ keep \in Nat /\ fresh \in Nat
      /\ transcript' \in Seq(EntriesOf) /\ Len(transcript') = keep
      /\ \A i \in 1 .. keep : transcript'[i] = transcript[i] /\ i \in 1 .. n
  <2>1. n \in Nat /\ keep \in Nat /\ fresh \in Nat
    BY <1>1 DEF RoomTyped
  <2>2. \A i \in 1 .. keep : transcript[i] \in EntriesOf
    BY <1>1, <1>2, <2>1 DEF RoomTyped
  <2>3. /\ SubSeq(transcript, 1, keep) \in Seq(EntriesOf)
        /\ Len(SubSeq(transcript, 1, keep)) = IF 1 <= keep THEN keep - 1 + 1 ELSE 0
        /\ \A i \in 1 .. keep - 1 + 1 : SubSeq(transcript, 1, keep)[i] = transcript[1 + i - 1]
    BY ONLY <2>1, <2>2, SubSeqProperties
  <2>. QED  BY <1>2, <2>1, <2>3
<1>5. ASSUME NEW s \in Seats
      PROVE  \/ memory'[s] = <<>> /\ cursor'[s] = 0
             \/ /\ cursor[s] <= keep /\ memory'[s] = memory[s] /\ cursor'[s] = cursor[s]
                /\ crossed'[s] = crossed[s]
  BY <1>1, <1>2, <1>4, MemoryTyped DEF PastCut
<1>6. RoomTyped'
  <2>1. memory' \in [Seats -> Seq(Nat)]
    <3>1. <<>> \in Seq(Nat)
      OBVIOUS
    <3>. QED  BY <1>1, <1>2, <3>1 DEF RoomTyped
  <2>2. cursor' \in [Seats -> Nat] /\ crossed' \in [Seats -> SUBSET Nat]
    BY <1>1, <1>2 DEF RoomTyped
  <2>3. \A s \in Seats : cursor'[s] <= keep
    BY <1>4, <1>5
  <2>. QED  BY <1>2, <1>4, <2>1, <2>2, <2>3 DEF RoomTyped
<1>7. IdsUnique'
  <2>1. \A i \in 1 .. keep : \A j \in keep + 1 .. n : transcript[i].id # transcript[j].id
    <3>. SUFFICES ASSUME NEW i \in 1 .. keep, NEW j \in keep + 1 .. n,
                         transcript[i].id = transcript[j].id
         PROVE  FALSE
      OBVIOUS
    <3>1. i \in 1 .. n /\ j \in 1 .. n /\ i # j
      BY <1>4
    <3>. QED  BY <1>1, <3>1 DEF IdsUnique
  <2>2. \A i \in 1 .. keep : transcript[i].id < fresh /\ transcript[i].id \notin removed'
    BY <1>1, <1>2, <1>4, <2>1 DEF IdsUnique
  <2>3. \A i, j \in 1 .. keep : transcript[i].id = transcript[j].id => i = j
    BY <1>1, <1>4 DEF IdsUnique
  <2>4. \A x \in removed' : x \in Nat /\ x < fresh
    <3>1. \A i \in keep + 1 .. n : transcript[i] \in EntriesOf /\ i \in 1 .. n
      BY <1>1, <1>4 DEF RoomTyped
    <3>2. \A i \in keep + 1 .. n : transcript[i].id \in Nat /\ transcript[i].id < fresh
      BY <1>1, <3>1 DEF EntriesOf, IdsUnique
    <3>. QED  BY <1>1, <1>2, <3>2 DEF IdsUnique
  <2>. QED  BY <1>2, <1>4, <2>2, <2>3, <2>4 DEF IdsUnique
<1>. HIDE DEF n
<1>8. ASSUME NEW x, Position(x) <= keep  PROVE Position(x)' = Position(x)
  <2>1. Position(x) \in 1 .. keep /\ transcript[Position(x)].id = x
    <3>1. Position(x) \in 1 .. Len(transcript) + 1 /\ Position(x) <= Len(transcript)
      BY <1>1, <1>2, <1>4, <1>8, PositionOf DEF n
    <3>. QED  BY <1>1, <1>4, <1>8, <3>1, PositionOf DEF n
  <2>2. transcript'[Position(x)].id = x
    BY <1>4, <2>1
  <2>3. \A i \in 1 .. keep : transcript'[i].id = x => i = Position(x)
    BY <1>4, <1>7, <2>1, <2>2 DEF IdsUnique
  <2>4. DOMAIN transcript' = 1 .. keep
    BY <1>4
  <2>. QED  BY <2>1, <2>2, <2>3, <2>4 DEF Position
<1>9. ASSUME NEW s \in Seats
      PROVE  Sorted(memory[s])' /\ Within(memory[s], 0, cursor[s])'
  <2>1. CASE memory'[s] = <<>> /\ cursor'[s] = 0
    BY <2>1 DEF Sorted, Within
  <2>2. CASE cursor[s] <= keep /\ memory'[s] = memory[s] /\ cursor'[s] = cursor[s]
    <3>1. Within(memory[s], 0, cursor[s]) /\ Sorted(memory[s])
      BY <1>1, <1>3 DEF Resting, ReadInv, RestRead, MemorySorted
    <3>2. cursor[s] \in Nat /\ \A x : Position(x) \in Int
      BY <1>1, MemoryTyped, PositionOf
    <3>3. \A x : Position(x) <= cursor[s] => Position(x)' = Position(x)
      BY <1>4, <1>8, <2>2, <3>2
    <3>4. Sorted(memory[s])'
      BY <2>2, <3>1, <3>3 DEF Sorted, Within
    <3>5. Within(memory[s], 0, cursor[s])'
      BY <2>2, <3>1, <3>3 DEF Within
    <3>. QED  BY <3>4, <3>5
  <2>. QED  BY <1>5, <2>1, <2>2
<1>10. MemorySorted' /\ RestRead'
  BY <1>9 DEF MemorySorted, RestRead
<1>11. StreamRead' /\ ReplyRead' /\ RepliesDiffer' /\ Launched'
  BY <1>2, <1>3 DEF StreamRead, ReplyRead, RepliesDiffer, Launched, Replied
<1>12. HandCovered'
  BY <1>2, <1>3, NoHatAssumption DEF HandCovered, TakesPart, Replied
<1>13. CursorCovered'
  <2>. SUFFICES ASSUME NEW s \in Seats, NEW i \in 1 .. cursor'[s]  PROVE Covered(s, i)'
    BY DEF CursorCovered
  <2>1. /\ cursor[s] <= keep /\ memory'[s] = memory[s] /\ cursor'[s] = cursor[s]
        /\ crossed'[s] = crossed[s] /\ cursor[s] \in Nat
    BY <1>1, <1>5, MemoryTyped
  <2>2. i \in 1 .. keep /\ i \in 1 .. cursor[s]
    BY <1>4, <2>1
  <2>3. Covered(s, i) /\ transcript'[i] = transcript[i]
    BY <1>1, <1>4, <2>2 DEF CoverInv, CursorCovered
  <2>. QED  BY <2>1, <2>3 DEF Covered
<1>14. WaveTyped' /\ LinesFit'
  BY <1>1, <1>2 DEF WaveTyped, LinesFit
<1>. QED  BY <1>6, <1>7, <1>10, <1>11, <1>12, <1>13, <1>14 DEF ContextInv, ReadInv, CoverInv

\* Nothing was said yet.
LEMMA ContextBegins == Init => ContextInv
<1>. SUFFICES ASSUME Init  PROVE ContextInv
  OBVIOUS
<1>1. /\ transcript = <<>> /\ memory = [s \in Seats |-> <<>>] /\ cursor = [s \in Seats |-> 0]
      /\ queue = <<>> /\ group = <<>> /\ pause = NoHat /\ held = <<>> /\ asker = NoHat
      /\ stage = [h \in Hats |-> "off"] /\ ctx = [h \in Hats |-> <<>>]
      /\ reply = [h \in Hats |-> 0] /\ fresh = 1 /\ removed = {}
      /\ crossed = [s \in Seats |-> {}]
  BY DEF Init
<1>2. /\ \A s \in Seats : memory[s] = <<>> /\ cursor[s] = 0
      /\ \A h \in Hats : stage[h] = "off"
  BY <1>1
<1>3. RoomTyped
  <2>1. memory \in [Seats -> Seq(Nat)] /\ transcript \in Seq(EntriesOf) /\ Len(transcript) = 0
    BY <1>1
  <2>2. cursor \in [Seats -> Nat] /\ crossed \in [Seats -> SUBSET Nat] /\ fresh \in Nat
    BY <1>1
  <2>. QED  BY <1>2, <2>1, <2>2 DEF RoomTyped
<1>4. WaveTyped
  BY <1>1 DEF WaveTyped, Stages
<1>5. IdsUnique
  BY <1>1 DEF IdsUnique
<1>6. LinesFit
  BY <1>1 DEF LinesFit, IsInjective
<1>7. ReadInv
  BY <1>2 DEF ReadInv, MemorySorted, RestRead, StreamRead, ReplyRead, RepliesDiffer, Sorted,
             Within, Replied
<1>8. CoverInv
  BY <1>1, <1>2, NoHatAssumption
     DEF CoverInv, CursorCovered, Launched, HandCovered, TakesPart, Replied
<1>. QED  BY <1>3, <1>4, <1>5, <1>6, <1>7, <1>8 DEF ContextInv

\* Every step keeps what a seat has read.
LEMMA ContextStep ==
  OneParallelHat /\ ~Overlaps /\ ContextInv /\ [Next]_vars => ContextInv'
<1>. SUFFICES ASSUME OneParallelHat, ~Overlaps, ContextInv, [Next]_vars  PROVE ContextInv'
  OBVIOUS
<1>1. CASE \/ \E t \in Mentions : Ask(t)
           \/ PostAside
           \/ \E h \in Hats : InjectReport(h)
  BY <1>1, AsidesKeep
<1>2. CASE Answer
  BY <1>2, AnswerKeeps
<1>3. CASE Stop
  BY <1>3, StopKeeps
<1>4. CASE StartWave
  BY <1>4, StartWaveKeeps
<1>5. CASE PostReply
  BY <1>5, PostReplyKeeps
<1>6. CASE SkipReply
  BY <1>6, SkipReplyKeeps
<1>7. CASE \E keep \in 0 .. Len(transcript) : Rollback(keep)
  BY <1>7, RollbackKeeps
<1>8. ASSUME NEW h \in Hats, Steer(h) \/ SkipsRun(h) \/ Prompts(h) \/ Replies(h) \/ Fails(h)
      PROVE  ContextInv'
  BY <1>8, SteerKeeps, SkipsRunKeeps, PromptsKeeps, RepliesKeeps, FailsKeeps
<1>9. CASE UNCHANGED vars
  <2>1. /\ UNCHANGED <<transcript, cursor, memory, fresh, removed, crossed, reply, ctx>>
        /\ UNCHANGED <<queue, group, held, stage, asker, pause>>
    BY <1>9 DEF vars, room, wave, waits, ghosts
  <2>2. WaveTyped' /\ LinesFit'
    BY <2>1 DEF ContextInv, WaveTyped, LinesFit
  <2>. QED  BY <2>1, <2>2, DropKeeps
<1>. QED  BY <1>1, <1>2, <1>3, <1>4, <1>5, <1>6, <1>7, <1>8, <1>9 DEF Next

\* What the invariant says of the lines of a session.
LEMMA ContextTells == ContextInv => ReadsTheRoom
<1>. SUFFICES ASSUME ContextInv  PROVE ReadsTheRoom
  OBVIOUS
<1>1. RoomTyped /\ WaveTyped /\ IdsUnique /\ LinesFit /\ ReadInv /\ CoverInv
  BY DEF ContextInv
<1>2. ReadsInOrder
  <2>. SUFFICES ASSUME NEW s \in Seats, NEW i \in 1 .. Len(memory[s]) - 1
       PROVE  Position(memory[s][i]) < Position(memory[s][i + 1])
    BY DEF ReadsInOrder
  <2>1. i \in 1 .. Len(memory[s]) /\ i + 1 \in 1 .. Len(memory[s]) /\ i < i + 1
    BY <1>1, MemoryTyped
  <2>. QED  BY <1>1, <2>1 DEF ReadInv, MemorySorted, Sorted
<1>3. NoGap
  <2>. SUFFICES ASSUME NEW s \in Seats, NEW i \in 1 .. cursor[s]
       PROVE  \/ transcript[i].id \in ToSet(memory[s]) \union crossed[s]
              \/ \E h \in Hats : SeatOf[h] = s /\ transcript[i].author = h
    BY DEF NoGap
  <2>1. Covered(s, i)
    BY <1>1 DEF CoverInv, CursorCovered
  <2>2. \A k \in 1 .. Len(memory[s]) : memory[s][k] \in ToSet(memory[s])
    BY <1>1, MemoryTyped DEF ToSet
  <2>. QED  BY <2>1, <2>2 DEF Covered
<1>4. RemovedForgotten
  <2>. SUFFICES ASSUME NEW s \in Seats, NEW k \in 1 .. Len(memory[s])
       PROVE  memory[s][k] \notin removed
    BY <1>1, MemoryTyped DEF RemovedForgotten, ToSet
  <2>. DEFINE x == memory[s][k]
  <2>1. ASSUME Position(x) <= Len(transcript)  PROVE x \notin removed
    <3>1. Position(x) \in 1 .. Len(transcript) /\ transcript[Position(x)].id = x
      BY <1>1, <2>1, PositionOf
    <3>. QED  BY <1>1, <3>1 DEF IdsUnique
  <2>2. CASE Resting(s)
    <3>1. Within(memory[s], 0, cursor[s]) /\ cursor[s] <= Len(transcript)
      BY <1>1, <2>2, MemoryTyped DEF ReadInv, RestRead
    <3>2. Position(x) \in Int /\ Position(x) <= cursor[s]
      BY <1>1, <3>1, PositionOf DEF Within
    <3>. QED  BY <1>1, <2>1, <3>1, <3>2, MemoryTyped
  <2>3. ASSUME NEW h \in Hats, SeatOf[h] = s, stage[h] \notin {"off", "launched", "skipped"}
        PROVE  x \notin removed
    <3>1. stage[h] = "streaming" \/ stage[h] \in Replied
      BY <1>1, <2>3 DEF WaveTyped, Stages
    <3>2. CASE stage[h] = "streaming"
      BY <1>1, <2>1, <2>3, <3>2 DEF ReadInv, StreamRead, Within
    <3>3. CASE stage[h] \in Replied
      <4>1. EndsWithReply(h)
        BY <1>1, <3>3 DEF ReadInv, ReplyRead
      <4>2. k = Len(memory[s]) \/ k \in 1 .. Len(memory[s]) - 1
        BY <1>1, MemoryTyped
      <4>. QED  BY <2>1, <2>3, <4>1, <4>2 DEF EndsWithReply
    <3>. QED  BY <3>1, <3>2, <3>3
  <2>. QED  BY <2>2, <2>3 DEF Resting
<1>. QED  BY <1>2, <1>3, <1>4 DEF ReadsTheRoom

\* Where no two parallel hats share a seat, and no rollback meets a task at work,
\* what a session holds of the room is the room: in its order and no line twice
\* (buildContext() and the cursors), nothing missing but what its hats crossed or
\* said themselves, and nothing that rollbackToStart() took back.
THEOREM RoomReadsTheRoom ==
  ASSUME OneParallelHat, ~Overlaps
  PROVE  Spec => []ReadsTheRoom
<1>1. Init => ContextInv
  BY ContextBegins
<1>2. ContextInv /\ [Next]_vars => ContextInv'
  BY ContextStep
<1>3. ContextInv => ReadsTheRoom
  BY ContextTells
<1>. QED  BY <1>1, <1>2, <1>3, PTL DEF Spec

(* ---- the terminal client's screen --------------------------------------------- *)

\* A form or a prompt: what stays on screen until its save is answered.
Savers == Forms \union {"prompt"}

\* What stands over something else.
Upper == {"picker", "card", "panel"}

IsSeq(ls) == ls \in Seq(ToSet(ls))

\* Only pickers, cards and the login's panel stand over another overlay, and these go
\* back nowhere; a form or a prompt is the first, and its onClose cuts to nothing.
Shape(ls) ==
  /\ IsSeq(ls)
  /\ \A i \in 1 .. Len(ls) :
       /\ i > 1 => ls[i].kind \in Upper /\ ls[i].back = Nowhere
       /\ ls[i].kind \in Savers => ls[i].under = 0 /\ ls[i].back = Nowhere

\* What is left of an overlay stack when some are taken down: none moves up.
LeftOf(ls, of) ==
  /\ IsSeq(ls) /\ Len(ls) <= Len(of)
  /\ \A i \in 1 .. Len(ls) : \E j \in 1 .. Len(of) : j >= i /\ ls[i] = of[j]

LEMMA IsSeqAny ==
  ASSUME NEW S, NEW ls \in Seq(S)
  PROVE  IsSeq(ls)
BY DEF IsSeq, ToSet

LEMMA MountedOn ==
  ASSUME NEW ls, IsSeq(ls), NEW e
  PROVE  /\ IsSeq(Append(ls, e)) /\ Len(Append(ls, e)) = Len(ls) + 1
         /\ \A i \in 1 .. Len(ls) : Append(ls, e)[i] = ls[i]
         /\ Append(ls, e)[Len(ls) + 1] = e
<1>. DEFINE S == ToSet(ls) \union {e}
<1>1. ls \in Seq(S)
  BY DEF IsSeq, ToSet
<1>2. e \in S
  OBVIOUS
<1>. HIDE DEF S
<1>3. /\ Append(ls, e) \in Seq(S) /\ Len(Append(ls, e)) = Len(ls) + 1
      /\ \A i \in 1 .. Len(ls) : Append(ls, e)[i] = ls[i]
      /\ Append(ls, e)[Len(ls) + 1] = e
  BY ONLY <1>1, <1>2, AppendProperties
<1>. QED  BY <1>3, IsSeqAny

LEMMA PartLeft ==
  ASSUME NEW ls, IsSeq(ls), NEW d \in Nat, d <= Len(ls)
  PROVE  /\ LeftOf(SubSeq(ls, 1, d), ls) /\ Len(SubSeq(ls, 1, d)) = d
         /\ \A i \in 1 .. d : SubSeq(ls, 1, d)[i] = ls[i]
<1>. DEFINE S == ToSet(ls)
            part == SubSeq(ls, 1, d)
<1>1. ls \in Seq(S)
  BY DEF IsSeq
<1>. HIDE DEF S
<1>2. part \in Seq(S) /\ Len(part) = d /\ \A i \in 1 .. d : part[i] = ls[i]
  BY <1>1
<1>3. IsSeq(part)
  BY <1>2, IsSeqAny
<1>4. \A i \in 1 .. d : i \in 1 .. Len(ls)
  BY <1>1
<1>. HIDE DEF part
<1>5. LeftOf(part, ls)
  BY <1>2, <1>3, <1>4 DEF LeftOf
<1>. QED  BY <1>2, <1>5 DEF part

LEMMA FrontLeft ==
  ASSUME NEW ls, IsSeq(ls), ls # <<>>
  PROVE  /\ LeftOf(Front(ls), ls) /\ Len(Front(ls)) = Len(ls) - 1
         /\ Len(ls) \in Nat /\ Len(ls) >= 1 /\ Last(ls) = ls[Len(ls)]
<1>1. Len(ls) \in Nat /\ Len(ls) >= 1
  BY DEF IsSeq
<1>2. Len(ls) - 1 \in Nat /\ Len(ls) - 1 <= Len(ls)
  BY <1>1
<1>3. Front(ls) = SubSeq(ls, 1, Len(ls) - 1) /\ Last(ls) = ls[Len(ls)]
  BY DEF Front, Last
<1>. QED  BY <1>1, <1>2, <1>3, PartLeft

LEMMA CutLeft ==
  ASSUME NEW ls, IsSeq(ls), NEW depth \in Nat
  PROVE  LeftOf(CutTo(ls, depth), ls) /\ Len(CutTo(ls, depth)) <= depth
<1>. DEFINE d == IF Len(ls) < depth THEN Len(ls) ELSE depth
<1>1. d \in Nat /\ d <= Len(ls) /\ d <= depth
  BY DEF IsSeq
<1>2. CutTo(ls, depth) = SubSeq(ls, 1, d)
  BY DEF CutTo
<1>. HIDE DEF d
<1>. QED  BY <1>1, <1>2, PartLeft

LEMMA PopLeft ==
  ASSUME NEW ls, IsSeq(ls), NEW n
  PROVE  LeftOf(Pop(ls, n), ls)
<1>0. ls \in Seq(ToSet(ls)) /\ DOMAIN ls = 1 .. Len(ls) /\ Len(ls) \in Nat
  BY DEF IsSeq
<1>1. CASE ~ \E i \in DOMAIN ls : ls[i].n = n
  BY <1>0, <1>1 DEF Pop, LeftOf
<1>2. CASE \E i \in DOMAIN ls : ls[i].n = n
  <2>. DEFINE at == CHOOSE i \in DOMAIN ls : ls[i].n = n
              S == ToSet(ls)
              front == SubSeq(ls, 1, at - 1)
              back == SubSeq(ls, at + 1, Len(ls))
              rest == front \o back
  <2>1. at \in DOMAIN ls
    BY <1>2
  <2>9. at \in 1 .. Len(ls) /\ at \in Int
    BY <1>0, <2>1
  <2>2. Pop(ls, n) = rest
    BY <1>2 DEF Pop, RemoveAt
  <2>3. ls \in Seq(S)
    BY <1>0
  <2>. HIDE DEF S, at
  <2>4. front \in Seq(S) /\ Len(front) = at - 1 /\ \A i \in 1 .. (at - 1) : front[i] = ls[i]
    BY <1>0, <2>1, <2>3
  <2>5. /\ back \in Seq(S) /\ Len(back) = Len(ls) - at
        /\ \A i \in 1 .. (Len(ls) - at) : back[i] = ls[at + i]
    BY <1>0, <2>1, <2>3
  <2>. HIDE DEF front, back
  <2>6. /\ rest \in Seq(S) /\ Len(rest) = Len(front) + Len(back)
        /\ \A i \in 1 .. (Len(front) + Len(back)) :
             rest[i] = IF i <= Len(front) THEN front[i] ELSE back[i - Len(front)]
    BY <2>4, <2>5, ConcatProperties
  <2>. HIDE DEF rest
  <2>10. Len(rest) = Len(ls) - 1
    BY ONLY <1>0, <2>4, <2>5, <2>6, <2>9
  <2>7. ASSUME NEW i \in 1 .. (Len(ls) - 1)
        PROVE  \E j \in 1 .. Len(ls) : j >= i /\ rest[i] = ls[j]
    <3>4. i \in 1 .. (Len(front) + Len(back)) /\ i \in 1 .. Len(ls) /\ i + 1 \in 1 .. Len(ls)
      BY ONLY <1>0, <2>4, <2>5, <2>7, <2>9
    <3>5. rest[i] = IF i <= Len(front) THEN front[i] ELSE back[i - Len(front)]
      BY ONLY <2>6, <3>4
    <3>1. CASE i <= at - 1
      <4>0. i \in 1 .. (at - 1)
        BY ONLY <2>7, <2>9, <3>1
      <4>1. front[i] = ls[i]
        BY ONLY <2>4, <4>0
      <4>2. rest[i] = front[i] /\ i >= i
        BY ONLY <2>4, <2>7, <3>1, <3>5
      <4>. QED  BY <3>4, <4>1, <4>2
    <3>2. CASE i > at - 1
      <4>1. i - (at - 1) \in 1 .. (Len(ls) - at) /\ i + 1 >= i
        BY ONLY <1>0, <2>7, <2>9, <3>2
      <4>2. rest[i] = back[i - (at - 1)]
        BY ONLY <2>4, <2>7, <2>9, <3>2, <3>5
      <4>3. back[i - (at - 1)] = ls[i + 1]
        <5>1. back[i - (at - 1)] = ls[at + (i - (at - 1))]
          BY <2>5, <4>1
        <5>2. at + (i - (at - 1)) = i + 1
          BY <2>7, <2>9
        <5>. QED  BY <5>1, <5>2
      <4>. QED  BY <3>4, <4>1, <4>2, <4>3
    <3>3. i \in Int
      BY <2>7
    <3>. QED  BY <2>9, <3>1, <3>2, <3>3
  <2>8. IsSeq(rest) /\ Len(rest) <= Len(ls)
    BY <1>0, <2>6, <2>10, IsSeqAny
  <2>. QED  BY <2>2, <2>7, <2>8, <2>10 DEF LeftOf
<1>. QED  BY <1>1, <1>2

LEMMA LeftShape ==
  ASSUME NEW ls, NEW of, Shape(of), LeftOf(ls, of)
  PROVE  Shape(ls)
<1>1. ASSUME NEW i \in 1 .. Len(ls)
      PROVE  /\ i > 1 => ls[i].kind \in Upper /\ ls[i].back = Nowhere
             /\ ls[i].kind \in Savers => ls[i].under = 0 /\ ls[i].back = Nowhere
  <2>1. PICK j \in 1 .. Len(of) : j >= i /\ ls[i] = of[j]
    BY DEF LeftOf
  <2>2. i > 1 => j > 1
    BY <2>1
  <2>. QED  BY <2>1, <2>2 DEF Shape
<1>. QED  BY <1>1 DEF Shape, LeftOf

\* A step of a command or of a choice raises no form that goes back to a menu.
GoodStep(step) ==
  /\ step.act \in {"none", "show", "open", "lead"}
  /\ step.kind \in Savers => step.back = Nowhere

LEMMA StepsAreGood ==
  /\ GoodStep(Nothing)
  /\ \A kind : GoodStep(Shows(kind))
  /\ \A kind, back, otherwise : (kind \in Savers => back = Nowhere)
                                   => GoodStep(Fetches(kind, back, otherwise))
  /\ \A step \in Leads : GoodStep(step)
<1>1. \A kind : GoodStep(Shows(kind))
  <2>. SUFFICES ASSUME NEW kind
       PROVE  GoodStep(Shows(kind))
    OBVIOUS
  <2>1. kind \in Savers => Parent(kind) = Nowhere
    BY DEF Savers, Forms, Parent
  <2>. QED  BY <2>1 DEF GoodStep, Shows, Step
<1>2. GoodStep(Nothing) /\ \A step \in Leads : GoodStep(step)
  BY DEF GoodStep, Nothing, Leads, Step, Savers, Forms, Nowhere
<1>. QED  BY <1>1, <1>2 DEF GoodStep, Fetches, Step

LEMMA CommandsAreGood ==
  \A step \in COMMANDS : GoodStep(step)
<1>. USE StepsAreGood
<1>1. \A step \in UNION {TalkCommands, AgentCommands, SeatsCommand, RoomsCommand, CloseCommand} :
        GoodStep(step)
  BY DEF TalkCommands, AgentCommands, SeatsCommand, RoomsCommand, CloseCommand
<1>2. \A step \in UNION {NewRoomCommand, SoloCommand, PanelCommands, BrainCommands} : GoodStep(step)
  BY DEF NewRoomCommand, SoloCommand, PanelCommands, BrainCommands
<1>3. \A step \in UNION {RollbackCommand, ForkCommand, PiUpdateCommand, PersonaCommands} :
        GoodStep(step)
  BY DEF RollbackCommand, ForkCommand, PiUpdateCommand, PersonaCommands
<1>4. \A step \in UNION {ProvidersCommand, TemplateCommand, PresetCommand} : GoodStep(step)
  BY DEF ProvidersCommand, TemplateCommand, PresetCommand
<1>. QED  BY ONLY <1>1, <1>2, <1>3, <1>4 DEF COMMANDS

LEMMA ChoicesAreGood ==
  ASSUME NEW l
  PROVE  /\ \A step \in Choice(l) : GoodStep(step)
         /\ l.kind = "picker" => Choice(l) = {Nothing}
<1>. USE StepsAreGood DEF Savers, Forms
<1>1. \A step \in AgentModelPicker \union AddAgentPicker \union ModelPicker(l.back) : GoodStep(step)
  BY DEF AgentModelPicker, AddAgentPicker, ModelPicker
<1>2. \A step \in ThinkingPicker(l.back) \union AgentThinkingPicker : GoodStep(step)
  BY DEF ThinkingPicker, AgentThinkingPicker, GoodStep
<1>3. \A step \in EditChoice \union PromptChoice \union LineupChoice \union ProviderChoice
                  \union ManageChoice : GoodStep(step)
  BY DEF EditChoice, PromptChoice, LineupChoice, ProviderChoice, ManageChoice
<1>4. \A step \in PresetChoice \union RoomChoice \union RosterChoice \union AgentAction
                  \union KickChoice : GoodStep(step)
  BY DEF PresetChoice, RoomChoice, RosterChoice, AgentAction, KickChoice
<1>5. \A step \in SeatChoice \union SeatAction \union SoloChoice \union EntryChoice :
        GoodStep(step)
  BY DEF SeatChoice, SeatAction, SoloChoice, EntryChoice
<1>6. \/ Choice(l) = AgentModelPicker \/ Choice(l) = AddAgentPicker
      \/ Choice(l) = ModelPicker(l.back) \/ Choice(l) = ThinkingPicker(l.back)
      \/ Choice(l) = AgentThinkingPicker \/ Choice(l) = EditChoice \/ Choice(l) = PromptChoice
      \/ Choice(l) = ProviderChoice \/ Choice(l) = ManageChoice \/ Choice(l) = RosterChoice
      \/ Choice(l) = AgentAction \/ Choice(l) = KickChoice \/ Choice(l) = SeatChoice
      \/ Choice(l) = SeatAction \/ Choice(l) = LineupChoice \/ Choice(l) = PresetChoice
      \/ Choice(l) = RoomChoice \/ Choice(l) = SoloChoice \/ Choice(l) = EntryChoice
      \/ Choice(l) = {Nothing}
  BY ONLY DEF Choice
<1>7. \A step \in Choice(l) : GoodStep(step)
  BY ONLY StepsAreGood, <1>1, <1>2, <1>3, <1>4, <1>5, <1>6
<1>8. l.kind = "picker" => Choice(l) = {Nothing}
  BY ONLY DEF Choice
<1>. QED  BY <1>7, <1>8

\* What holds of the overlays of a patient user: while an answer is awaited the screen
\* is empty, or shows the one form whose saves are all there is to wait for; the answer
\* that raises an overlay is awaited alone.
AwaitsAlone ==
  inflight # {} =>
    \/ layers = <<>>
    \/ /\ Len(layers) = 1 /\ layers[1].kind \in Savers
       /\ \A w \in inflight : w.does = "save" /\ w.n = layers[1].n

AwaitedFit(w) ==
  /\ w.does = "open" => inflight = {w} /\ (w.kind \in Savers => w.back = Nowhere)
  /\ w.does = "save" => w.under = 0

LayersInv ==
  /\ Shape(layers) /\ takenDown = {}
  /\ AwaitsAlone
  /\ \A w \in inflight : AwaitedFit(w)

LEMMA EmptyShape ==
  Shape(<<>>)
<1>1. <<>> \in Seq({}) /\ Len(<<>>) = 0
  OBVIOUS
<1>2. IsSeq(<<>>)
  BY <1>1, IsSeqAny
<1>3. ~ \E i \in 1 .. Len(<<>>) : TRUE
  BY <1>1
<1>. QED  BY <1>2, <1>3 DEF Shape

\* A menu, a form or a board is the only overlay; a picker, a card or the panel may not be.
LEMMA TopAlone ==
  ASSUME Shape(layers), layers # <<>>
  PROVE  /\ Len(layers) \in Nat /\ Len(layers) >= 1
         /\ TopLayer = layers[Len(layers)] /\ Len(layers) \in 1 .. Len(layers)
         /\ TopLayer.kind \notin Upper => Len(layers) = 1 /\ TopLayer = layers[1]
         /\ Shape(Front(layers)) /\ Len(Front(layers)) = Len(layers) - 1
<1>1. /\ LeftOf(Front(layers), layers) /\ Len(Front(layers)) = Len(layers) - 1
      /\ Len(layers) \in Nat /\ Len(layers) >= 1 /\ TopLayer = layers[Len(layers)]
  BY FrontLeft DEF Shape, TopLayer
<1>2. Len(layers) \in 1 .. Len(layers)
  BY <1>1
<1>3. Len(layers) > 1 => layers[Len(layers)].kind \in Upper
  BY <1>2 DEF Shape
<1>4. Shape(Front(layers))
  BY <1>1, LeftShape
<1>. QED  BY <1>1, <1>2, <1>3, <1>4

LEMMA NoLayers ==
  ASSUME NEW ls, Shape(ls), Len(ls) = 0
  PROVE  ls = <<>>
BY DEF Shape, IsSeq

\* A layer on top of what there is.
LEMMA MountedShape ==
  ASSUME NEW ls, Shape(ls), NEW kind, NEW back, NEW of,
         ls = <<>> \/ (kind \in Upper /\ back = Nowhere),
         kind \in Savers => back = Nowhere
  PROVE  Shape(Mount(ls, kind, back, of))
<1>. DEFINE e == [kind |-> kind, n |-> FreshId, under |-> Len(ls), back |-> back,
                  of |-> IF kind \in Bound THEN of ELSE life]
            more == Append(ls, e)
<1>1. e.kind = kind /\ e.back = back /\ e.under = Len(ls)
  OBVIOUS
<1>2. more = Mount(ls, kind, back, of)
  BY DEF Mount
<1>. HIDE DEF e
<1>3. /\ IsSeq(more) /\ Len(more) = Len(ls) + 1
      /\ \A i \in 1 .. Len(ls) : more[i] = ls[i]
      /\ more[Len(ls) + 1] = e
  BY MountedOn DEF Shape
<1>. HIDE DEF more
<1>4. Len(ls) \in Nat /\ (ls = <<>> => Len(ls) = 0)
  BY DEF Shape, IsSeq
<1>5. ASSUME NEW i \in 1 .. Len(more)
      PROVE  /\ i > 1 => more[i].kind \in Upper /\ more[i].back = Nowhere
             /\ more[i].kind \in Savers => more[i].under = 0 /\ more[i].back = Nowhere
  <2>1. i \in 1 .. Len(ls) \/ i = Len(ls) + 1
    BY <1>3, <1>4, <1>5
  <2>2. CASE i \in 1 .. Len(ls)
    BY <1>3, <2>2 DEF Shape
  <2>3. CASE i = Len(ls) + 1 /\ ls = <<>>
    BY <1>1, <1>3, <1>4, <2>3
  <2>4. CASE i = Len(ls) + 1 /\ kind \in Upper /\ back = Nowhere
    <3>1. kind \notin Savers
      BY <2>4 DEF Upper, Savers, Forms
    <3>. QED  BY <1>1, <1>3, <2>4, <3>1
  <2>. QED  BY <2>1, <2>2, <2>3, <2>4
<1>. QED  BY <1>2, <1>3, <1>5 DEF Shape

\* What replaces a single overlay, or comes on an empty screen.
LEMMA OpenedShape ==
  ASSUME NEW ls, Shape(ls), Len(ls) <= 1, NEW kind, NEW back, NEW of,
         kind \in Savers => back = Nowhere
  PROVE  Shape(Open(ls, kind, back, of))
<1>. DEFINE base == IF ls = <<>> THEN ls ELSE Front(ls)
<1>1. base = <<>>
  <2>1. CASE ls # <<>>
    <3>1. LeftOf(Front(ls), ls) /\ Len(Front(ls)) = 0
      BY <2>1, FrontLeft DEF Shape
    <3>2. Shape(Front(ls))
      BY <3>1, LeftShape
    <3>. QED  BY <2>1, <3>1, <3>2, NoLayers
  <2>. QED  BY <2>1
<1>2. Open(ls, kind, back, of) = Mount(base, kind, back, of)
  BY DEF Open
<1>. HIDE DEF base
<1>. QED  BY <1>1, <1>2, EmptyShape, MountedShape

\* Nothing but what a step of a command or a choice does, with nothing awaited.
LEMMA TakesFits ==
  ASSUME LayersInv, NEW step, GoodStep(step), NEW base, NEW of,
         Shape(base), Takes(step, base, of),
         step.act = "show" => Len(base) <= 1 /\ Replaced(base) = {},
         step.act \in {"open", "lead"} => base = <<>>,
         inflight = {} \/ (step.act = "none" /\ base = <<>>)
  PROVE  LayersInv'
<1>1. Shape(layers') /\ takenDown' = {}
  <2>1. CASE step.act = "show"
    <3>1. Shape(Open(base, step.kind, step.back, of))
      BY <2>1, OpenedShape DEF GoodStep
    <3>. QED  BY <2>1, <3>1 DEF Takes, LayersInv
  <2>2. CASE step.act # "show"
    BY <2>2 DEF Takes, LayersInv
  <2>. QED  BY <2>1, <2>2
<1>2. CASE step.act \in {"open", "lead"}
  <2>0. PICK w : w = Wait(step.act, step, of)
    OBVIOUS
  <2>1. inflight' = {w} /\ layers' = <<>>
    BY <1>2, <2>0 DEF Takes
  <2>2. w.does = step.act /\ w.kind = step.kind /\ w.back = step.back
    BY <2>0 DEF Wait
  <2>3. AwaitedFit(w)'
    BY <1>2, <2>1, <2>2 DEF AwaitedFit, GoodStep
  <2>4. \A v \in inflight' : AwaitedFit(v)'
    BY <2>1, <2>3
  <2>5. AwaitsAlone'
    BY <2>1 DEF AwaitsAlone
  <2>. QED  BY <1>1, <2>4, <2>5 DEF LayersInv
<1>3. CASE step.act \notin {"open", "lead"}
  <2>1. inflight' = inflight
    BY <1>3 DEF Takes
  <2>2. inflight # {} => layers' = <<>>
    BY <1>3 DEF Takes
  <2>3. \A w \in inflight : AwaitedFit(w)'
    BY <2>1 DEF LayersInv, AwaitedFit
  <2>. QED  BY <1>1, <2>1, <2>2, <2>3 DEF LayersInv, AwaitsAlone
<1>. QED  BY <1>2, <1>3

LEMMA NothingDoes ==
  Nothing.act = "none" /\ GoodStep(Nothing)
BY StepsAreGood DEF Nothing, Step

LEMMA ShowsDoes ==
  ASSUME NEW kind
  PROVE  Shows(kind).act = "show" /\ GoodStep(Shows(kind))
BY StepsAreGood DEF Shows, Step

LEMMA RunsCommandFits ==
  ASSUME Patient, LayersInv, RunsCommand
  PROVE  LayersInv'
<1>1. PICK step \in COMMANDS : Takes(step, layers, life)
  BY DEF RunsCommand
<1>2. layers = <<>> /\ inflight = {} /\ Len(layers) <= 1 /\ Replaced(layers) = {}
  BY DEF RunsCommand, Quiet, Replaced
<1>3. GoodStep(step)
  BY CommandsAreGood
<1>. QED  BY ONLY LayersInv, <1>1, <1>2, <1>3, EmptyShape, TakesFits

LEMMA EntersPlusFits ==
  ASSUME Patient, LayersInv, EntersPlus
  PROVE  LayersInv'
<1>. DEFINE step == Fetches("entry", Nowhere, "room")
<1>1. Takes(step, layers, life)
  BY DEF EntersPlus
<1>2. layers = <<>> /\ inflight = {} /\ Len(layers) <= 1 /\ Replaced(layers) = {}
  BY DEF EntersPlus, Quiet, Replaced
<1>3. GoodStep(step)
  BY StepsAreGood
<1>. HIDE DEF step
<1>. QED  BY ONLY LayersInv, <1>1, <1>2, <1>3, EmptyShape, TakesFits

LEMMA ChoosesFits ==
  ASSUME LayersInv, Chooses
  PROVE  LayersInv'
<1>0. layers # <<>> /\ TopLayer.kind \in Menus /\ Shape(layers)
  BY DEF Chooses, LayersInv
<1>1. PICK step \in Choice(TopLayer) :
        Takes(step, IF TopLayer.kind = "presets" /\ step.act = "show" THEN layers
                    ELSE Front(layers), TopLayer.of)
  BY DEF Chooses
<1>2. GoodStep(step)
  BY ChoicesAreGood
<1>3. inflight = {}
  <2>1. Savers \intersect Menus = {}
    BY DEF Savers, Forms, Menus
  <2>2. Len(layers) = 1 => TopLayer = layers[1]
    BY <1>0, TopAlone
  <2>. QED  BY <1>0, <2>1, <2>2 DEF LayersInv, AwaitsAlone
<1>4. CASE TopLayer.kind = "picker"
  <2>1. step.act = "none" /\ TopLayer.kind # "presets"
    BY <1>4, ChoicesAreGood, NothingDoes
  <2>2. Takes(step, Front(layers), TopLayer.of) /\ Shape(Front(layers))
    BY <1>0, <1>1, <2>1, TopAlone
  <2>3. step.act # "show" /\ step.act \notin {"open", "lead"}
    BY <2>1
  <2>. QED  BY ONLY LayersInv, <1>2, <1>3, <2>2, <2>3, TakesFits
<1>5. CASE TopLayer.kind # "picker"
  <2>1. Len(layers) = 1 /\ TopLayer.kind \notin Upper
    <3>1. TopLayer.kind \notin Upper
      BY <1>0, <1>5 DEF Menus, Upper
    <3>. QED  BY <1>0, <3>1, TopAlone
  <2>2. Front(layers) = <<>> /\ Shape(Front(layers))
    BY <1>0, <2>1, TopAlone, NoLayers
  <2>3. CASE TopLayer.kind = "presets" /\ step.act = "show"
    <3>1. Replaced(layers) = {}
      BY <2>3 DEF Replaced, Held, Forms, TopLayer
    <3>2. Takes(step, layers, TopLayer.of)
      BY <1>1, <2>3
    <3>3. step.act = "show" /\ step.act \notin {"open", "lead"}
      BY <2>3
    <3>4. Len(layers) <= 1
      BY <2>1
    <3>. QED  BY ONLY LayersInv, <1>0, <1>2, <1>3, <3>1, <3>2, <3>3, <3>4, TakesFits
  <2>4. CASE ~(TopLayer.kind = "presets" /\ step.act = "show")
    <3>1. Takes(step, <<>>, TopLayer.of)
      BY <1>1, <2>2, <2>4
    <3>2. Replaced(<<>>) = {} /\ Len(<<>>) <= 1
      BY DEF Replaced
    <3>. QED  BY ONLY LayersInv, <1>2, <1>3, <3>1, <3>2, EmptyShape, TakesFits
  <2>. QED  BY <2>3, <2>4
<1>. QED  BY <1>4, <1>5

LEMMA CancelsFits ==
  ASSUME LayersInv, Cancels
  PROVE  LayersInv'
<1>0. /\ layers # <<>> /\ Shape(layers)
      /\ TopLayer.kind \in Menus \union Forms \union {"board", "prompt"}
  BY DEF Cancels, LayersInv
<1>. DEFINE below == IF TopLayer.kind \in Forms THEN CutTo(layers, TopLayer.under)
                     ELSE Front(layers)
            step == IF TopLayer.back = Nowhere THEN Nothing ELSE Shows(TopLayer.back)
<1>1. Takes(step, below, TopLayer.of)
  BY DEF Cancels
<1>2. GoodStep(step) /\ (step.act = "none" \/ step.act = "show")
  BY NothingDoes, ShowsDoes
<1>3. CASE TopLayer.kind = "picker"
  <2>1. below = Front(layers) /\ Shape(Front(layers))
    BY <1>0, <1>3, TopAlone DEF Forms
  <2>2. inflight = {}
    BY <1>0, <1>3, TopAlone DEF LayersInv, AwaitsAlone, Savers, Forms
  <2>3. CASE Len(layers) = 1
    <3>1. below = <<>>
      BY <1>0, <2>1, <2>3, TopAlone, NoLayers
    <3>2. Replaced(<<>>) = {} /\ Len(<<>>) <= 1
      BY DEF Replaced
    <3>3. Takes(step, <<>>, TopLayer.of)
      BY <1>1, <3>1
    <3>. HIDE DEF step
    <3>. QED  BY ONLY LayersInv, <1>2, <2>2, <3>2, <3>3, EmptyShape, TakesFits
  <2>4. CASE Len(layers) # 1
    <3>0. Len(layers) > 1 /\ Len(layers) \in 1 .. Len(layers) /\ TopLayer = layers[Len(layers)]
      BY <1>0, <2>4, TopAlone
    <3>1. step = Nothing
      <4>1. TopLayer.back = Nowhere
        BY <1>0, <3>0 DEF Shape
      <4>. QED  BY <4>1
    <3>2. Takes(step, Front(layers), TopLayer.of)
      BY <1>1, <2>1
    <3>3. step.act # "show" /\ step.act \notin {"open", "lead"}
      BY <3>1, NothingDoes
    <3>. HIDE DEF step
    <3>. QED  BY ONLY LayersInv, <1>2, <2>1, <2>2, <3>2, <3>3, TakesFits
  <2>. QED  BY <2>3, <2>4
<1>4. CASE TopLayer.kind # "picker"
  <2>1. Len(layers) = 1 /\ TopLayer = layers[1] /\ 1 \in 1 .. Len(layers)
    <3>1. TopLayer.kind \notin Upper
      BY <1>0, <1>4 DEF Menus, Forms, Upper
    <3>. QED  BY <1>0, <3>1, TopAlone
  <2>2. below = <<>>
    <3>1. CASE TopLayer.kind \in Forms
      <4>1. TopLayer.under = 0
        BY <2>1, <3>1, <1>0 DEF Shape, Savers
      <4>2. IsSeq(layers) /\ 0 \in Nat
        BY <1>0 DEF Shape
      <4>3. LeftOf(CutTo(layers, 0), layers) /\ Len(CutTo(layers, 0)) <= 0
        BY <4>2, CutLeft
      <4>4. Shape(CutTo(layers, 0)) /\ Len(CutTo(layers, 0)) = 0
        <5>1. Shape(CutTo(layers, 0))
          BY <1>0, <4>3, LeftShape
        <5>. QED  BY <4>3, <5>1 DEF Shape, IsSeq
      <4>. QED  BY <3>1, <4>1, <4>4, NoLayers
    <3>2. CASE TopLayer.kind \notin Forms
      BY <1>0, <2>1, <3>2, TopAlone, NoLayers
    <3>. QED  BY <3>1, <3>2
  <2>3. Takes(step, <<>>, TopLayer.of)
    BY <1>1, <2>2
  <2>4. Replaced(<<>>) = {} /\ Len(<<>>) <= 1
    BY DEF Replaced
  <2>5. inflight = {} \/ step.act = "none"
    <3>1. CASE TopLayer.kind \in Savers
      BY <1>0, <2>1, <3>1, NothingDoes DEF Shape
    <3>2. CASE TopLayer.kind \notin Savers
      BY <1>0, <2>1, <3>2 DEF LayersInv, AwaitsAlone
    <3>. QED  BY <3>1, <3>2
  <2>. HIDE DEF step
  <2>. QED  BY ONLY LayersInv, <1>2, <2>3, <2>4, <2>5, EmptyShape, TakesFits
<1>. QED  BY <1>3, <1>4

\* What RoomStays and the rest leave: with the requests no left than before.
LEMMA FewerFit ==
  ASSUME LayersInv, inflight' \subseteq inflight, takenDown' = takenDown,
         layers' = <<>> \/ layers' = layers
  PROVE  LayersInv'
<1>1. \A v \in inflight' : AwaitedFit(v)'
  <2>. SUFFICES ASSUME NEW v \in inflight'
       PROVE  AwaitedFit(v)'
    OBVIOUS
  <2>1. AwaitedFit(v)
    BY DEF LayersInv
  <2>2. v.does = "open" => inflight' = {v}
    BY <2>1 DEF AwaitedFit
  <2>. QED  BY <2>1, <2>2 DEF AwaitedFit
<1>2. Shape(layers')
  BY EmptyShape DEF LayersInv
<1>3. AwaitsAlone'
  BY DEF LayersInv, AwaitsAlone
<1>. QED  BY <1>1, <1>2, <1>3 DEF LayersInv

LEMMA FetchEndsFits ==
  ASSUME LayersInv, NEW w \in inflight, FetchEnds(w)
  PROVE  LayersInv'
<1>1. /\ w.does = "open" /\ inflight' = inflight \ {w}
      /\ AwaitedFit(w)
  BY DEF FetchEnds, LayersInv
<1>2. inflight' = {} /\ layers = <<>> /\ (w.kind \in Savers => w.back = Nowhere)
  BY <1>1 DEF AwaitedFit, LayersInv, AwaitsAlone
<1>3. PICK kind \in {w.kind, w.otherwise} :
        LET back == IF kind = w.kind /\ w.back # Nowhere THEN w.back ELSE Parent(kind)
        IN  IF kind = Nowhere THEN UNCHANGED <<layers, takenDown>>
            ELSE /\ layers' = Open(layers, kind, back, w.of)
                 /\ takenDown' = takenDown \cup Replaced(layers)
  BY DEF FetchEnds
<1>. DEFINE back == IF kind = w.kind /\ w.back # Nowhere THEN w.back ELSE Parent(kind)
<1>4. kind \in Savers => back = Nowhere
  <2>1. kind \in Savers => Parent(kind) = Nowhere
    BY DEF Savers, Forms, Parent
  <2>. QED  BY <1>2, <2>1
<1>5. Shape(layers') /\ takenDown' = {}
  <2>1. CASE kind = Nowhere
    BY <1>3, <2>1 DEF LayersInv
  <2>2. CASE kind # Nowhere
    <3>1. layers' = Open(layers, kind, back, w.of) /\ takenDown' = takenDown \cup Replaced(layers)
      BY <1>3, <2>2
    <3>2. Replaced(layers) = {} /\ Len(layers) <= 1
      BY <1>2 DEF Replaced
    <3>. HIDE DEF back
    <3>3. Shape(Open(layers, kind, back, w.of))
      BY <1>4, <3>2, OpenedShape DEF LayersInv
    <3>. QED  BY <3>1, <3>2, <3>3 DEF LayersInv
  <2>. QED  BY <2>1, <2>2
<1>. QED  BY <1>2, <1>5 DEF LayersInv, AwaitsAlone

LEMMA PushesFits ==
  ASSUME Patient, LayersInv, NEW from, NEW kind, kind \in Upper, Pushes(from, kind)
  PROVE  LayersInv'
<1>1. inflight = {} /\ inflight' = {} /\ takenDown' = takenDown
      /\ layers' = Mount(layers, kind, Nowhere, life)
  BY DEF Pushes, Quiet
<1>2. kind \in Savers => Nowhere = Nowhere
  OBVIOUS
<1>3. Shape(Mount(layers, kind, Nowhere, life))
  BY <1>2, MountedShape DEF LayersInv
<1>. QED  BY <1>1, <1>3 DEF LayersInv, AwaitsAlone

LEMMA PicksTemplateFits ==
  ASSUME LayersInv, PicksTemplate
  PROVE  LayersInv'
<1>1. /\ Len(layers) > 1 /\ inflight' = inflight /\ takenDown' = takenDown
      /\ layers' = Mount(Front(layers), "card", Nowhere, life)
      /\ Shape(layers)
  BY DEF PicksTemplate, LayersInv
<1>2. layers # <<>> /\ inflight = {}
  <2>1. Len(<<>>) = 0
    OBVIOUS
  <2>3. Len(layers) \in Nat
    BY <1>1 DEF Shape, IsSeq
  <2>4. Len(layers) > 1
    BY <1>1
  <2>6. \A k \in Nat : k > 1 => k # 0 /\ k # 1
    OBVIOUS
  <2>5. Len(layers) # 0 /\ Len(layers) # 1
    BY ONLY <2>3, <2>4, <2>6
  <2>2. layers # <<>> /\ Len(layers) # 1
    BY ONLY <2>1, <2>5
  <2>. QED  BY <2>2 DEF LayersInv, AwaitsAlone
<1>3. Shape(Front(layers))
  BY <1>1, <1>2, TopAlone
<1>4. Shape(Mount(Front(layers), "card", Nowhere, life))
  BY <1>3, MountedShape DEF Upper
<1>. QED  BY <1>1, <1>2, <1>4 DEF LayersInv, AwaitsAlone

\* Some layer is popped: what is awaited still finds its form, or an empty screen.
LEMMA PoppedFits ==
  ASSUME LayersInv, NEW n, layers' = Pop(layers, n),
         inflight' = inflight, takenDown' = takenDown
  PROVE  LayersInv'
<1>1. LeftOf(layers', layers) /\ Shape(layers)
  BY PopLeft DEF LayersInv, Shape
<1>2. Shape(layers')
  BY <1>1, LeftShape
<1>3. AwaitsAlone'
  <2>. SUFFICES ASSUME inflight # {}, layers' # <<>>
       PROVE  AwaitsAlone'
    BY DEF AwaitsAlone
  <2>1. Len(layers') \in Nat /\ Len(layers') # 0
    BY <1>2, NoLayers DEF Shape, IsSeq
  <2>6. Len(<<>>) = 0 /\ Len(layers') <= Len(layers)
    BY <1>1 DEF LeftOf
  <2>2. layers # <<>>
    BY <2>1, <2>6
  <2>7. Len(layers) = 1
    BY <2>2 DEF LayersInv, AwaitsAlone
  <2>3. Len(layers) = 1 /\ Len(layers') = 1
    BY ONLY <2>1, <2>6, <2>7
  <2>4. \E j \in 1 .. Len(layers) : layers'[1] = layers[j]
    BY <1>1, <2>3 DEF LeftOf
  <2>5. layers'[1] = layers[1]
    BY <2>3, <2>4
  <2>. QED  BY <2>2, <2>3, <2>5 DEF LayersInv, AwaitsAlone
<1>4. \A v \in inflight' : AwaitedFit(v)'
  BY DEF LayersInv, AwaitedFit
<1>. QED  BY <1>2, <1>3, <1>4 DEF LayersInv

LEMMA SubmitsFits ==
  ASSUME LayersInv, NEW kind \in Savers, Submits(kind)
  PROVE  LayersInv'
<1>1. /\ layers # <<>> /\ TopLayer.kind = kind /\ layers' = layers /\ takenDown' = takenDown
      /\ inflight' = inflight \cup {Saving(TopLayer)} /\ Shape(layers)
  BY DEF Submits, LayersInv
<1>2. Len(layers) = 1 /\ TopLayer = layers[1] /\ 1 \in 1 .. Len(layers)
  <2>1. kind \notin Upper
    BY DEF Savers, Forms, Upper
  <2>. QED  BY <1>1, <2>1, TopAlone
<1>3. PICK w : w = Saving(TopLayer)
  OBVIOUS
<1>4. w.does = "save" /\ w.under = TopLayer.under /\ w.n = TopLayer.n
  BY <1>3 DEF Saving, Wait
<1>5. w.under = 0
  BY <1>1, <1>2, <1>4 DEF Shape
<1>6. \A v \in inflight : v.does = "save" /\ v.n = layers[1].n
  BY <1>1 DEF LayersInv, AwaitsAlone
<1>7. \A v \in inflight' : v.does = "save" /\ v.n = layers[1].n /\ v.under = 0
  BY <1>1, <1>2, <1>3, <1>4, <1>5, <1>6 DEF LayersInv, AwaitedFit
<1>8. AwaitsAlone'
  BY <1>1, <1>2, <1>7 DEF AwaitsAlone
<1>9. \A v \in inflight' : AwaitedFit(v)'
  BY <1>7 DEF AwaitedFit
<1>. QED  BY <1>1, <1>8, <1>9 DEF LayersInv

\* A switch is asked for with an empty screen, when nothing awaited raises an overlay.
LEMMA SwitchFits ==
  ASSUME LayersInv, NEW id, NEW left, SwitchTo(id, left),
         left \subseteq inflight, \A v \in left : v.does # "open",
         layers' = <<>>, takenDown' = takenDown
  PROVE  LayersInv'
<1>1. CASE inflight' = left
  BY <1>1, FewerFit
<1>2. CASE inflight' # left
  <2>1. PICK w : /\ w = [Wait("switch", Nothing, life) EXCEPT !.to = id, !.under = switchSeq + 1]
                 /\ inflight' = left \cup {w}
    BY <1>2 DEF SwitchTo
  <2>2. w.does = "switch"
    BY <2>1 DEF Wait
  <2>3. \A v \in inflight' : AwaitedFit(v)'
    BY <2>1, <2>2 DEF LayersInv, AwaitedFit
  <2>. QED  BY <2>3, EmptyShape DEF LayersInv, AwaitsAlone
<1>. QED  BY <1>1, <1>2

LEMMA SaveEndsFits ==
  ASSUME LayersInv, NEW w \in inflight, SaveEnds(w)
  PROVE  LayersInv'
<1>. DEFINE depth == IF w.kind # "prompt" THEN w.under
                     ELSE IF layers = <<>> THEN 0 ELSE Len(layers) - 1
            left == {i \in DOMAIN layers : i > depth /\ layers[i].n # w.n}
<1>1. /\ w.does = "save" /\ layers' = CutTo(layers, depth)
      /\ takenDown' = takenDown \cup ({layers[i].kind : i \in left} \cap Held)
  BY DEF SaveEnds
<1>2. Shape(layers) /\ w.under = 0
  BY <1>1 DEF LayersInv, AwaitedFit
<1>3. layers = <<>> \/ (Len(layers) = 1 /\ layers[1].n = w.n)
  BY DEF LayersInv, AwaitsAlone
<1>4. depth = 0
  BY <1>2, <1>3
<1>5. left = {}
  <2>1. DOMAIN layers = 1 .. Len(layers) /\ Len(<<>>) = 0
    BY <1>2 DEF Shape, IsSeq
  <2>. QED  BY <1>3, <2>1
<1>. HIDE DEF depth, left
<1>6. layers' = <<>> /\ takenDown' = takenDown
  <2>1. LeftOf(layers', layers) /\ Len(layers') <= 0
    BY <1>1, <1>2, <1>4, CutLeft DEF Shape
  <2>2. Shape(layers')
    BY <1>2, <2>1, LeftShape
  <2>3. Len(layers') = 0
    BY <2>1, <2>2 DEF Shape, IsSeq
  <2>. QED  BY <1>1, <1>5, <2>2, <2>3, NoLayers
<1>7. \A v \in inflight \ {w} : v.does # "open"
  BY DEF LayersInv, AwaitedFit
<1>8. CASE w.kind = "room"
  <2>1. PICK to : SwitchTo(to, inflight \ {w})
    BY <1>8 DEF SaveEnds
  <2>. QED  BY ONLY LayersInv, <1>6, <1>7, <2>1, SwitchFits
<1>9. CASE w.kind # "room"
  <2>1. inflight' = inflight \ {w}
    BY <1>9 DEF SaveEnds
  <2>. QED  BY ONLY LayersInv, <1>6, <2>1, FewerFit
<1>. QED  BY <1>8, <1>9

LEMMA NavigatesFits ==
  ASSUME Patient, LayersInv, Navigates
  PROVE  LayersInv'
<1>1. layers' = <<>> /\ takenDown' = takenDown /\ inflight = Pending("switch")
  BY DEF Navigates
<1>2. \A v \in inflight : v.does # "open"
  BY <1>1 DEF Pending
<1>3. CASE inflight' = inflight
  BY <1>1, <1>3, FewerFit
<1>4. ASSUME NEW to \in Tabs, SwitchTo(to, inflight)
      PROVE  LayersInv'
  BY <1>1, <1>2, <1>4, SwitchFits
<1>. QED  BY <1>3, <1>4 DEF Navigates

LEMMA LeadEndsFits ==
  ASSUME LayersInv, NEW w \in inflight, LeadEnds(w)
  PROVE  LayersInv'
<1>1. layers' = layers /\ takenDown' = takenDown /\ w.does = "lead"
  BY DEF LeadEnds
<1>2. CASE inflight' = inflight \ {w}
  BY <1>1, <1>2, FewerFit
<1>3. ASSUME SwitchTo(w.to, inflight \ {w})
      PROVE  LayersInv'
  <2>1. layers' = <<>>
    BY <1>1 DEF LayersInv, AwaitsAlone
  <2>2. \A v \in inflight \ {w} : v.does # "open"
    BY DEF LayersInv, AwaitedFit
  <2>. QED  BY <1>1, <1>3, <2>1, <2>2, SwitchFits
<1>. QED  BY <1>2, <1>3 DEF LeadEnds

LEMMA LoginBeginsFits ==
  ASSUME Patient, LayersInv, LoginBegins
  PROVE  LayersInv'
<1>1. inflight = {} /\ inflight' = {} /\ takenDown' = takenDown
      /\ layers' = Mount(layers, "panel", Nowhere, life)
  BY DEF LoginBegins, Quiet
<1>2. Shape(Mount(layers, "panel", Nowhere, life))
  BY MountedShape DEF LayersInv, Upper
<1>. QED  BY <1>1, <1>2 DEF LayersInv, AwaitsAlone

LEMMA LayersBegin ==
  ScreenInit => LayersInv
BY EmptyShape DEF ScreenInit, LayersInv, AwaitsAlone

LEMMA LayersStep ==
  ASSUME Patient, LayersInv, [ScreenNext]_screenVars
  PROVE  LayersInv'
<1>1. CASE UNCHANGED screenVars
  BY <1>1, FewerFit DEF screenVars
<1>2. CASE RunsCommand \/ Chooses \/ Cancels \/ Navigates \/ EntersPlus \/ LoginBegins
  BY <1>2, RunsCommandFits, ChoosesFits, CancelsFits, NavigatesFits, EntersPlusFits,
     LoginBeginsFits
<1>3. CASE RoomFormPicks \/ AddsMember \/ EditsMember \/ MemberPicks \/ PicksTemplate
  BY <1>3, PushesFits, PicksTemplateFits
     DEF RoomFormPicks, AddsMember, EditsMember, MemberPicks, Upper
<1>4. CASE CardDone
  BY <1>4, PoppedFits DEF CardDone
<1>5. CASE LoginOver
  BY <1>5, PoppedFits DEF LoginOver
<1>6. CASE \/ AgentFormSubmits \/ EditFormSubmits \/ RoomFormSubmits
           \/ ComposerSaves \/ PromptSaves
  BY <1>6, SubmitsFits DEF AgentFormSubmits, EditFormSubmits, RoomFormSubmits, ComposerSaves,
     PromptSaves, Savers, Forms
<1>7. ASSUME NEW w \in inflight,
             FetchEnds(w) \/ SaveEnds(w) \/ SaveFails(w) \/ LeadEnds(w) \/ PreloadEnds(w)
      PROVE  LayersInv'
  <2>1. CASE SaveFails(w)
    BY <2>1, FewerFit DEF SaveFails
  <2>2. CASE PreloadEnds(w)
    BY <2>2, FewerFit DEF PreloadEnds, Swap
  <2>. QED  BY <1>7, <2>1, <2>2, FetchEndsFits, SaveEndsFits, LeadEndsFits
<1>. QED  BY <1>1, <1>2, <1>3, <1>4, <1>5, <1>6, <1>7 DEF ScreenNext

\* A switch on its way is no newer than the newest asked for; the newest goes to the
\* room last asked for, and that room is on screen or so is it on its way.
SwitchInv ==
  /\ switchSeq \in Nat
  /\ \A w \in inflight : w.does = "switch" =>
       /\ w.under \in Nat /\ w.under <= switchSeq
       /\ w.under = switchSeq => w.to = wanted
  /\ \/ shown = wanted
     \/ \E w \in inflight : w.does = "switch" /\ w.under = switchSeq

\* What is awaited changes, the switches on their way do not.
LEMMA SameSwitches ==
  ASSUME SwitchInv,
         switchSeq' = switchSeq, shown' = shown, wanted' = wanted,
         \A w : w.does = "switch" => (w \in inflight' <=> w \in inflight)
  PROVE  SwitchInv'
BY DEF SwitchInv

LEMMA TakesNoSwitch ==
  ASSUME NEW step, NEW base, NEW of, Takes(step, base, of), NEW w, w.does = "switch"
  PROVE  w \in inflight' <=> w \in inflight
<1>1. \/ inflight' = inflight
      \/ step.act # "switch" /\ inflight' = inflight \cup {Wait(step.act, step, of)}
  BY DEF Takes
<1>2. Wait(step.act, step, of).does = step.act
  BY DEF Wait
<1>. QED  BY <1>1, <1>2

\* A switch is asked for; the room on screen only while none is on its way.
LEMMA SwitchAsked ==
  ASSUME StaysPut, SwitchInv, NEW id, NEW left, MayAsk(id), SwitchTo(id, left),
         left \subseteq inflight,
         \A w \in inflight : w.does = "switch" => w \in left
  PROVE  SwitchInv'
<1>1. wanted' = id /\ shown' = shown
  BY DEF SwitchTo
<1>2. CASE id = shown
  <2>1. \A w \in inflight : w.does # "switch"
    BY <1>2 DEF MayAsk, Switching, Pending
  <2>2. inflight' \subseteq inflight /\ switchSeq' = switchSeq
    BY <1>2 DEF SwitchTo
  <2>. QED  BY <1>1, <1>2, <2>1, <2>2 DEF SwitchInv
<1>3. CASE id # shown
  <2>1. PICK w : /\ w = [Wait("switch", Nothing, life) EXCEPT !.to = id, !.under = switchSeq + 1]
                 /\ inflight' = left \cup {w}
    BY <1>3 DEF SwitchTo
  <2>2. w.does = "switch" /\ w.to = id /\ w.under = switchSeq + 1
    BY <2>1 DEF Wait
  <2>3. switchSeq' = switchSeq + 1
    BY <1>3 DEF SwitchTo
  <2>4. ASSUME NEW v \in left, v.does = "switch"
        PROVE  v.under \in Nat /\ v.under <= switchSeq + 1 /\ v.under # switchSeq + 1
    BY <2>4 DEF SwitchInv
  <2>5. switchSeq + 1 \in Nat
    BY DEF SwitchInv
  <2>6. ASSUME NEW v \in inflight', v.does = "switch"
        PROVE  /\ v.under \in Nat /\ v.under <= switchSeq'
               /\ v.under = switchSeq' => v.to = wanted'
    <3>1. CASE v \in left
      BY <2>3, <2>4, <2>6, <3>1
    <3>2. CASE v = w
      BY <1>1, <2>2, <2>3, <2>5, <3>2
    <3>. QED  BY <2>1, <2>6, <3>1, <3>2
  <2>7. \E v \in inflight' : v.does = "switch" /\ v.under = switchSeq'
    BY <2>1, <2>2, <2>3
  <2>. QED  BY <2>3, <2>5, <2>6, <2>7 DEF SwitchInv
<1>. QED  BY <1>2, <1>3

LEMMA PreloadLands ==
  ASSUME SwitchInv, NEW w \in inflight, PreloadEnds(w)
  PROVE  SwitchInv'
<1>1. /\ w.does = "switch" /\ inflight' = inflight \ {w}
      /\ switchSeq' = switchSeq /\ wanted' = wanted
  BY DEF PreloadEnds
<1>2. CASE w.under = switchSeq
  <2>1. shown' = w.to /\ w.to = wanted
    BY <1>1, <1>2 DEF PreloadEnds, Swap, SwitchInv
  <2>. QED  BY <1>1, <2>1 DEF SwitchInv
<1>3. CASE w.under # switchSeq
  <2>1. shown' = shown
    BY <1>3 DEF PreloadEnds
  <2>. QED  BY <1>1, <1>3, <2>1 DEF SwitchInv
<1>. QED  BY <1>2, <1>3

LEMMA SwitchesBegin ==
  ScreenInit => SwitchInv
BY DEF ScreenInit, SwitchInv

LEMMA SwitchesStep ==
  ASSUME StaysPut, SwitchInv, [ScreenNext]_screenVars
  PROVE  SwitchInv'
<1>1. CASE UNCHANGED screenVars
  BY <1>1 DEF screenVars, SwitchInv
<1>2. CASE RunsCommand \/ Chooses \/ Cancels \/ EntersPlus
  <2>1. RoomStays /\ \E step, base, of : Takes(step, base, of)
    BY <1>2 DEF RunsCommand, Chooses, Cancels, EntersPlus
  <2>2. \A w : w.does = "switch" => (w \in inflight' <=> w \in inflight)
    BY <2>1, TakesNoSwitch
  <2>. QED  BY <2>1, <2>2, SameSwitches DEF RoomStays
<1>3. CASE RoomFormPicks \/ AddsMember \/ EditsMember \/ MemberPicks \/ PicksTemplate \/ CardDone
  <2>1. RoomStays /\ inflight' = inflight
    BY <1>3 DEF RoomFormPicks, AddsMember, EditsMember, MemberPicks, Pushes, PicksTemplate, CardDone
  <2>. QED  BY <2>1, SameSwitches DEF RoomStays
<1>4. CASE LoginBegins \/ LoginOver
  BY <1>4, SameSwitches DEF LoginBegins, LoginOver
<1>5. CASE \/ AgentFormSubmits \/ EditFormSubmits \/ RoomFormSubmits
           \/ ComposerSaves \/ PromptSaves
  <2>1. RoomStays /\ inflight' = inflight \cup {Saving(TopLayer)}
    BY <1>5 DEF AgentFormSubmits, EditFormSubmits, RoomFormSubmits, ComposerSaves, PromptSaves,
       Submits
  <2>2. Saving(TopLayer).does = "save"
    BY DEF Saving, Wait
  <2>. QED  BY <2>1, <2>2, SameSwitches DEF RoomStays
<1>6. CASE Navigates
  <2>1. CASE UNCHANGED <<shown, life, inflight, switchSeq, wanted, oauthLayer, oauthProgress>>
    BY <2>1, SameSwitches
  <2>2. ASSUME NEW to \in Tabs, MayAsk(to), SwitchTo(to, inflight)
        PROVE  SwitchInv'
    BY <2>2, SwitchAsked
  <2>. QED  BY <1>6, <2>1, <2>2 DEF Navigates
<1>7. ASSUME NEW w \in inflight, w.does # "switch", inflight' = inflight \ {w}, RoomStays
      PROVE  SwitchInv'
  BY <1>7, SameSwitches DEF RoomStays
<1>8. ASSUME NEW w \in inflight, w.does # "switch", NEW to,
             MayAsk(to), SwitchTo(to, inflight \ {w})
      PROVE  SwitchInv'
  <2>1. \A v \in inflight : v.does = "switch" => v \in inflight \ {w}
    BY <1>8
  <2>. QED  BY <1>8, <2>1, SwitchAsked
<1>9. ASSUME NEW w \in inflight,
             FetchEnds(w) \/ SaveEnds(w) \/ SaveFails(w) \/ LeadEnds(w) \/ PreloadEnds(w)
      PROVE  SwitchInv'
  <2>1. CASE FetchEnds(w)
    BY <1>7, <2>1 DEF FetchEnds
  <2>2. CASE SaveEnds(w)
    BY <1>7, <1>8, <2>2 DEF SaveEnds
  <2>3. CASE SaveFails(w)
    BY <1>7, <2>3 DEF SaveFails
  <2>4. CASE LeadEnds(w)
    BY <1>7, <1>8, <2>4 DEF LeadEnds
  <2>. QED  BY <1>9, <2>1, <2>2, <2>3, <2>4, PreloadLands
<1>. QED  BY <1>1, <1>2, <1>3, <1>4, <1>5, <1>6, <1>9 DEF ScreenNext

\* Whatever a patient user opens, chooses, saves and cancels, and whenever a login
\* begins and ends, no overlay that holds what he typed is taken down by the
\* completion of something else (OverlayHost: open, cancel, the forms' onClose).
THEOREM ScreenLayersKept ==
  ASSUME Patient
  PROVE  ScreenSpec => []LayersKept
<1>1. LayersInv => LayersKept
  BY DEF LayersInv, LayersKept
<1>. QED  BY <1>1, LayersBegin, LayersStep, PTL DEF ScreenSpec

\* However many switches are on their way and in whatever order they arrive, the room
\* on screen is in the end the one asked for last (switchRoom's switchSeq), and
\* a patient user keeps what he typed.
THEOREM ScreenIsKept ==
  ASSUME Patient, StaysPut
  PROVE  ScreenSpec => []ScreenKept
<1>1. ScreenInit => LayersInv /\ SwitchInv
  BY LayersBegin, SwitchesBegin
<1>2. (LayersInv /\ SwitchInv) /\ [ScreenNext]_screenVars => (LayersInv /\ SwitchInv)'
  BY LayersStep, SwitchesStep
<1>3. LayersInv /\ SwitchInv => ScreenKept
  BY DEF LayersInv, SwitchInv, ScreenKept, LayersKept, NewestLands, Switching, Pending
<1>. QED  BY <1>1, <1>2, <1>3, PTL DEF ScreenSpec
=============================================================================
