------------------------------- MODULE Board -------------------------------
(***************************************************************************)
(* What a room works by: its task board (TaskBoard, the task tools), which *)
(* clients are shown and conversations keep, and the plan its agents have  *)
(* taken up (plan-routing), the one plan a turn without a handoff may be   *)
(* routed by.  Plans are files that other rooms write as well.             *)
(***************************************************************************)
EXTENDS Integers, Sequences, FiniteSets, SequencesExt

CONSTANTS
  Discussions,       \* conversations that may be live
  Plans, NoPlan,     \* plan files, and none
  Statuses,          \* of a task; the first one is "pending"
  Blanks,            \* an update may name a status and a blank subject
  FreshStarts        \* a discussion may be started while a plan is adopted

CONSTANTS MaxTasks, MaxCalls, MaxSwitches  \* bounds of the model

ASSUME BoardSwitchesAssumption == Blanks \in BOOLEAN /\ FreshStarts \in BOOLEAN
ASSUME BoardBoundsAssumption ==
  MaxTasks \in Nat /\ MaxCalls \in Nat /\ MaxSwitches \in Nat

VARIABLES
  tasks, nextId,     \* TaskBoard: the status of each task, the next id
  board,             \* the board clients are shown
  unsaved,           \* a save is scheduled
  kept,              \* per conversation, the board in its file
  discussion,        \* the live conversation
  calls,             \* the plan calls of the turn at work
  activePlanId,      \* the plan the room has adopted
  completed,         \* plans whose file says completed or archived
  worked,            \* plans the room's agents changed in this conversation
  routed,            \* the plan the last turn was routed by
  switches

taskVars == <<tasks, nextId, board, unsaved, kept>>
planVars == <<calls, activePlanId, completed, worked, routed>>
boardVars == <<taskVars, planVars, discussion, switches>>

NoTasks == [i \in {} |-> "pending"]
NotKept == [i \in {0} |-> "no file"]

BoardInit ==
  /\ tasks = NoTasks /\ nextId = 1 /\ board = NoTasks /\ unsaved = FALSE
  /\ \E d \in Discussions :
       discussion = d /\ kept = [e \in Discussions |-> IF e = d THEN NoTasks ELSE NotKept]
  /\ calls = <<>> /\ activePlanId = NoPlan /\ worked = {} /\ routed = NoPlan
  /\ completed \in SUBSET Plans
  /\ switches = 0

(* ---- the board ----------------------------------------------------------- *)

\* onChange: the board is broadcast and a save scheduled.
Changed == board' = tasks' /\ unsaved' = TRUE

WithNew(i) ==
  [j \in DOMAIN tasks \union {i} |-> IF j = i THEN "pending" ELSE tasks[j]]
CreateTask ==
  /\ nextId <= MaxTasks
  /\ tasks' = WithNew(nextId)
  /\ nextId' = nextId + 1
  /\ Changed
  /\ UNCHANGED <<kept, planVars, discussion, switches>>

\* update(): the status is set before the subject is looked at, and a blank
\* one throws.
UpdateTask(i, s, blank) ==
  /\ i \in DOMAIN tasks
  /\ blank => Blanks
  /\ tasks' = [tasks EXCEPT ![i] = s]
  /\ IF blank THEN UNCHANGED <<board, unsaved>> ELSE Changed
  /\ UNCHANGED <<nextId, kept, planVars, discussion, switches>>

Without(i) == [j \in DOMAIN tasks \ {i} |-> tasks[j]]
DeleteTaskQuietly(i) ==
  /\ i \in DOMAIN tasks
  /\ tasks' = Without(i)
  /\ UNCHANGED <<nextId, board, unsaved, kept, planVars, discussion, switches>>
DeleteTask(i) ==
  /\ i \in DOMAIN tasks
  /\ tasks' = Without(i)
  /\ Changed
  /\ UNCHANGED <<nextId, kept, planVars, discussion, switches>>

\* The debounced save of the conversation.
SaveBoard ==
  /\ unsaved
  /\ kept' = [kept EXCEPT ![discussion] = tasks]
  /\ unsaved' = FALSE
  /\ UNCHANGED <<tasks, nextId, board, planVars, discussion, switches>>

\* load(): ids go on after the highest one the file has.
Top(ids) == CHOOSE i \in ids \union {0} : \A j \in ids : j <= i
Loads(ts) == tasks' = ts /\ nextId' = Top(DOMAIN ts) + 1 /\ board' = ts

(* ---- conversations ------------------------------------------------------- *)

NoTurn == calls = <<>>
Counted == switches < MaxSwitches /\ switches' = switches + 1

\* switchConversation(): the one left is saved, a loaded one has no plan.
Switch(d) ==
  /\ NoTurn /\ Counted
  /\ d # discussion /\ kept[d] # NotKept
  /\ kept' = [kept EXCEPT ![discussion] = tasks]
  /\ Loads(kept[d])
  /\ discussion' = d /\ worked' = {} /\ activePlanId' = NoPlan /\ routed' = NoPlan
  /\ UNCHANGED <<unsaved, calls, completed>>

\* newConversation(), loadPreset(): startFresh() does not let go of the plan.
StartFresh(d) ==
  /\ FreshStarts \/ activePlanId = NoPlan
  /\ NoTurn /\ Counted
  /\ kept[d] = NotKept
  /\ Loads(NoTasks)
  /\ kept' = [kept EXCEPT ![discussion] = tasks, ![d] = NoTasks]
  /\ discussion' = d /\ worked' = {} /\ routed' = NoPlan
  /\ UNCHANGED <<unsaved, calls, activePlanId, completed>>

\* A crash loses what was not saved, and a boot loads the conversation.
Reboot ==
  /\ Counted
  /\ Loads(kept[discussion])
  /\ unsaved' = FALSE
  /\ calls' = <<>> /\ activePlanId' = NoPlan /\ worked' = {} /\ routed' = NoPlan
  /\ UNCHANGED <<kept, completed, discussion>>

(* ---- the plan ------------------------------------------------------------ *)

\* An agent calls the plan tool: to read or to change a plan, with success or
\* not.
PlanCall(p, reads, ok) ==
  /\ Len(calls) < MaxCalls
  /\ calls' = Append(calls, [plan |-> p, reads |-> reads, ok |-> ok])
  /\ worked' = IF ok /\ ~reads THEN worked \union {p} ELSE worked
  /\ UNCHANGED <<activePlanId, completed, routed, taskVars, discussion, switches>>

\* Another room, or an agent's claim or close, changes the file of a plan.
PlanFileChanges(p) ==
  /\ completed' = IF p \in completed THEN completed \ {p} ELSE completed \union {p}
  /\ UNCHANGED <<calls, activePlanId, worked, routed, taskVars, discussion, switches>>

\* planAdoptionId(): the last plan the turn changed.
AdoptsAny(cs) == DOMAIN cs
Adopts(cs) == {i \in DOMAIN cs : cs[i].ok /\ ~cs[i].reads}

\* findPlanById(): a plan at work is read, a completed one passed over.
Findable(p) == p \in Plans \ completed

\* proposeChain(): the turn is over and names nobody; the room goes by the plan
\* it adopted.
TurnRouted ==
  /\ ~NoTurn
  /\ calls' = <<>>
  /\ LET own == Adopts(calls) IN
       \/ own = {} /\ UNCHANGED activePlanId
       \/ \E i \in own : (\A j \in own : j <= i) /\ activePlanId' = calls[i].plan
  /\ routed' = IF Findable(activePlanId') THEN activePlanId' ELSE NoPlan
  /\ UNCHANGED <<completed, worked, taskVars, discussion, switches>>

\* submitGoal(): a goal starts without a plan.
StartGoal ==
  /\ NoTurn /\ Counted
  /\ activePlanId' = NoPlan /\ worked' = {} /\ routed' = NoPlan
  /\ UNCHANGED <<calls, completed, taskVars, discussion>>

(* ---- specification ------------------------------------------------------- *)

BoardNext ==
  \/ CreateTask \/ SaveBoard \/ Reboot \/ TurnRouted \/ StartGoal
  \/ \E i \in 1 .. MaxTasks :
       \/ DeleteTask(i)
       \/ \E s \in Statuses, blank \in BOOLEAN : UpdateTask(i, s, blank)
  \/ \E d \in Discussions : Switch(d) \/ StartFresh(d)
  \/ \E p \in Plans :
       \/ PlanFileChanges(p)
       \/ \E reads, ok \in BOOLEAN : PlanCall(p, reads, ok)

BoardSpec == BoardInit /\ [][BoardNext]_boardVars

(* ---- properties ---------------------------------------------------------- *)

\* The board clients are shown, and the one a conversation will keep, is the
\* board the agents work by, through edits, saves, switches and reboots.  An
\* update that fails after it set the status breaks it (Blanks).
BoardShown == board = tasks /\ (unsaved \/ kept[discussion] = tasks)

\* A turn is routed only by a plan this conversation's own agents changed: no
\* plan of another room, of an earlier goal or of an earlier discussion.  A new
\* discussion keeps the plan of the one before (FreshStarts).
OwnPlan == routed # NoPlan => routed \in worked

\* What a room is shown of its work, and what routes it, are its own.
BoardTrue == BoardShown /\ OwnPlan
=============================================================================
