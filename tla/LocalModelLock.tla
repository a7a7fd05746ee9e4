--------------------------- MODULE LocalModelLock ---------------------------
(***************************************************************************)
(* The counting semaphore of local-model-lock.ts, driven the way           *)
(* RoomCore.executeAgent drives it: acquire before the turn, release in    *)
(* the finally block, both labelled with the room.  The lock does not know *)
(* its callers: a slot is only an entry of `holders` carrying a room       *)
(* label, and release finds "its" slot by that label.                      *)
(***************************************************************************)
EXTENDS Naturals, Sequences, FiniteSets, SequencesExt

CONSTANTS Callers,    \* agent turns on the local lane, over all rooms
          Owner,      \* the room each caller belongs to: the label it passes
          Capacity    \* config.localSlots

ASSUME CallersAssumption == IsFiniteSet(Callers)
ASSUME CapacityAssumption == Capacity \in Nat \ {0}
ASSUME OwnerAssumption == DOMAIN Owner = Callers

VARIABLES holders,    \* labels of the slots in use, in acquisition order
          queue,      \* callers whose promise is unresolved, oldest first
          state       \* what each caller is doing

vars == <<holders, queue, state>>

Rooms == {Owner[c] : c \in Callers}
Holding == {c \in Callers : state[c] = "holding"}

Init ==
  /\ holders = <<>>
  /\ queue = <<>>
  /\ state = [c \in Callers |-> "idle"]

(* ---- acquire ---------------------------------------------------------- *)

\* Mutant: the waiter is put at the head of the line.
AcquireQueuedLifo(c) ==
  /\ state[c] = "idle"
  /\ Len(holders) >= Capacity
  /\ queue' = <<c>> \o queue
  /\ state' = [state EXCEPT ![c] = "waiting"]
  /\ UNCHANGED holders

\* Mutant: the comparison with the capacity is off by one.
AcquireAtOnceOffByOne(c) ==
  /\ state[c] = "idle"
  /\ Len(holders) <= Capacity
  /\ holders' = Append(holders, Owner[c])
  /\ state' = [state EXCEPT ![c] = "holding"]
  /\ UNCHANGED queue

AcquireAtOnce(c) ==
  /\ state[c] = "idle"
  /\ Len(holders) < Capacity
  /\ holders' = Append(holders, Owner[c])
  /\ state' = [state EXCEPT ![c] = "holding"]
  /\ UNCHANGED queue

AcquireQueued(c) ==
  /\ state[c] = "idle"
  /\ Len(holders) >= Capacity
  /\ queue' = Append(queue, c)
  /\ state' = [state EXCEPT ![c] = "waiting"]
  /\ UNCHANGED holders

(* ---- release ---------------------------------------------------------- *)

\* The slot release(owner) frees: the first one with that label, or, when the
\* label is unknown, the last one.
Frees(i, owner) ==
  IF \E j \in DOMAIN holders : holders[j] = owner
  THEN holders[i] = owner /\ \A j \in 1..(i - 1) : holders[j] # owner
  ELSE i = Len(holders)

\* Mutant: the waiter that gets the slot is never told.
ReleaseUnresolved(c) ==
  /\ state[c] = "holding"
  /\ \E i \in DOMAIN holders :
       /\ Frees(i, Owner[c])
       /\ holders' = RemoveAt(holders, i)
                       \o IF queue = <<>> THEN <<>> ELSE <<Owner[Head(queue)]>>
  /\ queue' = IF queue = <<>> THEN <<>> ELSE Tail(queue)
  /\ state' = [state EXCEPT ![c] = "idle"]

\* Mutant: the freed slot goes to the next waiter without being re-entered.
ReleaseUnlabelled(c) ==
  /\ state[c] = "holding"
  /\ \E i \in DOMAIN holders :
       /\ Frees(i, Owner[c])
       /\ holders' = RemoveAt(holders, i)
  /\ IF queue = <<>>
     THEN /\ state' = [state EXCEPT ![c] = "idle"]
          /\ UNCHANGED queue
     ELSE /\ queue' = Tail(queue)
          /\ state' = [state EXCEPT ![c] = "idle", ![Head(queue)] = "holding"]

\* Mutant: nobody is woken.
ReleaseSilently(c) ==
  /\ state[c] = "holding"
  /\ \E i \in DOMAIN holders :
       /\ Frees(i, Owner[c])
       /\ holders' = RemoveAt(holders, i)
  /\ state' = [state EXCEPT ![c] = "idle"]
  /\ UNCHANGED queue

Release(c) ==
  /\ state[c] = "holding"
  /\ \E i \in DOMAIN holders :
       /\ Frees(i, Owner[c])
       /\ IF queue = <<>>
          THEN /\ holders' = RemoveAt(holders, i)
               /\ state' = [state EXCEPT ![c] = "idle"]
               /\ UNCHANGED queue
          ELSE /\ holders' = Append(RemoveAt(holders, i), Owner[Head(queue)])
               /\ queue' = Tail(queue)
               /\ state' = [state EXCEPT ![c] = "idle", ![Head(queue)] = "holding"]

Next == \E c \in Callers : AcquireAtOnce(c) \/ AcquireQueued(c) \/ Release(c)

\* A turn that holds a slot ends (normally, in error, or skipped because its
\* room was stopped meanwhile) and its finally block runs.
Fairness == \A c \in Callers : WF_vars(Release(c))

Spec == Init /\ [][Next]_vars /\ Fairness

(* ---- properties ------------------------------------------------------- *)

TypeOK ==
  /\ holders \in Seq(Rooms)
  /\ queue \in Seq(Callers)
  /\ state \in [Callers -> {"idle", "waiting", "holding"}]

\* The line holds exactly the waiting callers, each once: no caller waits on
\* a promise the lock has forgotten.
LineIsWaiters ==
  /\ IsInjective(queue)
  /\ \A c \in Callers : state[c] = "waiting" <=> \E i \in DOMAIN queue : queue[i] = c

\* The slots in use are as many as the turns that hold one, and never more
\* than the server has: two rooms releasing by label never free or keep a
\* slot too many.
SlotsAccounted ==
  /\ Len(holders) = Cardinality(Holding)
  /\ Len(holders) <= Capacity

\* The occupancy pipeline_status reports is true: a room's label is listed
\* once per turn of that room that holds a slot.
LabelsTell ==
  \A r \in Rooms :
    Cardinality({i \in DOMAIN holders : holders[i] = r})
      = Cardinality({c \in Holding : Owner[c] = r})

\* Nobody waits while a slot is free.
NoIdleSlot == queue # <<>> => Len(holders) = Capacity

\* The lock is the pool it promises to be.
Pool == INSTANCE SlotPool WITH using <- Holding, waiting <- queue
ImplementsPool == Pool!Spec

\* Every turn that waits for a slot gets one.
WaiterServed == \A c \in Callers : state[c] = "waiting" ~> state[c] = "holding"
=============================================================================
