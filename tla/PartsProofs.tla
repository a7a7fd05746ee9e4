----------------------------- MODULE PartsProofs -----------------------------
(***************************************************************************)
(* The parts that stand by themselves, each for any value of its           *)
(* constants: the lock of the local model, the lines the two terminal      *)
(* clients take, whose drafts have the same text, and a reply as it is     *)
(* streamed and kept.                                                      *)
(***************************************************************************)
EXTENDS LocalModelLock, Prompt, InputLine, LiveTurn, FiniteSetTheorems, SequenceTheorems,
        NaturalsInduction, WellFoundedInduction, TLAPS

(* ---- the lock of the local model --------------------------------------- *)
(*                                                                         *)
(* Neither NoIdleSlot nor the refinement is inductive by itself.  A slot   *)
(* is counted twice, as an entry of `holders` and as a turn in state       *)
(* "holding"; that the two counts agree (SlotsAccounted) needs that the    *)
(* head of the line is a waiting caller (LineIsWaiters).                   *)

LockInv == TypeOK /\ LineIsWaiters /\ SlotsAccounted /\ NoIdleSlot

(* ---- the operators ----------------------------------------------------- *)

\* Taking one slot out of the list leaves a list of labels one shorter.
LEMMA RemoveAtShorter ==
  ASSUME NEW S, NEW s \in Seq(S), NEW i \in DOMAIN s
  PROVE  /\ RemoveAt(s, i) \in Seq(S)
         /\ Len(RemoveAt(s, i)) = Len(s) - 1
BY DEF RemoveAt

\* A caller's own label is one of the labels.
LEMMA OwnerInRooms == ASSUME NEW c \in Callers PROVE Owner[c] \in Rooms
BY DEF Rooms

\* Counting the turns that hold a slot when one more does, or one less.
LEMMA OneMore ==
  ASSUME NEW S \in SUBSET Callers, NEW c \in Callers \ S
  PROVE  /\ IsFiniteSet(S)
         /\ Cardinality(S) \in Nat
         /\ Cardinality(S \cup {c}) = Cardinality(S) + 1
BY CallersAssumption, FS_Subset, FS_AddElement, FS_CardinalityType

LEMMA OneLess ==
  ASSUME NEW S \in SUBSET Callers, NEW c \in S
  PROVE  /\ IsFiniteSet(S)
         /\ Cardinality(S) \in Nat
         /\ Cardinality(S \ {c}) = Cardinality(S) - 1
BY CallersAssumption, FS_Subset, FS_RemoveElement, FS_CardinalityType

(* ---- the inductive invariant ------------------------------------------- *)

LEMMA InitInv == Init => LockInv
<1> SUFFICES ASSUME Init PROVE LockInv
  OBVIOUS
<1>1. TypeOK
  BY DEF Init, TypeOK
<1>2. LineIsWaiters
  BY DEF Init, LineIsWaiters, IsInjective
<1>3. SlotsAccounted
  <2>1. Holding = {}
    BY DEF Init, Holding
  <2>2. Cardinality(Holding) = 0
    BY <2>1, FS_EmptySet
  <2> QED
    BY <2>2, CapacityAssumption DEF Init, SlotsAccounted
<1>4. NoIdleSlot
  BY DEF Init, NoIdleSlot
<1> QED
  BY <1>1, <1>2, <1>3, <1>4 DEF LockInv

\* A slot is free: the caller takes it, nobody is in line.
LEMMA AcquireAtOnceInv ==
  ASSUME LockInv, NEW c \in Callers, AcquireAtOnce(c) PROVE LockInv'
<1> USE DEF LockInv, AcquireAtOnce
<1>1. TypeOK'
  BY OwnerInRooms DEF TypeOK
<1>2. LineIsWaiters'
  BY DEF LineIsWaiters, TypeOK
<1>3. SlotsAccounted'
  <2>1. c \in Callers \ Holding /\ Holding \in SUBSET Callers
    BY DEF Holding
  <2>2. Holding' = Holding \cup {c}
    BY DEF Holding, TypeOK
  <2>3. Cardinality(Holding') = Cardinality(Holding) + 1
    BY <2>1, <2>2, OneMore
  <2>4. Len(holders') = Len(holders) + 1 /\ Len(holders) \in Nat
    BY OwnerInRooms DEF TypeOK
  <2> QED
    BY <2>3, <2>4, CapacityAssumption DEF SlotsAccounted
<1>4. NoIdleSlot'
  <2>1. queue = <<>>
    BY CapacityAssumption DEF NoIdleSlot, TypeOK
  <2> QED
    BY <2>1 DEF NoIdleSlot
<1> QED
  BY <1>1, <1>2, <1>3, <1>4

\* Every slot is taken: the caller joins the line.
LEMMA AcquireQueuedInv ==
  ASSUME LockInv, NEW c \in Callers, AcquireQueued(c) PROVE LockInv'
<1> USE DEF LockInv, AcquireQueued
<1>1. TypeOK'
  BY DEF TypeOK
<1>2. LineIsWaiters'
  <2>1. \A i \in DOMAIN queue : queue[i] # c
    BY DEF LineIsWaiters, TypeOK
  <2>2. DOMAIN queue' = 1..(Len(queue) + 1) /\ DOMAIN queue = 1..Len(queue)
        /\ queue'[Len(queue) + 1] = c /\ Len(queue) \in Nat
        /\ \A i \in DOMAIN queue : queue'[i] = queue[i]
    BY DEF TypeOK
  <2>3. IsInjective(queue')
    BY <2>1, <2>2 DEF LineIsWaiters, IsInjective
  <2>4. ASSUME NEW d \in Callers
        PROVE  state'[d] = "waiting" <=> \E i \in DOMAIN queue' : queue'[i] = d
    <3>1. CASE d = c
      BY <3>1, <2>2 DEF TypeOK
    <3>2. CASE d # c
      <4>1. state'[d] = state[d]
        BY <3>2 DEF TypeOK
      <4>2. (\E i \in DOMAIN queue' : queue'[i] = d) <=> (\E i \in DOMAIN queue : queue[i] = d)
        BY <3>2, <2>2
      <4> QED
        BY <4>1, <4>2 DEF LineIsWaiters
    <3> QED
      BY <3>1, <3>2
  <2> QED
    BY <2>3, <2>4 DEF LineIsWaiters
<1>3. SlotsAccounted'
  <2>1. Holding' = Holding
    BY DEF Holding, TypeOK
  <2> QED
    BY <2>1 DEF SlotsAccounted
<1>4. NoIdleSlot'
  BY CapacityAssumption DEF NoIdleSlot, SlotsAccounted, TypeOK
<1> QED
  BY <1>1, <1>2, <1>3, <1>4

\* A turn ends: its slot is free, or goes to the head of the line.
LEMMA ReleaseInv ==
  ASSUME LockInv, NEW c \in Callers, Release(c) PROVE LockInv'
<1> USE DEF LockInv
<1>1. PICK i \in DOMAIN holders :
        IF queue = <<>>
        THEN /\ holders' = RemoveAt(holders, i)
             /\ state' = [state EXCEPT ![c] = "idle"]
             /\ UNCHANGED queue
        ELSE /\ holders' = Append(RemoveAt(holders, i), Owner[Head(queue)])
             /\ queue' = Tail(queue)
             /\ state' = [state EXCEPT ![c] = "idle", ![Head(queue)] = "holding"]
  BY DEF Release
<1>2. /\ RemoveAt(holders, i) \in Seq(Rooms)
      /\ Len(RemoveAt(holders, i)) = Len(holders) - 1
      /\ Len(holders) \in Nat
  BY RemoveAtShorter DEF TypeOK
<1>3. c \in Holding /\ Holding \in SUBSET Callers
  BY DEF Release, Holding
<1>4. CASE queue = <<>>
  <2>1. TypeOK'
    BY <1>1, <1>2, <1>4 DEF TypeOK
  <2>2. LineIsWaiters'
    BY <1>1, <1>4 DEF LineIsWaiters, TypeOK
  <2>3. SlotsAccounted'
    <3>1. Holding' = Holding \ {c}
      BY <1>1, <1>4 DEF Holding, TypeOK
    <3>2. Cardinality(Holding') = Cardinality(Holding) - 1
      BY <3>1, <1>3, OneLess
    <3> QED
      BY <3>2, <1>1, <1>2, <1>4, CapacityAssumption DEF SlotsAccounted
  <2>4. NoIdleSlot'
    BY <1>1, <1>4 DEF NoIdleSlot
  <2> QED
    BY <2>1, <2>2, <2>3, <2>4
<1>5. CASE queue # <<>>
  <2> DEFINE h == Head(queue)
  <2>1. /\ h \in Callers /\ h = queue[1] /\ 1 \in DOMAIN queue
        /\ Len(queue) \in Nat \ {0} /\ DOMAIN queue = 1..Len(queue)
    BY <1>5 DEF TypeOK
  <2>2. state[h] = "waiting" /\ h # c
    BY <2>1 DEF LineIsWaiters, Release
  <2>3. TypeOK'
    <3>1. Owner[h] \in Rooms
      BY <2>1, OwnerInRooms
    <3>2. holders' \in Seq(Rooms)
      BY <1>1, <1>2, <1>5, <3>1
    <3>3. queue' \in Seq(Callers)
      <4>1. queue \in Seq(Callers) /\ queue # <<>> /\ queue' = Tail(queue)
        BY <1>1, <1>5 DEF TypeOK
      <4> QED
        BY <4>1
    <3>4. state' \in [Callers -> {"idle", "waiting", "holding"}]
      BY <1>1, <1>5 DEF TypeOK
    <3> QED
      BY <3>2, <3>3, <3>4 DEF TypeOK
  <2>4. LineIsWaiters'
    <3>1. /\ DOMAIN queue' = 1..(Len(queue) - 1)
          /\ \A j \in DOMAIN queue' : queue'[j] = queue[j + 1]
      BY <1>1, <1>5, <2>1 DEF TypeOK
    <3>2. IsInjective(queue')
      BY <3>1, <2>1 DEF LineIsWaiters, IsInjective
    <3>3. ASSUME NEW d \in Callers
          PROVE  state'[d] = "waiting" <=> \E j \in DOMAIN queue' : queue'[j] = d
      <4>1. state'[d] = "waiting" <=> state[d] = "waiting" /\ d # h
        BY <1>1, <1>5, <2>1, <2>2 DEF TypeOK, Release
      <4>2. state[d] = "waiting" <=> \E j \in DOMAIN queue : queue[j] = d
        BY DEF LineIsWaiters
      <4>3. ASSUME NEW j \in DOMAIN queue, queue[j] = d, d # h
            PROVE  \E k \in DOMAIN queue' : queue'[k] = d
        <5>1. j - 1 \in DOMAIN queue' /\ queue'[j - 1] = d
          BY <4>3, <3>1, <2>1
        <5> QED
          BY <5>1
      <4>4. ASSUME NEW k \in DOMAIN queue', queue'[k] = d
            PROVE  d # h /\ \E j \in DOMAIN queue : queue[j] = d
        <5>1. k + 1 \in DOMAIN queue /\ queue[k + 1] = d /\ k + 1 # 1
          BY <4>4, <3>1, <2>1
        <5> QED
          BY <5>1, <2>1 DEF LineIsWaiters, IsInjective
      <4> QED
        BY <4>1, <4>2, <4>3, <4>4
    <3> QED
      BY <3>2, <3>3 DEF LineIsWaiters
  <2>5. SlotsAccounted'
    <3>1. Holding' = (Holding \ {c}) \cup {h}
      BY <1>1, <1>5, <2>1, <2>2 DEF Holding, TypeOK
    <3>2. Cardinality(Holding \ {c}) = Cardinality(Holding) - 1 /\ Cardinality(Holding) \in Nat
      BY <1>3, OneLess
    <3>3. h \in Callers \ (Holding \ {c}) /\ (Holding \ {c}) \in SUBSET Callers
      BY <2>1, <2>2, <1>3 DEF Holding
    <3>4. Cardinality(Holding') = Cardinality(Holding \ {c}) + 1
      BY <3>1, <3>3, OneMore
    <3>5. Len(holders') = Len(holders)
      BY <1>1, <1>2, <1>5, <2>1, OwnerInRooms
    <3> QED
      BY <3>2, <3>4, <3>5 DEF SlotsAccounted
  <2>6. NoIdleSlot'
    <3>1. Len(holders') = Len(holders)
      BY <1>1, <1>2, <1>5, <2>1, OwnerInRooms
    <3> QED
      BY <3>1, <1>5 DEF NoIdleSlot
  <2> QED
    BY <2>3, <2>4, <2>5, <2>6
<1> QED
  BY <1>4, <1>5

LEMMA StepInv == LockInv /\ [Next]_vars => LockInv'
<1> SUFFICES ASSUME LockInv, [Next]_vars PROVE LockInv'
  OBVIOUS
<1>1. ASSUME NEW c \in Callers, AcquireAtOnce(c) PROVE LockInv'
  BY <1>1, AcquireAtOnceInv
<1>2. ASSUME NEW c \in Callers, AcquireQueued(c) PROVE LockInv'
  BY <1>2, AcquireQueuedInv
<1>3. ASSUME NEW c \in Callers, Release(c) PROVE LockInv'
  BY <1>3, ReleaseInv
<1>4. CASE UNCHANGED vars
  BY <1>4 DEF vars, LockInv, TypeOK, LineIsWaiters, SlotsAccounted, NoIdleSlot, Holding
<1> QED
  BY <1>1, <1>2, <1>3, <1>4 DEF Next

THEOREM LockInvariant == Spec => []LockInv
<1>1. Init => LockInv
  BY InitInv
<1>2. LockInv /\ [Next]_vars => LockInv'
  BY StepInv
<1> QED
  BY <1>1, <1>2, PTL DEF Spec

(* ---- the results -------------------------------------------------------- *)

\* Every value of the lock's fields has its type, in any number of rooms.
THEOREM LockTyped == Spec => []TypeOK
<1>1. LockInv => TypeOK
  BY DEF LockInv
<1> QED
  BY <1>1, LockInvariant, PTL

\* The line of the lock is exactly the set of callers that wait.
THEOREM LockLine == Spec => []LineIsWaiters
<1>1. LockInv => LineIsWaiters
  BY DEF LockInv
<1> QED
  BY <1>1, LockInvariant, PTL

\* Release by label never frees or keeps a slot too many, and the server's
\* capacity is never exceeded.
THEOREM LockSlots == Spec => []SlotsAccounted
<1>1. LockInv => SlotsAccounted
  BY DEF LockInv
<1> QED
  BY <1>1, LockInvariant, PTL

\* No caller waits while a slot is free.
THEOREM LockNoIdleSlot == Spec => []NoIdleSlot
<1>1. LockInv => NoIdleSlot
  BY DEF LockInv
<1> QED
  BY <1>1, LockInvariant, PTL

\* The pool counts as the lock does.
LEMMA PoolCounts == ASSUME NEW S PROVE Pool!Cardinality(S) = Cardinality(S)
BY DEF Pool!Cardinality, Cardinality

\* The lock implements the slot pool: every step of the lock is a step of the
\* pool, with the turns that hold a slot as the pool's users.
THEOREM LockRefinesPool == Spec => ImplementsPool
<1>1. Init => Pool!Init
  BY DEF Init, Pool!Init, Holding
<1>2. LockInv /\ [Next]_vars => [Pool!Next]_(Pool!poolVars)
  <2> SUFFICES ASSUME LockInv, [Next]_vars PROVE Pool!Next \/ UNCHANGED <<Holding, queue>>
    BY DEF Pool!poolVars
  <2> USE DEF LockInv
  <2>1. ASSUME NEW c \in Callers, state[c] = "idle" PROVE ~Pool!Asking(c)
    BY <2>1 DEF Pool!Asking, Holding, LineIsWaiters
  <2>2. ASSUME NEW c \in Callers, AcquireAtOnce(c) PROVE Pool!Next
    <3>1. Holding' = Holding \cup {c}
      BY <2>2 DEF AcquireAtOnce, Holding, TypeOK
    <3>2. Pool!Enter(c)
      BY <3>1, <2>1, <2>2, PoolCounts DEF AcquireAtOnce, Pool!Enter, SlotsAccounted
    <3> QED
      BY <3>2 DEF Pool!Next
  <2>3. ASSUME NEW c \in Callers, AcquireQueued(c) PROVE Pool!Next
    <3>1. Holding' = Holding
      BY <2>3 DEF AcquireQueued, Holding, TypeOK
    <3>2. Pool!Wait(c)
      BY <3>1, <2>1, <2>3, PoolCounts DEF AcquireQueued, Pool!Wait, SlotsAccounted
    <3> QED
      BY <3>2 DEF Pool!Next
  <2>4. ASSUME NEW c \in Callers, Release(c) PROVE Pool!Next
    <3>1. c \in Holding
      BY <2>4 DEF Release, Holding
    <3>2. CASE queue = <<>>
      <4>1. Holding' = Holding \ {c} /\ UNCHANGED queue
        BY <2>4, <3>2 DEF Release, Holding, TypeOK
      <4> QED
        BY <3>1, <3>2, <4>1 DEF Pool!Leave, Pool!Next
    <3>3. CASE queue # <<>>
      <4>1. Head(queue) \in Callers /\ Head(queue) = queue[1] /\ 1 \in DOMAIN queue
        BY <3>3 DEF TypeOK
      <4>2. Head(queue) # c
        BY <4>1, <2>4 DEF LineIsWaiters, Release
      <4>3. /\ state' = [state EXCEPT ![c] = "idle", ![Head(queue)] = "holding"]
            /\ queue' = Tail(queue)
        BY <2>4, <3>3 DEF Release
      <4>4. Holding' = (Holding \ {c}) \cup {Head(queue)}
        BY <4>1, <4>2, <4>3 DEF Holding, TypeOK
      <4> QED
        BY <3>1, <3>3, <4>3, <4>4 DEF Pool!Leave, Pool!Next
    <3> QED
      BY <3>2, <3>3
  <2>5. CASE UNCHANGED vars
    BY <2>5 DEF vars, Holding
  <2> QED
    BY <2>2, <2>3, <2>4, <2>5 DEF Next
<1> QED
  BY <1>1, <1>2, LockInvariant, PTL DEF Spec, ImplementsPool, Pool!Spec

(* ---- drafts ------------------------------------------------------------ *)

\* Every nonempty set of naturals has a least element.
LEMMA LeastIn ==
  ASSUME NEW T, T \subseteq Nat, T # {}
  PROVE  \E x \in T : \A y \in T : x <= y
<1>. DEFINE R == OpToRel(<, Nat)
<1>1. IsWellFoundedOn(R, Nat)
  BY NatLessThanWellFounded
<1>2. \A x, y \in Nat : <<y, x>> \in R <=> y < x
  BY DEF OpToRel
<1>. HIDE DEF R
<1>3. PICK x \in T : \A y \in T : ~(<<y, x>> \in R)
  BY <1>1, WFMin
<1>4. ASSUME NEW y \in T
      PROVE  x <= y
  <2>1. x \in Nat /\ y \in Nat
    OBVIOUS
  <2>2. ~(y < x)
    BY <2>1, <1>2, <1>3, Zenon
  <2>. QED  BY <2>1, <2>2
<1>. QED  BY <1>4

\* What has been joined after each number of pieces: there is such a function ...
LEMMA JoiningExists ==
  ASSUME NEW S, NEW ps \in Seq(Seq(S))
  PROVE  \E f \in [0 .. Len(ps) -> Seq(S)] :
           f = [i \in 0 .. Len(ps) |-> IF i = 0 THEN <<>> ELSE f[i - 1] \o ps[i]]
<1>. DEFINE Upto(n, f) == f \in [0 .. n -> Seq(S)]
                          /\ f = [i \in 0 .. n |-> IF i = 0 THEN <<>> ELSE f[i - 1] \o ps[i]]
            T == {n \in 0 .. Len(ps) : ~ \E f : Upto(n, f)}
<1>1. Len(ps) \in Nat /\ DOMAIN ps = 1 .. Len(ps) /\ \A i \in 1 .. Len(ps) : ps[i] \in Seq(S)
  OBVIOUS
<1>2. T = {}
  <2>. SUFFICES ASSUME T # {} PROVE FALSE
    OBVIOUS
  <2>1. T \subseteq Nat
    <3>. HIDE DEF Upto
    <3>. QED  BY <1>1
  <2>2. PICK n \in T : \A m \in T : n <= m
    BY <2>1, LeastIn
  <2>3. n \in Nat /\ n <= Len(ps)
    BY <1>1
  <2>4. ASSUME n = 0 PROVE FALSE
    <3>. DEFINE g == [i \in 0 .. 0 |-> <<>>]
    <3>1. <<>> \in Seq(S)
      OBVIOUS
    <3>2. Upto(0, g)
      BY <3>1
    <3>. QED  BY <3>2, <2>4
  <2>5. ASSUME n # 0 PROVE FALSE
    <3>1. n - 1 \in 0 .. Len(ps) /\ n - 1 < n
      BY <2>3, <2>5, <1>1
    <3>2. n - 1 \notin T
      <4>. HIDE DEF T
      <4>. QED  BY <3>1, <2>2, <2>3
    <3>3. PICK f : Upto(n - 1, f)
      BY <3>1, <3>2
    <3>. DEFINE g == [i \in 0 .. n |-> IF i = n THEN f[n - 1] \o ps[n] ELSE f[i]]
    <3>4. n \in 1 .. Len(ps) /\ n - 1 \in 0 .. n - 1 /\ f[n - 1] \in Seq(S) /\ ps[n] \in Seq(S)
      BY <2>3, <2>5, <1>1, <3>3
    <3>5. f[n - 1] \o ps[n] \in Seq(S)
      BY <3>4
    <3>6. \A i \in 0 .. n : i # n => i \in 0 .. (n - 1)
      BY <2>3
    <3>7. g \in [0 .. n -> Seq(S)]
      BY <3>3, <3>5, <3>6
    <3>8. \A i \in 0 .. n : g[i] = IF i = 0 THEN <<>> ELSE g[i - 1] \o ps[i]
      <4>. SUFFICES ASSUME NEW i \in 0 .. n
           PROVE  g[i] = IF i = 0 THEN <<>> ELSE g[i - 1] \o ps[i]
        OBVIOUS
      <4>1. CASE i = n
        <5>1. i - 1 \in 0 .. n /\ i - 1 # n
          BY <4>1, <2>3, <2>5
        <5>. QED  BY <4>1, <5>1, <2>5
      <4>2. CASE i # n /\ i # 0
        <5>1. i - 1 \in 0 .. n /\ i - 1 # n /\ i \in 0 .. (n - 1)
          BY <4>2, <2>3, <2>5
        <5>2. f[i] = f[i - 1] \o ps[i]
          BY <5>1, <3>3, <4>2
        <5>. QED  BY <4>2, <5>1, <5>2
      <4>3. CASE i # n /\ i = 0
        <5>1. 0 \in 0 .. (n - 1)
          BY <4>3, <3>6
        <5>2. f[0] = <<>>
          BY <5>1, <3>3
        <5>. QED  BY <4>3, <5>2
      <4>. QED  BY <4>1, <4>2, <4>3
    <3>9. Upto(n, g)
      <4>. HIDE DEF g
      <4>1. g = [i \in 0 .. n |-> g[i]]
        BY <3>7
      <4>. QED  BY <3>7, <3>8, <4>1
    <3>. QED  BY <3>9
  <2>. QED  BY <2>4, <2>5
<1>3. Len(ps) \in 0 .. Len(ps)
  BY <1>1
<1>. HIDE DEF Upto
<1>4. \E f : Upto(Len(ps), f)
  BY <1>2, <1>3
<1>. QED  BY <1>4 DEF Upto

\* ... and one only, of which Joined is the last value.
LEMMA Joining ==
  ASSUME NEW S, NEW ps \in Seq(Seq(S))
  PROVE  \E f \in [0 .. Len(ps) -> Seq(S)] :
           /\ f[0] = <<>>
           /\ \A i \in 1 .. Len(ps) : f[i] = f[i - 1] \o ps[i]
           /\ Joined(ps) = f[Len(ps)]
<1>. DEFINE n == Len(ps)
            Upto(f) == f = [i \in 0 .. n |-> IF i = 0 THEN <<>> ELSE f[i - 1] \o ps[i]]
            h == CHOOSE f : Upto(f)
<1>1. PICK f \in [0 .. n -> Seq(S)] : Upto(f)
  BY JoiningExists
<1>2. Upto(h)
  <2>. HIDE DEF Upto
  <2>. QED  BY <1>1
<1>3. Joined(ps) = h[n]
  BY DEF Joined
<1>. HIDE DEF h
<1>4. n \in Nat
  OBVIOUS
<1>. HIDE DEF n
<1>5. \A i \in 0 .. n : h[i] = f[i]
  <2>. DEFINE T == {i \in 0 .. n : h[i] # f[i]}
  <2>. SUFFICES ASSUME T # {} PROVE FALSE
    OBVIOUS
  <2>1. T \subseteq Nat
    BY <1>4
  <2>2. PICK i \in T : \A j \in T : i <= j
    BY <2>1, LeastIn
  <2>3. i \in 0 .. n /\ h[i] # f[i]
    OBVIOUS
  <2>4. i # 0
    BY <2>3, <1>1, <1>2
  <2>5. i - 1 \in 0 .. n /\ i - 1 < i
    BY <2>3, <2>4, <1>4
  <2>6. h[i - 1] = f[i - 1]
    BY <2>2, <2>5, <2>3
  <2>7. h[i] = h[i - 1] \o ps[i] /\ f[i] = f[i - 1] \o ps[i]
    BY <2>3, <2>4, <1>1, <1>2
  <2>. QED  BY <2>3, <2>6, <2>7
<1>6. n \in 0 .. n /\ 0 \in 0 .. n /\ 1 .. n \subseteq 0 .. n
  BY <1>4
<1>7. f[0] = <<>>
  BY <1>1, <1>6
<1>8. ASSUME NEW i \in 1 .. n
      PROVE  f[i] = f[i - 1] \o ps[i]
  <2>1. i \in 0 .. n /\ i # 0
    BY <1>4
  <2>. QED  BY <2>1, <1>1
<1>. QED  BY <1>1, <1>3, <1>5, <1>6, <1>7, <1>8 DEF n

\* Whatever grows by the pieces one at a time is what Joined gives.
LEMMA JoinedIs ==
  ASSUME NEW S, NEW ps \in Seq(Seq(S)), NEW g \in [0 .. Len(ps) -> Seq(S)],
         g[0] = <<>>, \A i \in 1 .. Len(ps) : g[i] = g[i - 1] \o ps[i]
  PROVE  Joined(ps) = g[Len(ps)]
<1>1. PICK f \in [0 .. Len(ps) -> Seq(S)] :
           /\ f[0] = <<>>
           /\ \A i \in 1 .. Len(ps) : f[i] = f[i - 1] \o ps[i]
           /\ Joined(ps) = f[Len(ps)]
  BY Joining
<1>. DEFINE n == Len(ps)
            T == {i \in 0 .. n : g[i] # f[i]}
<1>2. n \in Nat
  OBVIOUS
<1>3. \A i \in 1 .. n : f[i] = f[i - 1] \o ps[i] /\ g[i] = g[i - 1] \o ps[i]
  BY <1>1
<1>. HIDE DEF n
<1>4. T = {}
  <2>. SUFFICES ASSUME T # {} PROVE FALSE
    OBVIOUS
  <2>1. T \subseteq Nat
    BY <1>2
  <2>2. PICK i \in T : \A j \in T : i <= j
    BY <2>1, LeastIn
  <2>3. i \in 0 .. n /\ g[i] # f[i]
    OBVIOUS
  <2>4. i # 0
    BY <2>3, <1>1
  <2>5. i - 1 \in 0 .. n /\ i - 1 < i /\ i \in 1 .. n
    BY <2>3, <2>4, <1>2
  <2>6. g[i - 1] = f[i - 1]
    BY <2>2, <2>5, <2>3
  <2>. QED  BY <2>3, <2>5, <2>6, <1>3
<1>5. n \in 0 .. n
  BY <1>2
<1>. QED  BY <1>1, <1>4, <1>5 DEF n

LEMMA JoinedType ==
  ASSUME NEW S, NEW ps \in Seq(Seq(S)) PROVE Joined(ps) \in Seq(S)
<1>1. PICK f \in [0 .. Len(ps) -> Seq(S)] : Joined(ps) = f[Len(ps)]
  BY Joining
<1>. QED  BY <1>1

LEMMA JoinedEmpty == Joined(<<>>) = <<>>
<1>1. <<>> \in Seq(Seq({})) /\ Len(<<>>) = 0
  OBVIOUS
<1>2. PICK f \in [0 .. 0 -> Seq({})] : f[0] = <<>> /\ Joined(<<>>) = f[0]
  BY <1>1, Joining
<1>. QED  BY <1>2

LEMMA JoinedOne ==
  ASSUME NEW S, NEW p \in Seq(S) PROVE Joined(<<p>>) = p
<1>1. <<p>> \in Seq(Seq(S)) /\ Len(<<p>>) = 1 /\ <<p>>[1] = p
  OBVIOUS
<1>2. PICK f \in [0 .. 1 -> Seq(S)] :
        f[0] = <<>> /\ (\A i \in 1 .. 1 : f[i] = f[i - 1] \o <<p>>[i]) /\ Joined(<<p>>) = f[1]
  BY <1>1, Joining
<1>3. f[1] = f[0] \o <<p>>[1]
  BY <1>2
<1>4. f[1] = <<>> \o p
  BY <1>1, <1>2, <1>3
<1>. QED  BY <1>2, <1>4

LEMMA JoinedConcat ==
  ASSUME NEW S, NEW ps \in Seq(Seq(S)), NEW qs \in Seq(Seq(S))
  PROVE  Joined(ps \o qs) = Joined(ps) \o Joined(qs)
<1>1. PICK f \in [0 .. Len(ps) -> Seq(S)] :
           /\ f[0] = <<>>
           /\ \A i \in 1 .. Len(ps) : f[i] = f[i - 1] \o ps[i]
           /\ Joined(ps) = f[Len(ps)]
  BY Joining
<1>2. PICK g \in [0 .. Len(qs) -> Seq(S)] :
           /\ g[0] = <<>>
           /\ \A i \in 1 .. Len(qs) : g[i] = g[i - 1] \o qs[i]
           /\ Joined(qs) = g[Len(qs)]
  BY Joining
<1>. DEFINE m == Len(ps)
            n == Len(qs)
            w == ps \o qs
            h == [i \in 0 .. (m + n) |-> IF i <= m THEN f[i] ELSE f[m] \o g[i - m]]
<1>3. m \in Nat /\ n \in Nat /\ Len(w) = m + n /\ w \in Seq(Seq(S))
      /\ (\A i \in 1 .. m : w[i] = ps[i]) /\ (\A i \in 1 .. n : w[m + i] = qs[i])
  <2>1. w \in Seq(Seq(S)) /\ Len(w) = m + n
    BY ConcatProperties
  <2>2. \A i \in 1 .. Len(w) : w[i] = IF i <= Len(ps) THEN ps[i] ELSE qs[i - Len(ps)]
    BY ConcatProperties
  <2>3. m \in Nat /\ n \in Nat
    OBVIOUS
  <2>. HIDE DEF w
  <2>4. ASSUME NEW i \in 1 .. m PROVE w[i] = ps[i]
    BY <2>1, <2>2, <2>3
  <2>5. ASSUME NEW i \in 1 .. n PROVE w[m + i] = qs[i]
    <3>1. m + i \in 1 .. Len(w) /\ ~(m + i <= m) /\ (m + i) - m = i
      BY <2>1, <2>3
    <3>. QED  BY <3>1, <2>2
  <2>. QED  BY <2>1, <2>3, <2>4, <2>5
<1>4. \A i \in 1 .. m : f[i] = f[i - 1] \o w[i]
  <2>. HIDE DEF w
  <2>. QED  BY <1>1, <1>3
<1>5. \A i \in 1 .. n : g[i] = g[i - 1] \o w[m + i]
  <2>. HIDE DEF w
  <2>. QED  BY <1>2, <1>3
<1>6. f \in [0 .. m -> Seq(S)] /\ g \in [0 .. n -> Seq(S)] /\ f[0] = <<>> /\ g[0] = <<>>
  BY <1>1, <1>2
<1>7. \A i \in 1 .. (m + n) : w[i] \in Seq(S)
  <2>. HIDE DEF w
  <2>. QED  BY <1>3
<1>. HIDE DEF m, n, w
<1>8. h \in [0 .. (m + n) -> Seq(S)]
  <2>. SUFFICES ASSUME NEW i \in 0 .. (m + n)
       PROVE  (IF i <= m THEN f[i] ELSE f[m] \o g[i - m]) \in Seq(S)
    OBVIOUS
  <2>1. CASE i <= m
    <3>1. i \in 0 .. m
      BY <2>1, <1>3
    <3>. QED  BY <3>1, <2>1, <1>6
  <2>2. CASE ~(i <= m)
    <3>1. i - m \in 0 .. n /\ m \in 0 .. m
      BY <2>2, <1>3
    <3>2. f[m] \in Seq(S) /\ g[i - m] \in Seq(S)
      BY <3>1, <1>6
    <3>. QED  BY <3>2, <2>2
  <2>. QED  BY <2>1, <2>2
<1>9. h[0] = <<>>
  <2>1. 0 \in 0 .. (m + n) /\ 0 <= m
    BY <1>3
  <2>. QED  BY <2>1, <1>6
<1>10. ASSUME NEW i \in 1 .. (m + n)
       PROVE  h[i] = h[i - 1] \o w[i]
  <2>1. i \in 0 .. (m + n) /\ i - 1 \in 0 .. (m + n) /\ i \in Int
    BY <1>3
  <2>2. CASE i <= m
    <3>1. i \in 1 .. m /\ i - 1 <= m
      BY <2>1, <2>2, <1>3
    <3>. QED  BY <3>1, <2>1, <2>2, <1>4
  <2>3. CASE i = m + 1
    <3>1. i - m = 1 /\ i - 1 = m /\ ~(i <= m) /\ 1 \in 1 .. n /\ m <= m /\ m + 1 = i /\ m \in 0 .. m
      BY <2>1, <2>3, <1>3
    <3>2. h[i] = f[m] \o g[1] /\ h[i - 1] = f[m]
      BY <3>1, <2>1
    <3>3. g[1] = g[0] \o w[i]
      <4>1. 1 - 1 = 0
        OBVIOUS
      <4>. QED  BY <3>1, <1>5, <4>1
    <3>4. w[i] \in Seq(S)
      BY <1>7
    <3>5. <<>> \o w[i] = w[i]
      BY <3>4
    <3>. QED  BY <3>2, <3>3, <3>5, <1>6
  <2>4. CASE i > m + 1
    <3>1. i - m \in 1 .. n /\ ~(i <= m) /\ ~(i - 1 <= m) /\ m + (i - m) = i
          /\ (i - m) - 1 = (i - 1) - m /\ (i - 1) - m \in 0 .. n /\ m \in 0 .. m
      BY <2>1, <2>4, <1>3
    <3>2. h[i] = f[m] \o g[i - m] /\ h[i - 1] = f[m] \o g[(i - 1) - m]
      BY <3>1, <2>1
    <3>3. g[i - m] = g[(i - 1) - m] \o w[i]
      BY <3>1, <1>5
    <3>4. f[m] \in Seq(S) /\ g[(i - 1) - m] \in Seq(S) /\ w[i] \in Seq(S)
      BY <3>1, <1>6, <1>7
    <3>5. f[m] \o (g[(i - 1) - m] \o w[i]) = (f[m] \o g[(i - 1) - m]) \o w[i]
      <4>. DEFINE a == f[m]
                  b == g[(i - 1) - m]
                  c == w[i]
      <4>1. a \in Seq(S) /\ b \in Seq(S) /\ c \in Seq(S)
        BY <3>4
      <4>. HIDE DEF a, b, c
      <4>2. (a \o b) \o c = a \o (b \o c)
        BY <4>1, ConcatAssociative
      <4>. QED  BY <4>2 DEF a, b, c
    <3>. QED  BY <3>2, <3>3, <3>5
  <2>5. i <= m \/ i = m + 1 \/ i > m + 1
    BY <2>1, <1>3
  <2>. QED  BY <2>2, <2>3, <2>4, <2>5
<1>11. h[m + n] = Joined(ps) \o Joined(qs)
  <2>1. Joined(ps) = f[m] /\ Joined(qs) = g[n] /\ m + n \in 0 .. (m + n) /\ n \in 0 .. n /\ m \in 0 .. m
    BY <1>1, <1>2, <1>3 DEF m, n
  <2>2. CASE n = 0
    <3>1. m + n = m /\ m <= m
      BY <1>3, <2>2
    <3>2. h[m + n] = f[m]
      BY <2>1, <3>1
    <3>3. f[m] \in Seq(S)
      BY <2>1, <1>6
    <3>4. f[m] \o <<>> = f[m]
      BY <3>3
    <3>. QED  BY <3>2, <3>4, <2>1, <2>2, <1>6
  <2>3. CASE n # 0
    <3>1. ~(m + n <= m) /\ (m + n) - m = n
      BY <1>3, <2>3
    <3>. QED  BY <3>1, <2>1
  <2>. QED  BY <2>2, <2>3
<1>. HIDE DEF h
<1>12. Joined(w) = h[Len(w)]
  <2>1. h \in [0 .. Len(w) -> Seq(S)] /\ (\A i \in 1 .. Len(w) : h[i] = h[i - 1] \o w[i])
    BY <1>3, <1>8, <1>10
  <2>. QED  BY <2>1, <1>3, <1>9, JoinedIs
<1>. QED  BY <1>3, <1>11, <1>12 DEF w

(* ---- a draft's text ------------------------------------------------------ *)

Text == Seq(Characters)
Blank == Seq(Spaces)

\* What stands for a symbol in the expanded text.
Piece(c) == IF c \in Markers THEN Content[c] ELSE <<c>>
Pieces(t) == [i \in DOMAIN t |-> Piece(t[i])]

LEMMA PieceType == ASSUME NEW c \in Characters PROVE Piece(c) \in Text
<1>1. CASE c \in Markers
  BY <1>1, DraftAssumption DEF Piece, Text
<1>2. CASE c \notin Markers
  BY <1>2 DEF Piece, Text
<1>. QED  BY <1>1, <1>2

LEMMA PiecesType ==
  ASSUME NEW t \in Text
  PROVE  /\ Pieces(t) \in Seq(Text) /\ Len(Pieces(t)) = Len(t)
         /\ \A i \in 1 .. Len(t) : Pieces(t)[i] = Piece(t[i])
<1>1. DOMAIN t = 1 .. Len(t) /\ Len(t) \in Nat /\ \A i \in 1 .. Len(t) : t[i] \in Characters
  BY DEF Text
<1>2. \A i \in 1 .. Len(t) : Piece(t[i]) \in Text
  BY <1>1, PieceType
<1>3. Pieces(t) \in [1 .. Len(t) -> Text]
  BY <1>1, <1>2 DEF Pieces
<1>. QED  BY <1>1, <1>3 DEF Pieces

LEMMA ExpandIs == ASSUME NEW t PROVE ExpandPastes(t) = Joined(Pieces(t))
BY DEF ExpandPastes, Pieces, Piece

LEMMA ExpandType == ASSUME NEW t \in Text PROVE ExpandPastes(t) \in Text
<1>1. Pieces(t) \in Seq(Text)
  BY PiecesType
<1>2. Joined(Pieces(t)) \in Text
  <2>. DEFINE ps == Pieces(t)
  <2>1. ps \in Seq(Seq(Characters))
    BY <1>1 DEF Text
  <2>. HIDE DEF ps
  <2>2. Joined(ps) \in Seq(Characters)
    BY <2>1, JoinedType
  <2>. QED  BY <2>2 DEF ps, Text
<1>. QED  BY <1>2, ExpandIs

\* Markers are expanded each in its place.
LEMMA ExpandConcat ==
  ASSUME NEW s \in Text, NEW t \in Text
  PROVE  ExpandPastes(s \o t) = ExpandPastes(s) \o ExpandPastes(t)
<1>. DEFINE a == Pieces(s)
            b == Pieces(t)
<1>1. a \in Seq(Text) /\ Len(a) = Len(s) /\ (\A i \in 1 .. Len(s) : a[i] = Piece(s[i]))
  BY PiecesType
<1>2. b \in Seq(Text) /\ Len(b) = Len(t) /\ (\A i \in 1 .. Len(t) : b[i] = Piece(t[i]))
  BY PiecesType
<1>. HIDE DEF a, b
<1>3. PICK w : w = s \o t
  OBVIOUS
<1>4. w \in Text /\ Len(w) = Len(s) + Len(t) /\ Len(s) \in Nat /\ Len(t) \in Nat
      /\ \A i \in 1 .. (Len(s) + Len(t)) : w[i] = IF i <= Len(s) THEN s[i] ELSE t[i - Len(s)]
  BY <1>3, ConcatProperties DEF Text
<1>5. PICK c : c = a \o b
  OBVIOUS
<1>6. c \in Seq(Text) /\ Len(c) = Len(s) + Len(t)
      /\ \A i \in 1 .. (Len(s) + Len(t)) : c[i] = IF i <= Len(s) THEN a[i] ELSE b[i - Len(s)]
  <2>1. a \in Seq(Text) /\ b \in Seq(Text)
    BY <1>1, <1>2
  <2>2. c \in Seq(Text) /\ Len(c) = Len(a) + Len(b)
        /\ \A i \in 1 .. (Len(a) + Len(b)) : c[i] = IF i <= Len(a) THEN a[i] ELSE b[i - Len(a)]
    BY <2>1, <1>5, ConcatProperties
  <2>. QED  BY <2>2, <1>1, <1>2
<1>7. \A i \in 1 .. (Len(s) + Len(t)) : c[i] = Piece(w[i])
  <2>. SUFFICES ASSUME NEW i \in 1 .. (Len(s) + Len(t))
       PROVE  c[i] = Piece(w[i])
    OBVIOUS
  <2>1. CASE i <= Len(s)
    <3>1. i \in 1 .. Len(s)
      BY <2>1, <1>4
    <3>. QED  BY <3>1, <2>1, <1>1, <1>4, <1>6
  <2>2. CASE ~(i <= Len(s))
    <3>1. i - Len(s) \in 1 .. Len(t)
      BY <2>2, <1>4
    <3>. QED  BY <3>1, <2>2, <1>2, <1>4, <1>6
  <2>. QED  BY <2>1, <2>2
<1>8. Pieces(w) = c
  <2>1. Pieces(w) \in Seq(Text) /\ Len(Pieces(w)) = Len(w)
        /\ \A i \in 1 .. Len(w) : Pieces(w)[i] = Piece(w[i])
    BY <1>4, PiecesType
  <2>2. \A i \in 1 .. Len(c) : Pieces(w)[i] = c[i]
    BY <2>1, <1>4, <1>6, <1>7
  <2>. QED  BY <2>1, <2>2, <1>4, <1>6, SeqEqual
<1>9. Joined(a \o b) = Joined(a) \o Joined(b)
  <2>1. a \in Seq(Seq(Characters)) /\ b \in Seq(Seq(Characters))
    BY <1>1, <1>2 DEF Text
  <2>. QED  BY <2>1, JoinedConcat
<1>. QED  BY <1>3, <1>5, <1>8, <1>9, ExpandIs DEF a, b

LEMMA ExpandEmpty == ExpandPastes(<<>>) = <<>>
<1>1. Pieces(<<>>) = <<>>
  BY DEF Pieces
<1>. QED  BY <1>1, ExpandIs, JoinedEmpty

LEMMA ExpandOne == ASSUME NEW c \in Characters PROVE ExpandPastes(<<c>>) = Piece(c)
<1>1. PICK p : p = Piece(c)
  OBVIOUS
<1>2. p \in Seq(Characters)
  BY <1>1, PieceType DEF Text
<1>3. Pieces(<<c>>) = <<p>>
  <2>1. <<c>> \in Text /\ Len(<<c>>) = 1 /\ <<c>>[1] = c
    BY DEF Text
  <2>2. Pieces(<<c>>) \in Seq(Text) /\ Len(Pieces(<<c>>)) = 1 /\ Pieces(<<c>>)[1] = p
    BY <2>1, <1>1, PiecesType
  <2>. HIDE DEF Text
  <2>3. PICK q : q = Pieces(<<c>>)
    OBVIOUS
  <2>4. q \in Seq(Text) /\ Len(q) = 1 /\ q[1] = p
    BY <2>2, <2>3
  <2>5. q = <<p>>
    BY <2>4
  <2>. QED  BY <2>3, <2>5
<1>4. Joined(<<p>>) = p
  BY <1>2, JoinedOne
<1>. QED  BY <1>1, <1>3, <1>4, ExpandIs

\* A text of which no symbol is a marker stays as it is.
LEMMA ExpandUnmarked ==
  ASSUME NEW t \in Text, \A i \in 1 .. Len(t) : t[i] \notin Markers
  PROVE  ExpandPastes(t) = t
<1>. DEFINE ps == Pieces(t)
            g == [i \in 0 .. Len(ps) |-> SubSeq(t, 1, i)]
<1>1. Len(t) \in Nat /\ t \in Seq(Characters)
  BY DEF Text
<1>2. ps \in Seq(Seq(Characters)) /\ Len(ps) = Len(t)
  BY PiecesType DEF Text
<1>3. \A i \in 1 .. Len(t) : ps[i] = <<t[i]>>
  BY PiecesType DEF Piece
<1>. HIDE DEF ps
<1>4. \A i \in 0 .. Len(t) : SubSeq(t, 1, i) \in Seq(Characters)
  <2>. SUFFICES ASSUME NEW i \in 0 .. Len(t)
       PROVE  SubSeq(t, 1, i) \in Seq(Characters)
    OBVIOUS
  <2>1. i \in Int /\ 1 \in Int /\ \A j \in 1 .. i : t[j] \in Characters
    BY <1>1
  <2>. QED  BY <2>1, SubSeqProperties
<1>5. g \in [0 .. Len(ps) -> Seq(Characters)]
  BY <1>2, <1>4
<1>6. g[0] = <<>>
  <2>1. SubSeq(t, 1, 0) = <<>>
    BY SubSeqEmpty
  <2>2. 0 \in 0 .. Len(ps)
    BY <1>1, <1>2
  <2>. QED  BY <2>1, <2>2
<1>7. ASSUME NEW i \in 1 .. Len(ps) PROVE g[i] = g[i - 1] \o ps[i]
  <2>1. i \in 1 .. Len(t) /\ 1 \in 1 .. Len(t) /\ i - 1 \in 0 .. Len(ps) /\ i \in 0 .. Len(ps)
    BY <1>1, <1>2
  <2>2. SubSeq(t, 1, i) = SubSeq(t, 1, i - 1) \o <<t[i]>>
    BY <2>1, <1>1, SubSeqRecursiveSecond
  <2>. QED  BY <2>1, <2>2, <1>3
<1>. HIDE DEF g
<1>8. Joined(ps) = g[Len(ps)]
  BY <1>2, <1>5, <1>6, <1>7, JoinedIs
<1>9. g[Len(ps)] = SubSeq(t, 1, Len(t))
  <2>1. Len(ps) \in 0 .. Len(ps)
    BY <1>1, <1>2
  <2>. QED  BY <2>1, <1>2 DEF g
<1>10. SubSeq(t, 1, Len(t)) = t
  BY <1>1, SubSeqFull
<1>. QED  BY <1>8, <1>9, <1>10, ExpandIs DEF ps

(* ---- trimming ------------------------------------------------------------ *)

\* What has ink at both ends, or nothing.
Bare(t) == t = <<>> \/ (t[1] \notin Spaces /\ t[Len(t)] \notin Spaces)

LEMMA GreatestIn ==
  ASSUME NEW n \in Nat, NEW T, T \subseteq 1 .. n, T # {}
  PROVE  \E x \in T : \A y \in T : y <= x
<1>. DEFINE R == {n - y : y \in T}
<1>1. \A y \in T : y \in Int /\ n - y \in Nat /\ n - y \in R
  OBVIOUS
<1>2. R \subseteq Nat /\ R # {}
  BY <1>1
<1>3. PICK r \in R : \A x \in R : r <= x
  <2>. HIDE DEF R
  <2>. QED  BY <1>2, LeastIn
<1>4. PICK z \in T : r = n - z
  OBVIOUS
<1>. HIDE DEF R
<1>5. ASSUME NEW y \in T PROVE y <= z
  <2>1. n - z <= n - y /\ y \in Int /\ z \in Int /\ n \in Int
    BY <1>1, <1>3, <1>4
  <2>. QED  BY ONLY <2>1
<1>. QED  BY <1>5

\* The ends of the ink: where a text is trimmed to.
LEMMA TrimmedFrom ==
  ASSUME NEW t \in Text, NEW i \in 1 .. Len(t), NEW j \in 1 .. Len(t),
         t[i] \notin Spaces, t[j] \notin Spaces,
         \A k \in 1 .. Len(t) : t[k] \notin Spaces => i <= k /\ k <= j
  PROVE  Trimmed(t) = SubSeq(t, i, j)
<1>. DEFINE ink == {k \in DOMAIN t : t[k] \notin Spaces}
<1>1. DOMAIN t = 1 .. Len(t) /\ Len(t) \in Nat
  BY DEF Text
<1>2. i \in ink /\ j \in ink /\ (\A k \in ink : k \in Int /\ i <= k /\ k <= j)
  BY <1>1
<1>3. Trimmed(t) = IF ink = {} THEN <<>>
                   ELSE SubSeq(t, CHOOSE x \in ink : \A y \in ink : x <= y,
                                  CHOOSE x \in ink : \A y \in ink : y <= x)
  BY DEF Trimmed
<1>. HIDE DEF ink
<1>4. (CHOOSE x \in ink : \A y \in ink : x <= y) = i
  <2>1. \A x \in ink : (\A y \in ink : x <= y) => x = i
    BY <1>2
  <2>. QED  BY <1>2, <2>1
<1>5. (CHOOSE x \in ink : \A y \in ink : y <= x) = j
  <2>1. \A x \in ink : (\A y \in ink : y <= x) => x = j
    BY <1>2
  <2>. QED  BY <1>2, <2>1
<1>. QED  BY <1>2, <1>3, <1>4, <1>5

LEMMA TrimmedBlank ==
  ASSUME NEW t \in Text, \A k \in 1 .. Len(t) : t[k] \in Spaces
  PROVE  Trimmed(t) = <<>>
<1>1. {k \in DOMAIN t : t[k] \notin Spaces} = {}
  BY DEF Text
<1>. QED  BY <1>1 DEF Trimmed

LEMMA BlankIsText == ASSUME NEW b \in Blank PROVE b \in Text
<1>1. \A k \in 1 .. Len(b) : b[k] \in Characters
  BY DEF Blank, Characters, Signs
<1>2. b \in [1 .. Len(b) -> Characters] /\ Len(b) \in Nat
  BY <1>1 DEF Blank
<1>. QED  BY <1>2 DEF Text

\* A text is blanks, what it is trimmed to, and blanks.
LEMMA TrimmedParts ==
  ASSUME NEW t \in Text
  PROVE  /\ Trimmed(t) \in Text /\ Bare(Trimmed(t))
         /\ \E a, b \in Blank : t = (a \o Trimmed(t)) \o b
<1>. DEFINE n == Len(t)
            ink == {k \in 1 .. n : t[k] \notin Spaces}
<1>1. n \in Nat /\ DOMAIN t = 1 .. n /\ t \in Seq(Characters) /\ \A k \in 1 .. n : t[k] \in Characters
  BY DEF Text
<1>2. CASE ink = {}
  <2>1. \A k \in 1 .. n : t[k] \in Spaces
    BY <1>2
  <2>2. Trimmed(t) = <<>>
    BY <2>1, TrimmedBlank
  <2>3. t \in Blank
    BY <1>1, <2>1 DEF Blank
  <2>4. <<>> \in Text /\ <<>> \in Blank
    BY DEF Text, Blank
  <2>5. t = (t \o <<>>) \o <<>>
    BY <1>1
  <2>. QED  BY <2>2, <2>3, <2>4, <2>5 DEF Bare
<1>3. CASE ink # {}
  <2>0. ink \subseteq 1 .. n /\ ink \subseteq Nat
    BY <1>1
  <2>1. PICK i \in ink : \A k \in ink : i <= k
    BY <2>0, <1>3, LeastIn
  <2>2. PICK j \in ink : \A k \in ink : k <= j
    BY <2>0, <1>1, <1>3, GreatestIn
  <2>3. i \in 1 .. n /\ j \in 1 .. n /\ t[i] \notin Spaces /\ t[j] \notin Spaces /\ i <= j
        /\ \A k \in 1 .. n : t[k] \notin Spaces => i <= k /\ k <= j
    BY <2>1, <2>2
  <2>4. Trimmed(t) = SubSeq(t, i, j)
    BY <2>3, TrimmedFrom
  <2>. HIDE DEF ink, n
  <2>5. PICK m : m = SubSeq(t, i, j)
    OBVIOUS
  <2>6. m \in Seq(Characters) /\ Len(m) = j - i + 1 /\ \A k \in 1 .. (j - i + 1) : m[k] = t[i + k - 1]
    <3>1. i \in Int /\ j \in Int /\ \A k \in i .. j : t[k] \in Characters
      BY <2>3, <1>1
    <3>2. SubSeq(t, i, j) \in Seq(Characters)
      BY <3>1, SubSeqProperties
    <3>3. Len(SubSeq(t, i, j)) = IF i <= j THEN j - i + 1 ELSE 0
      BY <3>1, SubSeqProperties
    <3>4. \A k \in 1 .. (j - i + 1) : SubSeq(t, i, j)[k] = t[i + k - 1]
      BY <3>1, SubSeqProperties
    <3>. QED  BY <3>2, <3>3, <3>4, <2>3, <2>5
  <2>7. Bare(m)
    <3>1. 1 \in 1 .. (j - i + 1) /\ j - i + 1 \in 1 .. (j - i + 1)
          /\ i + 1 - 1 = i /\ i + (j - i + 1) - 1 = j
      BY <2>3, <1>1
    <3>2. m[1] = t[i] /\ m[Len(m)] = t[j]
      BY <3>1, <2>6
    <3>. QED  BY <3>2, <2>3 DEF Bare
  <2>8. PICK a : a = SubSeq(t, 1, i - 1)
    OBVIOUS
  <2>9. PICK b : b = SubSeq(t, j + 1, n)
    OBVIOUS
  <2>10. a \in Blank
    <3>1. \A k \in 1 .. (i - 1) : t[k] \in Spaces
      BY <2>3, <1>1
    <3>2. 1 \in Int /\ i - 1 \in Int
      BY <2>3
    <3>. QED  BY <3>1, <3>2, <2>8, SubSeqProperties DEF Blank
  <2>11. b \in Blank
    <3>1. \A k \in (j + 1) .. n : t[k] \in Spaces
      BY <2>3, <1>1
    <3>2. n \in Int /\ j + 1 \in Int
      BY <2>3, <1>1
    <3>. QED  BY <3>1, <3>2, <2>9, SubSeqProperties DEF Blank
  <2>12. t = (a \o m) \o b
    <3>1. a \o m = SubSeq(t, 1, j)
      <4>1. 1 \in 1 .. (Len(t) + 1) /\ i - 1 \in (1 - 1) .. Len(t) /\ j \in (i - 1) .. Len(t) /\ (i - 1) + 1 = i
        BY <2>3, <1>1 DEF n
      <4>2. SubSeq(t, 1, i - 1) \o SubSeq(t, (i - 1) + 1, j) = SubSeq(t, 1, j)
        BY <4>1, <1>1, ConcatAdjacentSubSeq
      <4>. QED  BY <4>1, <4>2, <2>5, <2>8
    <3>2. SubSeq(t, 1, j) \o b = SubSeq(t, 1, n)
      <4>1. 1 \in 1 .. (Len(t) + 1) /\ j \in (1 - 1) .. Len(t) /\ n \in j .. Len(t)
        BY <2>3, <1>1 DEF n
      <4>2. SubSeq(t, 1, j) \o SubSeq(t, j + 1, n) = SubSeq(t, 1, n)
        BY <4>1, <1>1, ConcatAdjacentSubSeq
      <4>. QED  BY <4>2, <2>9
    <3>3. SubSeq(t, 1, n) = t
      BY <1>1, SubSeqFull DEF n
    <3>. QED  BY <3>1, <3>2, <3>3
  <2>13. m \in Text
    BY <2>6 DEF Text
  <2>14. Trimmed(t) = m
    BY <2>4, <2>5
  <2>. QED  BY <2>7, <2>10, <2>11, <2>12, <2>13, <2>14
<1>. QED  BY <1>2, <1>3

\* And no other text between blanks is what it is trimmed to.
LEMMA TrimmedIs ==
  ASSUME NEW a \in Blank, NEW b \in Blank, NEW m \in Text, Bare(m)
  PROVE  Trimmed((a \o m) \o b) = m
<1>1. a \in Text /\ b \in Text
  BY BlankIsText
<1>2. PICK u : u = a \o m
  OBVIOUS
<1>3. PICK t : t = u \o b
  OBVIOUS
<1>4. u \in Text /\ Len(u) = Len(a) + Len(m)
      /\ \A k \in 1 .. (Len(a) + Len(m)) : u[k] = IF k <= Len(a) THEN a[k] ELSE m[k - Len(a)]
  BY <1>1, <1>2, ConcatProperties DEF Text
<1>5. t \in Text /\ Len(t) = Len(u) + Len(b)
      /\ \A k \in 1 .. (Len(u) + Len(b)) : t[k] = IF k <= Len(u) THEN u[k] ELSE b[k - Len(u)]
  <2>1. u \in Seq(Characters) /\ b \in Seq(Characters)
    BY <1>1, <1>4 DEF Text
  <2>. HIDE <1>4
  <2>. QED  BY <2>1, <1>3, ConcatProperties DEF Text
<1>6. Len(a) \in Nat /\ Len(m) \in Nat /\ Len(b) \in Nat
      /\ (\A k \in 1 .. Len(a) : a[k] \in Spaces) /\ (\A k \in 1 .. Len(b) : b[k] \in Spaces)
  BY DEF Text, Blank
<1>7. \A k \in 1 .. Len(a) : t[k] \in Spaces
  BY <1>4, <1>5, <1>6
<1>8. \A k \in 1 .. Len(m) : t[Len(a) + k] = m[k]
  <2>. SUFFICES ASSUME NEW k \in 1 .. Len(m) PROVE t[Len(a) + k] = m[k]
    OBVIOUS
  <2>1. Len(a) + k \in 1 .. (Len(u) + Len(b)) /\ Len(a) + k <= Len(u)
        /\ Len(a) + k \in 1 .. (Len(a) + Len(m)) /\ ~(Len(a) + k <= Len(a)) /\ (Len(a) + k) - Len(a) = k
    BY <1>4, <1>6
  <2>. QED  BY <2>1, <1>4, <1>5
<1>9. \A k \in 1 .. Len(t) : k > Len(a) + Len(m) => t[k] \in Spaces
  <2>. SUFFICES ASSUME NEW k \in 1 .. Len(t), k > Len(a) + Len(m) PROVE t[k] \in Spaces
    OBVIOUS
  <2>1. k \in 1 .. (Len(u) + Len(b)) /\ ~(k <= Len(u)) /\ k - Len(u) \in 1 .. Len(b)
    BY <1>4, <1>5, <1>6
  <2>. QED  BY <2>1, <1>5, <1>6
<1>10. CASE m = <<>>
  <2>1. Len(m) = 0
    BY <1>10
  <2>2. \A k \in 1 .. Len(t) : t[k] \in Spaces
    BY <2>1, <1>4, <1>5, <1>6, <1>7, <1>9
  <2>. QED  BY <2>2, <1>2, <1>3, <1>5, <1>10, TrimmedBlank
<1>11. CASE m # <<>>
  <2>1. Len(m) # 0
    BY <1>11 DEF Text
  <2>2. m[1] \notin Spaces /\ m[Len(m)] \notin Spaces
    BY <1>11 DEF Bare
  <2>. DEFINE i == Len(a) + 1
              j == Len(a) + Len(m)
  <2>3. i \in 1 .. Len(t) /\ j \in 1 .. Len(t) /\ i <= j
    BY <2>1, <1>4, <1>5, <1>6
  <2>4. t[i] = m[1] /\ t[j] = m[Len(m)]
    BY <2>1, <1>6, <1>8
  <2>5. \A k \in 1 .. Len(t) : t[k] \notin Spaces => i <= k /\ k <= j
    BY <1>4, <1>5, <1>6, <1>7, <1>9
  <2>6. Trimmed(t) = SubSeq(t, i, j)
    <3>. HIDE DEF i, j
    <3>. QED  BY <2>2, <2>3, <2>4, <2>5, <1>5, TrimmedFrom
  <2>7. SubSeq(t, i, j) = m
    <3>1. i \in Int /\ j \in Int /\ \A k \in i .. j : t[k] \in Characters
      <4>1. \A k \in 1 .. Len(t) : t[k] \in Characters
        BY <1>5 DEF Text
      <4>2. Len(t) \in Nat
        BY <1>5 DEF Text
      <4>. QED  BY <2>3, <4>1, <4>2
    <3>. HIDE DEF i, j
    <3>2. PICK s : s = SubSeq(t, i, j)
      OBVIOUS
    <3>3. s \in Seq(Characters)
      BY <3>1, <3>2, SubSeqProperties
    <3>4. Len(s) = IF i <= j THEN j - i + 1 ELSE 0
      BY <3>1, <3>2, SubSeqProperties
    <3>5. \A k \in 1 .. (j - i + 1) : s[k] = t[i + k - 1]
      BY <3>1, <3>2, SubSeqProperties
    <3>6. j - i + 1 = Len(m) /\ Len(s) = Len(m)
      BY <3>4, <2>3, <1>6 DEF i, j
    <3>7. \A k \in 1 .. Len(m) : i + k - 1 = Len(a) + k
      BY <1>6 DEF i
    <3>8. \A k \in 1 .. Len(s) : s[k] = m[k]
      BY <3>5, <3>6, <3>7, <1>8
    <3>9. m \in Seq(Characters)
      BY DEF Text
    <3>10. s = m
      BY <3>3, <3>6, <3>8, <3>9, SeqEqual
    <3>. QED  BY <3>2, <3>10
  <2>. QED  BY <2>6, <2>7, <1>2, <1>3
<1>. QED  BY <1>10, <1>11

LEMMA BlankConcat ==
  ASSUME NEW a \in Blank, NEW b \in Blank PROVE a \o b \in Blank
BY ConcatProperties DEF Blank

LEMMA TextConcat ==
  ASSUME NEW s \in Text, NEW t \in Text
  PROVE  /\ s \o t \in Text /\ Len(s \o t) = Len(s) + Len(t)
         /\ \A i \in 1 .. Len(s) + Len(t) : (s \o t)[i] = IF i <= Len(s) THEN s[i] ELSE t[i - Len(s)]
BY ConcatProperties DEF Text

LEMMA TextEmpty == /\ <<>> \in Text /\ <<>> \in Blank /\ Bare(<<>>)
                   /\ \A t \in Text : <<>> \o t = t /\ t \o <<>> = t
BY DEF Text, Blank, Bare

LEMMA OneText ==
  ASSUME NEW c \in Characters
  PROVE  <<c>> \in Text /\ Len(<<c>>) = 1 /\ <<c>>[1] = c /\ Tail(<<c>>) = <<>>
BY DEF Text

LEMMA TextAssoc ==
  ASSUME NEW s \in Text, NEW t \in Text, NEW u \in Text
  PROVE  (s \o t) \o u = s \o (t \o u)
BY ConcatAssociative DEF Text

LEMMA TextsAssoc == \A s, t, u \in Text : (s \o t) \o u = s \o (t \o u)
BY TextAssoc

LEMMA TrimmedBare == ASSUME NEW m \in Text, Bare(m) PROVE Trimmed(m) = m
<1>1. (<<>> \o m) \o <<>> = m
  BY TextEmpty
<1>2. Trimmed((<<>> \o m) \o <<>>) = m
  BY TextEmpty, TrimmedIs
<1>. QED  BY <1>1, <1>2

LEMMA TrimmedEmpty == Trimmed(<<>>) = <<>>
BY TextEmpty, TrimmedBare

\* Blanks around a text are nothing to it.
LEMMA TrimmedAmid ==
  ASSUME NEW a \in Blank, NEW b \in Blank, NEW t \in Text
  PROVE  Trimmed((a \o t) \o b) = Trimmed(t)
<1>1. PICK m \in Text : m = Trimmed(t) /\ Bare(m)
  BY TrimmedParts
<1>2. PICK c \in Blank, d \in Blank : t = (c \o m) \o d
  BY <1>1, TrimmedParts
<1>3. a \in Text /\ b \in Text /\ c \in Text /\ d \in Text
  BY BlankIsText
<1>4. PICK u \in Text : u = c \o m
  BY <1>3, TextConcat
<1>5. PICK v \in Text : v = a \o c
  BY <1>3, TextConcat
<1>6. PICK w \in Text : w = v \o m
  BY TextConcat
<1>7. a \o t = w \o d
  <2>1. (a \o u) \o d = a \o (u \o d)
    BY <1>3, TextsAssoc, SMTT(60)
  <2>2. (a \o c) \o m = a \o (c \o m)
    BY <1>3, TextsAssoc, SMTT(60)
  <2>. QED  BY <2>1, <2>2, <1>2, <1>4, <1>5, <1>6
<1>8. (w \o d) \o b = w \o (d \o b)
  BY <1>3, TextsAssoc, SMTT(60)
<1>9. v \in Blank /\ d \o b \in Blank
  BY <1>5, BlankConcat
<1>10. Trimmed((v \o m) \o (d \o b)) = m
  BY <1>1, <1>9, TrimmedIs
<1>. QED  BY <1>1, <1>6, <1>7, <1>8, <1>10

LEMMA TrimmedOnce == ASSUME NEW t \in Text PROVE Trimmed(Trimmed(t)) = Trimmed(t)
BY TrimmedParts, TrimmedBare

LEMMA FirstOf ==
  ASSUME NEW t \in Text, t # <<>>
  PROVE  Len(t) \in Nat \ {0} /\ 1 \in 1 .. Len(t) /\ t[1] \in Characters /\ Head(t) = t[1]
BY DEF Text

\* What begins with ink still begins with it.
LEMMA TrimmedInk ==
  ASSUME NEW t \in Text, t # <<>>, t[1] \notin Spaces
  PROVE  Trimmed(t) # <<>> /\ Trimmed(t)[1] = t[1]
<1>1. PICK m \in Text : m = Trimmed(t) /\ Bare(m)
  BY TrimmedParts
<1>2. PICK a \in Blank, b \in Blank : t = (a \o m) \o b
  BY <1>1, TrimmedParts
<1>3. a \in Text /\ b \in Text /\ Len(a) \in Nat /\ Len(b) \in Nat /\ Len(m) \in Nat
      /\ (\A k \in 1 .. Len(a) : a[k] \in Spaces) /\ (\A k \in 1 .. Len(b) : b[k] \in Spaces)
  <2>1. a \in Text /\ b \in Text
    BY BlankIsText
  <2>. QED  BY <2>1 DEF Text, Blank
<1>4. PICK u \in Text : u = a \o m
  BY <1>3, TextConcat
<1>5. Len(u) = Len(a) + Len(m)
      /\ \A k \in 1 .. (Len(a) + Len(m)) : u[k] = IF k <= Len(a) THEN a[k] ELSE m[k - Len(a)]
  BY <1>3, <1>4, TextConcat
<1>6. Len(t) = Len(u) + Len(b)
      /\ \A k \in 1 .. (Len(u) + Len(b)) : t[k] = IF k <= Len(u) THEN u[k] ELSE b[k - Len(u)]
  <2>1. t = u \o b
    BY <1>2, <1>4
  <2>. QED  BY <2>1, <1>3, TextConcat
<1>7. 1 \in 1 .. Len(t) /\ Len(t) \in Nat
  BY FirstOf
<1>8. Len(a) = 0
  <2>. SUFFICES ASSUME Len(a) # 0 PROVE FALSE
    OBVIOUS
  <2>1. 1 <= Len(a) /\ 1 \in 1 .. Len(a) /\ 1 <= Len(u) /\ 1 \in 1 .. (Len(a) + Len(m))
    BY <1>3, <1>5
  <2>2. t[1] = u[1] /\ u[1] = a[1]
    BY <2>1, <1>5, <1>6, <1>7
  <2>. QED  BY <2>1, <2>2, <1>3
<1>9. Len(m) # 0
  <2>. SUFFICES ASSUME Len(m) = 0 PROVE FALSE
    OBVIOUS
  <2>1. ~(1 <= Len(u)) /\ 1 - Len(u) = 1 /\ 1 \in 1 .. Len(b)
    BY <1>3, <1>5, <1>6, <1>7, <1>8
  <2>2. t[1] = b[1]
    BY <2>1, <1>6, <1>7
  <2>. QED  BY <2>1, <2>2, <1>3
<1>10. t[1] = m[1]
  <2>1. 1 <= Len(u) /\ ~(1 <= Len(a)) /\ 1 - Len(a) = 1 /\ 1 \in 1 .. (Len(a) + Len(m))
    BY <1>3, <1>5, <1>8, <1>9
  <2>. QED  BY <2>1, <1>5, <1>6, <1>7
<1>. QED  BY <1>1, <1>9, <1>10

LEMMA TrimmedStart ==
  ASSUME NEW t \in Text, Trimmed(t) # <<>>
  PROVE  t # <<>>
BY TrimmedEmpty

(* ---- what a draft is sent as ---------------------------------------------- *)

LEMMA Modes ==
  ASSUME NEW t
  PROVE  /\ InputMode(t) = "command" <=> StartsWith(t, "/")
         /\ InputMode(t) = "shell" <=> StartsWith(t, "!")
         /\ InputMode(t) = "message" <=> ~StartsWith(t, "/") /\ ~StartsWith(t, "!")
         /\ InputMode(t) \in {"command", "shell", "message"}
BY DEF InputMode, StartsWith

LEMMA StartsIs ==
  ASSUME NEW t \in Text, NEW c PROVE StartsWith(t, c) <=> t # <<>> /\ t[1] = c
BY FirstOf DEF StartsWith

LEMMA SignIs == /\ "/" \in Characters /\ "!" \in Characters /\ "/" \notin Markers /\ "!" \notin Markers
                /\ "/" \notin Spaces /\ "!" \notin Spaces
                /\ Spaces \cap Markers = {} /\ Spaces \subseteq Characters
                /\ Spaces \cap Letters = {} /\ "@" \notin Letters /\ "@" \notin Spaces
                /\ Letters \cap Markers = {}
BY DraftAssumption DEF Characters, Signs, Spaces

\* A text that begins with a symbol that is no marker: so does the expanded one.
LEMMA ExpandHead ==
  ASSUME NEW t \in Text, t # <<>>, t[1] \notin Markers
  PROVE  /\ Tail(t) \in Text /\ t = <<t[1]>> \o Tail(t)
         /\ ExpandPastes(t) = <<t[1]>> \o ExpandPastes(Tail(t))
         /\ ExpandPastes(t) # <<>> /\ ExpandPastes(t)[1] = t[1]
<1>1. Len(t) \in Nat \ {0} /\ 1 \in 1 .. Len(t) /\ t[1] \in Characters
  BY FirstOf
<1>2. PICK s \in Text : s = Tail(t)
  BY HeadTailProperties DEF Text
<1>3. PICK h \in Text : h = <<t[1]>> /\ Len(h) = 1 /\ h[1] = t[1]
  BY <1>1, OneText
<1>4. t = h \o s
  <2>1. t \in Seq(Characters) /\ Len(t) \in 1 .. Len(t) /\ 1 \in 1 .. Len(t)
    BY <1>1 DEF Text
  <2>2. SubSeq(t, 1, Len(t)) = <<t[1]>> \o SubSeq(t, 1 + 1, Len(t))
    BY <2>1, SubSeqRecursiveFirst
  <2>3. SubSeq(t, 1, Len(t)) = t
    BY <2>1, SubSeqFull
  <2>4. Tail(t) = SubSeq(t, 2, Len(t))
    BY <2>1, TailIsSubSeq
  <2>5. 1 + 1 = 2
    OBVIOUS
  <2>. QED  BY <2>2, <2>3, <2>4, <2>5, <1>2, <1>3
<1>5. ExpandPastes(h) = h
  <2>1. \A i \in 1 .. Len(h) : h[i] \notin Markers
    BY <1>3
  <2>. QED  BY <2>1, ExpandUnmarked
<1>6. ExpandPastes(t) = h \o ExpandPastes(s)
  BY <1>4, <1>5, ExpandConcat
<1>7. PICK e \in Text : e = ExpandPastes(s)
  BY ExpandType
<1>8. PICK w : w = h \o e
  OBVIOUS
<1>9. w # <<>> /\ w[1] = t[1]
  <2>1. Len(w) = 1 + Len(e) /\ Len(e) \in Nat
    BY <1>3, <1>8, TextConcat DEF Text
  <2>2. 1 \in 1 .. (Len(h) + Len(e)) /\ 1 <= Len(h)
    BY <2>1, <1>3
  <2>3. w[1] = h[1]
    BY <2>2, <1>8, TextConcat
  <2>4. Len(w) # 0
    BY <2>1
  <2>. QED  BY <2>3, <2>4, <1>3
<1>. QED  BY <1>2, <1>3, <1>4, <1>6, <1>7, <1>8, <1>9

\* What is sent of a text keeps the sign it begins with.
LEMMA SentSign ==
  ASSUME NEW t \in Text, NEW c \in {"/", "!"}, StartsWith(t, c)
  PROVE  StartsWith(Trimmed(ExpandPastes(t)), c)
<1>1. t # <<>> /\ t[1] = c /\ c \notin Markers /\ c \notin Spaces
  BY StartsIs, SignIs
<1>2. PICK e \in Text : e = ExpandPastes(t)
  BY ExpandType
<1>3. e # <<>> /\ e[1] = c
  BY <1>1, <1>2, ExpandHead
<1>4. Trimmed(e) \in Text /\ Trimmed(e) # <<>> /\ Trimmed(e)[1] = c
  BY <1>1, <1>3, TrimmedInk, TrimmedParts
<1>. QED  BY <1>2, <1>4, StartsIs

\* A shell line: what follows the sign is trimmed either way.
LEMMA ShellLine ==
  ASSUME NEW t \in Text, StartsWith(t, "!")
  PROVE  Trimmed(Tail(Trimmed(ExpandPastes(t)))) = Trimmed(ExpandPastes(Tail(t)))
<1>1. t # <<>> /\ t[1] = "!" /\ "!" \notin Markers /\ "!" \notin Spaces /\ "!" \in Characters
  BY StartsIs, SignIs
<1>2. Tail(t) \in Text /\ ExpandPastes(t) = <<"!">> \o ExpandPastes(Tail(t))
  BY <1>1, ExpandHead
<1>3. PICK s \in Text : s = ExpandPastes(Tail(t))
  BY <1>2, ExpandType
<1>4. PICK h \in Text : h = <<"!">> /\ Len(h) = 1 /\ h[1] = "!" /\ Tail(h) = <<>>
  BY <1>1, OneText
<1>5. PICK m \in Text : m = Trimmed(s) /\ Bare(m)
  BY TrimmedParts
<1>6. PICK a \in Blank, b \in Blank : s = (a \o m) \o b
  BY <1>5, TrimmedParts
<1>7. a \in Text /\ b \in Text
  BY BlankIsText
<1>8. PICK w \in Text : w = h \o s
  BY TextConcat
<1>9. CASE m = <<>>
  <2>1. s = a \o b
    BY <1>6, <1>7, <1>9, TextEmpty
  <2>2. s \in Blank
    BY <2>1, BlankConcat
  <2>3. Bare(h)
    BY <1>1, <1>4 DEF Bare
  <2>4. w = (<<>> \o h) \o s
    BY <1>8, TextEmpty
  <2>5. Trimmed(w) = h
    BY <2>2, <2>3, <2>4, TextEmpty, TrimmedIs
  <2>6. Tail(h) = <<>>
    BY <1>4
  <2>. QED  BY <2>5, <2>6, <1>2, <1>3, <1>4, <1>5, <1>8, <1>9, TrimmedEmpty
<1>10. CASE m # <<>>
  <2>1. PICK k \in Text : k = a \o m
    BY <1>7, TextConcat
  <2>2. PICK x \in Text : x = h \o k
    BY TextConcat
  <2>3. (h \o k) \o b = h \o (k \o b)
    BY <1>7, TextsAssoc, SMTT(60)
  <2>4. w = (<<>> \o x) \o b
    BY <2>1, <2>2, <2>3, <1>6, <1>8, TextEmpty
  <2>5. Len(k) = Len(a) + Len(m) /\ Len(a) \in Nat /\ Len(m) \in Nat \ {0}
        /\ \A i \in 1 .. (Len(a) + Len(m)) : k[i] = IF i <= Len(a) THEN a[i] ELSE m[i - Len(a)]
    BY <2>1, <1>7, <1>10, TextConcat DEF Text
  <2>6. k[Len(k)] = m[Len(m)]
    <3>1. Len(k) \in 1 .. (Len(a) + Len(m)) /\ ~(Len(k) <= Len(a)) /\ Len(k) - Len(a) = Len(m)
      BY <2>5
    <3>. QED  BY <3>1, <2>5
  <2>7. Len(x) = 1 + Len(k) /\ \A i \in 1 .. (1 + Len(k)) : x[i] = IF i <= 1 THEN h[i] ELSE k[i - 1]
    BY <2>2, <1>4, TextConcat
  <2>8. x[1] = "!" /\ x[Len(x)] = m[Len(m)]
    <3>1. 1 \in 1 .. (1 + Len(k)) /\ Len(x) \in 1 .. (1 + Len(k)) /\ ~(Len(x) <= 1) /\ Len(x) - 1 = Len(k)
      BY <2>5, <2>7
    <3>. QED  BY <3>1, <2>6, <2>7, <1>4
  <2>9. Bare(x)
    BY <2>8, <1>1, <1>5, <1>10 DEF Bare
  <2>10. Trimmed(w) = x
    BY <2>4, <2>9, TextEmpty, TrimmedIs
  <2>11. Tail(x) = k
    <3>1. x # <<>> /\ Len(x) \in Nat
      BY <2>5, <2>7
    <3>2. Tail(x) \in Seq(Characters) /\ Len(Tail(x)) = Len(x) - 1
          /\ \A i \in 1 .. Len(Tail(x)) : Tail(x)[i] = x[i + 1]
      BY <3>1, HeadTailProperties DEF Text
    <3>3. PICK y : y = Tail(x)
      OBVIOUS
    <3>4. Len(y) = Len(k) /\ Len(k) \in Nat
      BY <3>2, <3>3, <2>5, <2>7
    <3>5. \A i \in 1 .. Len(k) : y[i] = k[i]
      <4>. SUFFICES ASSUME NEW i \in 1 .. Len(k) PROVE y[i] = k[i]
        OBVIOUS
      <4>1. i + 1 \in 1 .. (1 + Len(k)) /\ ~(i + 1 <= 1) /\ (i + 1) - 1 = i
        BY <3>4
      <4>2. y[i] = x[i + 1]
        BY <3>2, <3>3, <3>4
      <4>. QED  BY <4>1, <4>2, <2>7
    <3>6. y \in Seq(Characters) /\ k \in Seq(Characters)
      BY <3>2, <3>3 DEF Text
    <3>. QED  BY <3>3, <3>4, <3>5, <3>6, SeqEqual
  <2>12. Trimmed(k) = m
    <3>1. k = (a \o m) \o <<>>
      BY <2>1, TextEmpty
    <3>. QED  BY <3>1, <1>5, TextEmpty, TrimmedIs
  <2>. QED  BY <2>10, <2>11, <2>12, <1>2, <1>3, <1>4, <1>5, <1>8
<1>. QED  BY <1>9, <1>10

\* A name ends at the first symbol that is no letter.
LEMMA WordIs ==
  ASSUME NEW t \in Text, NEW i \in 1 .. (Len(t) + 1), NEW k \in i .. (Len(t) + 1),
         \A j \in i .. (k - 1) : t[j] \in Letters,
         k = Len(t) + 1 \/ t[k] \notin Letters
  PROVE  WordAt(t, i) = SubSeq(t, i, k - 1)
<1>. DEFINE others == {j \in i .. Len(t) : t[j] \notin Letters} \cup {Len(t) + 1}
<1>1. Len(t) \in Nat
  BY DEF Text
<1>2. k \in others
  BY <1>1
<1>3. \A j \in others : j \in Int /\ k <= j
  <2>. SUFFICES ASSUME NEW j \in others PROVE j \in Int /\ k <= j
    OBVIOUS
  <2>1. j \in Int /\ i <= j /\ (j = Len(t) + 1 \/ t[j] \notin Letters)
    BY <1>1
  <2>2. j \notin i .. (k - 1) \/ j = Len(t) + 1
    BY <2>1
  <2>. QED  BY <2>1, <2>2, <1>1
<1>4. WordAt(t, i) = SubSeq(t, i, (CHOOSE j \in others : \A x \in others : j <= x) - 1)
  BY DEF WordAt
<1>. HIDE DEF others
<1>5. \A j \in others : (\A x \in others : j <= x) => j = k
  BY <1>2, <1>3, <1>1
<1>6. (CHOOSE j \in others : \A x \in others : j <= x) = k
  BY <1>2, <1>3, <1>5
<1>. QED  BY <1>4, <1>6

LEMMA WordEnds ==
  ASSUME NEW t \in Text, NEW i \in 1 .. (Len(t) + 1)
  PROVE  \E k \in i .. (Len(t) + 1) : /\ \A j \in i .. (k - 1) : t[j] \in Letters
                                      /\ k = Len(t) + 1 \/ t[k] \notin Letters
<1>. DEFINE others == {j \in i .. Len(t) : t[j] \notin Letters} \cup {Len(t) + 1}
<1>1. Len(t) \in Nat
  BY DEF Text
<1>2. others \subseteq Nat /\ others # {} /\ (\A j \in others : j \in i .. (Len(t) + 1))
  BY <1>1
<1>3. PICK k \in others : \A x \in others : k <= x
  <2>. HIDE DEF others
  <2>. QED  BY <1>2, LeastIn
<1>4. k \in i .. (Len(t) + 1) /\ (k = Len(t) + 1 \/ t[k] \notin Letters)
  BY <1>2
<1>5. ASSUME NEW j \in i .. (k - 1) PROVE t[j] \in Letters
  <2>. SUFFICES ASSUME t[j] \notin Letters PROVE FALSE
    OBVIOUS
  <2>1. j \in i .. Len(t) /\ j < k /\ j \in Int /\ k \in Int
    BY <1>1, <1>4
  <2>2. j \in others
    BY <2>1
  <2>3. k <= j
    <3>. HIDE DEF others
    <3>. QED  BY <2>2, <1>3
  <2>. QED  BY <2>1, <2>3
<1>. QED  BY <1>4, <1>5

LEMMA WordType ==
  ASSUME NEW t \in Text, NEW i \in 1 .. (Len(t) + 1) PROVE WordAt(t, i) \in Seq(Letters)
<1>1. PICK k \in i .. (Len(t) + 1) : /\ \A j \in i .. (k - 1) : t[j] \in Letters
                                     /\ k = Len(t) + 1 \/ t[k] \notin Letters
  BY WordEnds
<1>2. WordAt(t, i) = SubSeq(t, i, k - 1)
  BY <1>1, WordIs
<1>3. i \in Int /\ k - 1 \in Int
  BY DEF Text
<1>. QED  BY <1>1, <1>2, <1>3, SubSeqProperties

\* Blanks around a text name nobody.
LEMMA MentionedAmid ==
  ASSUME NEW a \in Blank, NEW b \in Blank, NEW m \in Text
  PROVE  Mentioned((a \o m) \o b) = Mentioned(m)
<1>1. a \in Text /\ b \in Text
  BY BlankIsText
<1>2. PICK u \in Text : u = a \o m
  BY <1>1, TextConcat
<1>3. PICK t \in Text : t = u \o b
  BY <1>1, TextConcat
<1>4. PICK la \in Nat : la = Len(a)
  BY DEF Text, Blank
<1>5. PICK lm \in Nat : lm = Len(m)
  BY DEF Text
<1>6. PICK lb \in Nat : lb = Len(b)
  BY DEF Text, Blank
<1>7. Len(u) = la + lm /\ \A k \in 1 .. (la + lm) : u[k] = IF k <= la THEN a[k] ELSE m[k - la]
  BY <1>1, <1>2, <1>4, <1>5, TextConcat
<1>8. Len(t) = (la + lm) + lb
      /\ \A k \in 1 .. ((la + lm) + lb) : t[k] = IF k <= la + lm THEN u[k] ELSE b[k - (la + lm)]
  <2>1. Len(t) = Len(u) + Len(b)
        /\ \A k \in 1 .. (Len(u) + Len(b)) : t[k] = IF k <= Len(u) THEN u[k] ELSE b[k - Len(u)]
    BY <1>1, <1>3, TextConcat
  <2>2. Len(u) = la + lm /\ Len(b) = lb
    BY <1>6, <1>7
  <2>. QED  BY <2>1, <2>2
<1>9. (\A k \in 1 .. la : a[k] \in Spaces) /\ (\A k \in 1 .. lb : b[k] \in Spaces)
  BY <1>4, <1>6 DEF Blank
<1>10. \A k \in 1 .. la : t[k] \in Spaces
  BY <1>7, <1>8, <1>9
<1>11. \A k \in 1 .. lm : t[la + k] = m[k]
  <2>. SUFFICES ASSUME NEW k \in 1 .. lm PROVE t[la + k] = m[k]
    OBVIOUS
  <2>1. la + k \in 1 .. ((la + lm) + lb) /\ la + k \in 1 .. (la + lm) /\ la + k <= la + lm
        /\ ~(la + k <= la) /\ (la + k) - la = k
    OBVIOUS
  <2>. QED  BY <2>1, <1>7, <1>8
<1>12. \A k \in 1 .. ((la + lm) + lb) : k > la + lm => t[k] \in Spaces
  <2>. SUFFICES ASSUME NEW k \in 1 .. ((la + lm) + lb), k > la + lm PROVE t[k] \in Spaces
    OBVIOUS
  <2>1. ~(k <= la + lm) /\ k - (la + lm) \in 1 .. lb
    OBVIOUS
  <2>. QED  BY <2>1, <1>8, <1>9
<1>13. \A k \in 1 .. Len(t) : t[k] = "@" => k - la \in 1 .. lm /\ m[k - la] = "@"
  <2>. SUFFICES ASSUME NEW k \in 1 .. Len(t), t[k] = "@" PROVE k - la \in 1 .. lm /\ m[k - la] = "@"
    OBVIOUS
  <2>1. t[k] \notin Spaces
    BY SignIs
  <2>2. k \in 1 .. ((la + lm) + lb) /\ ~(k <= la) /\ ~(k > la + lm)
    BY <2>1, <1>8, <1>10, <1>12
  <2>3. k - la \in 1 .. lm /\ la + (k - la) = k
    BY <2>2
  <2>. QED  BY <2>3, <1>11
<1>14. ASSUME NEW i \in 1 .. lm
       PROVE  WordAt(t, (la + i) + 1) = WordAt(m, i + 1)
  <2>1. i + 1 \in 1 .. (Len(m) + 1)
    BY <1>5
  <2>2. PICK k \in (i + 1) .. (Len(m) + 1) : /\ \A j \in (i + 1) .. (k - 1) : m[j] \in Letters
                                             /\ k = Len(m) + 1 \/ m[k] \notin Letters
    BY <2>1, WordEnds
  <2>3. WordAt(m, i + 1) = SubSeq(m, i + 1, k - 1)
    BY <2>1, <2>2, WordIs
  <2>4. k \in Int /\ k <= lm + 1 /\ i + 1 <= k
    BY <1>5, <2>2
  <2>5. (la + i) + 1 \in 1 .. (Len(t) + 1) /\ la + k \in ((la + i) + 1) .. (Len(t) + 1)
    BY <1>8, <2>4
  <2>6. ASSUME NEW j \in ((la + i) + 1) .. ((la + k) - 1) PROVE t[j] \in Letters
    <3>1. j - la \in (i + 1) .. (k - 1) /\ j - la \in 1 .. lm /\ la + (j - la) = j
      BY <2>4
    <3>. QED  BY <3>1, <2>2, <1>11
  <2>7. la + k = Len(t) + 1 \/ t[la + k] \notin Letters
    <3>1. CASE k <= lm
      <4>1. k \in 1 .. lm /\ k # Len(m) + 1
        BY <3>1, <2>4, <1>5
      <4>. QED  BY <4>1, <2>2, <1>11
    <3>2. CASE k = lm + 1 /\ lb = 0
      BY <3>2, <1>8
    <3>3. CASE k = lm + 1 /\ lb # 0
      <4>1. la + k \in 1 .. ((la + lm) + lb) /\ la + k > la + lm
        BY <3>3
      <4>2. t[la + k] \in Spaces
        BY <4>1, <1>12
      <4>. QED  BY <4>2, SignIs
    <3>. QED  BY <3>1, <3>2, <3>3, <2>4
  <2>8. WordAt(t, (la + i) + 1) = SubSeq(t, (la + i) + 1, (la + k) - 1)
    BY <2>5, <2>6, <2>7, WordIs
  <2>9. SubSeq(t, (la + i) + 1, (la + k) - 1) = SubSeq(m, i + 1, k - 1)
    <3>1. PICK x : x = SubSeq(t, (la + i) + 1, (la + k) - 1)
      OBVIOUS
    <3>2. PICK y : y = SubSeq(m, i + 1, k - 1)
      OBVIOUS
    <3>3. (la + i) + 1 \in Int /\ (la + k) - 1 \in Int /\ i + 1 \in Int /\ k - 1 \in Int
      BY <2>4
    <3>4. \A j \in (i + 1) .. (k - 1) : m[j] \in Letters
      BY <2>2
    <3>5. x \in Seq(Letters)
      BY <3>1, <3>3, <2>6, SubSeqProperties
    <3>6. y \in Seq(Letters)
      BY <3>2, <3>3, <3>4, SubSeqProperties
    <3>7. Len(x) = (IF (la + i) + 1 <= (la + k) - 1 THEN ((la + k) - 1) - ((la + i) + 1) + 1 ELSE 0)
      BY <3>1, <3>3, <2>6, SubSeqProperties
    <3>8. Len(y) = (IF i + 1 <= k - 1 THEN (k - 1) - (i + 1) + 1 ELSE 0)
      BY <3>2, <3>3, <3>4, SubSeqProperties
    <3>9. \A j \in 1 .. (((la + k) - 1) - ((la + i) + 1) + 1) : x[j] = t[((la + i) + 1) + j - 1]
      BY <3>1, <3>3, <2>6, SubSeqProperties
    <3>10. \A j \in 1 .. ((k - 1) - (i + 1) + 1) : y[j] = m[(i + 1) + j - 1]
      BY <3>2, <3>3, <3>4, SubSeqProperties
    <3>11. Len(x) = Len(y)
      BY <3>7, <3>8, <2>4
    <3>12. ASSUME NEW j \in 1 .. Len(x) PROVE x[j] = y[j]
      <4>1. j \in 1 .. (((la + k) - 1) - ((la + i) + 1) + 1) /\ j \in 1 .. ((k - 1) - (i + 1) + 1)
        BY <3>7, <2>4
      <4>2. x[j] = t[((la + i) + 1) + j - 1] /\ y[j] = m[(i + 1) + j - 1]
        BY <4>1, <3>9, <3>10
      <4>3. ((la + i) + 1) + j - 1 = la + ((i + 1) + j - 1) /\ (i + 1) + j - 1 \in 1 .. lm
        BY <4>1, <2>4
      <4>. QED  BY <4>2, <4>3, <1>11
    <3>. QED  BY <3>1, <3>2, <3>5, <3>6, <3>11, <3>12, SeqEqual
  <2>. QED  BY <2>3, <2>8, <2>9
<1>15. DOMAIN t = 1 .. Len(t) /\ DOMAIN m = 1 .. lm
  BY <1>5 DEF Text
<1>. DEFINE at(x) == {j \in DOMAIN x : x[j] = "@"}
<1>16. ASSUME NEW w, w \in {WordAt(t, i + 1) : i \in at(t)}
       PROVE  w \in {WordAt(m, i + 1) : i \in at(m)}
  <2>1. PICK i \in at(t) : w = WordAt(t, i + 1)
    BY <1>16
  <2>2. i \in 1 .. Len(t) /\ t[i] = "@"
    BY <1>15
  <2>3. i - la \in 1 .. lm /\ m[i - la] = "@" /\ la + (i - la) = i
    BY <2>2, <1>13
  <2>4. WordAt(t, i + 1) = WordAt(m, (i - la) + 1)
    BY <2>3, <1>14
  <2>5. i - la \in at(m)
    BY <2>3, <1>15
  <2>. QED  BY <2>1, <2>4, <2>5
<1>17. ASSUME NEW w, w \in {WordAt(m, i + 1) : i \in at(m)}
       PROVE  w \in {WordAt(t, i + 1) : i \in at(t)}
  <2>1. PICK i \in at(m) : w = WordAt(m, i + 1)
    BY <1>17
  <2>2. i \in 1 .. lm /\ m[i] = "@"
    BY <1>15
  <2>3. la + i \in 1 .. Len(t) /\ t[la + i] = "@"
    BY <2>2, <1>8, <1>11
  <2>4. WordAt(t, (la + i) + 1) = WordAt(m, i + 1)
    BY <2>2, <1>14
  <2>5. la + i \in at(t)
    BY <2>3, <1>15
  <2>. QED  BY <2>1, <2>4, <2>5
<1>18. Mentioned(t) = {WordAt(t, i + 1) : i \in at(t)} \ {<<>>}
       /\ Mentioned(m) = {WordAt(m, i + 1) : i \in at(m)} \ {<<>>}
  BY DEF Mentioned
<1>. HIDE DEF at
<1>19. {WordAt(t, i + 1) : i \in at(t)} = {WordAt(m, i + 1) : i \in at(m)}
  BY <1>16, <1>17
<1>. QED  BY <1>2, <1>3, <1>18, <1>19

LEMMA MentionedTrimmed ==
  ASSUME NEW t \in Text PROVE Mentioned(Trimmed(t)) = Mentioned(t)
<1>1. PICK a \in Blank, b \in Blank : t = (a \o Trimmed(t)) \o b
  BY TrimmedParts
<1>2. Mentioned((a \o Trimmed(t)) \o b) = Mentioned(Trimmed(t))
  BY TrimmedParts, MentionedAmid
<1>. QED  BY <1>1, <1>2

LEMMA NobodyMentioned == Mentioned(<<>>) = {}
BY DEF Mentioned

\* A text of blanks expands to itself.
LEMMA BlankLine ==
  ASSUME NEW t \in Text, Trimmed(t) = <<>>
  PROVE  ExpandPastes(t) = t
<1>1. PICK a \in Blank, b \in Blank : t = (a \o <<>>) \o b
  BY TrimmedParts
<1>2. a \in Text /\ b \in Text
  BY BlankIsText
<1>3. t = a \o b
  BY <1>1, <1>2, TextEmpty
<1>4. t \in Blank
  BY <1>3, BlankConcat
<1>5. \A i \in 1 .. Len(t) : t[i] \in Spaces
  BY <1>4 DEF Blank
<1>6. \A i \in 1 .. Len(t) : t[i] \notin Markers
  BY <1>5, SignIs
<1>. QED  BY <1>6, ExpandUnmarked

LEMMA BlankSame ==
  ASSUME NEW b \in Blank PROVE ExpandPastes(b) = b
<1>1. b \in Text
  BY BlankIsText
<1>2. \A i \in 1 .. Len(b) : b[i] \notin Markers
  BY SignIs DEF Blank
<1>. QED  BY <1>1, <1>2, ExpandUnmarked

\* A line that says itself what it is sent as still does when it is trimmed.
LEMMA PlainTrimmed ==
  ASSUME NEW t \in Text, InputMode(Trimmed(ExpandPastes(t))) = InputMode(t)
  PROVE  /\ Trimmed(ExpandPastes(Trimmed(t))) = Trimmed(ExpandPastes(t))
         /\ InputMode(Trimmed(ExpandPastes(Trimmed(t)))) = InputMode(Trimmed(t))
<1>1. PICK m \in Text : m = Trimmed(t)
  BY TrimmedParts
<1>2. PICK a \in Blank, b \in Blank : t = (a \o m) \o b
  BY <1>1, TrimmedParts
<1>3. a \in Text /\ b \in Text
  BY BlankIsText
<1>4. PICK e \in Text : e = ExpandPastes(m)
  BY ExpandType
<1>5. ExpandPastes(t) = (a \o e) \o b
  <2>1. PICK u \in Text : u = a \o m
    BY <1>3, TextConcat
  <2>2. ExpandPastes(u) = a \o e
    <3>1. ExpandPastes(a \o m) = ExpandPastes(a) \o ExpandPastes(m)
      BY <1>3, ExpandConcat
    <3>2. ExpandPastes(a) = a
      BY BlankSame
    <3>. QED  BY <3>1, <3>2, <2>1, <1>4
  <2>3. ExpandPastes(u \o b) = ExpandPastes(u) \o b
    BY <1>3, ExpandConcat, BlankSame
  <2>. QED  BY <2>1, <2>2, <2>3, <1>2
<1>6. Trimmed(ExpandPastes(t)) = Trimmed(e)
  BY <1>5, TrimmedAmid
<1>7. PICK s \in Text : s = Trimmed(e)
  BY TrimmedParts
<1>8. \A c \in {"/", "!"} : StartsWith(m, c) => StartsWith(s, c)
  BY <1>4, <1>7, SentSign
<1>9. \A c \in {"/", "!"} : StartsWith(t, c) => StartsWith(m, c)
  <2>. SUFFICES ASSUME NEW c \in {"/", "!"}, StartsWith(t, c) PROVE StartsWith(m, c)
    OBVIOUS
  <2>1. t # <<>> /\ t[1] = c /\ c \notin Spaces
    BY StartsIs, SignIs
  <2>2. m # <<>> /\ m[1] = c
    BY <2>1, <1>1, TrimmedInk
  <2>. QED  BY <2>2, StartsIs
<1>10. InputMode(s) = InputMode(t)
  BY <1>6, <1>7
<1>11. \A c \in {"/", "!"} : StartsWith(s, c) => StartsWith(t, c)
  BY <1>10, Modes
<1>12. InputMode(s) = InputMode(m)
  <2>1. \A c \in {"/", "!"} : StartsWith(s, c) <=> StartsWith(m, c)
    BY <1>8, <1>9, <1>11
  <2>2. (StartsWith(s, "/") <=> StartsWith(m, "/")) /\ (StartsWith(s, "!") <=> StartsWith(m, "!"))
    BY <2>1
  <2>. QED  BY <2>2, Modes
<1>. QED  BY <1>1, <1>4, <1>6, <1>7, <1>12

\* What the server does with the names in a line is what a client shows of them.
LEMMA RoutingShown ==
  ASSUME NEW t \in Text, NEW who,
         InputMode(Trimmed(ExpandPastes(t))) = "message"
  PROVE  /\ InputMode(ExpandPastes(t)) = "message"
         /\ Routed(Trimmed(ExpandPastes(t)), who)
            = (IF Trimmed(t) # <<>> THEN PreviewRouting(ExpandPastes(t), who) ELSE NoPreview)
<1>1. PICK e \in Text : e = ExpandPastes(t)
  BY ExpandType
<1>2. PICK line \in Text : line = Trimmed(e)
  BY TrimmedParts
<1>3. PICK named : named = Mentioned(line)
  OBVIOUS
<1>4. Mentioned(e) = named
  BY <1>2, <1>3, MentionedTrimmed
<1>5. InputMode(e) = "message"
  <2>1. \A c \in {"/", "!"} : ~StartsWith(e, c)
    <3>. SUFFICES ASSUME NEW c \in {"/", "!"}, StartsWith(e, c) PROVE FALSE
      OBVIOUS
    <3>1. e # <<>> /\ e[1] = c /\ c \notin Spaces
      BY StartsIs, SignIs
    <3>2. line # <<>> /\ line[1] = c
      BY <3>1, <1>2, TrimmedInk
    <3>3. StartsWith(line, c)
      BY <3>2, StartsIs
    <3>4. InputMode(line) = "message"
      BY <1>1, <1>2
    <3>. QED  BY <3>3, <3>4, Modes
  <2>. QED  BY <2>1, Modes
<1>6. CASE Trimmed(t) = <<>>
  <2>1. e = t
    BY <1>1, <1>6, BlankLine
  <2>2. named = {}
    BY <2>1, <1>2, <1>3, <1>6, NobodyMentioned
  <2>3. Unnamed(line)
    BY <2>2, <1>3 DEF Unnamed
  <2>. QED  BY <2>3, <1>1, <1>2, <1>5, <1>6 DEF Routed
<1>7. CASE Trimmed(t) # <<>>
  <2>1. PreviewRouting(e, who) = IF All \in named THEN [to |-> who, dropped |-> {}]
                                 ELSE [to |-> named \cap who, dropped |-> named \ who]
    BY <1>4 DEF PreviewRouting
  <2>2. ResolveTargets(line, who) = IF All \in named THEN who ELSE named \cap who
    BY <1>3 DEF ResolveTargets
  <2>3. Unnamed(line) <=> named = {}
    BY <1>3 DEF Unnamed
  <2>4. (IF named = {} THEN NoPreview
         ELSE [to |-> IF All \in named THEN who ELSE named \cap who,
               dropped |-> IF All \in named THEN {} ELSE named \ who])
        = IF All \in named THEN [to |-> who, dropped |-> {}]
          ELSE [to |-> named \cap who, dropped |-> named \ who]
    <3>1. CASE named = {}
      BY <3>1 DEF NoPreview
    <3>2. CASE named # {}
      BY <3>2
    <3>. QED  BY <3>1, <3>2
  <2>5. Routed(line, who) = PreviewRouting(e, who)
    BY <2>1, <2>2, <2>3, <2>4, <1>3 DEF Routed
  <2>. QED  BY <2>5, <1>1, <1>2, <1>5, <1>7
<1>. QED  BY <1>6, <1>7

(* ---- the input of the pi-tui client --------------------------------------- *)

PromptTypes ==
  /\ text \in Text /\ here \in [Strip -> SUBSET Handles] /\ roomId \in Strip /\ swapTo \in Seq(Strip)
  /\ options \in [asked : BOOLEAN, at : 1 .. Options, dismissed : BOOLEAN]
  /\ share \in [open : BOOLEAN, of : Strip]

\* The prompt to share stands over the room it is of, and no question is under it.
ShareHome == share.open => share.of = roomId /\ ~options.asked

PromptInv == PromptTypes /\ Said(text) /\ draftTargets = OnChange(text) /\ ShareHome /\ PromptTells

LEMMA SaidEmpty == Said(<<>>) /\ OnChange(<<>>) = NoPreview
<1>1. Said(<<>>)
  BY ExpandEmpty, TrimmedEmpty DEF Said
<1>2. OnChange(<<>>) = NoPreview
  BY TrimmedEmpty DEF OnChange
<1>. QED  BY <1>1, <1>2

LEMMA InitPrompt == PromptInit => PromptInv
<1>. SUFFICES ASSUME PromptInit PROVE PromptInv
  OBVIOUS
<1>1. PromptTypes
  <2>1. 1 \in 1 .. Options
    BY DraftAssumption
  <2>. QED  BY <2>1, TextEmpty, PromptAssumption DEF PromptInit, PromptTypes, NoShare
<1>2. Said(text) /\ draftTargets = OnChange(text)
  BY SaidEmpty DEF PromptInit
<1>3. ShareHome /\ PromptTells
  BY DEF PromptInit, ShareHome, PromptTells, DoesAsShown, CaptureHome, NoShare
<1>. QED  BY <1>1, <1>2, <1>3 DEF PromptInv

\* What is on top decides what a key means.
LEMMA PromiseOf ==
  /\ share.open => Promise = [Unsent EXCEPT !.kind = "share"]
  /\ ~share.open /\ PickerShown => Promise = [Unsent EXCEPT !.kind = "answer", !.what = <<options.at>>]
  /\ ~share.open /\ ~PickerShown /\ InputMode(text) = "command"
       => Promise = [Unsent EXCEPT !.kind = "command", !.what = Tail(Trimmed(ExpandPastes(text)))]
  /\ ~share.open /\ ~PickerShown /\ InputMode(text) = "shell"
       => Promise = [Unsent EXCEPT !.kind = "shell", !.what = Trimmed(ExpandPastes(Tail(text)))]
  /\ ~share.open /\ ~PickerShown /\ InputMode(text) = "message"
       => Promise = [kind |-> "message", what |-> Trimmed(ExpandPastes(text)),
                     preview |-> draftTargets, images |-> staged]
BY DEF Promise

\* A line sent is what the border and the preview said.
LEMMA SubmitShown ==
  ASSUME PromptInv, ~share.open, ~PickerShown
  PROVE  LET sub == ClassifySubmit(ExpandPastes(text)) IN
         (IF sub.kind \in {"empty", "message"} THEN Sent(sub.what) ELSE sub) = Promise
<1>1. PICK line \in Text : line = Trimmed(ExpandPastes(text))
  BY ExpandType, TrimmedParts DEF PromptInv, PromptTypes
<1>2. PICK sub : sub = ClassifySubmit(ExpandPastes(text))
  OBVIOUS
<1>3. text \in Text /\ InputMode(line) = InputMode(text) /\ draftTargets = OnChange(text)
  BY <1>1 DEF PromptInv, PromptTypes, Said
<1>4. (InputMode(line) = "command" <=> StartsWith(line, "/"))
      /\ (InputMode(line) = "shell" <=> StartsWith(line, "!"))
      /\ InputMode(line) \in {"command", "shell", "message"}
      /\ (StartsWith(line, "/") => line # <<>>) /\ (StartsWith(line, "!") => line # <<>>)
      /\ ~(StartsWith(line, "/") /\ StartsWith(line, "!"))
  BY Modes DEF StartsWith
<1>5. CASE InputMode(line) = "command"
  <2>1. sub = [Unsent EXCEPT !.kind = "command", !.what = Tail(line)]
    BY <1>1, <1>2, <1>4, <1>5 DEF ClassifySubmit
  <2>2. Promise = sub
    BY <2>1, <1>1, <1>3, <1>5, PromiseOf
  <2>3. sub.kind = "command"
    BY <2>1 DEF Unsent
  <2>. QED  BY <1>2, <2>2, <2>3
<1>6. CASE InputMode(line) = "shell"
  <2>1. sub = [Unsent EXCEPT !.kind = "shell", !.what = Trimmed(Tail(line))]
    BY <1>1, <1>2, <1>4, <1>6 DEF ClassifySubmit
  <2>2. StartsWith(text, "!")
    BY <1>3, <1>6, Modes
  <2>3. Trimmed(Tail(line)) = Trimmed(ExpandPastes(Tail(text)))
    BY <2>2, <1>1, <1>3, ShellLine
  <2>4. Promise = sub
    BY <2>1, <2>3, <1>3, <1>6, PromiseOf
  <2>5. sub.kind = "shell"
    BY <2>1 DEF Unsent
  <2>. QED  BY <1>2, <2>4, <2>5
<1>7. CASE InputMode(line) = "message"
  <2>1. sub.kind \in {"empty", "message"} /\ sub.what = line
    <3>1. CASE line = <<>>
      <4>1. sub = [Unsent EXCEPT !.kind = "empty"]
        BY <1>1, <1>2, <1>4, <3>1 DEF ClassifySubmit
      <4>. QED  BY <4>1, <3>1 DEF Unsent
    <3>2. CASE line # <<>>
      <4>1. sub = [Unsent EXCEPT !.kind = "message", !.what = line]
        BY <1>1, <1>2, <1>4, <1>7, <3>2 DEF ClassifySubmit
      <4>. QED  BY <4>1 DEF Unsent
    <3>. QED  BY <3>1, <3>2
  <2>2. Sent(line).preview = OnChange(text)
    <3>1. InputMode(ExpandPastes(text)) = "message"
          /\ Routed(line, here[roomId])
             = (IF Trimmed(text) # <<>> THEN PreviewRouting(ExpandPastes(text), here[roomId]) ELSE NoPreview)
      BY <1>1, <1>3, <1>7, RoutingShown
    <3>. QED  BY <3>1 DEF Sent, OnChange
  <2>3. Sent(line) = [kind |-> "message", what |-> line, images |-> staged, preview |-> Sent(line).preview]
    BY DEF Sent
  <2>4. Promise = [kind |-> "message", what |-> line, preview |-> draftTargets, images |-> staged]
    BY <1>1, <1>3, <1>7, PromiseOf
  <2>5. Sent(line) = Promise
    BY <2>2, <2>3, <2>4, <1>3
  <2>. QED  BY <1>2, <2>1, <2>5
<1>. QED  BY <1>4, <1>5, <1>6, <1>7

LEMMA QuietTells == ASSUME PromptTells, Quietly, posted' = posted PROVE PromptTells'
BY DEF PromptTells, DoesAsShown, CaptureHome, Quietly

LEMMA ChangesKeeps ==
  ASSUME PromptInv, ~Veiled, NEW t \in Text, Changes(t) PROVE PromptInv'
<1>1. PromptTypes'
  BY DEF PromptInv, PromptTypes, Changes
<1>2. Said(text)'
  BY DEF Changes, Said
<1>3. (draftTargets = OnChange(text))'
  BY DEF Changes, OnChange
<1>4. ShareHome'
  BY DEF PromptInv, ShareHome, Changes
<1>5. PromptTells'
  BY QuietTells DEF PromptInv, Changes
<1>. QED  BY <1>1, <1>2, <1>3, <1>4, <1>5 DEF PromptInv

LEMMA WritesKeeps ==
  ASSUME PromptInv, ~Veiled, NEW symbol \in Characters, Writes(symbol) \/ Unwrites(symbol)
  PROVE  PromptInv'
<1>1. text \in Text
  BY DEF PromptInv, PromptTypes
<1>2. CASE Writes(symbol)
  <2>1. Append(text, symbol) \in Text
    BY <1>1 DEF Text
  <2>. QED  BY <1>2, <2>1, ChangesKeeps DEF Writes
<1>3. CASE Unwrites(symbol)
  <2>1. Front(text) \in Text
    BY <1>1, <1>3 DEF Text, Front, Unwrites
  <2>. QED  BY <1>3, <2>1, ChangesKeeps DEF Unwrites
<1>. QED  BY <1>2, <1>3

LEMMA NameIsText == ASSUME NEW w \in Seq(Letters) PROVE w \in Text
<1>1. w \in [1 .. Len(w) -> Characters] /\ Len(w) \in Nat
  BY DEF Characters
<1>. QED  BY <1>1 DEF Text

LEMMA CompletesKeeps ==
  ASSUME PromptInv, ~Veiled, CompletesMention PROVE PromptInv'
<1>1. PICK i \in MentionStarts :
        \E name \in MentionItems(SubSeq(text, i + 1, Len(text))) :
          ~PickerShown /\ Changes(SubSeq(text, 1, i) \o name \o <<" ">>)
  BY DEF CompletesMention
<1>2. PICK name \in MentionItems(SubSeq(text, i + 1, Len(text))) :
          Changes(SubSeq(text, 1, i) \o name \o <<" ">>)
  BY <1>1
<1>3. text \in Text /\ here[roomId] \subseteq Handles
  BY DEF PromptInv, PromptTypes
<1>4. i \in 1 .. Len(text)
  BY <1>3 DEF MentionStarts, Text
<1>5. SubSeq(text, 1, i) \in Text
  BY <1>3, <1>4 DEF Text
<1>6. name \in Text
  <2>1. name \in Seq(Letters)
    BY <1>2, <1>3, DraftAssumption DEF MentionItems
  <2>. QED  BY <2>1, NameIsText
<1>7. " " \in Characters
  BY DEF Characters, Signs, Spaces
<1>8. SubSeq(text, 1, i) \o name \o <<" ">> \in Text
  BY <1>5, <1>6, <1>7, TextConcat, OneText
<1>. QED  BY <1>2, <1>8, ChangesKeeps

LEMMA OnSubmitKeeps == ASSUME PromptInv, Undisturbed, OnSubmit PROVE PromptInv'
<1>. DEFINE sub == ClassifySubmit(ExpandPastes(text))
<1>1. ~share.open /\ ~PickerShown /\ text' = <<>> /\ draftTargets' = NoPreview /\ RunShell(sub)
      /\ (IF sub.kind \in {"empty", "message"} THEN Does(Sent(sub.what)) ELSE Does(sub))
      /\ UNCHANGED <<clip, roomId, swapTo, here, options, posted, happens>>
  BY DEF OnSubmit
<1>2. (IF sub.kind \in {"empty", "message"} THEN Sent(sub.what) ELSE sub) = Promise
  BY <1>1, SubmitShown
<1>. HIDE DEF sub
<1>3. promptDid' = Promise /\ promptMeant' = Promise
  BY <1>1, <1>2 DEF Does
<1>4. share' = share \/ (share' = [open |-> TRUE, of |-> roomId] /\ ~options.asked)
  BY <1>1 DEF RunShell
<1>5. PromptTypes'
  <2>1. text' \in Text
    BY <1>1, TextEmpty
  <2>2. share' \in [open : BOOLEAN, of : Strip]
    <3>1. share \in [open : BOOLEAN, of : Strip] /\ roomId \in Strip
      BY DEF PromptInv, PromptTypes
    <3>2. CASE share' = share
      BY <3>1, <3>2
    <3>3. CASE share' = [open |-> TRUE, of |-> roomId]
      BY ONLY <3>1, <3>3
    <3>. QED  BY <3>2, <3>3, <1>4
  <2>. QED  BY <1>1, <2>1, <2>2 DEF PromptInv, PromptTypes
<1>6. Said(text)' /\ (draftTargets = OnChange(text))'
  <2>1. Said(text)'
    BY <1>1, SaidEmpty DEF Said
  <2>2. (draftTargets = OnChange(text))'
    BY <1>1, TrimmedEmpty DEF OnChange
  <2>. QED  BY <2>1, <2>2
<1>7. ShareHome'
  BY <1>1, <1>4 DEF PromptInv, ShareHome
<1>8. PromptTells'
  BY <1>1, <1>3 DEF PromptInv, PromptTells, DoesAsShown, CaptureHome
<1>. QED  BY <1>5, <1>6, <1>7, <1>8 DEF PromptInv

\* A step that leaves the text, its preview and the room alone.
LEMMA AsideKeeps ==
  ASSUME PromptInv, UNCHANGED <<text, draftTargets, roomId, here>>,
         options' \in [asked : BOOLEAN, at : 1 .. Options, dismissed : BOOLEAN],
         share' \in [open : BOOLEAN, of : Strip], swapTo' \in Seq(Strip),
         ShareHome', PromptTells'
  PROVE  PromptInv'
<1>1. PromptTypes'
  BY DEF PromptInv, PromptTypes
<1>2. Said(text)' /\ (draftTargets = OnChange(text))'
  BY DEF PromptInv, Said, OnChange
<1>. QED  BY <1>1, <1>2 DEF PromptInv

LEMMA MovedType ==
  ASSUME NEW at \in 1 .. Options, NEW step \in {1, -1} PROVE Moved(at, step) \in 1 .. Options
<1>1. PICK k \in Int : k = at - 1 + step + Options
  BY DraftAssumption
<1>2. Options \in Int /\ Options > 0
  BY DraftAssumption
<1>3. k % Options \in 0 .. (Options - 1)
  BY ONLY <1>2, k \in Int
<1>4. PICK r : r = k % Options
  OBVIOUS
<1>5. Moved(at, step) = r + 1
  BY <1>1, <1>4 DEF Moved
<1>. QED  BY <1>2, <1>3, <1>4, <1>5

LEMMA PickerKeeps ==
  ASSUME PromptInv, PicksOption \/ (\E step \in {1, -1} : MovesOption(step)) \/ HidesOptions
  PROVE  PromptInv'
<1>1. options \in [asked : BOOLEAN, at : 1 .. Options, dismissed : BOOLEAN]
      /\ share \in [open : BOOLEAN, of : Strip] /\ swapTo \in Seq(Strip) /\ ShareHome /\ PromptTells
  BY DEF PromptInv, PromptTypes
<1>2. CASE PicksOption
  <2>1. ~share.open
    BY <1>1, <1>2 DEF PicksOption, PickerShown, PickerVisible, ShareHome
  <2>2. promptDid' = promptMeant' /\ posted' = posted
    BY <2>1, <1>2, PromiseOf DEF PicksOption, Does
  <2>3. PromptTells'
    BY <2>2, <1>1 DEF PromptTells, DoesAsShown, CaptureHome
  <2>4. ShareHome'
    BY <1>1, <1>2 DEF PicksOption, ShareHome
  <2>. QED  BY <1>1, <1>2, <2>3, <2>4, AsideKeeps DEF PicksOption
<1>3. ASSUME NEW step \in {1, -1}, MovesOption(step) PROVE PromptInv'
  <2>1. Moved(options.at, step) \in 1 .. Options
    BY <1>1, MovedType
  <2>2. options' \in [asked : BOOLEAN, at : 1 .. Options, dismissed : BOOLEAN]
        /\ options'.asked = options.asked
    BY <2>1, <1>1, <1>3 DEF MovesOption
  <2>3. ShareHome' /\ PromptTells'
    BY <2>2, <1>1, <1>3, QuietTells DEF MovesOption, ShareHome
  <2>. QED  BY <1>1, <1>3, <2>2, <2>3, AsideKeeps DEF MovesOption
<1>4. CASE HidesOptions
  <2>1. options' \in [asked : BOOLEAN, at : 1 .. Options, dismissed : BOOLEAN]
        /\ options'.asked = options.asked
    BY <1>1, <1>4 DEF HidesOptions
  <2>2. ShareHome' /\ PromptTells'
    BY <2>1, <1>1, <1>4, QuietTells DEF HidesOptions, ShareHome
  <2>. QED  BY <1>1, <1>4, <2>1, <2>2, AsideKeeps DEF HidesOptions
<1>. QED  BY <1>2, <1>3, <1>4

LEMMA ClearsKeeps ==
  ASSUME PromptInv, ClearsStaged \/ ClearsDraft PROVE PromptInv'
<1>1. options \in [asked : BOOLEAN, at : 1 .. Options, dismissed : BOOLEAN]
      /\ share \in [open : BOOLEAN, of : Strip] /\ swapTo \in Seq(Strip) /\ ShareHome /\ PromptTells
  BY DEF PromptInv, PromptTypes
<1>2. CASE ClearsStaged
  <2>1. ShareHome' /\ PromptTells'
    BY <1>1, <1>2, QuietTells DEF ClearsStaged, ShareHome
  <2>. QED  BY <1>1, <1>2, <2>1, AsideKeeps DEF ClearsStaged
<1>3. CASE ClearsDraft
  <2>1. PromptTypes'
    BY <1>3, TextEmpty DEF PromptInv, PromptTypes, ClearsDraft
  <2>2. Said(text)'
    BY <1>3, SaidEmpty DEF Said, ClearsDraft
  <2>3. (draftTargets = OnChange(text))'
    BY <1>3, TrimmedEmpty DEF OnChange, ClearsDraft
  <2>4. ShareHome' /\ PromptTells'
    BY <1>1, <1>3, QuietTells DEF ClearsDraft, ShareHome
  <2>. QED  BY <2>1, <2>2, <2>3, <2>4 DEF PromptInv
<1>. QED  BY <1>2, <1>3

LEMMA AnswersShareKeeps ==
  ASSUME PromptInv, NEW sends \in BOOLEAN, AnswersShare(sends) PROVE PromptInv'
<1>1. options \in [asked : BOOLEAN, at : 1 .. Options, dismissed : BOOLEAN]
      /\ share \in [open : BOOLEAN, of : Strip] /\ swapTo \in Seq(Strip) /\ ShareHome /\ PromptTells
  BY DEF PromptInv, PromptTypes
<1>2. share' \in [open : BOOLEAN, of : Strip] /\ ShareHome'
  BY PromptAssumption DEF AnswersShare, NoShare, ShareHome
<1>3. share.open /\ share.of = roomId
  BY <1>1 DEF AnswersShare, ShareHome
<1>4. \A p \in posted' : p.of = p.to
  BY <1>1, <1>3 DEF AnswersShare, PromptTells, CaptureHome
<1>5. promptDid' = promptMeant'
  BY <1>3, PromiseOf DEF AnswersShare
<1>6. PromptTells'
  BY <1>4, <1>5 DEF PromptTells, DoesAsShown, CaptureHome
<1>. QED  BY <1>1, <1>2, <1>6, AsideKeeps DEF AnswersShare

LEMMA LateKeeps ==
  ASSUME PromptInv, ~Veiled, Undisturbed,
         \/ \E room \in Strip : SwitchRoom(room)
         \/ Swaps \/ PasteClipboard \/ ClipboardRead \/ Question
         \/ \E agent \in Handles, room \in Strip : SetActive(agent, room)
  PROVE  PromptInv'
<1>1. options \in [asked : BOOLEAN, at : 1 .. Options, dismissed : BOOLEAN]
      /\ share \in [open : BOOLEAN, of : Strip] /\ swapTo \in Seq(Strip) /\ ShareHome /\ PromptTells
      /\ text \in Text /\ here \in [Strip -> SUBSET Handles] /\ roomId \in Strip
  BY DEF PromptInv, PromptTypes
<1>2. ASSUME NEW room \in Strip, SwitchRoom(room) PROVE PromptInv'
  <2>1. swapTo' \in Seq(Strip)
    BY <1>1, <1>2 DEF SwitchRoom
  <2>2. ShareHome' /\ PromptTells'
    BY <1>1, <1>2, QuietTells DEF SwitchRoom, ShareHome
  <2>. QED  BY <1>1, <1>2, <2>1, <2>2, AsideKeeps DEF SwitchRoom
<1>3. CASE Swaps
  <2>1. text = <<>> /\ text' = <<>> /\ ~share.open /\ draftTargets' = draftTargets
    BY <1>3 DEF Swaps, Still
  <2>2. roomId' \in Strip /\ swapTo' \in Seq(Strip)
    BY <1>1, <1>3 DEF Swaps, Last
  <2>3. options' \in [asked : BOOLEAN, at : 1 .. Options, dismissed : BOOLEAN]
    <3>1. 1 \in 1 .. Options
      BY DraftAssumption
    <3>. QED  BY <3>1, <1>3 DEF Swaps
  <2>4. PromptTypes'
    BY <1>1, <1>3, <2>2, <2>3 DEF PromptTypes, Swaps
  <2>5. Said(text)'
    BY <2>1, SaidEmpty DEF Said
  <2>6. (draftTargets = OnChange(text))'
    <3>1. draftTargets = NoPreview
      BY <2>1, SaidEmpty DEF PromptInv
    <3>. QED  BY <3>1, <2>1, TrimmedEmpty DEF OnChange
  <2>7. ShareHome' /\ PromptTells'
    BY <1>1, <1>3, <2>1, QuietTells DEF Swaps, ShareHome
  <2>. QED  BY <2>4, <2>5, <2>6, <2>7 DEF PromptInv
<1>4. CASE PasteClipboard
  <2>1. ShareHome' /\ PromptTells'
    BY <1>1, <1>4, QuietTells DEF PasteClipboard, ShareHome
  <2>. QED  BY <1>1, <1>4, <2>1, AsideKeeps DEF PasteClipboard
<1>5. CASE ClipboardRead
  <2>1. UNCHANGED <<roomId, swapTo, here, options, share, posted, happens>> /\ Quietly
    BY <1>5 DEF ClipboardRead
  <2>2. ShareHome' /\ PromptTells'
    BY <1>1, <2>1, QuietTells DEF ShareHome
  <2>3. CASE UNCHANGED <<text, draftTargets>>
    BY <1>1, <2>1, <2>2, <2>3, AsideKeeps
  <2>4. CASE \E marker \in Markers :
               /\ Len(text) < MaxText /\ (~Veiled => Said(Append(text, marker)))
               /\ text' = Append(text, marker) /\ draftTargets' = OnChange(Append(text, marker))
    <3>1. PICK marker \in Markers :
            Said(Append(text, marker)) /\ text' = Append(text, marker)
            /\ draftTargets' = OnChange(Append(text, marker))
      BY <2>4
    <3>2. Append(text, marker) \in Text
      BY <1>1 DEF Text, Characters
    <3>3. PromptTypes'
      BY <1>1, <2>1, <3>1, <3>2 DEF PromptTypes
    <3>4. Said(text)'
      BY <3>1 DEF Said
    <3>5. (draftTargets = OnChange(text))'
      BY <2>1, <3>1 DEF OnChange
    <3>. QED  BY <2>2, <3>3, <3>4, <3>5 DEF PromptInv
  <2>. QED  BY <1>5, <2>3, <2>4 DEF ClipboardRead
<1>6. CASE Question
  <2>1. ~share.open /\ options' \in [asked : BOOLEAN, at : 1 .. Options, dismissed : BOOLEAN]
    <3>1. 1 \in 1 .. Options
      BY DraftAssumption
    <3>. QED  BY <3>1, <1>1, <1>6 DEF Question, Still
  <2>2. ShareHome' /\ PromptTells'
    BY <1>1, <1>6, <2>1, QuietTells DEF Question, ShareHome
  <2>. QED  BY <1>1, <1>6, <2>1, <2>2, AsideKeeps DEF Question
<1>7. ASSUME NEW agent \in Handles, NEW room \in Strip, SetActive(agent, room) PROVE PromptInv'
  <2>1. text = <<>> /\ text' = <<>> /\ draftTargets' = draftTargets
    BY <1>7 DEF SetActive, Still
  <2>2. here' \in [Strip -> SUBSET Handles]
    BY <1>1, <1>7 DEF SetActive
  <2>3. PromptTypes'
    BY <1>1, <1>7, <2>2 DEF PromptTypes, SetActive
  <2>4. Said(text)'
    BY <2>1, SaidEmpty DEF Said
  <2>5. (draftTargets = OnChange(text))'
    <3>1. draftTargets = NoPreview
      BY <2>1, SaidEmpty DEF PromptInv
    <3>. QED  BY <3>1, <2>1, TrimmedEmpty DEF OnChange
  <2>6. ShareHome' /\ PromptTells'
    BY <1>1, <1>7, QuietTells DEF SetActive, ShareHome
  <2>. QED  BY <2>3, <2>4, <2>5, <2>6 DEF PromptInv
<1>. QED  BY <1>2, <1>3, <1>4, <1>5, <1>6, <1>7

LEMMA PromptStep ==
  ASSUME PromptInv, ~Veiled, Undisturbed, [PromptNext]_promptVars PROVE PromptInv'
<1>1. CASE UNCHANGED promptVars
  BY <1>1 DEF promptVars, PromptInv, PromptTypes, Said, OnChange, ShareHome, PromptTells, DoesAsShown,
              CaptureHome
<1>2. ASSUME NEW symbol \in Letters \cup Markers \cup {"@", "/", "!", " ", "nl"},
             Writes(symbol) \/ Unwrites(symbol)
      PROVE  PromptInv'
  <2>1. symbol \in Characters
    BY <1>2 DEF Characters, Signs, Spaces
  <2>. QED  BY <1>2, <2>1, WritesKeeps
<1>3. CASE CompletesMention
  BY <1>3, CompletesKeeps
<1>4. CASE OnSubmit
  BY <1>4, OnSubmitKeeps
<1>5. CASE PicksOption \/ (\E step \in {1, -1} : MovesOption(step)) \/ HidesOptions
  BY <1>5, PickerKeeps
<1>6. CASE ClearsStaged \/ ClearsDraft
  BY <1>6, ClearsKeeps
<1>7. CASE \E sends \in BOOLEAN : AnswersShare(sends)
  BY <1>7, AnswersShareKeeps
<1>8. CASE \/ \E room \in Strip : SwitchRoom(room)
           \/ Swaps \/ PasteClipboard \/ ClipboardRead \/ Question
           \/ \E agent \in Handles, room \in Strip : SetActive(agent, room)
  BY <1>8, LateKeeps
<1>. QED  BY <1>1, <1>2, <1>3, <1>4, <1>5, <1>6, <1>7, <1>8 DEF PromptNext

\* Whatever is typed, pasted, asked and switched: a key does in the pi-tui client what the
\* screen said, and a capture goes to the room it is of.
THEOREM ThePromptTells ==
  ASSUME ~Veiled, Undisturbed
  PROVE  PromptSpec => []PromptTells
<1>1. PromptInit => PromptInv
  BY InitPrompt
<1>2. PromptInv /\ [PromptNext]_promptVars => PromptInv'
  BY PromptStep
<1>3. PromptInv => PromptTells
  BY DEF PromptInv
<1>. QED  BY <1>1, <1>2, <1>3, PTL DEF PromptSpec

(* ---- where the cursor may be ----------------------------------------------- *)

LEMMA LineStartType ==
  ASSUME NEW t, NEW cur \in Nat PROVE LineStart(t, cur) \in 0 .. cur
<1>. DEFINE lf == {i \in 1 .. cur : t[i] = "nl"}
            newlines == lf \cup {0}
<1>1. \E x \in newlines : \A y \in newlines : y <= x
  <2>1. CASE lf = {}
    BY <2>1
  <2>2. CASE lf # {}
    <3>1. PICK x \in lf : \A y \in lf : y <= x
      <4>1. lf \subseteq 1 .. cur
        OBVIOUS
      <4>. HIDE DEF lf
      <4>. QED  BY <4>1, <2>2, GreatestIn
    <3>2. 0 <= x
      OBVIOUS
    <3>. HIDE DEF lf
    <3>. QED  BY <3>1, <3>2
  <2>. QED  BY <2>1, <2>2
<1>2. newlines \subseteq 0 .. cur
  OBVIOUS
<1>3. LineStart(t, cur) = CHOOSE i \in newlines : \A j \in newlines : j <= i
  BY DEF LineStart
<1>. HIDE DEF newlines
<1>. QED  BY <1>1, <1>2, <1>3

LEMMA LineEndType ==
  ASSUME NEW t \in Text, NEW cur \in 0 .. Len(t) PROVE LineEnd(t, cur) \in cur .. Len(t)
<1>. DEFINE newlines == {i \in (cur + 1) .. Len(t) : t[i] = "nl"} \cup {Len(t) + 1}
<1>0. Len(t) \in Nat
  BY DEF Text
<1>1. newlines \subseteq (cur + 1) .. (Len(t) + 1) /\ newlines # {} /\ newlines \subseteq Nat
  BY <1>0
<1>2. LineEnd(t, cur) = (CHOOSE i \in newlines : \A j \in newlines : i <= j) - 1
  BY DEF LineEnd
<1>. HIDE DEF newlines
<1>3. \E x \in newlines : \A y \in newlines : x <= y
  BY <1>1, LeastIn
<1>4. PICK x \in newlines : x = CHOOSE i \in newlines : \A j \in newlines : i <= j
  BY <1>3
<1>5. x \in (cur + 1) .. (Len(t) + 1) /\ cur \in Int
  BY <1>0, <1>1
<1>6. x - 1 \in cur .. Len(t)
  BY ONLY <1>0, <1>5
<1>. QED  BY <1>2, <1>4, <1>6

LEMMA AboveType ==
  ASSUME NEW t \in Text, NEW cur \in 0 .. Len(t) PROVE AboveOf(t, cur) \in 0 .. Len(t)
<1>1. PICK n \in Nat : n = Len(t)
  BY DEF Text
<1>2. PICK from \in 0 .. cur : from = LineStart(t, cur)
  BY LineStartType
<1>3. CASE from = 0
  BY <1>2, <1>3 DEF AboveOf
<1>4. CASE from # 0
  <2>1. PICK above \in 0 .. (from - 1) : above = LineStart(t, from - 1)
    BY <1>4, LineStartType
  <2>2. AboveOf(t, cur) = IF above + (cur - from) < from THEN above + (cur - from) ELSE from - 1
    BY <1>2, <1>4, <2>1 DEF AboveOf
  <2>. QED  BY <2>2, <1>1
<1>. QED  BY <1>3, <1>4

LEMMA BelowType ==
  ASSUME NEW t \in Text, NEW cur \in 0 .. Len(t) PROVE BelowOf(t, cur) \in 0 .. Len(t)
<1>1. PICK n \in Nat : n = Len(t)
  BY DEF Text
<1>2. PICK from \in 0 .. cur : from = LineStart(t, cur)
  BY LineStartType
<1>3. PICK end \in cur .. n : end = LineEnd(t, cur)
  BY <1>1, LineEndType
<1>4. CASE end = n
  BY <1>1, <1>3, <1>4 DEF BelowOf
<1>5. CASE end # n
  <2>0. end + 1 \in 0 .. Len(t)
    BY <1>1, <1>5
  <2>1. PICK below \in (end + 1) .. n : below = LineEnd(t, end + 1)
    BY <2>0, <1>1, LineEndType
  <2>2. BelowOf(t, cur) = IF end + 1 + (cur - from) < below THEN end + 1 + (cur - from) ELSE below
    BY <1>1, <1>2, <1>3, <1>5, <2>1 DEF BelowOf
  <2>. QED  BY <2>2, <1>1
<1>. QED  BY <1>4, <1>5

(* ---- the command line of the Ink client ------------------------------------ *)

LineTypes ==
  /\ draft \in [text : Text, cur : Nat] /\ draft.cur <= Len(draft.text)
  /\ past \in [entries : Seq(Text), index : Nat, parked : Text] /\ past.index <= Len(past.entries)
  /\ accum \in [on : BOOLEAN, text : Text] /\ pIndex \in Nat \ {0}
  /\ picker \in [asked : BOOLEAN, at : 1 .. Options, dismissed : BOOLEAN]
  /\ drawn = Now

\* Every line that is shown, or may be, says itself what it is sent as.
LinesPlain ==
  /\ Plain(draft.text) /\ Plain(past.parked)
  /\ \A i \in 1 .. Len(past.entries) : Plain(past.entries[i]) /\ past.entries[i] # <<>>

\* The draft left for the lines before it is put by, unless the line was cleared since.
DraftParked == past.index # 0 => draft.text = <<>> \/ past.parked = typed

LineInv == LineTypes /\ LinesPlain /\ DraftParked /\ LineTells

LEMMA PlainEmpty == Plain(<<>>)
BY ExpandEmpty, TrimmedEmpty DEF Plain

LEMMA InitLine == LineInit => LineInv
<1>. SUFFICES ASSUME LineInit PROVE LineInv
  OBVIOUS
<1>1. draft = [text |-> <<>>, cur |-> 0] /\ past = [entries |-> <<>>, index |-> 0, parked |-> <<>>]
      /\ typed = <<>> /\ accum = [on |-> FALSE, text |-> <<>>] /\ pIndex = 1
      /\ picker = [asked |-> FALSE, at |-> 1, dismissed |-> FALSE] /\ drawn = Now /\ lastDid = lastMeant
  BY DEF LineInit, Empty, NewHistory, NoPaste
<1>2. 1 \in 1 .. Options
  BY DraftAssumption
<1>3. LineTypes
  <2>1. draft \in [text : Text, cur : Nat] /\ draft.cur <= Len(draft.text)
    BY <1>1, TextEmpty
  <2>2. past \in [entries : Seq(Text), index : Nat, parked : Text] /\ past.index <= Len(past.entries)
    BY <1>1, TextEmpty
  <2>3. accum \in [on : BOOLEAN, text : Text]
    BY <1>1, TextEmpty
  <2>. QED  BY <2>1, <2>2, <2>3, <1>1, <1>2 DEF LineTypes
<1>4. LinesPlain
  BY <1>1, PlainEmpty DEF LinesPlain
<1>5. DraftParked /\ LineTells
  BY <1>1 DEF DraftParked, LineTells, SentAsShown, DraftKept
<1>. QED  BY <1>3, <1>4, <1>5 DEF LineInv

\* ---- what ⏎ does ----

LEMMA MatchType == ASSUME NEW t PROVE MatchCommands(t) \in Seq(Text)
<1>1. CASE ~StartsWith(t, "/") \/ \E i \in DOMAIN t : t[i] \in Spaces
  BY <1>1 DEF MatchCommands
<1>2. CASE ~(~StartsWith(t, "/") \/ \E i \in DOMAIN t : t[i] \in Spaces)
  <2>. DEFINE ps == [i \in DOMAIN Palette |-> IF IsPrefix(Tail(t), Palette[i]) THEN <<Palette[i]>> ELSE <<>>]
  <2>1. DOMAIN Palette = 1 .. Len(Palette) /\ Len(Palette) \in Nat
        /\ \A i \in 1 .. Len(Palette) : Palette[i] \in Text
    BY DraftAssumption DEF Text
  <2>2. \A i \in 1 .. Len(Palette) :
          (IF IsPrefix(Tail(t), Palette[i]) THEN <<Palette[i]>> ELSE <<>>) \in Seq(Text)
    BY <2>1
  <2>3. ps \in Seq(Seq(Text))
    BY <2>1, <2>2
  <2>4. MatchCommands(t) = Joined(ps)
    BY <1>2 DEF MatchCommands
  <2>. HIDE DEF ps
  <2>. QED  BY <2>3, <2>4, JoinedType
<1>. QED  BY <1>1, <1>2

LEMMA HighlightedType ==
  ASSUME LineTypes, PaletteOpen(drawn) PROVE Highlighted(drawn) \in Text
<1>1. PICK ms \in Seq(Text) : ms = MatchCommands(drawn.text)
  BY MatchType
<1>2. ms # <<>> /\ Len(ms) \in Nat \ {0}
  BY <1>1 DEF PaletteOpen
<1>3. drawn.pIndex = pIndex /\ pIndex \in Nat \ {0}
  BY DEF LineTypes, Now, View
<1>4. (IF drawn.pIndex < Len(ms) THEN drawn.pIndex ELSE Len(ms)) \in 1 .. Len(ms)
  BY <1>2, <1>3
<1>5. Highlighted(drawn) = ms[IF drawn.pIndex < Len(ms) THEN drawn.pIndex ELSE Len(ms)]
  BY <1>1 DEF Highlighted
<1>. QED  BY <1>1, <1>4, <1>5

LEMMA DrawnIs ==
  ASSUME LineTypes
  PROVE  /\ drawn = Now /\ drawn.text = draft.text /\ drawn.cur = draft.cur /\ drawn.picker = picker
         /\ drawn.images = images /\ drawn.active = active
         /\ draft.text \in Text /\ draft.cur \in 0 .. Len(draft.text) /\ Len(draft.text) \in Nat
<1>1. drawn = Now /\ drawn.text = draft.text /\ drawn.cur = draft.cur /\ drawn.picker = picker
      /\ drawn.images = images /\ drawn.active = active
  BY DEF LineTypes, Now, View
<1>2. draft.text \in Text /\ Len(draft.text) \in Nat /\ draft.cur \in Nat /\ draft.cur <= Len(draft.text)
  BY DEF LineTypes, Text
<1>. QED  BY <1>1, <1>2

\* A line sent is what the border and the preview said.
LEMMA LineShown ==
  ASSUME LineTypes, LinesPlain
  PROVE  RunsLine(Trimmed(ExpandPastes(draft.text))) = Bordered(drawn)
<1>0. draft.text \in Text /\ drawn.text = draft.text /\ drawn.images = images /\ drawn.active = active
  BY DrawnIs
<1>1. PICK line \in Text : line = Trimmed(ExpandPastes(draft.text))
  BY <1>0, ExpandType, TrimmedParts
<1>2. PICK t \in Text : t = draft.text
  BY <1>0
<1>3. InputMode(line) = InputMode(t)
  BY <1>1, <1>2 DEF LinesPlain, Plain
<1>4. (InputMode(line) = "command" <=> StartsWith(line, "/"))
      /\ (InputMode(line) = "shell" <=> StartsWith(line, "!"))
      /\ InputMode(line) \in {"command", "shell", "message"}
      /\ ~(StartsWith(line, "/") /\ StartsWith(line, "!"))
  BY Modes DEF StartsWith
<1>5. CASE InputMode(line) = "command"
  <2>1. RunsLine(line) = [NothingDone EXCEPT !.kind = "command", !.what = Tail(line)]
    BY <1>4, <1>5 DEF RunsLine
  <2>2. Bordered(drawn) = [NothingDone EXCEPT !.kind = "command", !.what = Tail(line)]
    BY <1>0, <1>1, <1>2, <1>3, <1>5 DEF Bordered
  <2>. QED  BY <2>1, <2>2, <1>1
<1>6. CASE InputMode(line) = "shell"
  <2>1. RunsLine(line) = [NothingDone EXCEPT !.kind = "shell", !.what = Trimmed(Tail(line))]
    BY <1>4, <1>6 DEF RunsLine
  <2>2. Bordered(drawn) = [NothingDone EXCEPT !.kind = "shell", !.what = Trimmed(ExpandPastes(Tail(t)))]
    BY <1>0, <1>1, <1>2, <1>3, <1>6 DEF Bordered
  <2>3. Trimmed(Tail(line)) = Trimmed(ExpandPastes(Tail(t)))
    <3>1. StartsWith(t, "!")
      BY <1>3, <1>6, Modes
    <3>. QED  BY <3>1, <1>1, <1>2, ShellLine
  <2>. QED  BY <2>1, <2>2, <2>3, <1>1
<1>7. CASE InputMode(line) = "message"
  <2>1. RunsLine(line) = [kind |-> "message", what |-> line, images |-> drawn.images,
                          preview |-> Routed(line, active)]
    BY <1>4, <1>7 DEF RunsLine
  <2>2. Bordered(drawn) = [kind |-> "message", what |-> line, preview |-> Preview(drawn), images |-> drawn.images]
    BY <1>0, <1>1, <1>2, <1>3, <1>7 DEF Bordered
  <2>3. Routed(line, active) = (IF Trimmed(t) # <<>> THEN PreviewRouting(ExpandPastes(t), active) ELSE NoPreview)
    BY <1>1, <1>2, <1>7, RoutingShown
  <2>4. Preview(drawn) = Routed(line, active)
    BY <2>3, <1>0, <1>2, <1>3, <1>7 DEF Preview
  <2>. QED  BY <2>1, <2>2, <2>4, <1>1
<1>. QED  BY <1>4, <1>5, <1>6, <1>7

\* ---- what the keys leave alone ----

LEMMA SilentTells ==
  ASSUME Silent PROVE SentAsShown'
BY DEF Silent, SentAsShown

\* A step that leaves the draft and its history alone.
LEMMA BesideKeeps ==
  ASSUME LineInv, ~Bursts, UNCHANGED <<draft, past, typed>>, Silent, Draws,
         accum' \in [on : BOOLEAN, text : Text], pIndex' \in Nat \ {0},
         picker' \in [asked : BOOLEAN, at : 1 .. Options, dismissed : BOOLEAN]
  PROVE  LineInv'
<1>1. LineTypes'
  BY DEF LineInv, LineTypes, Draws
<1>2. LinesPlain'
  BY DEF LineInv, LinesPlain, Plain
<1>3. DraftParked' /\ LineTells'
  BY SilentTells DEF LineInv, DraftParked, LineTells, DraftKept
<1>. QED  BY <1>1, <1>2, <1>3 DEF LineInv

\* An edit: the line is what was typed, and the walk through the history is over.
LEMMA EditsKeeps ==
  ASSUME LineInv, ~Bursts, ~Hidden, NEW t \in Text, NEW cur \in Nat, cur <= Len(t), Edits(t, cur),
         Silent, Draws, accum' \in [on : BOOLEAN, text : Text], UNCHANGED <<pIndex, picker>>
  PROVE  LineInv'
<1>1. draft' = [text |-> t, cur |-> cur] /\ past' = ExitHistory(past) /\ typed' = t /\ Plain(t)
  BY DEF Edits, SetDraft
<1>2. past \in [entries : Seq(Text), index : Nat, parked : Text]
  BY DEF LineInv, LineTypes
<1>3. past' \in [entries : Seq(Text), index : Nat, parked : Text] /\ past'.entries = past.entries
      /\ past'.index = 0 /\ past'.parked = <<>>
  BY <1>1, <1>2, TextEmpty DEF ExitHistory
<1>4. LineTypes'
  <2>1. draft' \in [text : Text, cur : Nat] /\ draft'.cur <= Len(draft'.text)
    BY <1>1
  <2>2. past'.index <= Len(past'.entries)
    BY <1>2, <1>3
  <2>. QED  BY <2>1, <2>2, <1>3 DEF LineInv, LineTypes, Draws
<1>5. LinesPlain'
  BY <1>1, <1>3, PlainEmpty DEF LineInv, LinesPlain, Plain
<1>6. DraftParked' /\ LineTells'
  BY <1>1, <1>3, SilentTells DEF DraftParked, LineTells, DraftKept
<1>. QED  BY <1>4, <1>5, <1>6 DEF LineInv

\* The line is emptied; the history may get the line that was sent.
LEMMA ResetKeeps ==
  ASSUME LineInv, ~Bursts, Reset, Draws, SentAsShown', accum' = accum, picker' = picker,
         past' = past \/ past' = PushPrompt(past, Trimmed(draft.text))
  PROVE  LineInv'
<1>1. draft' = [text |-> <<>>, cur |-> 0] /\ pIndex' = 1 /\ typed' = <<>>
  BY DEF Reset, SetDraft
<1>2. past \in [entries : Seq(Text), index : Nat, parked : Text] /\ past.index <= Len(past.entries)
      /\ draft.text \in Text /\ Plain(past.parked) /\ Plain(draft.text)
      /\ \A i \in 1 .. Len(past.entries) : Plain(past.entries[i]) /\ past.entries[i] # <<>>
  BY DEF LineInv, LineTypes, LinesPlain
<1>3. PICK m \in Text : m = Trimmed(draft.text)
  BY <1>2, TrimmedParts
<1>4. Plain(m)
  BY <1>2, <1>3, PlainTrimmed DEF Plain
<1>5. past' \in [entries : Seq(Text), index : Nat, parked : Text] /\ past'.index <= Len(past'.entries)
      /\ Plain(past'.parked)
      /\ \A i \in 1 .. Len(past'.entries) : Plain(past'.entries[i]) /\ past'.entries[i] # <<>>
  <2>1. CASE past' = past
    BY <1>2, <2>1
  <2>2. CASE past' = PushPrompt(past, m)
    <3>1. PICK es : es = IF m = <<>> \/ (past.entries # <<>> /\ Last(past.entries) = m)
                         THEN past.entries ELSE Append(past.entries, m)
      OBVIOUS
    <3>2. es \in Seq(Text) /\ \A i \in 1 .. Len(es) : Plain(es[i]) /\ es[i] # <<>>
      <4>1. CASE es = past.entries
        BY <4>1, <1>2
      <4>2. CASE m # <<>> /\ es = Append(past.entries, m)
        <5>1. past.entries \in Seq(Text)
          BY <1>2
        <5>2. es \in Seq(Text) /\ Len(es) = Len(past.entries) + 1 /\ Len(past.entries) \in Nat
              /\ (\A i \in 1 .. Len(past.entries) : es[i] = past.entries[i])
              /\ es[Len(past.entries) + 1] = m
          BY <5>1, <4>2, AppendProperties
        <5>3. ASSUME NEW i \in 1 .. Len(es) PROVE Plain(es[i]) /\ es[i] # <<>>
          <6>1. i \in 1 .. Len(past.entries) \/ i = Len(past.entries) + 1
            BY <5>2
          <6>2. ASSUME i \in 1 .. Len(past.entries) PROVE Plain(es[i]) /\ es[i] # <<>>
            <7>1. es[i] = past.entries[i]
              BY <6>2, <5>2
            <7>. QED  BY <7>1, <6>2, <1>2
          <6>3. ASSUME i = Len(past.entries) + 1 PROVE Plain(es[i]) /\ es[i] # <<>>
            BY <6>3, <5>2, <4>2, <1>4
          <6>. QED  BY <6>1, <6>2, <6>3
        <5>. QED  BY <5>2, <5>3
      <4>. QED  BY <3>1, <4>1, <4>2
    <3>3. past' = ExitHistory([past EXCEPT !.entries = es])
      BY <2>2, <3>1 DEF PushPrompt
    <3>4. past' = [entries |-> es, index |-> 0, parked |-> <<>>]
      BY <3>3, <1>2 DEF ExitHistory
    <3>5. Len(es) \in Nat
      BY <3>2
    <3>. QED  BY <3>2, <3>4, <3>5, TextEmpty, PlainEmpty
  <2>. QED  BY <1>3, <2>1, <2>2
<1>6. LineTypes'
  <2>1. draft' \in [text : Text, cur : Nat] /\ draft'.cur <= Len(draft'.text)
    BY <1>1, TextEmpty
  <2>2. accum' \in [on : BOOLEAN, text : Text] /\ pIndex' \in Nat \ {0}
        /\ picker' \in [asked : BOOLEAN, at : 1 .. Options, dismissed : BOOLEAN]
    BY <1>1 DEF LineInv, LineTypes
  <2>. QED  BY <2>1, <2>2, <1>5 DEF LineTypes, Draws
<1>7. LinesPlain'
  <2>1. draft'.text = <<>>
    BY <1>1
  <2>. QED  BY <2>1, <1>5, PlainEmpty DEF LinesPlain, Plain
<1>8. DraftParked' /\ LineTells'
  BY <1>1 DEF DraftParked, LineTells, DraftKept
<1>. QED  BY <1>6, <1>7, <1>8 DEF LineInv

LEMMA InvTypes ==
  ASSUME LineInv
  PROVE  /\ LineTypes /\ LinesPlain /\ DraftParked /\ LineTells
         /\ draft \in [text : Text, cur : Nat] /\ draft.cur <= Len(draft.text)
         /\ past \in [entries : Seq(Text), index : Nat, parked : Text] /\ past.index <= Len(past.entries)
         /\ accum \in [on : BOOLEAN, text : Text] /\ pIndex \in Nat \ {0}
         /\ picker \in [asked : BOOLEAN, at : 1 .. Options, dismissed : BOOLEAN]
         /\ drawn = Now
BY DEF LineInv, LineTypes

\* ---- the keys ----

LEMMA PartOf ==
  ASSUME NEW t \in Text, NEW k \in 0 .. Len(t)
  PROVE  /\ SubSeq(t, 1, k) \in Text /\ Len(SubSeq(t, 1, k)) = k
         /\ SubSeq(t, k + 1, Len(t)) \in Text
<1>1. Len(t) \in Nat /\ t \in [1 .. Len(t) -> Characters]
  BY DEF Text
<1>2. \A i \in 1 .. k : t[i] \in Characters
  BY <1>1
<1>3. \A i \in (k + 1) .. Len(t) : t[i] \in Characters
  BY <1>1
<1>4. 1 \in Int /\ k \in Int /\ k + 1 \in Int /\ Len(t) \in Int /\ (1 <= k \/ k = 0)
  BY <1>1
<1>5. SubSeq(t, 1, k) \in Seq(Characters) /\ Len(SubSeq(t, 1, k)) = IF 1 <= k THEN k - 1 + 1 ELSE 0
  BY <1>2, <1>4, SubSeqProperties
<1>6. SubSeq(t, k + 1, Len(t)) \in Seq(Characters)
  BY <1>3, <1>4, SubSeqProperties
<1>7. (IF 1 <= k THEN k - 1 + 1 ELSE 0) = k
  BY <1>4
<1>. QED  BY <1>5, <1>6, <1>7 DEF Text

LEMMA InsertKeeps ==
  ASSUME LineInv, ~Bursts, ~Hidden, NEW t \in Text, InsertAtCursor(t),
         Silent, Draws, accum' \in [on : BOOLEAN, text : Text], UNCHANGED <<pIndex, picker>>
  PROVE  LineInv'
<1>1. draft.text \in Text /\ draft.cur \in 0 .. Len(draft.text) /\ Len(draft.text) \in Nat
  BY InvTypes, DrawnIs
<1>2. PICK a \in Text : a = Before /\ Len(a) = draft.cur
  <2>1. PICK s \in Text : s = draft.text
    BY <1>1
  <2>0. PICK k \in 0 .. Len(s) : k = draft.cur
    BY <1>1, <2>1
  <2>2. SubSeq(s, 1, k) \in Text /\ Len(SubSeq(s, 1, k)) = k
    BY PartOf
  <2>. QED  BY <2>0, <2>1, <2>2 DEF Before
<1>3. PICK b \in Text : b = After
  <2>1. PICK s \in Text : s = draft.text
    BY <1>1
  <2>0. PICK k \in 0 .. Len(s) : k = draft.cur
    BY <1>1, <2>1
  <2>2. SubSeq(s, k + 1, Len(s)) \in Text
    BY PartOf
  <2>. QED  BY <2>0, <2>1, <2>2 DEF After
<1>4. PICK u \in Text : u = a \o t /\ Len(u) = draft.cur + Len(t)
  <2>1. a \o t \in Text /\ Len(a \o t) = Len(a) + Len(t)
    BY TextConcat
  <2>. QED  BY <2>1, <1>2
<1>5. PICK w \in Text : w = u \o b /\ Len(w) = Len(u) + Len(b)
  BY <1>3, TextConcat
<1>6. Len(t) \in Nat /\ Len(b) \in Nat
  BY DEF Text
<1>7. draft.cur + Len(t) \in Nat /\ draft.cur + Len(t) <= Len(w)
  BY <1>1, <1>4, <1>5, <1>6
<1>8. Edits(w, draft.cur + Len(t))
  BY <1>2, <1>3, <1>4, <1>5 DEF InsertAtCursor
<1>. QED  BY <1>7, <1>8, EditsKeeps

LEMMA TypesInKeeps ==
  ASSUME LineInv, ~Bursts, ~Hidden, NEW symbol \in Symbols, TypesIn(symbol) PROVE LineInv'
<1>1. <<symbol>> \in Text
  BY OneText DEF Symbols, Characters, Signs, Spaces
<1>2. InsertAtCursor(<<symbol>>) /\ Silent /\ Draws /\ accum' = accum /\ UNCHANGED <<pIndex, picker>>
  BY DEF TypesIn, Rest
<1>. QED  BY <1>1, <1>2, InvTypes, InsertKeeps

LEMMA BreaksLineKeeps ==
  ASSUME LineInv, ~Bursts, ~Hidden, BreaksLine PROVE LineInv'
<1>1. <<"nl">> \in Text /\ Len(<<"nl">>) = 1
  BY OneText DEF Characters, Signs, Spaces
<1>2. Len(draft.text) < MaxLine /\ Edits(Before \o <<"nl">> \o After, draft.cur + 1)
      /\ Silent /\ Draws /\ accum' = accum /\ UNCHANGED <<pIndex, picker>>
  BY DEF BreaksLine, Rest
<1>3. InsertAtCursor(<<"nl">>)
  <2>1. Len(draft.text) + 1 <= MaxLine
    BY <1>2, InvTypes, DrawnIs, LineAssumption
  <2>. QED  BY <1>1, <1>2, <2>1 DEF InsertAtCursor
<1>. QED  BY <1>1, <1>2, <1>3, InvTypes, InsertKeeps

LEMMA PastesKeeps ==
  ASSUME LineInv, ~Bursts, ~Hidden,
         \E marker \in Markers : PasteBegins(<<>>) \/ PasteEnds(<<marker>>)
  PROVE  LineInv'
<1>1. PICK marker \in Markers : PasteBegins(<<>>) \/ PasteEnds(<<marker>>)
  OBVIOUS
<1>2. CASE PasteBegins(<<>>)
  <2>1. accum' \in [on : BOOLEAN, text : Text] /\ UNCHANGED <<draft, past, typed, pIndex, picker>>
        /\ Silent /\ Draws
    BY <1>2, TextEmpty DEF PasteBegins
  <2>. QED  BY <2>1, InvTypes, BesideKeeps
<1>3. CASE PasteEnds(<<marker>>)
  <2>1. <<marker>> \in Text
    BY OneText DEF Characters
  <2>2. PICK t \in Text : t = accum.text \o <<marker>>
    BY <2>1, InvTypes, TextConcat
  <2>3. InsertAtCursor(t) /\ Silent /\ Draws /\ UNCHANGED <<pIndex, picker>>
    BY <1>3, <2>2 DEF PasteEnds
  <2>4. accum' \in [on : BOOLEAN, text : Text]
    BY <1>3, TextEmpty DEF PasteEnds, NoPaste
  <2>. QED  BY <2>3, <2>4, InsertKeeps
<1>. QED  BY <1>1, <1>2, <1>3

LEMMA ReadTextKeeps ==
  ASSUME LineInv, ~Bursts, ~Hidden, NEW symbol \in Markers \cup Letters, ReadText(<<symbol>>)
  PROVE  LineInv'
<1>1. <<symbol>> \in Text
  BY OneText DEF Characters
<1>2. InsertAtCursor(<<symbol>>) /\ Silent /\ Draws /\ accum' = accum /\ UNCHANGED <<pIndex, picker>>
  BY DEF ReadText
<1>. QED  BY <1>1, <1>2, InvTypes, InsertKeeps

LEMMA ErasesKeeps ==
  ASSUME LineInv, ~Bursts, ~Hidden, NEW at \in DOMAIN draft.text, Erases(at)
  PROVE  LineInv'
<1>1. draft.text \in Text /\ Len(draft.text) \in Nat
  BY InvTypes, DrawnIs
<1>2. at \in 1 .. Len(draft.text)
  BY <1>1 DEF Text
<1>3. PICK t \in Text : t = RemoveAt(draft.text, at) /\ Len(t) = Len(draft.text) - 1
  <2>1. RemoveAt(draft.text, at) \in Text /\ Len(RemoveAt(draft.text, at)) = Len(draft.text) - 1
    BY <1>1, RemoveAtShorter DEF Text
  <2>. QED  BY <2>1
<1>4. at - 1 \in Nat /\ at - 1 <= Len(t)
  BY <1>1, <1>2, <1>3
<1>5. Edits(t, at - 1) /\ Silent /\ Draws /\ accum' = accum /\ UNCHANGED <<pIndex, picker>>
  BY <1>3 DEF Erases, Rest
<1>. QED  BY <1>4, <1>5, InvTypes, EditsKeeps

LEMMA PicksKeeps ==
  ASSUME LineInv, ~Bursts,
         (\E choice \in 1 .. Options : PicksByDigit(choice)) \/ PicksHighlighted
  PROVE  LineInv'
<1>1. drawn = Now
  BY InvTypes
<1>2. ASSUME NEW choice, NEW meant, Picks(choice, meant), meant = Answering(drawn, choice)
      PROVE  LineInv'
  <2>1. Reset /\ Draws /\ accum' = accum /\ picker' = picker /\ past' = past /\ lastDid' = lastMeant'
    BY <1>2 DEF Picks
  <2>2. SentAsShown'
    BY <2>1 DEF SentAsShown
  <2>. QED  BY <2>1, <2>2, ResetKeeps
<1>3. ASSUME NEW choice \in 1 .. Options, PicksByDigit(choice) PROVE LineInv'
  <2>1. PickerOpen(drawn)
    BY <1>3 DEF PicksByDigit, Picks
  <2>2. Picks(choice, Answering(drawn, choice))
    BY <1>1, <1>3, <2>1 DEF PicksByDigit
  <2>. QED  BY <1>2, <2>2
<1>4. ASSUME PicksHighlighted PROVE LineInv'
  <2>1. PickerOpen(drawn)
    BY <1>4 DEF PicksHighlighted, Picks
  <2>2. Meaning(Now) = Answering(drawn, drawn.picker.at)
    BY <1>1, <2>1 DEF Meaning
  <2>3. Picks(drawn.picker.at, Answering(drawn, drawn.picker.at))
    BY <1>4, <2>2 DEF PicksHighlighted
  <2>. QED  BY <1>2, <2>3
<1>. QED  BY <1>3, <1>4

LEMMA AsideKeys ==
  ASSUME LineInv, ~Bursts,
         \/ \E step \in {1, -1} : PickerMoves(step) \/ PaletteMoves(step)
         \/ Dismisses \/ Reads \/ ReadImage \/ ReadNothing \/ Asks
         \/ \E agent \in Handles : Flips(agent)
  PROVE  LineInv'
<1>1. /\ accum \in [on : BOOLEAN, text : Text] /\ pIndex \in Nat \ {0}
      /\ picker \in [asked : BOOLEAN, at : 1 .. Options, dismissed : BOOLEAN]
  BY InvTypes
<1>2. 1 \in 1 .. Options
  BY DraftAssumption
<1>3. ASSUME NEW step \in {1, -1}, PickerMoves(step) PROVE LineInv'
  <2>1. UNCHANGED <<draft, past, typed, pIndex, accum>> /\ Silent /\ Draws
    BY <1>3 DEF PickerMoves, Rest
  <2>2. Moved(picker.at, step) \in 1 .. Options
    BY <1>1, MovedType
  <2>3. picker' \in [asked : BOOLEAN, at : 1 .. Options, dismissed : BOOLEAN]
    BY <1>1, <1>3, <2>2 DEF PickerMoves
  <2>. QED  BY <2>1, <2>3, <1>1, BesideKeeps
<1>4. ASSUME NEW step \in {1, -1}, PaletteMoves(step) PROVE LineInv'
  <2>1. UNCHANGED <<draft, past, typed, picker, accum>> /\ Silent /\ Draws
    BY <1>4 DEF PaletteMoves, Rest
  <2>2. PICK n \in Nat : n = Len(MatchCommands(drawn.text))
    BY MatchType
  <2>3. n # 0
    <3>1. PICK ms \in Seq(Text) : ms = MatchCommands(drawn.text)
      BY MatchType
    <3>2. ms # <<>>
      BY <1>4, <3>1 DEF PaletteMoves, PaletteOpen
    <3>. QED  BY <2>2, <3>1, <3>2
  <2>4. PICK k : k = pIndex - 1 + step + n
    OBVIOUS
  <2>5. k \in Int
    BY <1>1, <2>4
  <2>6. k % n \in 0 .. (n - 1)
    BY ONLY <2>3, <2>5, n \in Nat
  <2>7. pIndex' = (k % n) + 1
    BY <1>4, <2>2, <2>4 DEF PaletteMoves
  <2>8. pIndex' \in Nat \ {0}
    BY <2>6, <2>7
  <2>. QED  BY <2>1, <2>8, <1>1, BesideKeeps
<1>5. CASE Dismisses
  <2>1. UNCHANGED <<draft, past, typed, pIndex, accum>> /\ Silent /\ Draws
    BY <1>5 DEF Dismisses, Rest
  <2>2. picker' \in [asked : BOOLEAN, at : 1 .. Options, dismissed : BOOLEAN]
    BY <1>1, <1>5 DEF Dismisses
  <2>. QED  BY <2>1, <2>2, <1>1, BesideKeeps
<1>6. CASE Reads \/ ReadImage \/ ReadNothing
  <2>1. UNCHANGED <<draft, past, typed, pIndex, accum, picker>> /\ Silent /\ Draws
    BY <1>6 DEF Reads, ReadImage, ReadNothing
  <2>. QED  BY <2>1, <1>1, BesideKeeps
<1>7. CASE Asks
  <2>1. UNCHANGED <<draft, past, typed, pIndex, accum>> /\ Silent /\ Draws
    BY <1>7 DEF Asks
  <2>2. picker' \in [asked : BOOLEAN, at : 1 .. Options, dismissed : BOOLEAN]
    BY <1>1, <1>2, <1>7 DEF Asks
  <2>. QED  BY <2>1, <2>2, <1>1, BesideKeeps
<1>8. ASSUME NEW agent \in Handles, Flips(agent) PROVE LineInv'
  <2>1. UNCHANGED <<draft, past, typed, pIndex, accum, picker>> /\ Silent /\ Draws
    BY <1>8 DEF Flips
  <2>. QED  BY <2>1, <1>1, BesideKeeps
<1>. QED  BY <1>3, <1>4, <1>5, <1>6, <1>7, <1>8

LEMMA EntersKeeps ==
  ASSUME LineInv, ~Bursts, Enters PROVE LineInv'
<1>. DEFINE line == Trimmed(ExpandPastes(draft.text))
<1>1. Reset /\ Draws /\ accum' = accum /\ picker' = picker /\ ~PickerOpen(drawn)
  BY DEF Enters
<1>2. \/ Did(Runs(line)) /\ past' = PushPrompt(past, Trimmed(draft.text))
      \/ Silent /\ past' = past
  BY DEF Enters
<1>3. SentAsShown'
  <2>1. ASSUME Did(Runs(line)) PROVE SentAsShown'
    <3>1. drawn = Now /\ LineTypes /\ LinesPlain
      BY InvTypes
    <3>2. Runs(line) = Meaning(drawn)
      <4>1. CASE PaletteOpen(drawn)
        BY <4>1, <1>1 DEF Runs, Meaning
      <4>2. CASE ~PaletteOpen(drawn)
        <5>1. RunsLine(line) = Bordered(drawn)
          BY <3>1, LineShown
        <5>. HIDE DEF line
        <5>. QED  BY <5>1, <4>2, <1>1 DEF Runs, Meaning
      <4>. QED  BY <4>1, <4>2
    <3>. HIDE DEF line
    <3>. QED  BY <2>1, <3>1, <3>2 DEF Did, SentAsShown
  <2>. HIDE DEF line
  <2>. QED  BY <1>2, <2>1, SilentTells
<1>. QED  BY <1>1, <1>2, <1>3, ResetKeeps

LEMMA EscapesKeeps ==
  ASSUME LineInv, ~Bursts, Escapes PROVE LineInv'
<1>1. Reset /\ Draws /\ accum' = accum /\ picker' = picker /\ past' = past /\ Silent
  BY DEF Escapes
<1>. QED  BY <1>1, SilentTells, ResetKeeps

LEMMA PlainSign ==
  ASSUME NEW t \in Text, StartsWith(t, "/") PROVE Plain(t)
<1>1. StartsWith(Trimmed(ExpandPastes(t)), "/")
  BY SentSign
<1>. QED  BY <1>1, Modes DEF Plain

\* A step that leaves the history alone and puts another line in the place of one.
LEMMA ReplacesKeeps ==
  ASSUME LineInv, ~Bursts, NEW t \in Text, NEW cur \in Nat, cur <= Len(t), Plain(t), Silent, Draws,
         draft' = [text |-> t, cur |-> cur],
         past' \in [entries : Seq(Text), index : Nat, parked : Text], past'.index <= Len(past'.entries),
         past'.entries = past.entries, Plain(past'.parked),
         past'.index = 0 => t = typed', past'.index # 0 => t = <<>> \/ past'.parked = typed',
         pIndex' \in Nat \ {0}, UNCHANGED <<accum, picker>>
  PROVE  LineInv'
<1>1. LineTypes'
  <2>1. draft' \in [text : Text, cur : Nat] /\ draft'.cur <= Len(draft'.text)
    OBVIOUS
  <2>. QED  BY <2>1, InvTypes DEF LineTypes, Draws
<1>2. LinesPlain'
  <2>1. draft'.text = t
    OBVIOUS
  <2>. QED  BY <2>1 DEF LineInv, LinesPlain, Plain
<1>3. DraftParked' /\ LineTells'
  <2>1. draft'.text = t
    OBVIOUS
  <2>. QED  BY <2>1, SilentTells DEF DraftParked, LineTells, DraftKept
<1>. QED  BY <1>1, <1>2, <1>3 DEF LineInv

LEMMA CompletedKeeps ==
  ASSUME LineInv, ~Bursts, Completes PROVE LineInv'
<1>1. LineTypes /\ LinesPlain /\ DraftParked
      /\ past \in [entries : Seq(Text), index : Nat, parked : Text] /\ past.index <= Len(past.entries)
      /\ drawn.text = draft.text
  BY InvTypes, DrawnIs
<1>2. PaletteOpen(drawn) /\ Silent /\ Draws /\ UNCHANGED <<past, picker, accum>> /\ pIndex' = 1
  BY DEF Completes, Rest
<1>3. PICK h \in Text : h = Highlighted(drawn)
  BY <1>1, <1>2, HighlightedType
<1>4. <<"/">> \in Text /\ Len(<<"/">>) = 1 /\ <<"/">>[1] = "/" /\ <<" ">> \in Text /\ Len(<<" ">>) = 1
  BY OneText DEF Characters, Signs, Spaces
<1>5. PICK u \in Text : u = <<"/">> \o h /\ Len(u) = 1 + Len(h) /\ u[1] = "/"
  <2>1. PICK c \in Text : c = <<"/">> /\ Len(c) = 1
    BY <1>4
  <2>2. c \o h \in Text /\ Len(c \o h) = Len(c) + Len(h)
        /\ \A i \in 1 .. (Len(c) + Len(h)) : (c \o h)[i] = IF i <= Len(c) THEN c[i] ELSE h[i - Len(c)]
    BY TextConcat
  <2>3. PICK w : w = c \o h
    OBVIOUS
  <2>4. w \in Text /\ Len(w) = 1 + Len(h)
        /\ \A i \in 1 .. (1 + Len(h)) : w[i] = IF i <= 1 THEN c[i] ELSE h[i - 1]
    BY ONLY <2>1, <2>2, <2>3
  <2>5. 1 \in 1 .. (1 + Len(h)) /\ 1 <= 1
    BY DEF Text
  <2>6. w[1] = c[1]
    BY ONLY <2>4, <2>5
  <2>7. c[1] = "/"
    BY <2>1, <1>4
  <2>. QED  BY <2>1, <2>3, <2>4, <2>6, <2>7
<1>6. Len(h) \in Nat
  BY DEF Text
<1>7. PICK t \in Text : t = u \o <<" ">> /\ Len(t) = Len(u) + 1 /\ t[1] = u[1]
  <2>1. PICK c \in Text : c = <<" ">> /\ Len(c) = 1
    BY <1>4
  <2>2. u \o c \in Text /\ Len(u \o c) = Len(u) + Len(c)
        /\ \A i \in 1 .. (Len(u) + Len(c)) : (u \o c)[i] = IF i <= Len(u) THEN u[i] ELSE c[i - Len(u)]
    BY TextConcat
  <2>3. 1 \in 1 .. (Len(u) + Len(c)) /\ 1 <= Len(u)
    <3>1. Len(u) = 1 + Len(h) /\ Len(c) = 1 /\ Len(h) \in Nat
      BY <1>5, <1>6, <2>1
    <3>. QED  BY ONLY <3>1
  <2>4. PICK w : w = u \o c
    OBVIOUS
  <2>5. w \in Text /\ Len(w) = Len(u) + 1 /\ w[1] = u[1]
    <3>1. w \in Text /\ Len(w) = Len(u) + Len(c) /\ w[1] = IF 1 <= Len(u) THEN u[1] ELSE c[1 - Len(u)]
      BY ONLY <2>2, <2>3, <2>4
    <3>. QED  BY <3>1, <2>1, <2>3
  <2>. QED  BY <2>1, <2>4, <2>5
<1>8. t # <<>> /\ t[1] = "/" /\ Len(t) \in Nat
  <2>1. Len(t) = 1 + Len(h) + 1
    BY <1>5, <1>7
  <2>2. Len(t) \in Nat \ {0}
    BY ONLY <1>6, <2>1
  <2>3. t # <<>>
    BY <2>2
  <2>. QED  BY <1>5, <1>7, <2>2, <2>3
<1>9. Plain(t)
  BY <1>8, StartsIs, PlainSign
<1>10. draft' = [text |-> t, cur |-> Len(t)] /\ typed' = IF past.index = 0 THEN t ELSE typed
  BY <1>3, <1>5, <1>7 DEF Completes, SetDraft
<1>11. past.index # 0 => past.parked = typed'
  <2>1. draft.text # <<>>
    BY <1>1, <1>2 DEF PaletteOpen, MatchCommands, StartsWith
  <2>. QED  BY <2>1, <1>1, <1>10 DEF DraftParked
<1>12. Plain(past.parked)
  BY <1>1 DEF LinesPlain
<1>. QED  BY <1>1, <1>2, <1>8, <1>9, <1>10, <1>11, <1>12, ReplacesKeeps

\* The cursor moves in the line.
LEMMA MovesKeeps ==
  ASSUME LineInv, ~Bursts, NEW cur \in 0 .. Len(draft.text), draft' = [draft EXCEPT !.cur = cur],
         Silent, Draws, UNCHANGED <<past, typed, pIndex, picker, accum>>
  PROVE  LineInv'
<1>1. LineTypes /\ LinesPlain /\ DraftParked /\ LineTells
  BY InvTypes
<1>2. draft \in [text : Text, cur : Nat] /\ Len(draft.text) \in Nat
  BY <1>1, DrawnIs DEF LineTypes
<1>3. draft' = [text |-> draft.text, cur |-> cur]
  BY <1>2
<1>4. past.index = 0 => draft.text = typed
  BY <1>1 DEF LineTells, DraftKept
<1>5. Plain(draft.text) /\ Plain(past.parked)
  BY <1>1 DEF LinesPlain
<1>6. cur \in Nat /\ cur <= Len(draft.text) /\ draft.text \in Text
  BY <1>2
<1>. QED  BY <1>1, <1>3, <1>4, <1>5, <1>6, InvTypes, ReplacesKeeps DEF DraftParked

LEMMA UpsKeeps ==
  ASSUME LineInv, ~Bursts, Ups PROVE LineInv'
<1>1. LineTypes /\ LinesPlain /\ DraftParked /\ LineTells /\ drawn.text = draft.text /\ drawn.cur = draft.cur
      /\ past \in [entries : Seq(Text), index : Nat, parked : Text] /\ past.index <= Len(past.entries)
      /\ draft.text \in Text /\ draft.cur \in 0 .. Len(draft.text) /\ pIndex \in Nat \ {0}
      /\ draft \in [text : Text, cur : Nat]
  BY InvTypes, DrawnIs
<1>2. Silent /\ Draws /\ UNCHANGED <<typed, pIndex, picker, accum>> /\ drawn.text # <<>>
  BY DEF Ups, Rest
<1>. DEFINE back == RecallPrev(past, drawn.text, draft.text)
<1>3. \/ draft' = [draft EXCEPT !.cur = AboveOf(drawn.text, drawn.cur)] /\ past' = past
      \/ past' = back.past /\ draft' = IF back.past = past THEN draft
                                       ELSE [text |-> back.line, cur |-> Len(back.line)]
  BY DEF Ups
<1>4. CASE draft' = [draft EXCEPT !.cur = AboveOf(drawn.text, drawn.cur)] /\ past' = past
  <2>1. PICK cur \in 0 .. Len(draft.text) : cur = AboveOf(drawn.text, drawn.cur)
    BY <1>1, AboveType
  <2>. QED  BY <2>1, <1>2, <1>4, MovesKeeps
<1>5. CASE past' = back.past /\ back.past = past /\ draft' = draft
  <2>1. UNCHANGED <<draft, past, typed>>
    BY <1>2, <1>5
  <2>. QED  BY <2>1, <1>2, InvTypes, BesideKeeps
<1>6. CASE /\ past' = back.past /\ back.past # past
           /\ draft' = [text |-> back.line, cur |-> Len(back.line)]
  <2>1. ~(past.entries = <<>> \/ past.index = 1)
    BY <1>6 DEF RecallPrev
  <2>2. PICK at : at = IF past.index = 0 THEN Len(past.entries) ELSE past.index - 1
    OBVIOUS
  <2>3. back = [past |-> [past EXCEPT !.index = at, !.parked = IF past.index = 0 THEN draft.text ELSE @],
                line |-> past.entries[at]]
    BY <2>1, <2>2, <1>1 DEF RecallPrev
  <2>4. past.entries \in Seq(Text) /\ past.index \in Nat /\ Len(past.entries) \in Nat \ {0}
    BY <1>1, <2>1
  <2>5. at \in 1 .. Len(past.entries)
    BY <2>1, <2>2, <2>4, <1>1
  <2>6. PICK t \in Text : t = past.entries[at]
    BY <2>4, <2>5
  <2>7. Plain(t) /\ Len(t) \in Nat
    BY <2>5, <2>6, <1>1 DEF LinesPlain, Text
  <2>8. draft' = [text |-> t, cur |-> Len(t)]
        /\ past' = [past EXCEPT !.index = at, !.parked = IF past.index = 0 THEN draft.text ELSE @]
    BY <2>3, <2>6, <1>6
  <2>9. past'.entries = past.entries /\ past'.index = at
        /\ past'.parked = (IF past.index = 0 THEN draft.text ELSE past.parked)
        /\ past' \in [entries : Seq(Text), index : Nat, parked : Text]
    <3>1. PICK kept \in Text : kept = IF past.index = 0 THEN draft.text ELSE past.parked
      BY <1>1
    <3>2. past' = [past EXCEPT !.index = at, !.parked = kept]
      BY <2>8, <3>1
    <3>3. at \in Nat
      BY <2>5
    <3>. QED  BY <3>1, <3>2, <3>3, <1>1
  <2>10. past'.parked = typed'
    <3>1. CASE past.index = 0
      BY <3>1, <2>9, <1>1, <1>2 DEF LineTells, DraftKept
    <3>2. CASE past.index # 0
      BY <3>2, <2>9, <1>1, <1>2 DEF DraftParked
    <3>. QED  BY <3>1, <3>2
  <2>11. Plain(past'.parked)
    BY <2>9, <1>1 DEF LinesPlain
  <2>12. past'.index # 0 /\ past'.index <= Len(past'.entries)
    BY <2>5, <2>9
  <2>. HIDE DEF back
  <2>13. Len(t) <= Len(t)
    BY <2>7
  <2>. QED  BY <2>7, <2>8, <2>9, <2>10, <2>11, <2>12, <2>13, <1>1, <1>2, ReplacesKeeps
<1>. HIDE DEF back
<1>. QED  BY <1>3, <1>4, <1>5, <1>6

LEMMA DownsKeeps ==
  ASSUME LineInv, ~Bursts, Downs PROVE LineInv'
<1>1. LineTypes /\ LinesPlain /\ DraftParked /\ LineTells /\ drawn.text = draft.text /\ drawn.cur = draft.cur
      /\ past \in [entries : Seq(Text), index : Nat, parked : Text] /\ past.index <= Len(past.entries)
      /\ draft.text \in Text /\ draft.cur \in 0 .. Len(draft.text) /\ pIndex \in Nat \ {0}
      /\ draft \in [text : Text, cur : Nat]
  BY InvTypes, DrawnIs
<1>2. Silent /\ Draws /\ UNCHANGED <<typed, pIndex, picker, accum>> /\ drawn.text # <<>>
  BY DEF Downs, Rest
<1>. DEFINE on == RecallNext(past, draft.text)
<1>3. \/ draft' = [draft EXCEPT !.cur = BelowOf(drawn.text, drawn.cur)] /\ past' = past
      \/ past' = on.past /\ draft' = IF on.past = past THEN draft
                                     ELSE [text |-> on.line, cur |-> Len(on.line)]
  BY DEF Downs
<1>4. CASE draft' = [draft EXCEPT !.cur = BelowOf(drawn.text, drawn.cur)] /\ past' = past
  <2>1. PICK cur \in 0 .. Len(draft.text) : cur = BelowOf(drawn.text, drawn.cur)
    BY <1>1, BelowType
  <2>. QED  BY <2>1, <1>2, <1>4, MovesKeeps
<1>5. CASE past' = on.past /\ on.past = past /\ draft' = draft
  <2>1. UNCHANGED <<draft, past, typed>>
    BY <1>2, <1>5
  <2>. QED  BY <2>1, <1>2, InvTypes, BesideKeeps
<1>6. CASE /\ past' = on.past /\ on.past # past
           /\ draft' = [text |-> on.line, cur |-> Len(on.line)]
  <2>1. past.index # 0
    BY <1>6 DEF RecallNext
  <2>2. past.entries \in Seq(Text) /\ past.index \in Nat /\ Len(past.entries) \in Nat /\ past.parked \in Text
    BY <1>1
  <2>3. past.parked = typed /\ typed' = typed
    BY <2>1, <1>1, <1>2 DEF DraftParked
  <2>4. CASE past.index \in 1 .. (Len(past.entries) - 1)
    <3>1. on = [past |-> [past EXCEPT !.index = @ + 1], line |-> past.entries[past.index + 1]]
      BY <2>1, <2>4 DEF RecallNext
    <3>2. past.index + 1 \in 1 .. Len(past.entries)
      BY <2>2, <2>4
    <3>3. PICK t \in Text : t = past.entries[past.index + 1]
      BY <2>2, <3>2
    <3>4. Plain(t) /\ Len(t) \in Nat
      BY <3>2, <3>3, <1>1 DEF LinesPlain, Text
    <3>5. draft' = [text |-> t, cur |-> Len(t)] /\ past' = [past EXCEPT !.index = past.index + 1]
      BY <3>1, <3>3, <1>6
    <3>6. past'.entries = past.entries /\ past'.index = past.index + 1 /\ past'.parked = past.parked
          /\ past' \in [entries : Seq(Text), index : Nat, parked : Text]
      <4>1. past.index + 1 \in Nat
        BY <2>2
      <4>. QED  BY <4>1, <3>5, <1>1
    <3>7. past'.index # 0 /\ past'.index <= Len(past'.entries) /\ Plain(past'.parked)
      BY <3>2, <3>6, <1>1 DEF LinesPlain
    <3>. HIDE DEF on
    <3>8. Len(t) <= Len(t)
      BY <3>4
    <3>. QED  BY <3>4, <3>5, <3>6, <3>7, <3>8, <2>3, <1>1, <1>2, ReplacesKeeps
  <2>5. CASE past.index \notin 1 .. (Len(past.entries) - 1)
    <3>1. on = [past |-> [past EXCEPT !.index = 0], line |-> past.parked]
      BY <2>1, <2>5 DEF RecallNext
    <3>2. PICK t \in Text : t = past.parked
      BY <2>2
    <3>3. Plain(t) /\ Len(t) \in Nat
      BY <3>2, <1>1 DEF LinesPlain, Text
    <3>4. draft' = [text |-> t, cur |-> Len(t)] /\ past' = [past EXCEPT !.index = 0]
      BY <3>1, <3>2, <1>6
    <3>5. past'.entries = past.entries /\ past'.index = 0 /\ past'.parked = past.parked
          /\ past' \in [entries : Seq(Text), index : Nat, parked : Text]
      BY <3>4, <1>1
    <3>6. past'.index <= Len(past'.entries) /\ Plain(past'.parked)
      BY <3>5, <2>2, <1>1 DEF LinesPlain
    <3>. HIDE DEF on
    <3>7. Len(t) <= Len(t)
      BY <3>3
    <3>. QED  BY <3>2, <3>3, <3>4, <3>5, <3>6, <3>7, <2>3, <1>1, <1>2, ReplacesKeeps
  <2>. QED  BY <2>4, <2>5
<1>. HIDE DEF on
<1>. QED  BY <1>3, <1>4, <1>5, <1>6

LEMMA GoesKeeps ==
  ASSUME LineInv, ~Bursts, Goes PROVE LineInv'
<1>1. drawn.text = draft.text /\ drawn.cur = draft.cur /\ draft.text \in Text
      /\ draft.cur \in 0 .. Len(draft.text) /\ Len(draft.text) \in Nat
  BY InvTypes, DrawnIs
<1>2. PICK cur \in {IF draft.cur = 0 THEN 0 ELSE draft.cur - 1,
                    IF draft.cur = Len(draft.text) THEN draft.cur ELSE draft.cur + 1,
                    LineStart(drawn.text, drawn.cur), LineEnd(drawn.text, drawn.cur)} :
        draft' = [draft EXCEPT !.cur = cur]
  BY DEF Goes
<1>3. cur \in 0 .. Len(draft.text)
  <2>1. LineStart(drawn.text, drawn.cur) \in 0 .. draft.cur
    BY <1>1, LineStartType
  <2>2. LineEnd(drawn.text, drawn.cur) \in draft.cur .. Len(draft.text)
    BY <1>1, LineEndType
  <2>. QED  BY <1>1, <1>2, <2>1, <2>2
<1>4. Silent /\ Draws /\ UNCHANGED <<past, typed, pIndex, picker, accum>>
  BY DEF Goes, Rest
<1>. QED  BY <1>2, <1>3, <1>4, MovesKeeps

LEMMA LineStep ==
  ASSUME LineInv, ~Bursts, ~Hidden, [LineNext]_lineVars PROVE LineInv'
<1>1. CASE UNCHANGED lineVars
  <2>1. UNCHANGED <<draft, past, typed, accum, pIndex, picker, images, active, drawn, lastDid, lastMeant>>
    BY <1>1 DEF lineVars
  <2>2. LineTypes'
    BY <2>1, InvTypes DEF LineTypes, Now, View
  <2>3. LinesPlain' /\ DraftParked' /\ LineTells'
    BY <2>1, InvTypes DEF LinesPlain, Plain, DraftParked, LineTells, SentAsShown, DraftKept
  <2>. QED  BY <2>2, <2>3 DEF LineInv
<1>2. CASE Renders
  BY <1>2 DEF Renders
<1>3. CASE \E symbol \in Symbols : TypesIn(symbol)
  BY <1>3, TypesInKeeps
<1>4. CASE (\E choice \in 1 .. Options : PicksByDigit(choice)) \/ PicksHighlighted
  BY <1>4, PicksKeeps
<1>5. CASE \/ \E step \in {1, -1} : PickerMoves(step) \/ PaletteMoves(step)
           \/ Dismisses \/ Reads \/ ReadImage \/ ReadNothing \/ Asks
           \/ \E agent \in Handles : Flips(agent)
  BY <1>5, AsideKeys
<1>6. CASE BreaksLine
  BY <1>6, BreaksLineKeeps
<1>7. CASE Enters
  BY <1>7, EntersKeeps
<1>8. CASE Escapes
  BY <1>8, EscapesKeeps
<1>9. CASE Completes
  BY <1>9, CompletedKeeps
<1>10. CASE Ups
  BY <1>10, UpsKeeps
<1>11. CASE Downs
  BY <1>11, DownsKeeps
<1>12. CASE Goes
  BY <1>12, GoesKeeps
<1>13. CASE \E at \in DOMAIN draft.text : Erases(at)
  BY <1>13, ErasesKeeps
<1>14. CASE \E marker \in Markers : PasteBegins(<<>>) \/ PasteEnds(<<marker>>)
  BY <1>14, PastesKeeps
<1>15. CASE \E symbol \in Markers \cup Letters : ReadText(<<symbol>>)
  BY <1>15, ReadTextKeeps
<1>. QED  BY <1>1, <1>2, <1>3, <1>4, <1>5, <1>6, <1>7, <1>8, <1>9, <1>10, <1>11, <1>12, <1>13, <1>14, <1>15
          DEF LineNext

\* Whatever is typed, pasted, recalled and completed, key by key: ⏎ does in the Ink client
\* what the screen said, and a draft left for the lines before it comes back.
THEOREM TheLineTells ==
  ASSUME ~Bursts, ~Hidden
  PROVE  LineSpec => []LineTells
<1>1. LineInit => LineInv
  BY InitLine
<1>2. LineInv /\ [LineNext]_lineVars => LineInv'
  BY LineStep
<1>3. LineInv => LineTells
  BY DEF LineInv
<1>. QED  BY <1>1, <1>2, <1>3, PTL DEF LineSpec

\* The values from x on, each the step's of the one before.
Iterated(f, n, S, x, step) ==
  f \in [0 .. n -> S] /\ f[0] = x /\ \A i \in 1 .. n : f[i] = step[i][f[i - 1]]
Steps(n, S) == [1 .. n -> [S -> S]]

\* There are such values for every step.
LEMMA Iterates ==
  ASSUME NEW n \in Nat, NEW S, NEW x, NEW step, x \in S, step \in Steps(n, S)
  PROVE  \E f : Iterated(f, n, S, x, step)
<1>. USE DEF Steps
<1>. DEFINE Upto(m, f) == f \in [0 .. m -> S]
                          /\ f = [i \in 0 .. m |-> IF i = 0 THEN x ELSE step[i][f[i - 1]]]
            T == {m \in 0 .. n : ~ \E f : Upto(m, f)}
<1>1. T = {}
  <2>. SUFFICES ASSUME T # {} PROVE FALSE
    OBVIOUS
  <2>1. T \subseteq Nat
    <3>. HIDE DEF Upto
    <3>. QED  OBVIOUS
  <2>2. PICK m \in T : \A k \in T : m <= k
    BY <2>1, LeastIn
  <2>3. m \in Nat /\ m <= n
    OBVIOUS
  <2>4. ASSUME m = 0 PROVE FALSE
    <3>. DEFINE g == [i \in 0 .. 0 |-> x]
    <3>1. Upto(0, g)
      OBVIOUS
    <3>. QED  BY <3>1, <2>4
  <2>5. ASSUME m # 0 PROVE FALSE
    <3>1. m - 1 \in 0 .. n /\ m - 1 < m
      BY <2>3, <2>5
    <3>2. m - 1 \notin T
      <4>. HIDE DEF T
      <4>. QED  BY <3>1, <2>2, <2>3
    <3>3. PICK f : Upto(m - 1, f)
      BY <3>1, <3>2
    <3>4. PICK y \in S : y = step[m][f[m - 1]]
      <4>1. m \in 1 .. n /\ m - 1 \in 0 .. m - 1 /\ f[m - 1] \in S
        BY <2>3, <2>5, <3>3
      <4>. QED  BY <4>1
    <3>. DEFINE g == [i \in 0 .. m |-> IF i = m THEN y ELSE f[i]]
    <3>6. \A i \in 0 .. m : i # m => i \in 0 .. (m - 1)
      BY <2>3
    <3>7. g \in [0 .. m -> S]
      BY <3>3, <3>6
    <3>8. \A i \in 0 .. m : g[i] = IF i = 0 THEN x ELSE step[i][g[i - 1]]
      <4>. SUFFICES ASSUME NEW i \in 0 .. m
           PROVE  g[i] = IF i = 0 THEN x ELSE step[i][g[i - 1]]
        OBVIOUS
      <4>1. CASE i = m
        <5>1. i - 1 \in 0 .. m /\ i - 1 # m
          BY <4>1, <2>3, <2>5
        <5>2. g[i] = y /\ g[i - 1] = f[i - 1]
          BY <4>1, <5>1
        <5>. QED  BY <4>1, <5>2, <2>5, <3>4
      <4>2. CASE i # m /\ i # 0
        <5>1. i - 1 \in 0 .. m /\ i - 1 # m /\ i \in 0 .. (m - 1)
          BY <4>2, <2>3, <2>5
        <5>2. f[i] = step[i][f[i - 1]]
          BY <5>1, <3>3, <4>2
        <5>. QED  BY <4>2, <5>1, <5>2
      <4>3. CASE i # m /\ i = 0
        <5>1. 0 \in 0 .. (m - 1)
          BY <4>3, <3>6
        <5>2. f[0] = x
          BY <5>1, <3>3
        <5>. QED  BY <4>3, <5>2
      <4>. QED  BY <4>1, <4>2, <4>3
    <3>9. Upto(m, g)
      <4>. HIDE DEF g
      <4>1. g = [i \in 0 .. m |-> g[i]]
        BY <3>7
      <4>. QED  BY <3>7, <3>8, <4>1
    <3>. QED  BY <3>9
  <2>. QED  BY <2>4, <2>5
<1>2. n \in 0 .. n
  OBVIOUS
<1>. HIDE DEF Upto
<1>3. PICK f : Upto(n, f)
  BY <1>1, <1>2
<1>4. f \in [0 .. n -> S] /\ \A i \in 0 .. n : f[i] = IF i = 0 THEN x ELSE step[i][f[i - 1]]
  BY <1>3 DEF Upto
<1>5. 0 \in 0 .. n /\ \A i \in 1 .. n : i \in 0 .. n /\ i # 0
  OBVIOUS
<1>. QED  BY <1>4, <1>5 DEF Iterated

(* ---- a reply: what is shown of its parts ----------------------------------- *)

Calls == Nat \X Nat
RunParts == [type : Types, seq : Nat, content : Seq(Chars)]
CallParts == [type : {"tool"}, seq : Nat, id : Calls]
Parts == RunParts \cup CallParts

LEMMA TrimBetween ==
  ASSUME NEW s \in Seq(Chars), NEW i \in 1 .. Len(s), NEW j \in 1 .. Len(s), i <= j,
         s[i] # "blank", s[j] # "blank",
         \A k \in 1 .. Len(s) : s[k] # "blank" => i <= k /\ k <= j
  PROVE  Trim(s) = SubSeq(s, i, j)
<1>. DEFINE words == {k \in DOMAIN s : s[k] # "blank"}
<1>1. DOMAIN s = 1 .. Len(s) /\ Len(s) \in Nat
  OBVIOUS
<1>2. i \in words /\ j \in words /\ (\A k \in words : k \in Int /\ i <= k /\ k <= j)
  BY <1>1
<1>3. ~AllBlank(s)
  BY <1>1 DEF AllBlank
<1>4. Trim(s) = SubSeq(s, CHOOSE x \in words : \A y \in words : x <= y,
                          CHOOSE x \in words : \A y \in words : y <= x)
  BY <1>3 DEF Trim
<1>. HIDE DEF words
<1>5. (CHOOSE x \in words : \A y \in words : x <= y) = i
  <2>1. \A x \in words : (\A y \in words : x <= y) => x = i
    BY <1>2
  <2>. QED  BY <1>2, <2>1
<1>6. (CHOOSE x \in words : \A y \in words : y <= x) = j
  <2>1. \A x \in words : (\A y \in words : y <= x) => x = j
    BY <1>2
  <2>. QED  BY <1>2, <2>1
<1>. QED  BY <1>4, <1>5, <1>6

\* Trimming once is enough.
LEMMA TrimOnce ==
  ASSUME NEW s \in Seq(Chars)
  PROVE  Trim(s) \in Seq(Chars) /\ Trim(Trim(s)) = Trim(s)
<1>. DEFINE n == Len(s)
            words == {k \in 1 .. n : s[k] # "blank"}
<1>1. n \in Nat /\ DOMAIN s = 1 .. n
  OBVIOUS
<1>2. CASE words = {}
  <2>1. Trim(s) = <<>>
    BY <1>1, <1>2 DEF Trim, AllBlank
  <2>2. Trim(<<>>) = <<>>
    BY DEF Trim, AllBlank
  <2>. QED  BY <2>1, <2>2
<1>3. CASE words # {}
  <2>0. words \subseteq 1 .. n /\ words \subseteq Nat
    BY <1>1
  <2>1. PICK i \in words : \A k \in words : i <= k
    BY <2>0, <1>3, LeastIn
  <2>2. PICK j \in words : \A k \in words : k <= j
    BY <2>0, <1>1, <1>3, GreatestIn
  <2>3. i \in 1 .. n /\ j \in 1 .. n /\ s[i] # "blank" /\ s[j] # "blank" /\ i <= j
        /\ \A k \in 1 .. n : s[k] # "blank" => i <= k /\ k <= j
    BY <2>1, <2>2
  <2>. HIDE DEF words
  <2>4. PICK m : m = SubSeq(s, i, j)
    OBVIOUS
  <2>5. Trim(s) = m
    BY <2>3, <2>4, TrimBetween
  <2>6. m \in Seq(Chars) /\ Len(m) = j - i + 1 /\ \A k \in 1 .. (j - i + 1) : m[k] = s[i + k - 1]
    <3>1. i \in Int /\ j \in Int /\ \A k \in i .. j : s[k] \in Chars
      BY <2>3, <1>1
    <3>2. SubSeq(s, i, j) \in Seq(Chars)
      BY <3>1, SubSeqProperties
    <3>3. Len(SubSeq(s, i, j)) = IF i <= j THEN j - i + 1 ELSE 0
      BY <3>1, SubSeqProperties
    <3>4. \A k \in 1 .. (j - i + 1) : SubSeq(s, i, j)[k] = s[i + k - 1]
      BY <3>1, SubSeqProperties
    <3>. QED  BY <3>2, <3>3, <3>4, <2>3, <2>4
  <2>7. 1 \in 1 .. Len(m) /\ Len(m) \in 1 .. Len(m) /\ m[1] # "blank" /\ m[Len(m)] # "blank"
    <3>1. 1 \in 1 .. (j - i + 1) /\ j - i + 1 \in 1 .. (j - i + 1)
          /\ i + 1 - 1 = i /\ i + (j - i + 1) - 1 = j
      BY <2>3, <1>1
    <3>. QED  BY <3>1, <2>3, <2>6
  <2>8. Trim(m) = SubSeq(m, 1, Len(m))
    <3>1. 1 <= Len(m) /\ \A k \in 1 .. Len(m) : 1 <= k /\ k <= Len(m)
      BY <2>7
    <3>. QED  BY <3>1, <2>6, <2>7, TrimBetween
  <2>. QED  BY <2>5, <2>6, <2>8, SubSeqFull
<1>. QED  BY <1>2, <1>3

\* The line of a part: none of a blank run, nor of a call that is not known.
LineOf(p, act) ==
  IF p.type # "tool"
  THEN IF Trim(p.content) = <<>> THEN <<>> ELSE <<[kind |-> p.type, content |-> Trim(p.content)]>>
  ELSE IF ItemsOf(act, p.id) = {} THEN <<>> ELSE <<[id |-> p.id, ok |-> WentWell(act, p.id)]>>

RunLines == [kind : Types, content : Seq(Chars)]
CallLines == [id : Calls, ok : BOOLEAN]
Shown == RunLines \cup CallLines

LEMMA LineType ==
  ASSUME NEW p \in Parts, NEW act
  PROVE  LineOf(p, act) \in Seq(Shown)
<1>1. CASE p \in RunParts
  <2>1. p.type \in Types /\ p.type # "tool" /\ p.content \in Seq(Chars)
    BY <1>1 DEF RunParts, Types
  <2>2. PICK c \in Seq(Chars) : c = Trim(p.content)
    BY <2>1, TrimOnce
  <2>3. [kind |-> p.type, content |-> c] \in Shown
    BY <2>1 DEF Shown, RunLines
  <2>. QED  BY <2>1, <2>2, <2>3 DEF LineOf
<1>2. CASE p \in CallParts
  <2>1. p.type = "tool" /\ p.id \in Calls
    BY <1>2 DEF CallParts
  <2>2. PICK ok \in BOOLEAN : ok = WentWell(act, p.id)
    BY DEF WentWell
  <2>3. [id |-> p.id, ok |-> ok] \in Shown
    BY <2>1 DEF Shown, CallLines
  <2>. QED  BY <2>1, <2>2, <2>3 DEF LineOf
<1>. QED  BY <1>1, <1>2 DEF Parts

LEMMA FrontOf ==
  ASSUME NEW S, NEW s \in Seq(S), NEW x \in S
  PROVE  Front(Append(s, x)) = s /\ Last(Append(s, x)) = x /\ Append(s, x) # <<>>
<1>1. PICK t : t = Append(s, x)
  OBVIOUS
<1>2. t \in Seq(S) /\ Len(t) = Len(s) + 1 /\ t[Len(s) + 1] = x /\ Len(s) \in Nat
      /\ \A i \in 1 .. Len(s) : t[i] = s[i]
  BY <1>1
<1>3. SubSeq(t, 1, Len(s)) = s
  <2>1. 1 \in Int /\ Len(s) \in Int /\ \A i \in 1 .. Len(s) : t[i] \in S
    BY <1>2
  <2>2. PICK u : u = SubSeq(t, 1, Len(s))
    OBVIOUS
  <2>3. u \in Seq(S) /\ Len(u) = Len(s) /\ \A i \in 1 .. Len(s) : u[i] = t[1 + i - 1]
    <3>1. Len(SubSeq(t, 1, Len(s))) = IF 1 <= Len(s) THEN Len(s) - 1 + 1 ELSE 0
      BY <2>1, SubSeqProperties
    <3>2. SubSeq(t, 1, Len(s)) \in Seq(S)
      BY <2>1, SubSeqProperties
    <3>3. \A i \in 1 .. (Len(s) - 1 + 1) : SubSeq(t, 1, Len(s))[i] = t[1 + i - 1]
      BY <2>1, SubSeqProperties
    <3>. QED  BY <3>1, <3>2, <3>3, <2>2, <1>2
  <2>4. \A i \in 1 .. Len(s) : u[i] = s[i]
    BY <2>3, <1>2
  <2>. QED  BY <2>2, <2>3, <2>4, SeqEqual
<1>4. Len(t) - 1 = Len(s) /\ t # <<>>
  BY <1>2
<1>. QED  BY <1>1, <1>2, <1>3, <1>4 DEF Front, Last

(* ---- a reply: its segments, call by call ------------------------------------ *)

ToolSegs == [kind : {"tools"}, ids : Seq(Calls), ok : BOOLEAN]
Segs == RunLines \cup ToolSegs
\* What has been put into segments: after a call the last of them is a group.
Accs == {acc \in [run : BOOLEAN, segs : Seq(Segs)] :
           acc.run => \E s \in Seq(Segs), t \in ToolSegs : acc.segs = Append(s, t)}
\* The segments with every call on a line of its own.
Flat(segs) == Joined([k \in DOMAIN segs |-> LinesOf(segs[k])])

LEMMA SegLines ==
  ASSUME NEW s \in Segs
  PROVE  LinesOf(s) \in Seq(Shown)
<1>1. CASE s \in RunLines
  <2>1. s.kind # "tools"
    BY <1>1 DEF RunLines, Types
  <2>2. s \in Shown
    BY <1>1 DEF Shown
  <2>. QED  BY <2>1, <2>2 DEF LinesOf
<1>2. CASE s \in ToolSegs
  <2>1. s.kind = "tools" /\ s.ids \in Seq(Calls) /\ s.ok \in BOOLEAN
    BY <1>2 DEF ToolSegs
  <2>2. \A k \in 1 .. Len(s.ids) : [id |-> s.ids[k], ok |-> s.ok] \in Shown
    <3>. SUFFICES ASSUME NEW k \in 1 .. Len(s.ids)
         PROVE  [id |-> s.ids[k], ok |-> s.ok] \in Shown
      OBVIOUS
    <3>1. s.ids[k] \in Calls
      BY <2>1
    <3>. QED  BY <2>1, <3>1 DEF Shown, CallLines
  <2>3. Len(s.ids) \in Nat /\ DOMAIN s.ids = 1 .. Len(s.ids)
    BY <2>1
  <2>4. LinesOf(s) = [k \in 1 .. Len(s.ids) |-> [id |-> s.ids[k], ok |-> s.ok]]
    BY <2>1, <2>3 DEF LinesOf
  <2>. QED  BY <2>2, <2>3, <2>4
<1>. QED  BY <1>1, <1>2 DEF Segs

LEMMA JoinedMore ==
  ASSUME NEW S, NEW ps \in Seq(Seq(S)), NEW p \in Seq(S)
  PROVE  Joined(ps) \in Seq(S) /\ Joined(Append(ps, p)) = Joined(ps) \o p
<1>1. <<p>> \in Seq(Seq(S))
  OBVIOUS
<1>2. Append(ps, p) = ps \o <<p>>
  BY AppendIsConcat
<1>3. Joined(ps \o <<p>>) = Joined(ps) \o Joined(<<p>>)
  BY <1>1, JoinedConcat
<1>. QED  BY <1>2, <1>3, JoinedOne, JoinedType

LEMMA FlatType ==
  ASSUME NEW segs \in Seq(Segs)
  PROVE  Flat(segs) \in Seq(Shown)
<1>1. Len(segs) \in Nat /\ DOMAIN segs = 1 .. Len(segs) /\ \A k \in 1 .. Len(segs) : segs[k] \in Segs
  OBVIOUS
<1>2. PICK ps : ps = [k \in 1 .. Len(segs) |-> LinesOf(segs[k])]
  OBVIOUS
<1>3. ps \in Seq(Seq(Shown))
  BY <1>1, <1>2, SegLines
<1>. QED  BY <1>1, <1>2, <1>3, JoinedType DEF Flat

\* One more segment is its lines more.
LEMMA FlatAppend ==
  ASSUME NEW segs \in Seq(Segs), NEW s \in Segs
  PROVE  Flat(Append(segs, s)) = Flat(segs) \o LinesOf(s)
<1>1. Len(segs) \in Nat /\ DOMAIN segs = 1 .. Len(segs) /\ \A k \in 1 .. Len(segs) : segs[k] \in Segs
  OBVIOUS
<1>2. PICK t : t = Append(segs, s)
  OBVIOUS
<1>3. Len(t) = Len(segs) + 1 /\ DOMAIN t = 1 .. (Len(segs) + 1) /\ t[Len(segs) + 1] = s
      /\ \A k \in 1 .. Len(segs) : t[k] = segs[k]
  BY <1>2
<1>4. PICK ps : ps = [k \in 1 .. Len(segs) |-> LinesOf(segs[k])]
  OBVIOUS
<1>5. ps \in Seq(Seq(Shown)) /\ Len(ps) = Len(segs)
  BY <1>1, <1>4, SegLines
<1>6. PICK l \in Seq(Shown) : l = LinesOf(s)
  BY SegLines
<1>7. [k \in DOMAIN t |-> LinesOf(t[k])] = Append(ps, l)
  <2>1. PICK u : u = Append(ps, l)
    OBVIOUS
  <2>2. /\ DOMAIN u = 1 .. (Len(segs) + 1) /\ u[Len(segs) + 1] = l
        /\ \A k \in 1 .. Len(segs) : u[k] = ps[k]
        /\ u = [k \in 1 .. (Len(segs) + 1) |-> u[k]]
    <3>1. u \in Seq(Seq(Shown)) /\ Len(u) = Len(segs) + 1 /\ u[Len(segs) + 1] = l
      BY <1>1, <1>5, <1>6, <2>1
    <3>2. \A k \in 1 .. Len(segs) : u[k] = ps[k]
      BY <1>1, <1>5, <1>6, <2>1
    <3>3. DOMAIN u = 1 .. (Len(segs) + 1) /\ u = [k \in DOMAIN u |-> u[k]]
      BY <3>1
    <3>. QED  BY <3>1, <3>2, <3>3
  <2>3. ASSUME NEW k \in 1 .. (Len(segs) + 1) PROVE u[k] = LinesOf(t[k])
    <3>1. k \in 1 .. Len(segs) \/ k = Len(segs) + 1
      BY <1>1
    <3>. QED  BY <3>1, <2>2, <1>3, <1>4, <1>6
  <2>. QED  BY <2>1, <2>2, <2>3, <1>3
<1>8. Joined(ps) \in Seq(Shown) /\ Joined(Append(ps, l)) = Joined(ps) \o l
  BY <1>5, JoinedMore
<1>. QED  BY <1>1, <1>2, <1>4, <1>6, <1>7, <1>8 DEF Flat

\* A part adds its line, whether its call joins the group before it or not.
LEMMA GroupedLines ==
  ASSUME NEW acc \in Accs, NEW p \in Parts, NEW act
  PROVE  Grouped(acc, p, act) \in Accs
         /\ Flat(Grouped(acc, p, act).segs) = Flat(acc.segs) \o LineOf(p, act)
<1>1. acc.run \in BOOLEAN /\ acc.segs \in Seq(Segs)
      /\ (acc.run => \E s \in Seq(Segs), t \in ToolSegs : acc.segs = Append(s, t))
  BY DEF Accs
<1>2. Flat(acc.segs) \in Seq(Shown) /\ Flat(acc.segs) \o <<>> = Flat(acc.segs)
  <2>2. Flat(acc.segs) \in Seq(Shown)
    BY <1>1, FlatType
  <2>. QED  BY <2>2
<1>3. CASE p.type # "tool"
  <2>1. p.type \in Types /\ p.content \in Seq(Chars)
    BY <1>3 DEF Parts, RunParts, CallParts
  <2>2. PICK c \in Seq(Chars) : c = Trim(p.content)
    BY <2>1, TrimOnce
  <2>3. PICK l : l = [kind |-> p.type, content |-> c]
    OBVIOUS
  <2>4. l \in Segs /\ LinesOf(l) = <<l>>
    <3>1. l \in RunLines /\ l.kind # "tools"
      BY <2>1, <2>3 DEF RunLines, Types
    <3>. QED  BY <3>1 DEF Segs, LinesOf
  <2>5. Grouped(acc, p, act) = [run |-> FALSE, segs |-> IF c = <<>> THEN acc.segs ELSE Append(acc.segs, l)]
    BY <1>3, <2>2, <2>3 DEF Grouped
  <2>6. LineOf(p, act) = IF c = <<>> THEN <<>> ELSE <<l>>
    BY <1>3, <2>2, <2>3 DEF LineOf
  <2>7. Append(acc.segs, l) \in Seq(Segs) /\ Flat(Append(acc.segs, l)) = Flat(acc.segs) \o <<l>>
    <3>1. Flat(Append(acc.segs, l)) = Flat(acc.segs) \o LinesOf(l)
      BY <1>1, <2>4, FlatAppend
    <3>. QED  BY <1>1, <2>4, <3>1
  <2>8. PICK g : g = Grouped(acc, p, act)
    OBVIOUS
  <2>9. CASE c = <<>>
    <3>1. g = [run |-> FALSE, segs |-> acc.segs]
      BY <2>5, <2>8, <2>9
    <3>2. g \in Accs /\ g.segs = acc.segs
      BY <3>1, <1>1 DEF Accs
    <3>. QED  BY <3>2, <2>6, <2>8, <2>9, <1>2
  <2>10. CASE c # <<>>
    <3>1. g = [run |-> FALSE, segs |-> Append(acc.segs, l)]
      BY <2>5, <2>8, <2>10
    <3>2. g \in Accs /\ g.segs = Append(acc.segs, l)
      BY <3>1, <2>7 DEF Accs
    <3>. QED  BY <3>2, <2>6, <2>7, <2>8, <2>10
  <2>. QED  BY <2>9, <2>10
<1>4. CASE p.type = "tool" /\ ItemsOf(act, p.id) = {}
  BY <1>2, <1>4 DEF Grouped, LineOf
<1>5. CASE p.type = "tool" /\ ItemsOf(act, p.id) # {}
  <2>1. p.id \in Calls
    BY <1>5 DEF Parts, RunParts, CallParts, Types
  <2>2. PICK id \in Calls, ok \in BOOLEAN : id = p.id /\ ok = WentWell(act, p.id)
    <3>1. WentWell(act, p.id) \in BOOLEAN
      BY DEF WentWell
    <3>. QED  BY <2>1, <3>1
  <2>3. LineOf(p, act) = <<[id |-> id, ok |-> ok]>>
    BY <1>5, <2>2 DEF LineOf
  <2>4. Grouped(acc, p, act) = [run |-> TRUE, segs |-> Group(acc, id, ok)]
    BY <1>5, <2>2 DEF Grouped
  <2>5. ASSUME NEW ids \in Seq(Calls), NEW b \in BOOLEAN
        PROVE  /\ [kind |-> "tools", ids |-> ids, ok |-> b] \in ToolSegs
               /\ LinesOf([kind |-> "tools", ids |-> ids, ok |-> b])
                    = [k \in 1 .. Len(ids) |-> [id |-> ids[k], ok |-> b]]
    <3>1. PICK s : s = [kind |-> "tools", ids |-> ids, ok |-> b]
      OBVIOUS
    <3>2. s.kind = "tools" /\ s.ids = ids /\ s.ok = b /\ s \in ToolSegs /\ DOMAIN ids = 1 .. Len(ids)
      BY <3>1 DEF ToolSegs
    <3>. QED  BY <3>1, <3>2 DEF LinesOf
  <2>6. \E s \in Seq(Segs), t \in ToolSegs :
          Group(acc, id, ok) = Append(s, t) /\ Flat(Append(s, t)) = Flat(acc.segs) \o LineOf(p, act)
    <3>1. CASE acc.run /\ Last(acc.segs).ok /\ ok
      <4>1. PICK s \in Seq(Segs), t \in ToolSegs : acc.segs = Append(s, t)
        BY <1>1, <3>1
      <4>2. t \in Segs /\ t.ids \in Seq(Calls) /\ t.kind = "tools" /\ t.ok \in BOOLEAN
        BY DEF Segs, ToolSegs
      <4>3. Front(acc.segs) = s /\ Last(acc.segs) = t
        BY <4>1, <4>2, FrontOf
      <4>4. PICK ids \in Seq(Calls) : ids = Append(t.ids, id)
        <5>1. Append(t.ids, id) \in Seq(Calls)
          BY <4>2
        <5>. QED  BY <5>1
      <4>5. PICK u \in ToolSegs : u = [kind |-> "tools", ids |-> ids, ok |-> ok]
        BY <2>5
      <4>6. Group(acc, id, ok) = Append(s, u)
        BY <3>1, <4>3, <4>4, <4>5 DEF Group
      <4>7. Flat(acc.segs) = Flat(s) \o LinesOf(t) /\ Flat(s) \in Seq(Shown)
        BY <4>1, <4>2, FlatAppend, FlatType
      <4>8. Flat(Append(s, u)) = Flat(s) \o LinesOf(u)
        BY FlatAppend DEF Segs
      <4>9. LinesOf(u) = LinesOf(t) \o LineOf(p, act)
        <5>1. t.ok = TRUE /\ ok = TRUE
          BY <3>1, <4>2, <4>3
        <5>2. Len(ids) = Len(t.ids) + 1 /\ ids[Len(t.ids) + 1] = id
              /\ (\A k \in 1 .. Len(t.ids) : ids[k] = t.ids[k]) /\ Len(t.ids) \in Nat
          BY <4>2, <4>4
        <5>3. LinesOf(u) = [k \in 1 .. Len(ids) |-> [id |-> ids[k], ok |-> TRUE]]
          BY <2>5, <4>5, <5>1
        <5>4. LinesOf(t) = [k \in 1 .. Len(t.ids) |-> [id |-> t.ids[k], ok |-> TRUE]]
          <6>1. DOMAIN t.ids = 1 .. Len(t.ids)
            BY <4>2
          <6>2. LinesOf(t) = [k \in DOMAIN t.ids |-> [id |-> t.ids[k], ok |-> t.ok]]
            BY <4>2 DEF LinesOf
          <6>. QED  BY <5>1, <6>1, <6>2
        <5>5. PICK x : x = [id |-> id, ok |-> TRUE]
          OBVIOUS
        <5>6. PICK v \in Seq(Shown) : v = LinesOf(t)
          BY <4>2, SegLines
        <5>7. Len(v) = Len(t.ids)
          BY <5>2, <5>4, <5>6
        <5>8. LinesOf(u) \in Seq(Shown) /\ x \in Shown
          <6>1. u \in Segs
            BY DEF Segs
          <6>. QED  BY <6>1, <5>5, SegLines DEF Shown, CallLines
        <5>9. v \o <<x>> = Append(v, x)
          BY <5>8, AppendIsConcat
        <5>10. LinesOf(u) = Append(v, x)
          <6>1. PICK w \in Seq(Shown) : w = LinesOf(u)
            BY <5>8
          <6>2. PICK y : y = Append(v, x)
            OBVIOUS
          <6>3. y \in Seq(Shown) /\ Len(y) = Len(t.ids) + 1 /\ y[Len(t.ids) + 1] = x
                /\ \A k \in 1 .. Len(t.ids) : y[k] = v[k]
            BY <6>2, <5>7, <5>8
          <6>4. Len(w) = Len(t.ids) + 1
            BY <6>1, <5>2, <5>3
          <6>5. ASSUME NEW k \in 1 .. (Len(t.ids) + 1) PROVE w[k] = y[k]
            <7>1. w[k] = [id |-> ids[k], ok |-> TRUE]
              BY <6>1, <5>2, <5>3
            <7>2. CASE k = Len(t.ids) + 1
              BY <7>1, <7>2, <5>2, <5>5, <6>3
            <7>3. CASE k # Len(t.ids) + 1
              <8>1. k \in 1 .. Len(t.ids)
                BY <7>3, <5>2
              <8>2. y[k] = [id |-> t.ids[k], ok |-> TRUE]
                BY <8>1, <6>3, <5>4, <5>6
              <8>. QED  BY <8>1, <8>2, <7>1, <5>2
            <7>. QED  BY <7>2, <7>3
          <6>6. w = y
            BY <6>3, <6>4, <6>5, SeqEqual
          <6>. QED  BY <6>1, <6>2, <6>6
        <5>. QED  BY <2>3, <5>1, <5>5, <5>6, <5>9, <5>10
      <4>10. (Flat(s) \o LinesOf(t)) \o LineOf(p, act) = Flat(s) \o (LinesOf(t) \o LineOf(p, act))
        <5>1. LinesOf(t) \in Seq(Shown) /\ LineOf(p, act) \in Seq(Shown)
          BY <4>2, SegLines, LineType
        <5>. QED  BY <5>1, <4>7, ConcatAssociative
      <4>. QED  BY <4>6, <4>7, <4>8, <4>9, <4>10
    <3>2. CASE ~(acc.run /\ Last(acc.segs).ok /\ ok)
      <4>1. PICK ids \in Seq(Calls) : ids = <<id>> /\ Len(ids) = 1 /\ ids[1] = id
        <5>1. <<id>> \in Seq(Calls) /\ Len(<<id>>) = 1 /\ <<id>>[1] = id
          OBVIOUS
        <5>. QED  BY <5>1
      <4>2. PICK u \in ToolSegs : u = [kind |-> "tools", ids |-> ids, ok |-> ok]
        BY <2>5
      <4>3. Group(acc, id, ok) = Append(acc.segs, u)
        BY <3>2, <4>1, <4>2 DEF Group
      <4>4. Flat(Append(acc.segs, u)) = Flat(acc.segs) \o LinesOf(u)
        BY <1>1, FlatAppend DEF Segs
      <4>5. LinesOf(u) = <<[id |-> id, ok |-> ok]>>
        <5>1. LinesOf(u) = [k \in 1 .. Len(ids) |-> [id |-> ids[k], ok |-> ok]]
          BY <2>5, <4>2
        <5>2. PICK x : x = [id |-> id, ok |-> ok]
          OBVIOUS
        <5>3. [k \in 1 .. Len(ids) |-> [id |-> ids[k], ok |-> ok]] = [k \in 1 .. 1 |-> x]
          BY <4>1, <5>2
        <5>4. <<x>> = [k \in 1 .. 1 |-> x]
          OBVIOUS
        <5>. QED  BY <5>1, <5>2, <5>3, <5>4
      <4>. QED  BY <1>1, <4>3, <4>4, <4>5, <2>3
    <3>. QED  BY <3>1, <3>2
  <2>7. PICK s \in Seq(Segs), t \in ToolSegs :
          Group(acc, id, ok) = Append(s, t) /\ Flat(Append(s, t)) = Flat(acc.segs) \o LineOf(p, act)
    BY <2>6
  <2>8. PICK g : g = Grouped(acc, p, act)
    OBVIOUS
  <2>10. Append(s, t) \in Seq(Segs)
    BY DEF Segs
  <2>9. g = [run |-> TRUE, segs |-> Append(s, t)] /\ g.segs = Append(s, t)
    <3>1. g = [run |-> TRUE, segs |-> Group(acc, id, ok)]
      BY <2>4, <2>8
    <3>2. Group(acc, id, ok) = Append(s, t)
      BY <2>7
    <3>. QED  BY <3>1, <3>2
  <2>11. g \in Accs
    BY <2>9, <2>10 DEF Accs
  <2>. QED  BY <2>7, <2>8, <2>9, <2>11
<1>. QED  BY <1>3, <1>4, <1>5

\* So what is shown of a sequence of parts is the lines of its parts.
LEMMA LinesAre ==
  ASSUME NEW ps \in Seq(Parts), NEW act
  PROVE  Lines(ps, act) = Joined([i \in 1 .. Len(ps) |-> LineOf(ps[i], act)])
<1>. DEFINE n == Len(ps)
            none == [run |-> FALSE, segs |-> <<>>]
            Accrues(f) == f = [i \in 0 .. n |-> IF i = 0 THEN none ELSE Grouped(f[i - 1], ps[i], act)]
            h == CHOOSE f : Accrues(f)
            step == [i \in 1 .. n |-> [acc \in Accs |-> Grouped(acc, ps[i], act)]]
<1>1. n \in Nat /\ DOMAIN ps = 1 .. n /\ \A i \in 1 .. n : ps[i] \in Parts
  OBVIOUS
<1>2. none \in Accs
  BY DEF Accs
<1>3. step \in Steps(n, Accs)
  BY <1>1, GroupedLines DEF Steps
<1>4. \A i \in 1 .. n : \A acc \in Accs : step[i][acc] = Grouped(acc, ps[i], act)
  OBVIOUS
<1>5. Segments(ps, act) = h[n].segs
  BY DEF Segments
<1>. HIDE DEF n, step, none
<1>6. PICK f : Iterated(f, n, Accs, none, step)
  BY <1>1, <1>2, <1>3, Iterates
<1>7. f \in [0 .. n -> Accs] /\ f[0] = none /\ \A i \in 1 .. n : f[i] = step[i][f[i - 1]]
  BY <1>6 DEF Iterated
<1>8. ASSUME NEW i \in 1 .. n PROVE f[i - 1] \in Accs /\ f[i] = Grouped(f[i - 1], ps[i], act)
  <2>1. i - 1 \in 0 .. n
    BY <1>1
  <2>2. f[i - 1] \in Accs
    BY <2>1, <1>7
  <2>. QED  BY <2>2, <1>4, <1>7
<1>9. Accrues(f)
  <2>1. \A i \in 0 .. n : f[i] = IF i = 0 THEN none ELSE Grouped(f[i - 1], ps[i], act)
    <3>1. \A i \in 0 .. n : i # 0 => i \in 1 .. n
      BY <1>1
    <3>. QED  BY <3>1, <1>7, <1>8
  <2>2. f = [i \in 0 .. n |-> f[i]]
    BY <1>7
  <2>. QED  BY <2>1, <2>2
<1>10. Accrues(h)
  <2>. HIDE DEF Accrues
  <2>. QED  BY <1>9
<1>. HIDE DEF h
<1>11. \A i \in 0 .. n : h[i] = f[i]
  <2>. DEFINE T == {i \in 0 .. n : h[i] # f[i]}
  <2>. SUFFICES ASSUME T # {} PROVE FALSE
    OBVIOUS
  <2>1. T \subseteq Nat
    BY <1>1
  <2>2. PICK i \in T : \A j \in T : i <= j
    BY <2>1, LeastIn
  <2>3. i \in 0 .. n /\ h[i] # f[i]
    OBVIOUS
  <2>4. i # 0
    BY <2>3, <1>9, <1>10
  <2>5. i - 1 \in 0 .. n /\ i - 1 < i
    BY <2>3, <2>4, <1>1
  <2>6. h[i - 1] = f[i - 1]
    BY <2>2, <2>3, <2>5
  <2>. QED  BY <2>3, <2>4, <2>6, <1>9, <1>10
<1>. HIDE DEF Accrues
<1>12. PICK g : g = [i \in 0 .. n |-> Flat(f[i].segs)]
  OBVIOUS
<1>13. \A i \in 0 .. n : f[i].segs \in Seq(Segs) /\ Flat(f[i].segs) \in Seq(Shown)
  <2>. SUFFICES ASSUME NEW i \in 0 .. n
       PROVE  f[i].segs \in Seq(Segs) /\ Flat(f[i].segs) \in Seq(Shown)
    OBVIOUS
  <2>1. f[i] \in Accs
    BY <1>7
  <2>2. f[i].segs \in Seq(Segs)
    BY <2>1 DEF Accs
  <2>. QED  BY <2>2, FlatType
<1>14. PICK qs : qs = [i \in 1 .. n |-> LineOf(ps[i], act)]
  OBVIOUS
<1>15. qs \in Seq(Seq(Shown)) /\ Len(qs) = n
  BY <1>1, <1>14, LineType
<1>16. g \in [0 .. Len(qs) -> Seq(Shown)]
  BY <1>12, <1>13, <1>15
<1>17. g[0] = <<>>
  <2>1. g[0] = Flat(f[0].segs) /\ f[0].segs = <<>>
    BY <1>1, <1>7, <1>12 DEF none
  <2>2. [k \in DOMAIN <<>> |-> LinesOf(<<>>[k])] = <<>>
    OBVIOUS
  <2>. QED  BY <2>1, <2>2, JoinedEmpty DEF Flat
<1>18. \A i \in 1 .. Len(qs) : g[i] = g[i - 1] \o qs[i]
  <2>. SUFFICES ASSUME NEW i \in 1 .. n PROVE g[i] = g[i - 1] \o qs[i]
    BY <1>15
  <2>1. i \in 0 .. n /\ i - 1 \in 0 .. n /\ qs[i] = LineOf(ps[i], act) /\ ps[i] \in Parts
    BY <1>1, <1>14
  <2>2. Flat(f[i].segs) = Flat(f[i - 1].segs) \o LineOf(ps[i], act)
    <3>1. f[i - 1] \in Accs /\ f[i] = Grouped(f[i - 1], ps[i], act)
      BY <1>8
    <3>2. Flat(Grouped(f[i - 1], ps[i], act).segs) = Flat(f[i - 1].segs) \o LineOf(ps[i], act)
      BY <2>1, <3>1, GroupedLines
    <3>. QED  BY <3>1, <3>2
  <2>. QED  BY <2>1, <2>2, <1>12
<1>19. Joined(qs) = g[n]
  BY <1>15, <1>16, <1>17, <1>18, JoinedIs
<1>20. n \in 0 .. n
  BY <1>1
<1>21. Lines(ps, act) = Flat(Segments(ps, act))
  BY DEF Lines, Flat
<1>. QED  BY <1>5, <1>11, <1>12, <1>14, <1>19, <1>20, <1>21 DEF n

(* ---- the live reply ------------------------------------------------------- *)

\* What an event makes of the parts, the calls and the gap of a view.
Read(ev, v) ==
  [live |-> IF ev.name \in Types THEN AppendLive(v.live, ev.seq, ev.name, ev.char)
            ELSE IF ev.name = "activity" /\ ev.placed
                    /\ \A i \in DOMAIN v.live : v.live[i].seq # ev.seq
                 THEN Append(v.live, Tool(ev.seq, ev.item.id))
            ELSE IF ev.name = "message" THEN <<>> ELSE v.live,
   act |-> IF ev.name = "activity"
           THEN IF ItemsOf(v.act, ev.item.id) # {}
                THEN [i \in DOMAIN v.act |-> IF v.act[i].id = ev.item.id THEN ev.item ELSE v.act[i]]
                ELSE Append(v.act, ev.item)
           ELSE IF ev.name \in {"message", "transcript"} \/ (ev.name = "turn" /\ ev.phase = "start")
                THEN <<>> ELSE v.act,
   gap |-> IF ev.name = "message" THEN "none"
           ELSE IF ev.name = "transcript" /\ v.gap = "none" /\ v.live # <<>> THEN "reopened"
           ELSE v.gap]

EventNames == Types \cup {"activity", "message", "turn", "transcript"}

\* Two sequences of parts that show the same of every call.
Same(a, b) == \A act : Lines(a, act) = Lines(b, act)

\* A view that has seen all there is of the turn: it has the calls, and shows the parts; of
\* the open run, the last of both, it has every character.
Follows(v) ==
  IF ~running THEN v.live = <<>> /\ v.act = <<>>
  ELSE /\ v.act = activity
       /\ v.live \in Seq(Parts) /\ \A i \in 1 .. Len(v.live) : v.live[i].seq < nextSeq
       /\ v.live = <<>> => activity = <<>>
       /\ ~open => parts \in Seq(Parts) /\ Same(v.live, parts)
       /\ open => \E a \in Seq(Parts), b \in Seq(Parts), r \in RunParts :
                    v.live = Append(a, r) /\ parts = Append(b, r) /\ r.seq = openSeq /\ Same(a, b)

SeenNow == [live |-> liveParts, act |-> liveActivity, gap |-> gap]

\* The views of the client as it reads what is on the wire: a message replaces what it
\* shows, and having read it all a view that missed nothing has followed the turn.
Views(V) ==
  /\ DOMAIN V = 0 .. Len(wire) /\ V = [k \in 0 .. Len(wire) |-> V[k]] /\ V[0] = SeenNow
  /\ \A k \in 1 .. Len(wire) :
       /\ V[k] = Read(wire[k], V[k - 1])
       /\ wire[k].name = "message" /\ V[k - 1].gap = "none" =>
            Lines(V[k - 1].live, V[k - 1].act) = Lines(Unmarked(wire[k]), wire[k].activity)
  /\ V[Len(wire)].gap = "none" => Follows(V[Len(wire)])

CallsFit ==
  /\ turns \in Nat /\ nextSeq \in Nat /\ activity \in Seq([id : Calls, status : {"running", "ok", "error"}])
  /\ \A i \in 1 .. Len(activity) : activity[i].id = <<turns, i - 1>>

WireFits ==
  /\ (\E S : wire \in Seq(S)) /\ \A k \in 1 .. Len(wire) : wire[k].name \in EventNames
  /\ ~connected => wire = <<>>

LiveInv == running \in BOOLEAN /\ open \in BOOLEAN /\ connected \in BOOLEAN
           /\ CallsFit /\ WireFits /\ \E V : Views(V)

\* One part more is its line more.
LEMMA LinesAppend ==
  ASSUME NEW ps \in Seq(Parts), NEW p \in Parts, NEW act
  PROVE  Lines(ps, act) \in Seq(Shown) /\ Lines(Append(ps, p), act) = Lines(ps, act) \o LineOf(p, act)
<1>1. Len(ps) \in Nat /\ \A i \in 1 .. Len(ps) : ps[i] \in Parts
  OBVIOUS
<1>2. PICK t : t = Append(ps, p)
  OBVIOUS
<1>3. t \in Seq(Parts) /\ Len(t) = Len(ps) + 1 /\ t[Len(ps) + 1] = p
      /\ \A i \in 1 .. Len(ps) : t[i] = ps[i]
  BY <1>2
<1>4. PICK ls : ls = [i \in 1 .. Len(ps) |-> LineOf(ps[i], act)]
  OBVIOUS
<1>5. ls \in Seq(Seq(Shown)) /\ Len(ls) = Len(ps)
  BY <1>1, <1>4, LineType
<1>6. PICK l \in Seq(Shown) : l = LineOf(p, act)
  BY LineType
<1>7. [i \in 1 .. Len(t) |-> LineOf(t[i], act)] = Append(ls, l)
  <2>1. PICK u : u = Append(ls, l)
    OBVIOUS
  <2>2. u \in Seq(Seq(Shown)) /\ Len(u) = Len(ps) + 1 /\ u[Len(ps) + 1] = l
    BY <1>1, <1>5, <1>6, <2>1
  <2>3. \A i \in 1 .. Len(ps) : u[i] = ls[i]
    BY <1>1, <1>5, <1>6, <2>1
  <2>4. u = [i \in 1 .. (Len(ps) + 1) |-> u[i]]
    BY <2>2
  <2>5. ASSUME NEW i \in 1 .. (Len(ps) + 1) PROVE u[i] = LineOf(t[i], act)
    <3>1. i \in 1 .. Len(ps) \/ i = Len(ps) + 1
      BY <1>1
    <3>. QED  BY <3>1, <2>2, <2>3, <1>3, <1>4, <1>6
  <2>. QED  BY <2>1, <2>4, <2>5, <1>3
<1>8. Lines(t, act) = Joined(Append(ls, l))
  BY <1>3, <1>7, LinesAre
<1>9. Lines(ps, act) = Joined(ls)
  BY <1>4, LinesAre
<1>10. Joined(ls) \in Seq(Shown) /\ Joined(Append(ls, l)) = Joined(ls) \o l
  BY <1>5, JoinedMore
<1>. QED  BY <1>2, <1>6, <1>8, <1>9, <1>10

LEMMA SameAppend ==
  ASSUME NEW a \in Seq(Parts), NEW b \in Seq(Parts), NEW p \in Parts, NEW q \in Parts,
         Same(a, b), \A act : LineOf(p, act) = LineOf(q, act)
  PROVE  Same(Append(a, p), Append(b, q))
<1>. SUFFICES ASSUME NEW act PROVE Lines(Append(a, p), act) = Lines(Append(b, q), act)
  BY DEF Same
<1>1. Lines(a, act) = Lines(b, act) /\ LineOf(p, act) = LineOf(q, act)
  BY DEF Same
<1>2. Lines(Append(a, p), act) = Lines(a, act) \o LineOf(p, act)
  BY LinesAppend
<1>3. Lines(Append(b, q), act) = Lines(b, act) \o LineOf(q, act)
  BY LinesAppend
<1>. QED  BY <1>1, <1>2, <1>3

LEMMA RunType ==
  ASSUME NEW r \in RunParts
  PROVE  r.type \in Types /\ r.type # "tool" /\ r.seq \in Nat /\ r.content \in Seq(Chars)
BY DEF RunParts, Types

LEMMA RunIs ==
  ASSUME NEW r \in RunParts, NEW c \in Seq(Chars)
  PROVE  WithContent(r, c) \in RunParts /\ WithContent(r, c).type = r.type /\ WithContent(r, c).seq = r.seq
         /\ WithContent(r, c).content = c /\ WithContent(r, r.content) = r
         /\ r.type \in Types /\ r.type # "tool" /\ r.seq \in Nat /\ r.content \in Seq(Chars)
<1>1. r.type \in Types /\ r.type # "tool" /\ r.seq \in Nat /\ r.content \in Seq(Chars)
      /\ r = [type |-> r.type, seq |-> r.seq, content |-> r.content]
  BY DEF RunParts, Types
<1>2. PICK h : h = WithContent(r, c)
  OBVIOUS
<1>3. h = [type |-> r.type, seq |-> r.seq, content |-> c]
  BY <1>2 DEF WithContent, Run
<1>4. h \in RunParts
  BY <1>1, <1>3 DEF RunParts
<1>5. WithContent(r, r.content) = r
  BY <1>1 DEF WithContent, Run
<1>. QED  BY <1>1, <1>2, <1>3, <1>4, <1>5

\* Closing the open run changes nothing of what is shown.
LEMMA ClosedSame ==
  ASSUME NEW v, Follows(v), running, open \in BOOLEAN
  PROVE  Closed \in Seq(Parts) /\ Same(v.live, Closed)
<1>1. CASE ~open
  BY <1>1 DEF Follows, Closed
<1>2. CASE open
  <2>1. PICK a \in Seq(Parts), b \in Seq(Parts), r \in RunParts :
          v.live = Append(a, r) /\ parts = Append(b, r) /\ Same(a, b)
    BY <1>2 DEF Follows
  <2>2. r \in Parts
    BY DEF Parts
  <2>3. Front(parts) = b /\ Last(parts) = r
    BY <2>1, <2>2, FrontOf
  <2>4. r.content \in Seq(Chars) /\ r.type # "tool"
    BY RunType
  <2>5. PICK c \in Seq(Chars) : c = Trim(r.content) /\ Trim(c) = c
    BY <2>4, TrimOnce
  <2>6. CASE c = <<>>
    <3>1. Closed = b
      BY <1>2, <2>3, <2>5, <2>6 DEF Closed
    <3>2. ASSUME NEW act PROVE Lines(v.live, act) = Lines(b, act)
      <4>1. LineOf(r, act) = <<>>
        BY <2>4, <2>5, <2>6 DEF LineOf
      <4>2. Lines(a, act) \in Seq(Shown) /\ Lines(v.live, act) = Lines(a, act) \o LineOf(r, act)
        BY <2>1, <2>2, LinesAppend
      <4>3. Lines(a, act) = Lines(b, act)
        BY <2>1 DEF Same
      <4>4. Lines(a, act) \o <<>> = Lines(a, act)
        BY <4>2
      <4>. QED  BY <4>1, <4>2, <4>3, <4>4
    <3>. QED  BY <3>1, <3>2 DEF Same
  <2>7. CASE c # <<>>
    <3>1. PICK h : h = WithContent(r, c)
      OBVIOUS
    <3>2. h \in Parts /\ h.type = r.type /\ h.content = c
      BY <3>1, RunIs DEF Parts
    <3>3. Closed = Append(b, h)
      BY <1>2, <2>3, <2>5, <2>7, <3>1 DEF Closed
    <3>4. \A act : LineOf(r, act) = LineOf(h, act)
      BY <2>4, <2>5, <3>2 DEF LineOf
    <3>5. Same(Append(a, r), Append(b, h))
      BY <2>1, <2>2, <3>2, <3>4, SameAppend
    <3>6. Append(b, h) \in Seq(Parts)
      BY <3>2
    <3>. QED  BY <2>1, <3>3, <3>5, <3>6
  <2>. QED  BY <2>6, <2>7
<1>. QED  BY <1>1, <1>2

LEMMA TextsAlike ==
  ASSUME NEW S, NEW ps \in Seq(S), NEW qs \in Seq(S), Len(qs) = Len(ps),
         \A i \in 1 .. Len(ps) : qs[i].type = ps[i].type
  PROVE  LastText(qs) = LastText(ps)
<1>1. DOMAIN ps = 1 .. Len(ps) /\ DOMAIN qs = 1 .. Len(ps)
  OBVIOUS
<1>2. PICK T : T = {i \in DOMAIN ps : ps[i].type = "text"}
  OBVIOUS
<1>3. T = {i \in DOMAIN qs : qs[i].type = "text"}
  BY <1>1, <1>2
<1>4. LastText(ps) = IF T = {} THEN 0 ELSE CHOOSE i \in T : \A j \in T : j <= i
  BY <1>2 DEF LastText
<1>5. LastText(qs) = IF T = {} THEN 0 ELSE CHOOSE i \in T : \A j \in T : j <= i
  BY <1>3 DEF LastText
<1>. QED  BY <1>4, <1>5

LEMMA TextPlace ==
  ASSUME NEW ps \in Seq(Parts)
  PROVE  LastText(ps) = 0 \/ (LastText(ps) \in 1 .. Len(ps) /\ ps[LastText(ps)].type = "text")
<1>. DEFINE texts == {i \in DOMAIN ps : ps[i].type = "text"}
<1>1. CASE texts = {}
  BY <1>1 DEF LastText
<1>2. CASE texts # {}
  <2>1. texts \subseteq 1 .. Len(ps) /\ Len(ps) \in Nat
    OBVIOUS
  <2>2. PICK i \in texts : \A j \in texts : j <= i
    BY <2>1, <1>2, GreatestIn
  <2>3. LastText(ps) = CHOOSE x \in texts : \A y \in texts : y <= x
    BY <1>2 DEF LastText
  <2>4. LastText(ps) \in texts
    <3>. HIDE DEF texts
    <3>. QED  BY <2>2, <2>3
  <2>. QED  BY <2>4, <2>1
<1>. QED  BY <1>1, <1>2

\* Taking the mark of a cut-off turn away leaves the parts as they were.
LEMMA MarkTaken ==
  ASSUME NEW ps \in Seq(Parts), NEW m \in Seq(Chars \cup {"cut"}), NEW ev,
         ev.parts = Marked(ps, m), ev.marker = m
  PROVE  Unmarked(ev) = ps
<1>1. PICK i : i = LastText(ps)
  OBVIOUS
<1>2. CASE m = <<>>
  BY <1>2 DEF Marked, Unmarked
<1>3. CASE i = 0
  BY <1>1, <1>3 DEF Marked, Unmarked
<1>4. CASE m # <<>> /\ i # 0
  <2>1. i \in 1 .. Len(ps) /\ ps[i].type = "text"
    BY <1>1, <1>4, TextPlace
  <2>2. PICK r \in RunParts : r = ps[i]
    <3>1. ps[i] \in Parts /\ ps[i] \notin CallParts
      BY <2>1 DEF CallParts
    <3>. QED  BY <3>1 DEF Parts
  <2>3. PICK c \in Seq(Chars) : c = r.content
    BY RunType
  <2>4. PICK d \in Seq(Chars \cup {"cut"}) : d = c \o m
    <3>1. c \in Seq(Chars \cup {"cut"})
      OBVIOUS
    <3>2. c \o m \in Seq(Chars \cup {"cut"})
      BY <3>1
    <3>. QED  BY <3>2
  <2>5. PICK h : h = WithContent(r, d) /\ h.type = r.type /\ h.seq = r.seq /\ h.content = d
    <3>1. PICK h : h = [type |-> r.type, seq |-> r.seq, content |-> d]
      OBVIOUS
    <3>. QED  BY <3>1 DEF WithContent, Run
  <2>6. PICK qs : qs = [ps EXCEPT ![i] = h]
    OBVIOUS
  <2>7. qs \in Seq(Parts \cup {h}) /\ Len(qs) = Len(ps) /\ qs[i] = h
        /\ \A j \in 1 .. Len(ps) : qs[j] = IF j = i THEN h ELSE ps[j]
    <3>1. ps \in Seq(Parts \cup {h})
      OBVIOUS
    <3>. QED  BY <2>1, <2>6, <3>1
  <2>8. Marked(ps, m) = qs
    BY <1>1, <1>4, <2>2, <2>3, <2>4, <2>5, <2>6 DEF Marked
  <2>9. \A j \in 1 .. Len(ps) : qs[j].type = ps[j].type
    BY <2>2, <2>5, <2>7
  <2>10. LastText(qs) = i
    <3>1. PICK S : S = Parts \cup {h}
      OBVIOUS
    <3>2. ps \in Seq(S) /\ qs \in Seq(S)
      BY <2>7, <3>1
    <3>. QED  BY <1>1, <2>7, <2>9, <3>2, TextsAlike
  <2>11. PICK e : e = SubSeq(d, 1, Len(d) - Len(m))
    OBVIOUS
  <2>12. e = c
    <3>1. Len(d) = Len(c) + Len(m) /\ Len(c) \in Nat /\ Len(m) \in Nat
          /\ \A k \in 1 .. Len(c) : d[k] = c[k] /\ c[k] \in Chars
      BY <2>4
    <3>2. Len(d) - Len(m) = Len(c)
      BY <3>1
    <3>3. 1 \in Int /\ Len(c) \in Int /\ \A k \in 1 .. Len(c) : d[k] \in Chars
      BY <3>1
    <3>4. SubSeq(d, 1, Len(c)) \in Seq(Chars)
      BY <3>3, SubSeqProperties
    <3>5. Len(SubSeq(d, 1, Len(c))) = IF 1 <= Len(c) THEN Len(c) - 1 + 1 ELSE 0
      BY <3>3, SubSeqProperties
    <3>6. \A k \in 1 .. (Len(c) - 1 + 1) : SubSeq(d, 1, Len(c))[k] = d[1 + k - 1]
      BY <3>3, SubSeqProperties
    <3>7. e \in Seq(Chars) /\ Len(e) = Len(c)
      BY <3>1, <3>2, <3>4, <3>5, <2>11
    <3>8. \A k \in 1 .. Len(c) : e[k] = c[k]
      BY <3>1, <3>2, <3>6, <2>11
    <3>. QED  BY <3>7, <3>8, SeqEqual
  <2>13. Unmarked(ev) = [qs EXCEPT ![i] = WithContent(h, e)]
    <3>1. Unmarked(ev) = [qs EXCEPT ![i] = WithContent(qs[i], SubSeq(qs[i].content, 1, Len(qs[i].content) - Len(m)))]
      BY <1>4, <2>8, <2>10 DEF Unmarked
    <3>. QED  BY <3>1, <2>5, <2>7, <2>11
  <2>14. WithContent(h, e) = r
    <3>1. WithContent(h, c) = WithContent(r, c)
      BY <2>5 DEF WithContent
    <3>. QED  BY <3>1, <2>3, <2>12, RunIs
  <2>15. PICK us : us = [qs EXCEPT ![i] = r]
    OBVIOUS
  <2>16. us \in Seq(Parts \cup {h}) /\ Len(us) = Len(ps) /\ \A j \in 1 .. Len(ps) : us[j] = ps[j]
    <3>1. r \in Parts \cup {h}
      BY DEF Parts
    <3>. QED  BY <2>1, <2>2, <2>7, <2>15, <3>1
  <2>17. us = ps
    <3>1. ps \in Seq(Parts \cup {h})
      OBVIOUS
    <3>. QED  BY <2>16, <3>1, SeqEqual
  <2>. QED  BY <2>13, <2>14, <2>15, <2>17
<1>. QED  BY <1>2, <1>3, <1>4

(* ---- a reply: the events on the way ----------------------------------------- *)

\* What follows the turn depends on the server alone.
LEMMA FollowsOn ==
  ASSUME NEW v, Follows(v), UNCHANGED server
  PROVE  Follows(v)'
BY DEF Follows, server

\* An event is sent: the view that will have read it is one more.
LEMMA Sends ==
  ASSUME NEW ev, NEW V, Views(V), WireFits, connected \in BOOLEAN, Send(ev), UNCHANGED <<client, connected>>,
         ev.name \in EventNames,
         ev.name = "message" /\ V[Len(wire)].gap = "none" =>
           Lines(V[Len(wire)].live, V[Len(wire)].act) = Lines(Unmarked(ev), ev.activity),
         \A v : v = Read(ev, V[Len(wire)]) /\ v.gap = "none" => Follows(v)'
  PROVE  WireFits' /\ \E W : Views(W)'
<1>0. PICK S : wire \in Seq(S)
  BY DEF WireFits
<1>1. Len(wire) \in Nat /\ (~connected => wire = <<>>)
      /\ \A k \in 1 .. Len(wire) : wire[k].name \in EventNames
  <2>1. Len(wire) \in Nat
    BY <1>0
  <2>. QED  BY <2>1 DEF WireFits
<1>2. CASE connected
  <2>1. PICK w : w = Append(wire, ev)
    OBVIOUS
  <2>2. wire' = w /\ gap' = gap /\ connected'
    BY <1>2, <2>1 DEF Send
  <2>3. wire \in Seq(S \cup {ev})
    BY <1>0
  <2>4. w \in Seq(S \cup {ev}) /\ Len(w) = Len(wire) + 1 /\ w[Len(wire) + 1] = ev
        /\ \A k \in 1 .. Len(wire) : w[k] = wire[k]
    BY <2>1, <2>3, <1>1
  <2>6. \A k \in 1 .. (Len(wire) + 1) : w[k].name \in EventNames
    <3>1. \A k \in 1 .. (Len(wire) + 1) : k \in 1 .. Len(wire) \/ k = Len(wire) + 1
      BY <1>1
    <3>. QED  BY <3>1, <2>4, <1>1
  <2>7. WireFits'
    BY <2>2, <2>4, <2>6 DEF WireFits
  <2>8. PICK last : last = Read(ev, V[Len(wire)])
    OBVIOUS
  <2>9. PICK n \in Nat : n = Len(wire)
    BY <1>1
  <2>10. PICK W : W = [k \in 0 .. (n + 1) |-> IF k = n + 1 THEN last ELSE V[k]]
    OBVIOUS
  <2>11. DOMAIN W = 0 .. (n + 1) /\ W[n + 1] = last /\ (\A k \in 0 .. n : W[k] = V[k])
    BY <2>10
  <2>12. W = [k \in 0 .. (n + 1) |-> W[k]]
    BY <2>10
  <2>13. W[0] = SeenNow'
    BY <2>2, <2>11 DEF Views, SeenNow, client
  <2>14. ASSUME NEW k \in 1 .. (n + 1)
         PROVE  W[k] = Read(w[k], W[k - 1])
                /\ (w[k].name = "message" /\ W[k - 1].gap = "none" =>
                      Lines(W[k - 1].live, W[k - 1].act) = Lines(Unmarked(w[k]), w[k].activity))
    <3>1. CASE k = n + 1
      <4>1. k - 1 \in 0 .. n /\ k - 1 = n
        BY <3>1
      <4>2. W[k] = last /\ W[k - 1] = V[n] /\ w[k] = ev
        BY <3>1, <4>1, <2>4, <2>9, <2>11
      <4>. QED  BY <4>2, <2>8, <2>9
    <3>2. CASE k # n + 1
      <4>1. k \in 1 .. n /\ k \in 0 .. n /\ k - 1 \in 0 .. n
        BY <3>2
      <4>2. W[k] = V[k] /\ W[k - 1] = V[k - 1] /\ w[k] = wire[k]
        BY <4>1, <2>4, <2>9, <2>11
      <4>3. V[k] = Read(wire[k], V[k - 1])
            /\ (wire[k].name = "message" /\ V[k - 1].gap = "none" =>
                  Lines(V[k - 1].live, V[k - 1].act) = Lines(Unmarked(wire[k]), wire[k].activity))
        BY <4>1, <2>9 DEF Views
      <4>. QED  BY <4>2, <4>3
    <3>. QED  BY <3>1, <3>2
  <2>15. Len(wire') = n + 1
    BY <2>2, <2>4, <2>9
  <2>16. W[n + 1].gap = "none" => Follows(W[n + 1])'
    BY <2>8, <2>9, <2>11
  <2>17. Views(W)'
    BY <2>2, <2>11, <2>12, <2>13, <2>14, <2>15, <2>16 DEF Views
  <2>. QED  BY <2>7, <2>17
<1>3. CASE ~connected
  <2>1. wire = <<>> /\ wire' = <<>> /\ gap' = "lost" /\ connected' = connected
    BY <1>1, <1>3 DEF Send
  <2>2. WireFits'
    BY <2>1, <1>1, <1>3 DEF WireFits
  <2>3. PICK v : v = SeenNow'
    OBVIOUS
  <2>4. v.gap = "lost"
    BY <2>1, <2>3 DEF SeenNow
  <2>5. PICK W : W = [k \in 0 .. 0 |-> v]
    OBVIOUS
  <2>6. Len(wire') = 0
    BY <2>1
  <2>7. Views(W)'
    <3>1. DOMAIN W = 0 .. 0 /\ W = [k \in 0 .. 0 |-> W[k]] /\ W[0] = v
      BY <2>5
    <3>. QED  BY <3>1, <2>3, <2>4, <2>6 DEF Views
  <2>. QED  BY <2>2, <2>7
<1>. QED  BY <1>2, <1>3

\* An event is read: the view of the client becomes the next of the views.
LEMMA IsRead ==
  ASSUME Deliver, WireFits
  PROVE  SeenNow' = Read(Head(wire), SeenNow)
<1>1. PICK ev : ev = Head(wire)
  OBVIOUS
<1>0. PICK S : wire \in Seq(S)
  BY DEF WireFits
<1>2. wire # <<>> /\ \A k \in 1 .. Len(wire) : wire[k].name \in EventNames
  BY DEF Deliver, WireFits
<1>3. ev.name \in EventNames
  <2>1. 1 \in 1 .. Len(wire) /\ ev = wire[1]
    BY <1>0, <1>1, <1>2
  <2>. QED  BY <1>2, <2>1
<1>4. PICK v : v = SeenNow
  OBVIOUS
<1>5. v.live = liveParts /\ v.act = liveActivity /\ v.gap = gap
  BY <1>4 DEF SeenNow
<1>6. gap' = Read(ev, v).gap
  BY <1>1, <1>5 DEF Deliver, GapAfter, Read
<1>7. liveParts' = Read(ev, v).live /\ liveActivity' = Read(ev, v).act
  <2>1. CASE ev.name \in Types
    <3>1. liveParts' = AppendLive(liveParts, ev.seq, ev.name, ev.char) /\ liveActivity' = liveActivity
      BY <1>1, <2>1 DEF Deliver, ReduceDelta
    <3>. QED  BY <3>1, <2>1, <1>5 DEF Read, Types
  <2>2. CASE ev.name = "activity"
    <3>1. ReduceActivity(ev)
      BY <1>1, <2>2 DEF Deliver
    <3>2. liveParts' = Read(ev, v).live
      BY <3>1, <2>2, <1>5 DEF Read, ReduceActivity, Types
    <3>3. liveActivity' = Read(ev, v).act
      BY <3>1, <2>2, <1>5 DEF Read, ReduceActivity, Types
    <3>. QED  BY <3>2, <3>3
  <2>3. CASE ev.name = "message"
    <3>1. ReduceMessage
      BY <1>1, <2>3 DEF Deliver
    <3>. QED  BY <3>1, <2>3 DEF Read, ReduceMessage, Types
  <2>4. CASE ev.name = "turn"
    <3>1. ReduceTurn(ev.phase)
      BY <1>1, <2>4 DEF Deliver
    <3>. QED  BY <3>1, <2>4, <1>5 DEF Read, ReduceTurn, Types, client
  <2>5. CASE ev.name = "transcript"
    <3>1. ReduceTranscript
      BY <1>1, <2>5 DEF Deliver
    <3>. QED  BY <3>1, <2>5, <1>5 DEF Read, ReduceTranscript, Types
  <2>. QED  BY <1>3, <2>1, <2>2, <2>3, <2>4, <2>5 DEF EventNames
<1>8. Read(ev, v) = [live |-> Read(ev, v).live, act |-> Read(ev, v).act, gap |-> Read(ev, v).gap]
  BY DEF Read
<1>. QED  BY <1>1, <1>4, <1>6, <1>7, <1>8 DEF SeenNow

LEMMA Delivers ==
  ASSUME LiveInv, Deliver
  PROVE  LiveInv'
<1>1. running \in BOOLEAN /\ open \in BOOLEAN /\ connected \in BOOLEAN /\ CallsFit /\ WireFits
  BY DEF LiveInv
<1>2. PICK V : Views(V)
  BY DEF LiveInv
<1>3. UNCHANGED <<server, connected>> /\ wire # <<>> /\ wire' = Tail(wire)
  BY DEF Deliver
<1>4. (running \in BOOLEAN /\ open \in BOOLEAN /\ connected \in BOOLEAN /\ CallsFit)'
  BY <1>1, <1>3 DEF CallsFit, server
<1>0. PICK S : wire \in Seq(S)
  BY <1>1 DEF WireFits
<1>5. (~connected => wire = <<>>)
      /\ \A k \in 1 .. Len(wire) : wire[k].name \in EventNames
  BY <1>1 DEF WireFits
<1>6. PICK n \in Nat : n = Len(wire) - 1
  <2>1. Len(wire) \in Nat /\ Len(wire) # 0
    BY <1>0, <1>3
  <2>. QED  BY <2>1
<1>7. PICK w : w = Tail(wire)
  OBVIOUS
<1>8. w \in Seq(S) /\ Len(w) = n /\ Len(wire) = n + 1 /\ \A k \in 1 .. n : w[k] = wire[k + 1]
  BY <1>0, <1>3, <1>6, <1>7
<1>9. WireFits'
  <2>2. \A k \in 1 .. n : w[k].name \in EventNames
    <3>1. \A k \in 1 .. n : k + 1 \in 1 .. (n + 1)
      OBVIOUS
    <3>. QED  BY <3>1, <1>5, <1>8
  <2>. QED  BY <2>2, <1>3, <1>5, <1>7, <1>8 DEF WireFits
<1>10. PICK W : W = [k \in 0 .. n |-> V[k + 1]]
  OBVIOUS
<1>11. DOMAIN W = 0 .. n /\ W = [k \in 0 .. n |-> W[k]] /\ \A k \in 0 .. n : W[k] = V[k + 1]
  BY <1>10
<1>12. W[0] = SeenNow'
  <2>1. V[0] = SeenNow /\ V[1] = Read(wire[1], V[0])
    <3>1. 1 \in 1 .. Len(wire) /\ 1 - 1 = 0
      BY <1>8
    <3>. QED  BY <1>2, <3>1 DEF Views
  <2>2. Head(wire) = wire[1]
    BY <1>0, <1>3
  <2>3. W[0] = V[1]
    BY <1>11
  <2>. QED  BY <2>1, <2>2, <2>3, <1>1, IsRead
<1>13. ASSUME NEW k \in 1 .. n
       PROVE  W[k] = Read(w[k], W[k - 1])
              /\ (w[k].name = "message" /\ W[k - 1].gap = "none" =>
                    Lines(W[k - 1].live, W[k - 1].act) = Lines(Unmarked(w[k]), w[k].activity))
  <2>1. k \in 0 .. n /\ k - 1 \in 0 .. n /\ k - 1 + 1 = k /\ k + 1 \in 1 .. (n + 1) /\ k + 1 - 1 = k
    OBVIOUS
  <2>2. W[k] = V[k + 1] /\ W[k - 1] = V[k] /\ w[k] = wire[k + 1]
    BY <2>1, <1>8, <1>11
  <2>3. V[k + 1] = Read(wire[k + 1], V[k])
        /\ (wire[k + 1].name = "message" /\ V[k].gap = "none" =>
              Lines(V[k].live, V[k].act) = Lines(Unmarked(wire[k + 1]), wire[k + 1].activity))
    <3>1. PICK j \in 1 .. (n + 1) : j = k + 1 /\ j - 1 = k
      BY <2>1
    <3>2. V[j] = Read(wire[j], V[j - 1])
          /\ (wire[j].name = "message" /\ V[j - 1].gap = "none" =>
                Lines(V[j - 1].live, V[j - 1].act) = Lines(Unmarked(wire[j]), wire[j].activity))
      BY <1>2, <1>8 DEF Views
    <3>. QED  BY <3>1, <3>2
  <2>. QED  BY <2>2, <2>3
<1>14. W[n].gap = "none" => Follows(W[n])'
  <2>1. n \in 0 .. n /\ W[n] = V[n + 1]
    BY <1>11
  <2>2. V[n + 1].gap = "none" => Follows(V[n + 1])
    BY <1>2, <1>8 DEF Views
  <2>. QED  BY <2>1, <2>2, <1>3, FollowsOn
<1>15. Views(W)'
  <2>1. wire' = w /\ Len(wire') = n
    BY <1>3, <1>7, <1>8
  <2>. QED  BY <2>1, <1>11, <1>12, <1>13, <1>14 DEF Views
<1>. QED  BY <1>4, <1>9, <1>15 DEF LiveInv

\* The stream begins again: nothing else is on the way.
LEMMA BeginsAgain ==
  ASSUME WireFits, wire' = Snapshot, connected', NEW v, v = SeenNow',
         \A w : w = Read([name |-> "transcript"], v) /\ w.gap = "none" => Follows(w)'
  PROVE  WireFits' /\ \E W : Views(W)'
<1>1. PICK ev : ev = [name |-> "transcript"]
  OBVIOUS
<1>2. ev.name = "transcript" /\ ev.name \in EventNames /\ ev.name # "message"
  BY <1>1 DEF EventNames
<1>3. PICK s : s = <<ev>>
  OBVIOUS
<1>4. wire' = s /\ s \in Seq({ev}) /\ Len(s) = 1 /\ s[1] = ev
  BY <1>1, <1>3 DEF Snapshot
<1>5. WireFits'
  BY <1>2, <1>4 DEF WireFits
<1>6. PICK w : w = Read(ev, v)
  OBVIOUS
<1>7. PICK W : W = [k \in 0 .. 1 |-> IF k = 0 THEN v ELSE w]
  OBVIOUS
<1>8. DOMAIN W = 0 .. 1 /\ W = [k \in 0 .. 1 |-> W[k]] /\ W[0] = v /\ W[1] = w
  BY <1>7
<1>9. \A k \in 1 .. 1 : k = 1 /\ k - 1 = 0
  OBVIOUS
<1>10. Views(W)'
  BY <1>1, <1>2, <1>4, <1>6, <1>8, <1>9 DEF Views
<1>. QED  BY <1>5, <1>10

LEMMA Breaks ==
  ASSUME LiveInv, Break
  PROVE  LiveInv'
<1>1. running \in BOOLEAN /\ open \in BOOLEAN /\ connected \in BOOLEAN /\ CallsFit /\ WireFits
  BY DEF LiveInv
<1>2. PICK V : Views(V)
  BY DEF LiveInv
<1>3. UNCHANGED <<server, client>> /\ wire' = <<>> /\ connected' = FALSE
      /\ gap' = IF wire # <<>> THEN "lost" ELSE gap
  BY DEF Break
<1>4. (running \in BOOLEAN /\ open \in BOOLEAN /\ connected \in BOOLEAN /\ CallsFit)'
  BY <1>1, <1>3 DEF CallsFit, server
<1>5. PICK s : s = <<>>
  OBVIOUS
<1>6. wire' = s /\ s \in Seq({}) /\ Len(s) = 0
  BY <1>3, <1>5
<1>7. WireFits'
  BY <1>3, <1>6 DEF WireFits
<1>8. PICK v : v = SeenNow'
  OBVIOUS
<1>9. v.gap = "none" => Follows(v)'
  <2>. SUFFICES ASSUME v.gap = "none" PROVE Follows(v)'
    OBVIOUS
  <2>1. wire = <<>> /\ gap' = gap
    BY <1>3, <1>8 DEF SeenNow
  <2>2. v = SeenNow
    BY <1>3, <1>8, <2>1 DEF SeenNow, client
  <2>3. V[Len(wire)] = v
    BY <1>2, <2>1, <2>2 DEF Views
  <2>4. Follows(v)
    BY <1>2, <2>3 DEF Views
  <2>. QED  BY <2>4, <1>3, FollowsOn
<1>10. PICK W : W = [k \in 0 .. 0 |-> v]
  OBVIOUS
<1>11. DOMAIN W = 0 .. 0 /\ W = [k \in 0 .. 0 |-> W[k]] /\ W[0] = v
  BY <1>10
<1>12. Views(W)'
  BY <1>6, <1>8, <1>9, <1>11 DEF Views
<1>. QED  BY <1>4, <1>7, <1>12 DEF LiveInv

LEMMA Reopens ==
  ASSUME LiveInv, Reopen
  PROVE  LiveInv'
<1>1. running \in BOOLEAN /\ open \in BOOLEAN /\ connected \in BOOLEAN /\ CallsFit /\ WireFits
  BY DEF LiveInv
<1>2. PICK V : Views(V)
  BY DEF LiveInv
<1>3. UNCHANGED <<server, client, gap>> /\ wire' = Snapshot /\ connected' = TRUE /\ wire = <<>>
  BY <1>1 DEF Reopen, WireFits
<1>4. (running \in BOOLEAN /\ open \in BOOLEAN /\ connected \in BOOLEAN /\ CallsFit)'
  BY <1>1, <1>3 DEF CallsFit, server
<1>5. PICK v : v = SeenNow'
  OBVIOUS
<1>6. v = SeenNow /\ V[Len(wire)] = v
  BY <1>2, <1>3, <1>5 DEF SeenNow, client, Views
<1>7. ASSUME NEW w, w = Read([name |-> "transcript"], v), w.gap = "none"
      PROVE  Follows(w)'
  <2>1. w.live = v.live /\ w.act = <<>> /\ v.gap = "none" /\ v.live = <<>>
    BY <1>7 DEF Read, Types
  <2>2. Follows(v)
    BY <1>2, <1>6, <2>1 DEF Views
  <2>3. w.act = v.act
    BY <2>1, <2>2, <1>1 DEF Follows
  <2>4. Follows(w)
    BY <2>1, <2>2, <2>3 DEF Follows
  <2>. QED  BY <2>4, <1>3, FollowsOn
<1>8. WireFits' /\ \E W : Views(W)'
  BY <1>1, <1>3, <1>5, <1>7, BeginsAgain
<1>. QED  BY <1>4, <1>8 DEF LiveInv

LEMMA StartsAgain ==
  ASSUME LiveInv, StartsOver
  PROVE  LiveInv'
<1>1. running \in BOOLEAN /\ open \in BOOLEAN /\ connected \in BOOLEAN /\ CallsFit /\ WireFits
  BY DEF LiveInv
<1>2. UNCHANGED server /\ wire' = Snapshot /\ connected' = TRUE /\ ReduceMessage
      /\ gap' = IF running THEN "lost" ELSE "none"
  BY DEF StartsOver
<1>3. (running \in BOOLEAN /\ open \in BOOLEAN /\ connected \in BOOLEAN /\ CallsFit)'
  BY <1>1, <1>2 DEF CallsFit, server
<1>4. PICK v : v = SeenNow'
  OBVIOUS
<1>5. v.live = <<>> /\ v.act = <<>> /\ (v.gap = "none" => ~running)
  BY <1>2, <1>4 DEF SeenNow, ReduceMessage
<1>6. ASSUME NEW w, w = Read([name |-> "transcript"], v), w.gap = "none"
      PROVE  Follows(w)'
  <2>1. w.live = v.live /\ w.act = <<>> /\ v.gap = "none"
    BY <1>6 DEF Read, Types
  <2>2. ~running'
    BY <1>2, <1>5, <2>1 DEF server
  <2>. QED  BY <1>5, <2>1, <2>2 DEF Follows
<1>7. WireFits' /\ \E W : Views(W)'
  BY <1>1, <1>2, <1>4, <1>6, BeginsAgain
<1>. QED  BY <1>3, <1>7 DEF LiveInv

(* ---- a reply: what the server does ------------------------------------------- *)

LEMMA Starts ==
  ASSUME LiveInv, NEW phase \in {"start", "agent"}, TurnStarts(phase)
  PROVE  LiveInv'
<1>1. running \in BOOLEAN /\ open \in BOOLEAN /\ connected \in BOOLEAN /\ CallsFit /\ WireFits
  BY DEF LiveInv
<1>2. PICK V : Views(V)
  BY DEF LiveInv
<1>3. PICK ev : ev = [name |-> "turn", phase |-> phase]
  OBVIOUS
<1>4. ~running /\ running' = TRUE /\ turns' = turns + 1 /\ activity' = <<>> /\ parts' = <<>>
      /\ open' = FALSE /\ nextSeq' = 0 /\ Send(ev) /\ UNCHANGED <<client, connected>>
  BY <1>3 DEF TurnStarts, ResetSegments
<1>5. (running \in BOOLEAN /\ open \in BOOLEAN /\ connected \in BOOLEAN /\ CallsFit)'
  <2>1. PICK none : none = <<>>
    OBVIOUS
  <2>2. none \in Seq([id : Calls, status : {"running", "ok", "error"}]) /\ Len(none) = 0
    BY <2>1
  <2>3. turns + 1 \in Nat
    BY <1>1 DEF CallsFit
  <2>4. activity' \in Seq([id : Calls, status : {"running", "ok", "error"}]) /\ Len(activity') = 0
    BY <1>4, <2>1, <2>2
  <2>5. turns' \in Nat /\ nextSeq' \in Nat
    BY <1>4, <2>3
  <2>6. CallsFit'
    BY <2>4, <2>5 DEF CallsFit
  <2>. QED  BY <1>1, <1>4, <2>6
<1>6. ev.name = "turn" /\ ev.name # "message" /\ ev.name \in EventNames
  BY <1>3 DEF EventNames
<1>7. PICK last : last = V[Len(wire)]
  OBVIOUS
<1>8. ASSUME NEW v, v = Read(ev, last), v.gap = "none" PROVE Follows(v)'
  <2>1. last.gap = "none" /\ v.live = last.live /\ v.act = IF ev.phase = "start" THEN <<>> ELSE last.act
    BY <1>6, <1>8 DEF Read, Types
  <2>2. last.live = <<>> /\ last.act = <<>>
    BY <1>2, <1>4, <1>7, <2>1 DEF Views, Follows
  <2>3. v.live = <<>> /\ v.act = <<>>
    BY <2>1, <2>2
  <2>4. PICK none : none = <<>>
    OBVIOUS
  <2>5. none \in Seq(Parts) /\ Len(none) = 0 /\ Same(none, none)
    BY <2>4 DEF Same
  <2>. QED  BY <1>4, <2>3, <2>4, <2>5 DEF Follows
<1>9. WireFits' /\ \E W : Views(W)'
  BY <1>1, <1>2, <1>4, <1>6, <1>7, <1>8, Sends
<1>. QED  BY <1>5, <1>9 DEF LiveInv

\* The open run, extended.
Extended(v, c, a, b, r, h) ==
  /\ v.live = Append(a, r) /\ parts = Append(b, r) /\ Same(a, b)
  /\ r.seq = openSeq /\ openSeq \in Nat /\ openSeq < nextSeq
  /\ h.type = r.type /\ h.seq = r.seq
  /\ AppendLive(v.live, openSeq, r.type, c) = Append(a, h)
  /\ Append(Front(parts), WithContent(Last(parts), Append(Last(parts).content, c))) = Append(b, h)
  /\ Last(parts) = r
  /\ \A i \in 1 .. Len(Append(a, h)) : Append(a, h)[i].seq < nextSeq

LEMMA Extends ==
  ASSUME NEW v, Follows(v), running, open, NEW c \in Chars, nextSeq \in Nat
  PROVE  \E a \in Seq(Parts), b \in Seq(Parts), r \in RunParts, h \in RunParts : Extended(v, c, a, b, r, h)
<1>1. PICK a \in Seq(Parts), b \in Seq(Parts), r \in RunParts :
        v.live = Append(a, r) /\ parts = Append(b, r) /\ r.seq = openSeq /\ Same(a, b)
  BY DEF Follows
<1>2. r \in Parts
  BY DEF Parts
<1>3. Front(parts) = b /\ Last(parts) = r /\ Front(v.live) = a /\ Last(v.live) = r /\ v.live # <<>>
  BY <1>1, <1>2, FrontOf
<1>4. r.content \in Seq(Chars) /\ r.type # "tool" /\ r.seq \in Nat
  BY RunType
<1>5. PICK d \in Seq(Chars) : d = Append(r.content, c)
  <2>1. Append(r.content, c) \in Seq(Chars)
    BY <1>4
  <2>. QED  BY <2>1
<1>6. PICK h : h = WithContent(r, d)
  OBVIOUS
<1>7. h \in RunParts /\ h.type = r.type /\ h.seq = r.seq
  BY <1>6, RunIs
<1>8. AppendLive(v.live, openSeq, r.type, c) = Append(a, h)
  BY <1>1, <1>3, <1>4, <1>5, <1>6 DEF AppendLive
<1>9. Append(Front(parts), WithContent(Last(parts), Append(Last(parts).content, c))) = Append(b, h)
  BY <1>3, <1>5, <1>6
<1>10. PICK l : l = Append(a, r)
  OBVIOUS
<1>11. PICK k : k = Append(a, h)
  OBVIOUS
<1>12. h \in Parts
  BY <1>7 DEF Parts
<1>13. Len(l) = Len(a) + 1 /\ Len(k) = Len(a) + 1 /\ Len(a) \in Nat /\ l[Len(a) + 1] = r /\ k[Len(a) + 1] = h
       /\ (\A i \in 1 .. Len(a) : l[i] = a[i] /\ k[i] = a[i])
  BY <1>2, <1>10, <1>11, <1>12
<1>14. \A i \in 1 .. Len(l) : l[i].seq < nextSeq
  BY <1>1, <1>10 DEF Follows
<1>15. r.seq < nextSeq
  <2>1. Len(a) + 1 \in 1 .. Len(l)
    BY <1>13
  <2>. QED  BY <2>1, <1>13, <1>14
<1>16. ASSUME NEW i \in 1 .. Len(k) PROVE k[i].seq < nextSeq
  <2>1. CASE i = Len(a) + 1
    BY <2>1, <1>7, <1>13, <1>15
  <2>2. CASE i # Len(a) + 1
    <3>1. i \in 1 .. Len(a) /\ i \in 1 .. Len(l)
      BY <2>2, <1>13
    <3>. QED  BY <3>1, <1>13, <1>14
  <2>. QED  BY <2>1, <2>2
<1>17. Extended(v, c, a, b, r, h)
  BY <1>1, <1>3, <1>4, <1>7, <1>8, <1>9, <1>11, <1>15, <1>16 DEF Extended
<1>. QED  BY <1>7, <1>17

\* A part begun: the number it has is that of no part before it.
LEMMA Begins ==
  ASSUME NEW l \in Seq(Parts), NEW p \in Parts, nextSeq \in Nat, p.seq = nextSeq,
         \A i \in 1 .. Len(l) : l[i].seq < nextSeq
  PROVE  /\ Append(l, p) \in Seq(Parts) /\ Append(l, p) # <<>>
         /\ \A i \in 1 .. Len(Append(l, p)) : Append(l, p)[i].seq < nextSeq + 1
         /\ \A i \in DOMAIN l : l[i].seq # nextSeq
         /\ l # <<>> => Last(l).seq # nextSeq
<1>1. Len(l) \in Nat /\ DOMAIN l = 1 .. Len(l) /\ \A i \in 1 .. Len(l) : l[i] \in Parts
  OBVIOUS
<1>2. \A q \in Parts : q.seq \in Nat
  BY DEF Parts, RunParts, CallParts
<1>3. \A i \in 1 .. Len(l) : l[i].seq \in Nat /\ l[i].seq < nextSeq
  BY <1>1, <1>2
<1>4. PICK k : k = Append(l, p)
  OBVIOUS
<1>5. k \in Seq(Parts) /\ k # <<>> /\ Len(k) = Len(l) + 1 /\ k[Len(l) + 1] = p
      /\ (\A i \in 1 .. Len(l) : k[i] = l[i])
  BY <1>1, <1>4
<1>6. ASSUME NEW i \in 1 .. Len(k) PROVE k[i].seq < nextSeq + 1
  <2>1. CASE i = Len(l) + 1
    BY <2>1, <1>5
  <2>2. CASE i # Len(l) + 1
    <3>1. i \in 1 .. Len(l)
      BY <2>2, <1>1, <1>5
    <3>. QED  BY <3>1, <1>3, <1>5
  <2>. QED  BY <2>1, <2>2
<1>7. \A i \in DOMAIN l : l[i].seq # nextSeq
  BY <1>1, <1>3
<1>8. l # <<>> => Last(l).seq # nextSeq
  <2>. SUFFICES ASSUME l # <<>> PROVE l[Len(l)].seq # nextSeq
    BY DEF Last
  <2>1. Len(l) \in 1 .. Len(l)
    BY <1>1
  <2>. QED  BY <2>1, <1>3
<1>. QED  BY <1>4, <1>5, <1>6, <1>7, <1>8

LEMMA Deltas ==
  ASSUME LiveInv, NEW type \in Types, NEW c \in Chars, Delta(type, c)
  PROVE  LiveInv'
<1>1. running \in BOOLEAN /\ open \in BOOLEAN /\ connected \in BOOLEAN /\ CallsFit /\ WireFits
  BY DEF LiveInv
<1>2. PICK V : Views(V)
  BY DEF LiveInv
<1>3. PICK ev : ev = [name |-> type, seq |-> DeltaSeq(type), char |-> c]
  OBVIOUS
<1>4. running /\ AddDelta(type, c) /\ Send(ev) /\ UNCHANGED <<activity, running, turns, client, connected>>
  BY <1>3 DEF Delta
<1>5. nextSeq \in Nat
  BY <1>1 DEF CallsFit
<1>6. (running \in BOOLEAN /\ open \in BOOLEAN /\ connected \in BOOLEAN /\ CallsFit)'
  BY <1>1, <1>4, <1>5 DEF CallsFit, AddDelta
<1>7. ev.name \in Types /\ ev.name = type /\ ev.seq = DeltaSeq(type) /\ ev.char = c /\ ev.name # "message"
      /\ ev.name # "activity" /\ ev.name # "turn" /\ ev.name # "transcript" /\ ev.name \in EventNames
  BY <1>3 DEF EventNames, Types
<1>8. PICK last : last = V[Len(wire)]
  OBVIOUS
<1>9. ASSUME NEW v, v = Read(ev, last), v.gap = "none" PROVE Follows(v)'
  <2>1. last.gap = "none" /\ v.live = AppendLive(last.live, DeltaSeq(type), type, c) /\ v.act = last.act
    BY <1>7, <1>9 DEF Read
  <2>2. Follows(last)
    BY <1>2, <1>8, <2>1 DEF Views
  <2>3. v.act = activity'
    BY <1>4, <2>1, <2>2 DEF Follows
  <2>4. CASE Continues(type)
    <3>1. open /\ Last(parts).type = type
      BY <2>4 DEF Continues
    <3>0. PICK a \in Seq(Parts), b \in Seq(Parts), r \in RunParts, h \in RunParts :
            Extended(last, c, a, b, r, h)
      BY <1>4, <1>5, <2>2, <3>1, Extends
    <3>2.   /\ last.live = Append(a, r) /\ parts = Append(b, r) /\ Same(a, b)
            /\ r.seq = openSeq /\ openSeq \in Nat /\ openSeq < nextSeq
            /\ h.type = r.type /\ h.seq = r.seq
            /\ AppendLive(last.live, openSeq, r.type, c) = Append(a, h)
            /\ Append(Front(parts), WithContent(Last(parts), Append(Last(parts).content, c))) = Append(b, h)
            /\ Last(parts) = r
            /\ \A i \in 1 .. Len(Append(a, h)) : Append(a, h)[i].seq < nextSeq
      BY <3>0 DEF Extended
    <3>3. parts' = Append(b, h) /\ openSeq' = openSeq /\ nextSeq' = nextSeq /\ open' = TRUE
      BY <1>4, <2>4, <3>2 DEF AddDelta, DeltaSeq
    <3>4. v.live = Append(a, h)
      BY <2>1, <2>4, <3>1, <3>2 DEF DeltaSeq
    <3>5. v.live \in Seq(Parts) /\ v.live # <<>>
      <4>1. h \in Parts
        BY DEF Parts
      <4>2. PICK k : k = Append(a, h)
        OBVIOUS
      <4>3. k \in Seq(Parts) /\ k # <<>>
        BY <4>1, <4>2
      <4>. QED  BY <4>2, <4>3, <3>4
    <3>6. \A i \in 1 .. Len(v.live) : v.live[i].seq < nextSeq'
      BY <3>2, <3>3, <3>4
    <3>7. \E x \in Seq(Parts), y \in Seq(Parts), z \in RunParts :
            v.live = Append(x, z) /\ parts' = Append(y, z) /\ z.seq = openSeq' /\ Same(x, y)
      BY <3>2, <3>3, <3>4
    <3>. QED  BY <1>4, <2>3, <3>3, <3>5, <3>6, <3>7 DEF Follows, Same
  <2>5. CASE ~Continues(type)
    <3>1. PICK r : r = Run(type, nextSeq, <<c>>)
      OBVIOUS
    <3>2. r \in RunParts /\ r \in Parts /\ r.seq = nextSeq
      <4>1. <<c>> \in Seq(Chars)
        OBVIOUS
      <4>2. r \in RunParts /\ r.seq = nextSeq
        BY <3>1, <4>1, <1>5 DEF Run, RunParts
      <4>. QED  BY <4>2 DEF Parts
    <3>3. parts' = Append(Closed, r) /\ openSeq' = nextSeq /\ nextSeq' = nextSeq + 1 /\ open' = TRUE
      BY <1>4, <2>5, <3>1 DEF AddDelta, DeltaSeq
    <3>4. PICK l \in Seq(Parts) : l = last.live /\ \A i \in 1 .. Len(l) : l[i].seq < nextSeq
      BY <1>4, <2>2 DEF Follows
    <3>5. PICK k \in Seq(Parts) : k = Append(l, r)
      <4>1. Append(l, r) \in Seq(Parts)
        BY <3>2, <1>5, <3>4, Begins
      <4>. QED  BY <4>1
    <3>6. k # <<>> /\ (l # <<>> => Last(l).seq # nextSeq) /\ \A i \in 1 .. Len(k) : k[i].seq < nextSeq + 1
      BY <3>2, <1>5, <3>4, <3>5, Begins
    <3>7. v.live = k
      BY <2>1, <2>5, <3>1, <3>4, <3>5, <3>6 DEF DeltaSeq, AppendLive
    <3>8. PICK d \in Seq(Parts) : d = Closed /\ Same(l, d)
      BY <1>1, <1>4, <2>2, <3>4, ClosedSame
    <3>9. \E x \in Seq(Parts), y \in Seq(Parts), z \in RunParts :
            v.live = Append(x, z) /\ parts' = Append(y, z) /\ z.seq = openSeq' /\ Same(x, y)
      BY <3>2, <3>3, <3>5, <3>7, <3>8
    <3>10. \A i \in 1 .. Len(v.live) : v.live[i].seq < nextSeq'
      BY <3>3, <3>6, <3>7
    <3>. QED  BY <1>4, <2>3, <3>3, <3>6, <3>7, <3>9, <3>10 DEF Follows, Same
  <2>. QED  BY <2>4, <2>5
<1>10. WireFits' /\ \E W : Views(W)'
  BY <1>1, <1>2, <1>4, <1>7, <1>8, <1>9, Sends
<1>. QED  BY <1>6, <1>10 DEF LiveInv

\* A call has an item of its own: the number of those before it.
LEMMA NewCall ==
  ASSUME CallsFit, NEW item, item.id = <<turns, Len(activity)>>
  PROVE  ItemsOf(activity, item.id) = {}
<1>1. turns \in Nat /\ activity \in Seq([id : Calls, status : {"running", "ok", "error"}])
      /\ \A i \in 1 .. Len(activity) : activity[i].id = <<turns, i - 1>>
  BY DEF CallsFit
<1>2. Len(activity) \in Nat /\ DOMAIN activity = 1 .. Len(activity)
  BY <1>1
<1>3. ASSUME NEW i \in DOMAIN activity PROVE activity[i].id # item.id
  <2>1. activity[i].id = <<turns, i - 1>>
    BY <1>1, <1>2
  <2>2. i - 1 # Len(activity)
    BY <1>2
  <2>3. <<turns, i - 1>> # <<turns, Len(activity)>>
    BY <2>2
  <2>. QED  BY <2>1, <2>3
<1>. QED  BY <1>3 DEF ItemsOf

LEMMA ToolStarted ==
  ASSUME LiveInv, ToolStarts
  PROVE  LiveInv'
<1>1. running \in BOOLEAN /\ open \in BOOLEAN /\ connected \in BOOLEAN /\ CallsFit /\ WireFits
  BY DEF LiveInv
<1>2. PICK V : Views(V)
  BY DEF LiveInv
<1>3. turns \in Nat /\ nextSeq \in Nat /\ activity \in Seq([id : Calls, status : {"running", "ok", "error"}])
      /\ \A i \in 1 .. Len(activity) : activity[i].id = <<turns, i - 1>>
  BY <1>1 DEF CallsFit
<1>4. PICK item : item = [id |-> <<turns, Len(activity)>>, status |-> "running"]
  OBVIOUS
<1>5. PICK act : act = Append(activity, item)
  OBVIOUS
<1>6. PICK ev : ev = [name |-> "activity", placed |-> TRUE, seq |-> nextSeq, item |-> item]
  OBVIOUS
<1>7. running /\ AddTool(item.id) /\ activity' = act /\ Send(ev) /\ UNCHANGED <<running, turns, client, connected>>
  BY <1>4, <1>5, <1>6 DEF ToolStarts
<1>8. item.id = <<turns, Len(activity)>> /\ item.id \in Calls
      /\ item \in [id : Calls, status : {"running", "ok", "error"}]
  <2>1. Len(activity) \in Nat
    BY <1>3
  <2>2. <<turns, Len(activity)>> \in Calls
    BY <1>3, <2>1 DEF Calls
  <2>. QED  BY <1>4, <2>2
<1>9. act \in Seq([id : Calls, status : {"running", "ok", "error"}])
      /\ \A i \in 1 .. Len(act) : act[i].id = <<turns, i - 1>>
  <2>1. act \in Seq([id : Calls, status : {"running", "ok", "error"}])
    BY <1>3, <1>5, <1>8
  <2>2. Len(act) = Len(activity) + 1 /\ act[Len(activity) + 1] = item /\ Len(activity) \in Nat
        /\ \A i \in 1 .. Len(activity) : act[i] = activity[i]
    BY <1>3, <1>5, <1>8
  <2>3. ASSUME NEW i \in 1 .. Len(act) PROVE act[i].id = <<turns, i - 1>>
    <3>1. CASE i = Len(activity) + 1
      <4>1. i - 1 = Len(activity) /\ act[i] = item
        BY <3>1, <2>2
      <4>. QED  BY <4>1, <1>8
    <3>2. CASE i # Len(activity) + 1
      <4>1. i \in 1 .. Len(activity)
        BY <3>2, <2>2
      <4>. QED  BY <4>1, <2>2, <1>3
    <3>. QED  BY <3>1, <3>2
  <2>. QED  BY <2>1, <2>3
<1>10. nextSeq' = nextSeq + 1 /\ open' = FALSE
  BY <1>7 DEF AddTool
<1>11. (running \in BOOLEAN /\ open \in BOOLEAN /\ connected \in BOOLEAN /\ CallsFit)'
  <2>1. nextSeq + 1 \in Nat
    BY <1>3
  <2>. QED  BY <1>1, <1>3, <1>7, <1>9, <1>10, <2>1 DEF CallsFit
<1>12. ev.name = "activity" /\ ev.placed = TRUE /\ ev.seq = nextSeq /\ ev.item = item
       /\ ev.name # "message" /\ ev.name \notin Types /\ ev.name # "transcript" /\ ev.name \in EventNames
  BY <1>6 DEF EventNames, Types
<1>13. PICK last : last = V[Len(wire)]
  OBVIOUS
<1>14. PICK p : p = Tool(nextSeq, item.id)
  OBVIOUS
<1>15. p \in Parts /\ p.seq = nextSeq
  <2>1. p \in CallParts /\ p.seq = nextSeq
    BY <1>3, <1>8, <1>14 DEF Tool, CallParts
  <2>. QED  BY <2>1 DEF Parts
<1>16. ASSUME NEW v, v = Read(ev, last), v.gap = "none" PROVE Follows(v)'
  <2>1. last.gap = "none"
    BY <1>12, <1>16 DEF Read
  <2>2. Follows(last)
    BY <1>2, <1>13, <2>1 DEF Views
  <2>3. PICK l \in Seq(Parts) : l = last.live /\ \A i \in 1 .. Len(l) : l[i].seq < nextSeq
    BY <1>7, <2>2 DEF Follows
  <2>4. last.act = activity
    BY <1>7, <2>2 DEF Follows
  <2>5. PICK k \in Seq(Parts) : k = Append(l, p)
    <3>1. Append(l, p) \in Seq(Parts)
      BY <1>3, <1>15, <2>3, Begins
    <3>. QED  BY <3>1
  <2>6. k # <<>> /\ (\A i \in DOMAIN l : l[i].seq # nextSeq) /\ \A i \in 1 .. Len(k) : k[i].seq < nextSeq + 1
    BY <1>3, <1>15, <2>3, <2>5, Begins
  <2>7. v.live = k
    BY <1>12, <1>14, <1>16, <2>3, <2>5, <2>6 DEF Read
  <2>8. v.act = act
    <3>1. ItemsOf(last.act, item.id) = {}
      BY <1>1, <1>8, <2>4, NewCall
    <3>. QED  BY <1>5, <1>12, <1>16, <2>4, <3>1 DEF Read
  <2>9. PICK d \in Seq(Parts) : d = Closed /\ Same(l, d)
    BY <1>1, <1>7, <2>2, <2>3, ClosedSame
  <2>10. parts' = Append(d, p)
    BY <1>7, <1>14, <2>9 DEF AddTool
  <2>11. Append(d, p) \in Seq(Parts)
    BY <1>15
  <2>12. Same(k, Append(d, p))
    BY <1>15, <2>5, <2>9, SameAppend
  <2>13. \A i \in 1 .. Len(v.live) : v.live[i].seq < nextSeq'
    BY <1>10, <2>6, <2>7
  <2>. QED  BY <1>7, <1>10, <2>6, <2>7, <2>8, <2>10, <2>11, <2>12, <2>13 DEF Follows, Same
<1>17. WireFits' /\ \E W : Views(W)'
  BY <1>1, <1>2, <1>7, <1>12, <1>13, <1>16, Sends
<1>. QED  BY <1>11, <1>17 DEF LiveInv

LEMMA ToolEnded ==
  ASSUME LiveInv, NEW i \in DOMAIN activity, NEW status \in {"ok", "error"}, ToolEnds(i, status)
  PROVE  LiveInv'
<1>1. running \in BOOLEAN /\ open \in BOOLEAN /\ connected \in BOOLEAN /\ CallsFit /\ WireFits
  BY DEF LiveInv
<1>2. PICK V : Views(V)
  BY DEF LiveInv
<1>3. turns \in Nat /\ nextSeq \in Nat /\ activity \in Seq([id : Calls, status : {"running", "ok", "error"}])
      /\ \A j \in 1 .. Len(activity) : activity[j].id = <<turns, j - 1>>
  BY <1>1 DEF CallsFit
<1>4. PICK item : item = [id |-> activity[i].id, status |-> status]
  OBVIOUS
<1>5. PICK act : act = [activity EXCEPT ![i] = item]
  OBVIOUS
<1>6. DOMAIN activity = 1 .. Len(activity) /\ Len(activity) \in Nat /\ i \in 1 .. Len(activity)
      /\ activity[i] \in [id : Calls, status : {"running", "ok", "error"}]
  <2>1. DOMAIN activity = 1 .. Len(activity) /\ Len(activity) \in Nat
    BY <1>3
  <2>2. i \in 1 .. Len(activity)
    BY <2>1
  <2>3. PICK S : S = [id : Calls, status : {"running", "ok", "error"}]
    OBVIOUS
  <2>4. activity \in Seq(S)
    BY <1>3, <2>3
  <2>5. activity[i] \in S
    BY <2>2, <2>4
  <2>. QED  BY <2>1, <2>2, <2>3, <2>5
<1>7. item.id = activity[i].id /\ item \in [id : Calls, status : {"running", "ok", "error"}]
  BY <1>4, <1>6
<1>8. act \in Seq([id : Calls, status : {"running", "ok", "error"}]) /\ Len(act) = Len(activity) /\ act[i] = item
      /\ \A j \in 1 .. Len(activity) : act[j] = IF j = i THEN item ELSE activity[j]
  BY <1>3, <1>5, <1>6, <1>7
<1>9. PICK ev : ev = [name |-> "activity", placed |-> FALSE, seq |-> 0, item |-> item]
  OBVIOUS
<1>10. running /\ activity' = act /\ UNCHANGED <<parts, open, nextSeq, openSeq, running, turns, client, connected>>
  BY <1>4, <1>5 DEF ToolEnds
<1>11. Send(ev)
  BY <1>8, <1>9, <1>10 DEF ToolEnds
<1>12. (running \in BOOLEAN /\ open \in BOOLEAN /\ connected \in BOOLEAN /\ CallsFit)'
  <2>1. \A j \in 1 .. Len(act) : act[j].id = <<turns, j - 1>>
    BY <1>3, <1>7, <1>8
  <2>. QED  BY <1>1, <1>3, <1>8, <1>10, <2>1 DEF CallsFit
<1>13. ev.name = "activity" /\ ev.placed = FALSE /\ ev.item = item
       /\ ev.name # "message" /\ ev.name \notin Types /\ ev.name # "transcript" /\ ev.name \in EventNames
  BY <1>9 DEF EventNames, Types
<1>14. PICK last : last = V[Len(wire)]
  OBVIOUS
<1>15. ASSUME NEW v, v = Read(ev, last), v.gap = "none" PROVE Follows(v)'
  <2>1. last.gap = "none" /\ v.live = last.live
    BY <1>13, <1>15 DEF Read
  <2>2. Follows(last)
    BY <1>2, <1>14, <2>1 DEF Views
  <2>3. last.act = activity
    BY <1>10, <2>2 DEF Follows
  <2>4. ItemsOf(activity, item.id) # {}
    BY <1>7 DEF ItemsOf
  <2>5. v.act = [j \in DOMAIN activity |-> IF activity[j].id = item.id THEN item ELSE activity[j]]
    BY <1>13, <1>15, <2>3, <2>4 DEF Read
  <2>6. ASSUME NEW j \in 1 .. Len(activity)
        PROVE  (IF activity[j].id = item.id THEN item ELSE activity[j]) = act[j]
    <3>1. activity[j].id = <<turns, j - 1>> /\ item.id = <<turns, i - 1>>
      BY <1>3, <1>6, <1>7
    <3>2. activity[j].id = item.id => j = i
      <4>. SUFFICES ASSUME <<turns, j - 1>> = <<turns, i - 1>> PROVE j = i
        BY <3>1
      <4>1. j - 1 = i - 1
        OBVIOUS
      <4>. QED  BY <4>1, <1>6
    <3>3. CASE j = i
      BY <3>3, <1>7, <1>8
    <3>4. CASE j # i
      BY <3>2, <3>4, <1>8
    <3>. QED  BY <3>3, <3>4
  <2>7. v.act = act
    <3>1. act = [j \in 1 .. Len(activity) |-> act[j]]
      BY <1>8
    <3>2. v.act = [j \in 1 .. Len(activity) |-> IF activity[j].id = item.id THEN item ELSE activity[j]]
      BY <1>6, <2>5
    <3>. QED  BY <3>1, <3>2, <2>6
  <2>8. v.live # <<>>
    <3>1. activity # <<>>
      BY <1>6
    <3>. QED  BY <1>10, <2>1, <2>2, <3>1 DEF Follows
  <2>. QED  BY <1>10, <2>1, <2>2, <2>7, <2>8 DEF Follows
<1>16. WireFits' /\ \E W : Views(W)'
  BY <1>1, <1>2, <1>10, <1>11, <1>13, <1>14, <1>15, Sends
<1>. QED  BY <1>12, <1>16 DEF LiveInv

LEMMA TurnEnded ==
  ASSUME LiveInv, NEW marker \in {<<>>, <<"cut">>}, TurnEnds(marker)
  PROVE  LiveInv'
<1>1. running \in BOOLEAN /\ open \in BOOLEAN /\ connected \in BOOLEAN /\ CallsFit /\ WireFits
  BY DEF LiveInv
<1>2. PICK V : Views(V)
  BY DEF LiveInv
<1>3. PICK ev : ev = [name |-> "message", parts |-> Marked(Closed, marker), marker |-> marker,
                      activity |-> activity]
  OBVIOUS
<1>4. running /\ running' = FALSE /\ open' = FALSE /\ Send(ev)
      /\ UNCHANGED <<nextSeq, activity, turns, client, connected>>
  BY <1>3 DEF TurnEnds
<1>5. (running \in BOOLEAN /\ open \in BOOLEAN /\ connected \in BOOLEAN /\ CallsFit)'
  BY <1>1, <1>4 DEF CallsFit
<1>6. ev.name = "message" /\ ev.parts = Marked(Closed, marker) /\ ev.marker = marker
      /\ ev.activity = activity /\ ev.name \notin Types /\ ev.name # "activity" /\ ev.name \in EventNames
  BY <1>3 DEF EventNames, Types
<1>7. PICK last : last = V[Len(wire)]
  OBVIOUS
<1>8. last.gap = "none" => Lines(last.live, last.act) = Lines(Unmarked(ev), ev.activity)
  <2>. SUFFICES ASSUME last.gap = "none"
       PROVE  Lines(last.live, last.act) = Lines(Unmarked(ev), ev.activity)
    OBVIOUS
  <2>1. Follows(last)
    BY <1>2, <1>7 DEF Views
  <2>2. last.act = activity
    BY <1>4, <2>1 DEF Follows
  <2>3. PICK d \in Seq(Parts) : d = Closed /\ Same(last.live, d)
    BY <1>1, <1>4, <2>1, ClosedSame
  <2>4. Unmarked(ev) = d
    <3>1. marker \in Seq(Chars \cup {"cut"})
      <4>1. CASE marker = <<>>
        BY <4>1
      <4>2. CASE marker = <<"cut">>
        BY <4>2
      <4>. QED  BY <4>1, <4>2
    <3>. QED  BY <1>6, <2>3, <3>1, MarkTaken
  <2>. QED  BY <1>6, <2>2, <2>3, <2>4 DEF Same
<1>9. ASSUME NEW v, v = Read(ev, last), v.gap = "none" PROVE Follows(v)'
  <2>1. v.live = <<>> /\ v.act = <<>>
    BY <1>6, <1>9 DEF Read
  <2>. QED  BY <1>4, <2>1 DEF Follows
<1>10. WireFits' /\ \E W : Views(W)'
  BY <1>1, <1>2, <1>4, <1>6, <1>7, <1>8, <1>9, Sends
<1>. QED  BY <1>5, <1>10 DEF LiveInv

LEMMA ReplyBegins == ReplyInit => LiveInv
<1>. SUFFICES ASSUME ReplyInit PROVE LiveInv
  OBVIOUS
<1>1. running = FALSE /\ open = FALSE /\ connected = TRUE /\ turns = 0 /\ nextSeq = 0 /\ activity = <<>>
      /\ wire = <<>> /\ liveParts = <<>> /\ liveActivity = <<>>
  BY DEF ReplyInit
<1>2. PICK none : none = <<>>
  OBVIOUS
<1>3. none \in Seq([id : Calls, status : {"running", "ok", "error"}]) /\ none \in Seq({}) /\ Len(none) = 0
  BY <1>2
<1>4. CallsFit
  BY <1>1, <1>2, <1>3 DEF CallsFit
<1>5. WireFits
  BY <1>1, <1>2, <1>3 DEF WireFits
<1>6. PICK v : v = SeenNow
  OBVIOUS
<1>7. Follows(v)
  BY <1>1, <1>6 DEF Follows, SeenNow
<1>8. PICK W : W = [k \in 0 .. 0 |-> v]
  OBVIOUS
<1>9. DOMAIN W = 0 .. 0 /\ W = [k \in 0 .. 0 |-> W[k]] /\ W[0] = v
  BY <1>8
<1>10. Views(W)
  BY <1>1, <1>2, <1>3, <1>6, <1>7, <1>9 DEF Views
<1>. QED  BY <1>1, <1>4, <1>5, <1>10 DEF LiveInv

LEMMA ReplyUnchanged ==
  ASSUME LiveInv, UNCHANGED replyVars
  PROVE  LiveInv'
<1>1. PICK V : Views(V)
  BY DEF LiveInv
<1>2. SeenNow' = SeenNow /\ wire' = wire /\ UNCHANGED server /\ connected' = connected
  BY DEF replyVars, server, client, SeenNow
<1>3. PICK last : last = V[Len(wire)]
  OBVIOUS
<1>4. last.gap = "none" => Follows(last)'
  BY <1>1, <1>2, <1>3, FollowsOn DEF Views
<1>5. Views(V)'
  BY <1>1, <1>2, <1>3, <1>4 DEF Views
<1>6. (running \in BOOLEAN /\ open \in BOOLEAN /\ connected \in BOOLEAN /\ CallsFit /\ WireFits)'
  BY <1>2 DEF LiveInv, CallsFit, WireFits, server
<1>. QED  BY <1>5, <1>6 DEF LiveInv

LEMMA ReplyStep == LiveInv /\ [ReplyNext]_replyVars => LiveInv'
<1>. SUFFICES ASSUME LiveInv, [ReplyNext]_replyVars PROVE LiveInv'
  OBVIOUS
<1>1. CASE \E phase \in {"start", "agent"} : TurnStarts(phase)
  BY <1>1, Starts
<1>2. CASE \E type \in Types, c \in Chars : Delta(type, c)
  BY <1>2, Deltas
<1>3. CASE ToolStarts
  BY <1>3, ToolStarted
<1>4. CASE \E i \in DOMAIN activity, status \in {"ok", "error"} : ToolEnds(i, status)
  BY <1>4, ToolEnded
<1>5. CASE \E marker \in {<<>>, <<"cut">>} : TurnEnds(marker)
  BY <1>5, TurnEnded
<1>6. CASE Deliver
  BY <1>6, Delivers
<1>7. CASE Break
  BY <1>7, Breaks
<1>8. CASE Reopen
  BY <1>8, Reopens
<1>9. CASE StartsOver
  BY <1>9, StartsAgain
<1>10. CASE UNCHANGED replyVars
  BY <1>10, ReplyUnchanged
<1>. QED  BY <1>1, <1>2, <1>3, <1>4, <1>5, <1>6, <1>7, <1>8, <1>9, <1>10 DEF ReplyNext

LEMMA EntryShowsIt ==
  ASSUME LiveInv, Replaces
  PROVE  Lines(liveParts, liveActivity) = Lines(Unmarked(Head(wire)), Head(wire).activity)
<1>1. PICK V : Views(V)
  BY DEF LiveInv
<1>2. PICK S : wire \in Seq(S)
  BY DEF LiveInv, WireFits
<1>3. PICK ev : ev = Head(wire)
  OBVIOUS
<1>4. wire # <<>> /\ ev.name = "message" /\ gap = "none"
  BY <1>3 DEF Replaces
<1>5. 1 \in 1 .. Len(wire) /\ 1 - 1 = 0 /\ wire[1] = ev
  BY <1>2, <1>3, <1>4
<1>6. PICK v : v = SeenNow
  OBVIOUS
<1>7. V[0] = v /\ v.live = liveParts /\ v.act = liveActivity /\ v.gap = "none"
  BY <1>1, <1>4, <1>6 DEF Views, SeenNow
<1>8. wire[1].name = "message" /\ V[0].gap = "none" =>
        Lines(V[0].live, V[0].act) = Lines(Unmarked(wire[1]), wire[1].activity)
  BY <1>1, <1>5 DEF Views
<1>. QED  BY <1>3, <1>4, <1>5, <1>7, <1>8

\* The entry of a finished turn replaces what the client assembled from the
\* stream (state.ts, "message"): when nothing of the reply was lost and the
\* stream was not opened again under it, the entry shows the thoughts, the prose
\* and the calls that were on the screen, in the order they were in, whatever
\* mix of deltas and calls the turn had and however late the client reads it.
THEOREM TheEntryShowsTheReply == ReplySpec => LiveIsPersisted
<1>1. ReplyInit => LiveInv
  BY ReplyBegins
<1>2. LiveInv /\ [ReplyNext]_replyVars => LiveInv'
  BY ReplyStep
<1>3. LiveInv => [Replaces => Lines(liveParts, liveActivity)
                                = Lines(Unmarked(Head(wire)), Head(wire).activity)]_replyVars
  BY EntryShowsIt
<1>. QED  BY <1>1, <1>2, <1>3, PTL DEF ReplySpec, LiveIsPersisted

===============================================================================
