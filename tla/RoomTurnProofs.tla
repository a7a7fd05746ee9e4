--------------------------- MODULE RoomTurnProofs ---------------------------
(***************************************************************************)
(* For any roster, seats, budget and bounds: the room's fields are well    *)
(* typed, no line of agents names one twice, Stop holds until the task at  *)
(* work is over, a supervised card is never left without its judge, a      *)
(* refused hop is not reviewed again, a user turn stays within its chain   *)
(* budget, and no step forgets an agent that waits for its turn.           *)
(***************************************************************************)
EXTENDS RoomTurn, FiniteSetTheorems, TLAPS

(* ---- lines of agents ----------------------------------------------------- *)

\* A line-up of a set of agents names each member once and nobody else.
LEMMA OrdersLine ==
  ASSUME NEW S \in SUBSET Agents, NEW s \in Orders(S)
  PROVE  /\ s \in Seq(Agents)
         /\ IsInjective(s)
         /\ Len(s) \in Nat
         /\ DOMAIN s = 1..Len(s)
         /\ \A i \in DOMAIN s : s[i] \in S
<1>1. IsFiniteSet(S) /\ Cardinality(S) \in Nat
  BY AgentsAssumption, FS_Subset, FS_CardinalityType
<1>2. s \in [1..Cardinality(S) -> S] /\ IsInjective(s)
  BY DEF Orders
<1>3. s \in Seq(Agents) /\ Len(s) = Cardinality(S)
  BY <1>1, <1>2
<1> QED
  BY <1>1, <1>2, <1>3

\* Two lines without a common member make one line.
LEMMA JoinedLine ==
  ASSUME NEW s \in Seq(Agents), NEW t \in Seq(Agents),
         IsInjective(s), IsInjective(t),
         \A i \in DOMAIN s, j \in DOMAIN t : s[i] # t[j]
  PROVE  s \o t \in Seq(Agents) /\ IsInjective(s \o t)
<1> DEFINE u == s \o t
<1>1. /\ u \in Seq(Agents)
      /\ DOMAIN u = 1..(Len(s) + Len(t))
      /\ Len(s) \in Nat /\ Len(t) \in Nat
      /\ DOMAIN s = 1..Len(s) /\ DOMAIN t = 1..Len(t)
      /\ \A i \in 1..Len(s) : u[i] = s[i]
      /\ \A i \in (Len(s) + 1)..(Len(s) + Len(t)) : u[i] = t[i - Len(s)]
  OBVIOUS
<1>2. ASSUME NEW i \in DOMAIN u, NEW j \in DOMAIN u, u[i] = u[j] PROVE i = j
  <2>1. CASE i \in 1..Len(s) /\ j \in 1..Len(s)
    BY <1>1, <1>2, <2>1 DEF IsInjective
  <2>2. CASE i \notin 1..Len(s) /\ j \notin 1..Len(s)
    <3>1. /\ i - Len(s) \in DOMAIN t /\ j - Len(s) \in DOMAIN t
          /\ t[i - Len(s)] = t[j - Len(s)]
      BY <1>1, <1>2, <2>2
    <3>2. i - Len(s) = j - Len(s)
      BY <3>1 DEF IsInjective
    <3> QED
      BY <3>2, <1>1
  <2>3. CASE i \in 1..Len(s) /\ j \notin 1..Len(s)
    <3>1. j - Len(s) \in DOMAIN t /\ s[i] = t[j - Len(s)]
      BY <1>1, <1>2, <2>3
    <3> QED
      BY <3>1, <1>1, <2>3
  <2>4. CASE i \notin 1..Len(s) /\ j \in 1..Len(s)
    <3>1. i - Len(s) \in DOMAIN t /\ s[j] = t[i - Len(s)]
      BY <1>1, <1>2, <2>4
    <3> QED
      BY <3>1, <1>1, <2>4
  <2> QED
    BY <2>1, <2>2, <2>3, <2>4
<1>3. IsInjective(u)
  BY <1>2 DEF IsInjective
<1> QED
  BY <1>1, <1>3

\* Agents that are not in a line may join it at either end, in any order.
LEMMA FreshLine ==
  ASSUME NEW line \in Seq(Agents), IsInjective(line),
         NEW S \in SUBSET Agents, NEW o \in Orders(S \ ToSet(line))
  PROVE  /\ line \o o \in Seq(Agents) /\ IsInjective(line \o o)
         /\ o \o line \in Seq(Agents) /\ IsInjective(o \o line)
<1>1. /\ o \in Seq(Agents) /\ IsInjective(o)
      /\ \A i \in DOMAIN o : o[i] \in S \ ToSet(line)
  BY OrdersLine
<1>2. \A i \in DOMAIN line, j \in DOMAIN o : line[i] # o[j]
  BY <1>1 DEF ToSet
<1>3. line \o o \in Seq(Agents) /\ IsInjective(line \o o)
  BY <1>1, <1>2, JoinedLine
<1>4. o \o line \in Seq(Agents) /\ IsInjective(o \o line)
  BY <1>1, <1>2, JoinedLine
<1> QED
  BY <1>3, <1>4

\* So may a single agent.
LEMMA FreshAgent ==
  ASSUME NEW line \in Seq(Agents), IsInjective(line),
         NEW b \in Agents, b \notin ToSet(line)
  PROVE  /\ line \o <<b>> \in Seq(Agents) /\ IsInjective(line \o <<b>>)
         /\ <<b>> \o line \in Seq(Agents) /\ IsInjective(<<b>> \o line)
<1>1. <<b>> \in Seq(Agents) /\ IsInjective(<<b>>)
  BY DEF IsInjective
<1>2. \A i \in DOMAIN line, j \in DOMAIN <<b>> : line[i] # <<b>>[j]
  BY DEF ToSet
<1>3. line \o <<b>> \in Seq(Agents) /\ IsInjective(line \o <<b>>)
  BY <1>1, <1>2, JoinedLine
<1>4. <<b>> \o line \in Seq(Agents) /\ IsInjective(<<b>> \o line)
  BY <1>1, <1>2, JoinedLine
<1> QED
  BY <1>3, <1>4

\* A stretch of a line is a line.
LEMMA PartOfLine ==
  ASSUME NEW line \in Seq(Agents), IsInjective(line),
         NEW m \in 1..(Len(line) + 1), NEW n \in 0..Len(line)
  PROVE  SubSeq(line, m, n) \in Seq(Agents) /\ IsInjective(SubSeq(line, m, n))
<1> DEFINE u == SubSeq(line, m, n)
<1>1. /\ u \in Seq(Agents)
      /\ \A i \in DOMAIN u : i \in Nat /\ i + m - 1 \in DOMAIN line /\ u[i] = line[i + m - 1]
  OBVIOUS
<1>2. IsInjective(u)
  BY <1>1 DEF IsInjective
<1> QED
  BY <1>1, <1>2

\* The empty line.
LEMMA EmptyLine == <<>> \in Seq(Agents) /\ IsInjective(<<>>)
BY DEF IsInjective

\* enqueue() leaves a line, and a budget.
LEMMA EnqueuedLine ==
  ASSUME NEW line \in Seq(Agents), IsInjective(line),
         NEW S \in SUBSET Agents, NEW spent \in Nat,
         NEW e \in Enqueued(S, line, spent)
  PROVE  e[1] \in Seq(Agents) /\ IsInjective(e[1]) /\ e[2] \in Nat
<1> DEFINE fresh == S \ ToSet(line)
<1>1. CASE fresh = {} \/ spent >= MaxHops
  BY <1>1 DEF Enqueued
<1>2. CASE ~(fresh = {} \/ spent >= MaxHops)
  <2>1. PICK o \in Orders(fresh) :
          e = <<IF resume THEN o \o line ELSE line \o o, spent + Cardinality(fresh)>>
    BY <1>2 DEF Enqueued
  <2>2. Cardinality(fresh) \in Nat
    BY AgentsAssumption, FS_Subset, FS_CardinalityType
  <2>3. /\ line \o o \in Seq(Agents) /\ IsInjective(line \o o)
        /\ o \o line \in Seq(Agents) /\ IsInjective(o \o line)
    BY FreshLine
  <2>4. /\ e[1] = (IF resume THEN o \o line ELSE line \o o)
        /\ e[2] = spent + Cardinality(fresh)
    BY <2>1
  <2>5. e[1] \in Seq(Agents) /\ IsInjective(e[1])
    <3>1. CASE resume
      BY <3>1, <2>3, <2>4
    <3>2. CASE ~resume
      BY <3>2, <2>3, <2>4
    <3> QED
      BY <3>1, <3>2
  <2> QED
    BY <2>2, <2>4, <2>5
<1> QED
  BY <1>1, <1>2

(* ---- types and lines ------------------------------------------------------ *)

LinesInv == TypeOK /\ NoAgentTwice

LEMMA InitLines == Init => LinesInv
<1> SUFFICES ASSUME Init PROVE LinesInv
  OBVIOUS
<1>1. RoomTyped
  <2>1. chain \in Seq(Task) /\ queue \in Seq(Agents) /\ budget \in Nat
    BY DEF Init
  <2>2. pc \in {"idle", "drain", "wave", "post", "lookup", "close"}
    BY DEF Init
  <2>3. mode \in Modes /\ active \subseteq Agents /\ aborted \in BOOLEAN
    BY DEF Init
  <2>4. pq \in Maybe(Question) /\ pr \in Maybe(Card) /\ refused \subseteq Hop
    BY DEF Init, Maybe
  <2>5. DOMAIN handoff = Agents /\ \A a \in Agents : handoff[a] \in Maybe(Agents \ {a})
    BY DEF Init, Maybe
  <2> QED
    BY <2>1, <2>2, <2>3, <2>4, <2>5 DEF RoomTyped
<1>2. TaskTyped
  <2>1. wave \in Seq(Agents) /\ kept \in Seq(Agents) /\ idx \in Nat
    BY DEF Init
  <2>2. stage \in [Agents -> {"off", "snap", "lock", "gen", "after", "done"}]
    BY DEF Init
  <2>3. out \in [Agents -> {"none", "skip", "cut", "said", "asked"}]
    BY DEF Init
  <2>4. asks \in Maybe(Agents) /\ proposed \subseteq Hop /\ resume \in BOOLEAN
    BY DEF Init, Maybe
  <2> QED
    BY <2>1, <2>2, <2>3, <2>4 DEF TaskTyped
<1>3. NotesTyped
  <2>1. deciding \subseteq Nat /\ cards \in Nat /\ left \in Int
    BY DEF Init
  <2>2. stopped \in BOOLEAN
    BY DEF Init
  <2>3. used \in [{"input", "click", "stop", "flip"} -> Nat]
    BY DEF Init
  <2> QED
    BY <2>1, <2>2, <2>3 DEF NotesTyped
<1>4. NoAgentTwice
  BY EmptyLine DEF Init, NoAgentTwice
<1> QED
  BY <1>1, <1>2, <1>3, <1>4 DEF LinesInv, TypeOK

(* ---- the outside touches no line, but Stop, which empties one ------------- *)

LEMMA UsesTyped ==
  ASSUME NotesTyped, NEW kind \in {"input", "click", "stop", "flip"}, NEW max, Uses(kind, max)
  PROVE  used' \in [{"input", "click", "stop", "flip"} -> Nat]
BY DEF Uses, NotesTyped

\* A task at work is not touched from outside.
LEMMA TaskLeft == ASSUME TaskTyped, UNCHANGED taskVars PROVE TaskTyped'
BY DEF TaskTyped, taskVars

LEMMA SubmitLines ==
  ASSUME LinesInv, NEW kind \in {"message", "report"}, Submit(kind) PROVE LinesInv'
<1> USE DEF LinesInv, TypeOK, Submit
<1>1. RoomTyped'
  BY DEF RoomTyped, Task
<1>2. NotesTyped'
  BY UsesTyped DEF NotesTyped
<1>3. NoAgentTwice'
  BY DEF NoAgentTwice, taskVars
<1> QED
  BY <1>1, <1>2, <1>3, TaskLeft

LEMMA ClickLines == ASSUME LinesInv, Click PROVE LinesInv'
<1> USE DEF LinesInv, TypeOK, Click
<1>1. RoomTyped'
  BY DEF RoomTyped, Task, Card, Maybe
<1>2. NotesTyped'
  BY UsesTyped DEF NotesTyped
<1>3. NoAgentTwice'
  BY DEF NoAgentTwice, taskVars
<1> QED
  BY <1>1, <1>2, <1>3, TaskLeft

LEMMA StopLines == ASSUME LinesInv, Stop PROVE LinesInv'
<1> USE DEF LinesInv, TypeOK, Stop
<1>1. RoomTyped'
  <2>1. queue' \in Seq(Agents) /\ pq' \in Maybe(Question) /\ pr' \in Maybe(Card)
    BY DEF Maybe
  <2>2. aborted' \in BOOLEAN
    OBVIOUS
  <2> QED
    BY <2>1, <2>2 DEF RoomTyped
<1>2. NotesTyped'
  <2>1. stopped' \in BOOLEAN
    OBVIOUS
  <2> QED
    BY <2>1, UsesTyped DEF NotesTyped
<1>3. NoAgentTwice'
  BY EmptyLine DEF NoAgentTwice, taskVars
<1> QED
  BY <1>1, <1>2, <1>3, TaskLeft

LEMMA SetActiveLines == ASSUME LinesInv, NEW a \in Agents, SetActive(a) PROVE LinesInv'
<1> USE DEF LinesInv, TypeOK, SetActive
<1>1. RoomTyped'
  BY DEF RoomTyped
<1>2. NotesTyped'
  BY UsesTyped DEF NotesTyped
<1>3. NoAgentTwice'
  BY DEF NoAgentTwice, taskVars
<1> QED
  BY <1>1, <1>2, <1>3, TaskLeft

LEMMA SetModeLines == ASSUME LinesInv, NEW m \in Modes, SetMode(m) PROVE LinesInv'
<1> USE DEF LinesInv, TypeOK, SetMode
<1>1. RoomTyped'
  BY DEF RoomTyped
<1>2. NotesTyped'
  BY UsesTyped DEF NotesTyped
<1>3. NoAgentTwice'
  BY DEF NoAgentTwice, taskVars
<1> QED
  BY <1>1, <1>2, <1>3, TaskLeft

LEMMA SupervisorDoneLines ==
  ASSUME LinesInv, NEW c \in deciding, SupervisorDone(c) PROVE LinesInv'
<1> USE DEF LinesInv, TypeOK, SupervisorDone
<1>1. RoomTyped'
  BY DEF RoomTyped, NotesTyped, Task
<1>2. NotesTyped'
  BY DEF NotesTyped
<1>3. NoAgentTwice'
  BY DEF NoAgentTwice, taskVars
<1> QED
  BY <1>1, <1>2, <1>3, TaskLeft

(* ---- a task is taken off the chain ---------------------------------------- *)

\* A task with nothing to do.
LEMMA NothingLines ==
  ASSUME LinesInv, NEW kind, Takes(kind), NothingToDo,
         budget' \in Nat, pq' = pq, pr' = pr, refused' \subseteq Hop
  PROVE  LinesInv'
<1> USE DEF LinesInv, TypeOK, Takes, NothingToDo
<1>1. RoomTyped'
  BY DEF RoomTyped
<1>2. NotesTyped'
  BY DEF NotesTyped
<1>3. NoAgentTwice'
  BY DEF NoAgentTwice, taskVars
<1> QED
  BY <1>1, <1>2, <1>3, TaskLeft

\* A task that starts a pass on a line; a pause it found open may be over.
LEMMA DispatchLines ==
  ASSUME LinesInv, NEW kind, Takes(kind),
         NEW line \in Seq(Agents), IsInjective(line), Dispatch(line),
         budget' \in Nat, left' \in Int,
         pq' = pq \/ pq' = None, pr' = pr \/ pr' = None, refused' \subseteq Hop
  PROVE  LinesInv'
<1> USE DEF LinesInv, TypeOK, Takes, Dispatch
<1>1. RoomTyped'
  <2>1. pq' \in Maybe(Question) /\ pr' \in Maybe(Card)
    BY DEF RoomTyped, Maybe
  <2>2. aborted' \in BOOLEAN
    OBVIOUS
  <2> QED
    BY <2>1, <2>2 DEF RoomTyped
<1>2. NotesTyped'
  BY DEF NotesTyped
<1>3. NoAgentTwice'
  BY DEF NoAgentTwice, taskVars
<1> QED
  BY <1>1, <1>2, <1>3, TaskLeft

\* A new user turn may start a whole number of agents.
LEMMA NewTurnInt ==
  ASSUME NEW n \in Nat, NewTurn(n) PROVE left' \in Int
BY HopsAssumption DEF NewTurn

\* A pause holds a line.
LEMMA HeldLine ==
  ASSUME LinesInv
  PROVE  /\ pq # None => /\ pq.asker \in Agents /\ pq.held \in Seq(Agents)
                         /\ IsInjective(pq.held) /\ Len(pq.held) \in Nat
         /\ pr # None => /\ pr.held \in Seq(Agents) /\ IsInjective(pr.held)
                         /\ pr.hops \subseteq Hop
BY DEF LinesInv, TypeOK, RoomTyped, NoAgentTwice, Maybe, Question, Card

LEMMA TakeMessageLines ==
  ASSUME LinesInv, TakeUnroutable \/ TakeMessage \/ TakeCancel PROVE LinesInv'
<1>1. CASE TakeUnroutable
  BY <1>1, NothingLines DEF TakeUnroutable, TakesMessage
<1>2. CASE TakeMessage
  <2>1. PICK S \in SUBSET active : \E targets \in Orders(S) :
          Dispatch(targets) /\ NewTurn(Len(targets))
    BY <1>2 DEF TakeMessage
  <2>2. PICK targets \in Orders(S) : Dispatch(targets) /\ NewTurn(Len(targets))
    BY <2>1
  <2>3. S \in SUBSET Agents
    BY DEF LinesInv, TypeOK, RoomTyped
  <2>4. targets \in Seq(Agents) /\ IsInjective(targets) /\ Len(targets) \in Nat
    BY <2>3, OrdersLine
  <2>5. left' \in Int
    BY <2>2, <2>4, NewTurnInt
  <2> QED
    BY <1>2, <2>2, <2>4, <2>5, DispatchLines DEF TakeMessage, TakesMessage
<1>3. CASE TakeCancel
  <2>1. left' \in Int
    BY <1>3, HeldLine, NewTurnInt DEF TakeCancel
  <2> QED
    BY <1>3, <2>1, HeldLine, DispatchLines DEF TakeCancel, TakesMessage
<1> QED
  BY <1>1, <1>2, <1>3

\* The asker alone makes the wave, its held queue the line.
LEMMA TakeAnswerLines == ASSUME LinesInv, TakeAnswer PROVE LinesInv'
<1> USE DEF LinesInv, TypeOK, TakeAnswer, TakesMessage, Takes
<1>1. RoomTyped'
  <2>1. aborted' \in BOOLEAN
    OBVIOUS
  <2> QED
    BY <2>1 DEF RoomTyped, Maybe
<1>2. TaskTyped'
  <2>1. wave' \in Seq(Agents) /\ kept' \in Seq(Agents)
    BY HeldLine
  <2>2. resume' \in BOOLEAN
    OBVIOUS
  <2> QED
    BY <2>1, <2>2 DEF TaskTyped
<1>3. NotesTyped'
  <2>1. left' \in Int
    <3>1. 1 + Len(pq.held) \in Nat
      BY HeldLine
    <3> QED
      BY <3>1, NewTurnInt
  <2> QED
    BY <2>1 DEF NotesTyped
<1>4. NoAgentTwice'
  BY HeldLine DEF NoAgentTwice, IsInjective
<1> QED
  BY <1>1, <1>2, <1>3, <1>4

LEMMA TakeReportLines ==
  ASSUME LinesInv, NEW target \in Agents, TakeReport(target) PROVE LinesInv'
<1>1. CASE pq # None \/ pr # None \/ target \notin active
  BY <1>1, NothingLines DEF TakeReport, LinesInv, TypeOK, RoomTyped
<1>2. CASE ~(pq # None \/ pr # None \/ target \notin active)
  <2>1. <<target>> \in Seq(Agents) /\ IsInjective(<<target>>)
    BY DEF IsInjective
  <2>2. left' \in Int
    BY <1>2, NewTurnInt DEF TakeReport
  <2>3. /\ Takes("report") /\ Dispatch(<<target>>)
        /\ budget' = 0 /\ pq' = pq /\ pr' = pr /\ refused' = refused
    BY <1>2 DEF TakeReport
  <2>4. refused' \subseteq Hop
    BY <2>3 DEF LinesInv, TypeOK, RoomTyped
  <2> QED
    BY <2>1, <2>2, <2>3, <2>4, DispatchLines
<1> QED
  BY <1>1, <1>2

\* The targets of a decision join the held queue.
LEMMA DecideLines ==
  ASSUME LinesInv, NEW kind, Takes(kind), pr # None,
         NEW targets \in SUBSET Agents, Decide(targets)
  PROVE  LinesInv'
<1>1. PICK fresh \in Orders(targets \ ToSet(pr.held)) :
        Dispatch(pr.held \o fresh) /\ budget' = budget + Len(fresh)
  BY DEF Decide
<1>2. pr.held \o fresh \in Seq(Agents) /\ IsInjective(pr.held \o fresh)
  BY HeldLine, FreshLine
<1>3. Len(fresh) \in Nat
  <2>1. targets \ ToSet(pr.held) \in SUBSET Agents
    OBVIOUS
  <2> QED
    BY <2>1, OrdersLine
<1>4. budget' \in Nat /\ left' \in Int /\ refused' \subseteq Hop
  BY <1>1, <1>3 DEF Decide, LinesInv, TypeOK, RoomTyped, NotesTyped
<1> QED
  BY <1>1, <1>2, <1>4, DispatchLines DEF Decide

\* The proposers run before the held queue.
LEMMA RefuseLines ==
  ASSUME LinesInv, NEW kind, Takes(kind), pr # None, Refuse PROVE LinesInv'
<1> DEFINE again == Proposers(pr.hops) \cap active
           due == IF budget >= MaxHops THEN {} ELSE again
<1>1. due \in SUBSET Agents
  BY DEF LinesInv, TypeOK, RoomTyped
<1>2. PICK rerun \in Orders(due \ ToSet(pr.held)) :
        Dispatch(rerun \o pr.held) /\ budget' = budget + Len(rerun)
  <2>1. due \ ToSet(pr.held) = IF budget >= MaxHops THEN {} ELSE again \ ToSet(pr.held)
    OBVIOUS
  <2> QED
    BY <2>1 DEF Refuse
<1>3. rerun \o pr.held \in Seq(Agents) /\ IsInjective(rerun \o pr.held)
  BY <1>1, HeldLine, FreshLine
<1>4. Len(rerun) \in Nat
  <2>1. due \ ToSet(pr.held) \in SUBSET Agents
    BY <1>1
  <2> QED
    BY <2>1, OrdersLine
<1>5. budget' \in Nat /\ left' \in Int /\ refused' \subseteq Hop
  BY <1>2, <1>4, HeldLine DEF Refuse, LinesInv, TypeOK, RoomTyped, NotesTyped
<1> QED
  BY <1>2, <1>3, <1>5, DispatchLines DEF Refuse

LEMMA DecisionTargets ==
  ASSUME LinesInv, pr # None
  PROVE  Decisions \subseteq SUBSET Agents /\ Verdicts \subseteq SUBSET Agents
<1>1. Targets(pr.hops) \subseteq Agents
  BY HeldLine DEF Targets, Hop
<1>2. active \subseteq Agents
  BY DEF LinesInv, TypeOK, RoomTyped
<1> QED
  BY <1>1, <1>2 DEF Decisions, Verdicts

LEMMA TakeDecisionLines == ASSUME LinesInv, TakeDecision PROVE LinesInv'
<1>1. CASE pr = None
  BY <1>1, NothingLines DEF TakeDecision, LinesInv, TypeOK, RoomTyped
<1>2. CASE pr # None
  BY <1>2, DecideLines, DecisionTargets DEF TakeDecision
<1> QED
  BY <1>1, <1>2

LEMMA TakeOutcomeLines == ASSUME LinesInv, TakeOutcome PROVE LinesInv'
<1>1. CASE pr = None \/ pr.card # Head(chain).card
  BY <1>1, NothingLines DEF TakeOutcome, LinesInv, TypeOK, RoomTyped
<1>2. CASE ~(pr = None \/ pr.card # Head(chain).card)
  BY <1>2, DecideLines, RefuseLines, DecisionTargets DEF TakeOutcome
<1> QED
  BY <1>1, <1>2

LEMMA TakeLines == ASSUME LinesInv, Take PROVE LinesInv'
BY TakeMessageLines, TakeAnswerLines, TakeReportLines, TakeDecisionLines, TakeOutcomeLines
   DEF Take

(* ---- a pass over the line --------------------------------------------------- *)

LEMMA StartWaveLines == ASSUME LinesInv, StartWave PROVE LinesInv'
<1> USE DEF LinesInv, TypeOK, StartWave
<1>1. PICK n \in DOMAIN queue : /\ wave' = SubSeq(queue, 1, n)
                                /\ queue' = SubSeq(queue, n + 1, Len(queue))
  OBVIOUS
<1>2. /\ queue \in Seq(Agents) /\ IsInjective(queue)
      /\ Len(queue) \in Nat /\ n \in 1..Len(queue)
  BY DEF RoomTyped, NoAgentTwice
<1>3. 1 \in 1..(Len(queue) + 1) /\ n \in 0..Len(queue)
      /\ n + 1 \in 1..(Len(queue) + 1) /\ Len(queue) \in 0..Len(queue)
  BY <1>2
<1>4. wave' \in Seq(Agents) /\ IsInjective(wave')
  BY <1>1, <1>2, <1>3, PartOfLine
<1>5. queue' \in Seq(Agents) /\ IsInjective(queue')
  BY <1>1, <1>2, <1>3, PartOfLine
<1>6. RoomTyped'
  BY <1>5 DEF RoomTyped
<1>7. TaskTyped'
  <2>1. kept' \in Seq(Agents)
    OBVIOUS
  <2>2. resume' \in BOOLEAN
    OBVIOUS
  <2> QED
    BY <1>4, <2>1, <2>2 DEF TaskTyped
<1>8. NotesTyped'
  BY DEF NotesTyped, noteVars
<1>9. NoAgentTwice'
  BY <1>4, <1>5, EmptyLine DEF NoAgentTwice
<1> QED
  BY <1>6, <1>7, <1>8, <1>9

\* A task that is over leaves empty lines.
LEMMA ForgetLines ==
  ASSUME ForgetTask
  PROVE  TaskTyped' /\ IsInjective(kept') /\ IsInjective(wave')
<1> USE DEF ForgetTask
<1>1. wave' \in Seq(Agents) /\ kept' \in Seq(Agents) /\ idx' \in Nat
  OBVIOUS
<1>2. /\ stage' \in [Agents -> {"off", "snap", "lock", "gen", "after", "done"}]
      /\ out' \in [Agents -> {"none", "skip", "cut", "said", "asked"}]
  OBVIOUS
<1>3. asks' \in Maybe(Agents) /\ proposed' \subseteq Hop /\ resume' \in BOOLEAN
  BY DEF Maybe
<1>4. IsInjective(kept') /\ IsInjective(wave')
  BY EmptyLine
<1> QED
  BY <1>1, <1>2, <1>3, <1>4 DEF TaskTyped

LEMMA EndDrainLines == ASSUME LinesInv, EndDrain PROVE LinesInv'
<1> USE DEF LinesInv, TypeOK, EndDrain
<1>1. RoomTyped'
  BY DEF RoomTyped
<1>2. NotesTyped'
  BY DEF NotesTyped, noteVars
<1>3. NoAgentTwice'
  BY ForgetLines, EmptyLine DEF NoAgentTwice
<1> QED
  BY <1>1, <1>2, <1>3, ForgetLines

LEMMA CloseLines == ASSUME LinesInv, Close PROVE LinesInv'
<1> USE DEF LinesInv, TypeOK, Close
<1>1. RoomTyped'
  BY DEF RoomTyped
<1>2. NotesTyped'
  <2>1. stopped' \in BOOLEAN
    OBVIOUS
  <2> QED
    BY <2>1 DEF NotesTyped
<1>3. NoAgentTwice'
  BY DEF NoAgentTwice, taskVars
<1> QED
  BY <1>1, <1>2, <1>3, TaskLeft

LEMMA CollectLines == ASSUME LinesInv, Collect PROVE LinesInv'
<1> USE DEF LinesInv, TypeOK, Collect
<1>1. RoomTyped'
  BY DEF RoomTyped
<1>2. TaskTyped'
  BY DEF TaskTyped, Maybe
<1>3. NotesTyped'
  BY DEF NotesTyped, noteVars
<1>4. NoAgentTwice'
  BY DEF NoAgentTwice
<1> QED
  BY <1>1, <1>2, <1>3, <1>4

(* ---- the members of a wave -------------------------------------------------- *)

LEMMA HandsOffTyped ==
  ASSUME LinesInv, NEW a \in Agents, HandsOff(a)
  PROVE  DOMAIN handoff' = Agents /\ \A b \in Agents : handoff'[b] \in Maybe(Agents \ {b})
BY DEF HandsOff, LinesInv, TypeOK, RoomTyped, Maybe

\* An agent's own step moves its stage, its result, its handoff; no line.
LEMMA AgentStepLines ==
  ASSUME LinesInv, NEW a \in Agents, NEW from, AgentStep(a, from),
         stage' \in [Agents -> {"off", "snap", "lock", "gen", "after", "done"}],
         out' \in [Agents -> {"none", "skip", "cut", "said", "asked"}],
         left' \in Int,
         DOMAIN handoff' = Agents, \A b \in Agents : handoff'[b] \in Maybe(Agents \ {b})
  PROVE  LinesInv'
<1> USE DEF LinesInv, TypeOK, AgentStep
<1>1. RoomTyped'
  BY DEF RoomTyped
<1>2. TaskTyped'
  BY DEF TaskTyped
<1>3. NotesTyped'
  BY DEF NotesTyped
<1>4. NoAgentTwice'
  BY DEF NoAgentTwice
<1> QED
  BY <1>1, <1>2, <1>3, <1>4

LEMMA AgentRunsLines == ASSUME LinesInv, NEW a \in Agents, AgentRuns(a) PROVE LinesInv'
<1>1. /\ DOMAIN handoff = Agents /\ \A b \in Agents : handoff[b] \in Maybe(Agents \ {b})
      /\ stage \in [Agents -> {"off", "snap", "lock", "gen", "after", "done"}]
      /\ out \in [Agents -> {"none", "skip", "cut", "said", "asked"}]
      /\ left \in Int
  BY DEF LinesInv, TypeOK, RoomTyped, TaskTyped, NotesTyped
<1>2. CASE Snapshot(a)
  BY <1>1, <1>2, AgentStepLines DEF Snapshot
<1>3. CASE Begin(a)
  <2>1. /\ stage' \in [Agents -> {"off", "snap", "lock", "gen", "after", "done"}]
        /\ out' \in [Agents -> {"none", "skip", "cut", "said", "asked"}]
        /\ left' \in Int
    BY <1>1, <1>3 DEF Begin
  <2> QED
    BY <1>1, <1>3, <2>1, AgentStepLines DEF Begin
<1>4. CASE Speak(a)
  <2>1. /\ stage' \in [Agents -> {"off", "snap", "lock", "gen", "after", "done"}]
        /\ out' \in [Agents -> {"none", "skip", "cut", "said", "asked"}]
    BY <1>1, <1>4 DEF Speak
  <2> QED
    BY <1>1, <1>4, <2>1, HandsOffTyped, AgentStepLines DEF Speak
<1>5. CASE Throw(a)
  <2>1. /\ stage' \in [Agents -> {"off", "snap", "lock", "gen", "after", "done"}]
        /\ out' \in [Agents -> {"none", "skip", "cut", "said", "asked"}]
    BY <1>1, <1>5 DEF Throw
  <2> QED
    BY <1>1, <1>5, <2>1, HandsOffTyped, AgentStepLines DEF Throw
<1>6. CASE Finish(a)
  BY <1>1, <1>6, AgentStepLines DEF Finish
<1> QED
  BY <1>2, <1>3, <1>4, <1>5, <1>6 DEF AgentRuns

(* ---- posting a wave ----------------------------------------------------------- *)

LEMMA LineIsLine == ASSUME LinesInv PROVE Line \in Seq(Agents) /\ IsInjective(Line)
BY DEF LinesInv, TypeOK, RoomTyped, TaskTyped, NoAgentTwice, Line

\* A result that is posted extends the line or leaves it.
LEMMA PostLines ==
  ASSUME LinesInv, PostFrame, NEW a \in Agents,
         pc' \in {"post", "lookup"}, idx' \in Nat, asks' \in Maybe(Agents),
         proposed' \subseteq Hop, budget' \in Nat,
         HandoffTaken(a) \/ UNCHANGED handoff,
         \/ UNCHANGED <<queue, kept>>
         \/ \E l \in Seq(Agents) : IsInjective(l) /\ LineBecomes(l)
  PROVE  LinesInv'
<1> USE DEF LinesInv, TypeOK, PostFrame
<1>1. /\ queue' \in Seq(Agents) /\ kept' \in Seq(Agents)
      /\ IsInjective(queue') /\ IsInjective(kept')
  BY DEF LineBecomes, RoomTyped, TaskTyped, NoAgentTwice
<1>2. DOMAIN handoff' = Agents /\ \A b \in Agents : handoff'[b] \in Maybe(Agents \ {b})
  BY DEF RoomTyped, HandoffTaken, Maybe
<1>3. RoomTyped'
  BY <1>1, <1>2 DEF RoomTyped
<1>4. TaskTyped'
  BY <1>1 DEF TaskTyped
<1>5. NotesTyped'
  BY DEF NotesTyped, noteVars
<1>6. NoAgentTwice'
  BY <1>1 DEF NoAgentTwice
<1> QED
  BY <1>3, <1>4, <1>5, <1>6

\* The room's own routing adds one agent that is not in line, or nobody.
LEMMA RouteOrStopLine ==
  ASSUME LinesInv, NEW a \in Agents, NEW candidates, RouteOrStop(a, candidates)
  PROVE  /\ budget' \in Nat
         /\ \/ UNCHANGED <<queue, kept>>
            \/ \E l \in Seq(Agents) : IsInjective(l) /\ LineBecomes(l)
<1>1. CASE \E b \in candidates : MayFollow(b, a)
  <2>1. PICK b \in candidates : MayFollow(b, a) /\ RouteTo(b)
    BY <1>1 DEF RouteOrStop
  <2>2. b \in Agents /\ b \notin ToSet(Line)
    BY <2>1 DEF MayFollow, LinesInv, TypeOK, RoomTyped
  <2>3. Line \o <<b>> \in Seq(Agents) /\ IsInjective(Line \o <<b>>)
    BY <2>2, LineIsLine, FreshAgent
  <2>4. LineBecomes(Line \o <<b>>) /\ budget' = budget + 1
    BY <2>1 DEF RouteTo
  <2>5. budget' \in Nat
    BY <2>4 DEF LinesInv, TypeOK, RoomTyped
  <2>6. \E l \in Seq(Agents) : IsInjective(l) /\ LineBecomes(l)
    BY <2>3, <2>4
  <2> QED
    BY <2>5, <2>6
<1>2. CASE ~\E b \in candidates : MayFollow(b, a)
  BY <1>2 DEF RouteOrStop, LinesInv, TypeOK, RoomTyped
<1> QED
  BY <1>1, <1>2

LEMMA PostResultLines ==
  ASSUME LinesInv, NEW a \in Agents, PostResult(a) PROVE LinesInv'
<1>1. /\ idx \in Nat /\ idx + 1 \in Nat /\ asks \in Maybe(Agents)
      /\ proposed \subseteq Hop /\ budget \in Nat /\ active \subseteq Agents
  BY DEF LinesInv, TypeOK, RoomTyped, TaskTyped
<1>2. QuestionNoted(a) => asks' \in Maybe(Agents)
  BY <1>1 DEF QuestionNoted, Maybe
<1>3. CASE PostSkipped(a)
  BY <1>1, <1>3, PostLines DEF PostSkipped, Posting, ToNext
<1>4. CASE PostUnchained(a)
  BY <1>1, <1>2, <1>4, PostLines DEF PostUnchained, Posting, ToNext
<1>5. CASE PostAskedAgain(a)
  BY <1>1, <1>2, <1>5, PostLines DEF PostAskedAgain, Posting, ToNext
<1>6. CASE PostCoalesced(a)
  BY <1>1, <1>2, <1>6, PostLines DEF PostCoalesced, Posting, ToNext
<1>7. CASE PostHandedOff(a)
  <2>1. PICK b \in HandedTo(a) \ ToSet(Line) :
          IF budget < MaxHops
          THEN /\ LineBecomes(IF resume THEN <<b>> \o Line ELSE Line \o <<b>>)
               /\ budget' = budget + 1
          ELSE UNCHANGED <<queue, kept, budget>>
    BY <1>7 DEF PostHandedOff
  <2>2. b \in Agents /\ b \notin ToSet(Line)
    BY <1>1, <2>1 DEF HandedTo
  <2>3. /\ Line \o <<b>> \in Seq(Agents) /\ IsInjective(Line \o <<b>>)
        /\ <<b>> \o Line \in Seq(Agents) /\ IsInjective(<<b>> \o Line)
    BY <2>2, LineIsLine, FreshAgent
  <2>4. /\ budget' \in Nat
        /\ \/ UNCHANGED <<queue, kept>>
           \/ \E l \in Seq(Agents) : IsInjective(l) /\ LineBecomes(l)
    <3>1. CASE budget < MaxHops
      <4> DEFINE l == IF resume THEN <<b>> \o Line ELSE Line \o <<b>>
      <4>1. l \in Seq(Agents) /\ IsInjective(l)
        <5>1. CASE resume
          BY <2>3, <5>1
        <5>2. CASE ~resume
          BY <2>3, <5>2
        <5> QED
          BY <5>1, <5>2
      <4>2. LineBecomes(l) /\ budget' = budget + 1
        BY <2>1, <3>1
      <4> HIDE DEF l
      <4>3. \E m \in Seq(Agents) : IsInjective(m) /\ LineBecomes(m)
        BY <4>1, <4>2
      <4>4. budget' \in Nat
        BY <1>1, <4>2
      <4> QED
        BY <4>3, <4>4
    <3>2. CASE ~(budget < MaxHops)
      BY <1>1, <2>1, <3>2
    <3> QED
      BY <3>1, <3>2
  <2> QED
    BY <1>1, <1>2, <1>7, <2>4, PostLines DEF PostHandedOff, Posting, ToNext
<1>8. CASE PostProposed(a)
  <2>1. proposed' \subseteq Hop
    BY <1>1, <1>8 DEF PostProposed, HandedTo, Hop
  <2> QED
    BY <1>1, <1>2, <1>8, <2>1, PostLines DEF PostProposed, Posting, ToNext
<1>9. CASE PostEnding(a)
  <2>1. CASE budget < MaxHops /\ PlanOwner # None
    BY <1>1, <1>2, <1>9, <2>1, PostLines DEF PostEnding, Posting
  <2>2. CASE ~(budget < MaxHops /\ PlanOwner # None)
    <3>1. CASE budget < MaxHops
      BY <1>1, <1>2, <1>9, <2>2, <3>1, RouteOrStopLine, PostLines DEF PostEnding, Posting, ToNext
    <3>2. CASE ~(budget < MaxHops)
      BY <1>1, <1>2, <1>9, <2>2, <3>2, PostLines DEF PostEnding, Posting, ToNext
    <3> QED
      BY <3>1, <3>2
  <2> QED
    BY <2>1, <2>2
<1>10. CASE LookedUp(a)
  <2>1. /\ budget' \in Nat
        /\ \/ UNCHANGED <<queue, kept>>
           \/ \E l \in Seq(Agents) : IsInjective(l) /\ LineBecomes(l)
    <3>1. CASE RouteOrStop(a, IF MayFollow(PlanOwner, a) THEN {PlanOwner} ELSE {Fallback})
      BY <3>1, RouteOrStopLine
    <3>2. CASE budget' \in {budget, budget + 1} /\ UNCHANGED <<queue, kept>>
      BY <1>1, <3>2
    <3> QED
      BY <1>10, <3>1, <3>2 DEF LookedUp
  <2> QED
    BY <1>1, <1>10, <2>1, PostLines DEF LookedUp
<1> QED
  BY <1>3, <1>4, <1>5, <1>6, <1>7, <1>8, <1>9, <1>10 DEF PostResult

(* ---- what a wave leads to ----------------------------------------------------- *)

LEMMA TailAskLines == ASSUME LinesInv, TailAsk PROVE LinesInv'
<1> USE DEF LinesInv, TypeOK, TailAsk, Posted, TailFrame
<1>1. RoomTyped'
  <2>1. pq' \in Question
    BY LineIsLine DEF TaskTyped, Maybe, Question
  <2> QED
    BY <2>1 DEF RoomTyped, Maybe
<1>2. NotesTyped'
  BY DEF NotesTyped
<1>3. NoAgentTwice'
  <2>1. pq'.held = Line
    OBVIOUS
  <2> QED
    BY <2>1, LineIsLine, ForgetLines, EmptyLine DEF NoAgentTwice
<1> QED
  BY <1>1, <1>2, <1>3, ForgetLines

LEMMA TailOnLines == ASSUME LinesInv, TailOn PROVE LinesInv'
<1> USE DEF LinesInv, TypeOK, TailOn, Posted, TailFrame
<1>1. RoomTyped'
  BY LineIsLine DEF RoomTyped
<1>2. NotesTyped'
  BY DEF NotesTyped
<1>3. NoAgentTwice'
  BY LineIsLine, ForgetLines DEF NoAgentTwice
<1> QED
  BY <1>1, <1>2, <1>3, ForgetLines

\* Opening a card holds the line.
LEMMA OpensCardLines ==
  ASSUME LinesInv, TailFrame, NEW hops \in SUBSET Hop,
         NEW line \in Seq(Agents), IsInjective(line),
         NEW judge \in {"human", "supervisor"}, OpensCard(hops, line, judge),
         budget' \in Nat, pq' = pq, deciding' \subseteq Nat
  PROVE  LinesInv'
<1> USE DEF LinesInv, TypeOK, TailFrame, OpensCard
<1>1. RoomTyped'
  <2>1. pr' \in Card
    BY DEF Card, NotesTyped
  <2> QED
    BY <2>1 DEF RoomTyped, Maybe
<1>2. NotesTyped'
  BY DEF NotesTyped
<1>3. NoAgentTwice'
  <2>1. pr'.held = line
    OBVIOUS
  <2> QED
    BY <2>1, ForgetLines, EmptyLine DEF NoAgentTwice
<1> QED
  BY <1>1, <1>2, <1>3, ForgetLines

LEMMA TailCardLines == ASSUME LinesInv, TailCard PROVE LinesInv'
<1>1. proposed \subseteq Hop /\ budget' \in Nat /\ pq' = pq /\ deciding' \subseteq Nat
  BY DEF LinesInv, TypeOK, RoomTyped, TaskTyped, NotesTyped, TailCard
<1> QED
  BY <1>1, LineIsLine, OpensCardLines DEF TailCard

LEMMA TailSuperviseLines == ASSUME LinesInv, TailSupervise PROVE LinesInv'
<1>1. /\ proposed \subseteq Hop /\ budget \in Nat /\ active \subseteq Agents
      /\ deciding \subseteq Nat /\ cards \in Nat
  BY DEF LinesInv, TypeOK, RoomTyped, TaskTyped, NotesTyped
<1>2. Escapes \in SUBSET Agents
  BY <1>1 DEF Escapes
<1>3. Targets(HatSwitches) \in SUBSET Agents /\ Targets(Between) \in SUBSET Agents
      /\ Between \in SUBSET Hop
  BY <1>1 DEF Targets, HatSwitches, Between, Unrefused, Hop
<1>4. PICK first \in Enqueued(Escapes, Line, budget) :
      \E second \in Enqueued(Targets(HatSwitches), first[1], first[2]) :
       IF Reviewed
       THEN /\ budget' = second[2]
            /\ OpensCard(Between, second[1], "supervisor")
            /\ deciding' = deciding \cup {cards + 1}
       ELSE \E third \in Enqueued(Targets(Between), second[1], second[2]) :
            /\ queue' = third[1] /\ budget' = third[2]
            /\ pc' = "drain"
            /\ ForgetTask
            /\ UNCHANGED <<pr, cards, deciding>>
  BY DEF TailSupervise
<1>5. first[1] \in Seq(Agents) /\ IsInjective(first[1]) /\ first[2] \in Nat
  BY <1>1, <1>2, LineIsLine, EnqueuedLine
<1>6. PICK second \in Enqueued(Targets(HatSwitches), first[1], first[2]) :
       IF Reviewed
       THEN /\ budget' = second[2]
            /\ OpensCard(Between, second[1], "supervisor")
            /\ deciding' = deciding \cup {cards + 1}
       ELSE \E third \in Enqueued(Targets(Between), second[1], second[2]) :
            /\ queue' = third[1] /\ budget' = third[2]
            /\ pc' = "drain"
            /\ ForgetTask
            /\ UNCHANGED <<pr, cards, deciding>>
  BY <1>4
<1>7. second[1] \in Seq(Agents) /\ IsInjective(second[1]) /\ second[2] \in Nat
  BY <1>3, <1>5, EnqueuedLine
<1>8. TailFrame /\ pq' = pq
  BY DEF TailSupervise
<1>9. CASE Reviewed
  <2>1. budget' = second[2] /\ deciding' = deciding \cup {cards + 1}
    BY <1>6, <1>9
  <2>2. cards + 1 \in Nat
    BY <1>1
  <2>3. budget' \in Nat /\ deciding' \subseteq Nat
    BY <1>1, <1>7, <2>1, <2>2
  <2> QED
    BY <1>3, <1>6, <1>7, <1>8, <1>9, <2>3, OpensCardLines
<1>10. CASE ~Reviewed
  <2>1. PICK third \in Enqueued(Targets(Between), second[1], second[2]) :
            /\ queue' = third[1] /\ budget' = third[2]
            /\ pc' = "drain"
            /\ ForgetTask
            /\ UNCHANGED <<pr, cards, deciding>>
    BY <1>6, <1>10
  <2>2. third[1] \in Seq(Agents) /\ IsInjective(third[1]) /\ third[2] \in Nat
    BY <1>3, <1>7, EnqueuedLine
  <2>3. RoomTyped'
    BY <1>8, <2>1, <2>2 DEF LinesInv, TypeOK, RoomTyped, TailFrame
  <2>4. NotesTyped'
    BY <1>8, <2>1 DEF LinesInv, TypeOK, NotesTyped, TailFrame
  <2>5. NoAgentTwice'
    BY <1>8, <2>1, <2>2, ForgetLines DEF LinesInv, NoAgentTwice
  <2> QED
    BY <2>1, <2>3, <2>4, <2>5, ForgetLines DEF LinesInv, TypeOK
<1> QED
  BY <1>9, <1>10

(* ---- the invariant --------------------------------------------------------------- *)

LEMMA StepLines == LinesInv /\ [Next]_vars => LinesInv'
<1> SUFFICES ASSUME LinesInv, [Next]_vars PROVE LinesInv'
  OBVIOUS
<1>1. CASE Room
  BY <1>1, TakeLines, StartWaveLines, EndDrainLines, CollectLines, CloseLines,
     AgentRunsLines, PostResultLines, TailAskLines, TailOnLines, TailCardLines,
     TailSuperviseLines
     DEF Room, WaveTail
<1>2. CASE Outside
  BY <1>2, SubmitLines, ClickLines, StopLines, SetActiveLines, SetModeLines DEF Outside
<1>3. ASSUME NEW c \in deciding, SupervisorDone(c) PROVE LinesInv'
  BY <1>3, SupervisorDoneLines
<1>4. CASE UNCHANGED vars
  <2>1. UNCHANGED taskVars
    BY <1>4 DEF vars
  <2>2. RoomTyped'
    BY <1>4 DEF vars, roomVars, LinesInv, TypeOK, RoomTyped
  <2>3. NotesTyped'
    BY <1>4 DEF vars, noteVars, LinesInv, TypeOK, NotesTyped
  <2>4. NoAgentTwice'
    BY <1>4 DEF vars, roomVars, taskVars, LinesInv, NoAgentTwice
  <2> QED
    BY <2>1, <2>2, <2>3, <2>4, TaskLeft DEF LinesInv, TypeOK
<1> QED
  BY <1>1, <1>2, <1>3, <1>4 DEF Next

LEMMA LinesInvariant == Spec => []LinesInv
<1>1. Init => LinesInv
  BY InitLines
<1>2. LinesInv /\ [Next]_vars => LinesInv'
  BY StepLines
<1> QED
  BY <1>1, <1>2, PTL DEF Spec

\* The room's fields have their types, for any roster and any bounds.
THEOREM RoomTypeOK == Spec => []TypeOK
<1>1. LinesInv => TypeOK
  BY DEF LinesInv
<1> QED
  BY <1>1, LinesInvariant, PTL

\* No line of agents, live or held, ever names an agent twice.
THEOREM RoomNoAgentTwice == Spec => []NoAgentTwice
<1>1. LinesInv => NoAgentTwice
  BY DEF LinesInv
<1> QED
  BY <1>1, LinesInvariant, PTL

(* ---- Stop -------------------------------------------------------------------------- *)

\* While a task that Stop has hit is at work, the room's flag is up: the flag
\* comes down only when the next task starts, and then nothing is stopped.
StopInv == (pc = "idle" => ~stopped) /\ (stopped => aborted)

LEMMA InitStop == Init => StopInv
BY DEF Init, StopInv

\* The steps that leave the flags alone and do not end a task.
LEMMA StopKept ==
  ASSUME StopInv, UNCHANGED <<aborted, stopped>>, pc' # "idle" \/ pc' = pc
  PROVE  StopInv'
BY DEF StopInv

LEMMA OutsideStop ==
  ASSUME StopInv, Outside \/ \E c \in deciding : SupervisorDone(c) PROVE StopInv'
<1>1. CASE Stop
  <2>1. aborted'
    BY <1>1 DEF Stop
  <2>2. pc' = "idle" => ~stopped'
    BY <1>1 DEF Stop
  <2> QED
    BY <2>1, <2>2 DEF StopInv
<1>2. CASE ~Stop
  BY <1>2, StopKept
     DEF Outside, Submit, Click, SetActive, SetMode, SupervisorDone
<1> QED
  BY <1>1, <1>2

LEMMA TakeStop == ASSUME StopInv, Take PROVE StopInv'
<1>1. pc = "idle" /\ stopped' = stopped
  BY DEF Take, TakeUnroutable, TakeMessage, TakeAnswer, TakeCancel, TakesMessage,
         TakeReport, TakeDecision, TakeOutcome, Takes
<1>2. ~stopped'
  BY <1>1 DEF StopInv
<1> QED
  BY <1>2 DEF StopInv

LEMMA WaveStop ==
  ASSUME StopInv, \/ StartWave \/ EndDrain \/ Collect
                  \/ \E a \in Agents : AgentRuns(a)
  PROVE  StopInv'
<1>1. CASE StartWave
  BY <1>1, StopKept DEF StartWave, noteVars
<1>2. CASE EndDrain
  BY <1>2, StopKept DEF EndDrain, noteVars
<1>3. CASE Collect
  BY <1>3, StopKept DEF Collect, noteVars
<1>4. ASSUME NEW a \in Agents, AgentRuns(a) PROVE StopInv'
  <2>1. UNCHANGED <<pc, aborted, stopped>>
    BY <1>4 DEF AgentRuns, Snapshot, Begin, Speak, Throw, Finish, AgentStep
  <2> QED
    BY <2>1, StopKept
<1> QED
  BY <1>1, <1>2, <1>3, <1>4

LEMMA PostStop ==
  ASSUME StopInv, (\E a \in Agents : PostResult(a)) \/ WaveTail PROVE StopInv'
<1>1. ASSUME NEW a \in Agents, PostResult(a) PROVE StopInv'
  <2>1. PostFrame
    BY <1>1 DEF PostResult, PostSkipped, PostUnchained, PostAskedAgain, PostCoalesced,
                PostHandedOff, PostProposed, PostEnding, LookedUp, Posting
  <2>2. pc' # "idle"
    BY <1>1 DEF PostResult, PostSkipped, PostUnchained, PostAskedAgain, PostCoalesced,
                PostHandedOff, PostProposed, PostEnding, LookedUp, Posting, ToNext
  <2> QED
    BY <2>1, <2>2, StopKept DEF PostFrame, noteVars
<1>2. CASE WaveTail
  <2>1. TailFrame
    BY <1>2 DEF WaveTail, TailAsk, TailOn, TailCard, TailSupervise
  <2>2. pc' # "idle"
    BY <1>2 DEF WaveTail, TailAsk, TailOn, TailCard, TailSupervise, OpensCard
  <2> QED
    BY <2>1, <2>2, StopKept DEF TailFrame
<1> QED
  BY <1>1, <1>2

LEMMA StepStop == StopInv /\ [Next]_vars => StopInv'
<1> SUFFICES ASSUME StopInv, [Next]_vars PROVE StopInv'
  OBVIOUS
<1>1. CASE Room
  <2>1. CASE Close
    BY <2>1 DEF Close, StopInv
  <2> QED
    BY <1>1, <2>1, TakeStop, WaveStop, PostStop DEF Room
<1>2. CASE Outside \/ \E c \in deciding : SupervisorDone(c)
  BY <1>2, OutsideStop
<1>3. CASE UNCHANGED vars
  BY <1>3, StopKept DEF vars, roomVars, noteVars
<1> QED
  BY <1>1, <1>2, <1>3 DEF Next

\* Only Begin sets an agent to work, and it looks at the flag.
LEMMA BeginsUnstopped ==
  ASSUME LinesInv, StopInv, [Next]_vars,
         NEW a \in Agents, stage[a] # "gen", stage'[a] = "gen"
  PROVE  ~stopped
<1>1. stage \in [Agents -> {"off", "snap", "lock", "gen", "after", "done"}]
  BY DEF LinesInv, TypeOK, TaskTyped
<1>2. PICK b \in Agents : AgentRuns(b)
  <2>1. stage' # stage
    OBVIOUS
  <2>2. ~UNCHANGED vars /\ ~UNCHANGED taskVars
    BY <2>1 DEF vars, taskVars
  <2>3. ~ForgetTask
    BY DEF ForgetTask
  <2>4. ~Outside /\ ~\E c \in deciding : SupervisorDone(c)
    BY <2>2 DEF Outside, Submit, Click, Stop, SetActive, SetMode, SupervisorDone
  <2>5. ~StartWave
    BY DEF StartWave
  <2>6. ~EndDrain /\ ~Collect /\ ~Close
    BY <2>1, <2>2, <2>3 DEF EndDrain, Collect, Close
  <2>7. ~\E b \in Agents : PostResult(b)
    BY <2>1 DEF PostResult, PostSkipped, PostUnchained, PostAskedAgain, PostCoalesced,
                PostHandedOff, PostProposed, PostEnding, LookedUp, Posting, PostFrame
  <2>8. ~WaveTail
    BY <2>3 DEF WaveTail, TailAsk, TailOn, TailCard, TailSupervise, OpensCard
  <2>9. ~Take
    <3>1. ~TakeAnswer
      BY DEF TakeAnswer
    <3>2. ASSUME Take, ~TakeAnswer PROVE UNCHANGED taskVars
      BY <3>2 DEF Take, TakeUnroutable, TakeMessage, TakeCancel, TakeReport, TakeDecision,
             TakeOutcome, Decide, Refuse, Dispatch, NothingToDo
    <3> QED
      BY <2>2, <3>1, <3>2
  <2> QED
    BY <2>2, <2>4, <2>5, <2>6, <2>7, <2>8, <2>9 DEF Next, Room
<1>3. CASE Begin(b)
  BY <1>1, <1>3 DEF Begin, StopInv
<1>4. CASE ~Begin(b)
  BY <1>1, <1>2, <1>4 DEF AgentRuns, Snapshot, Speak, Throw, Finish
<1> QED
  BY <1>3, <1>4

\* After Stop no agent of the task at work starts its turn.
THEOREM RoomStopSticks == Spec => StopSticks
<1>1. Spec => []StopInv
  BY InitStop, StepStop, PTL DEF Spec
<1>2. LinesInv /\ StopInv /\ [Next]_vars =>
        [\A a \in Agents : stage[a] # "gen" /\ stage'[a] = "gen" => ~stopped]_vars
  BY BeginsUnstopped
<1> QED
  BY <1>1, <1>2, LinesInvariant, PTL DEF Spec, StopSticks

(* ---- the supervisor's cards ---------------------------------------------------------- *)

\* What a step does to the card, as far as its judge is concerned.
CardStays == pr' = pr /\ deciding' = deciding /\ chain' = chain
CardGoes == pr' = None \/ pr'.judge = "human"

\* A task that is taken is not the outcome the card waits for.
OtherTaken ==
  /\ chain # <<>> /\ chain' = Tail(chain)
  /\ pr' = pr /\ deciding' = deciding
  /\ pr # None /\ Head(chain).kind = "outcome" => pr.card # Head(chain).card

LEMMA JudgeStays == ASSUME JudgeAtWork, CardStays PROVE JudgeAtWork'
BY DEF JudgeAtWork, CardStays

LEMMA JudgeGoes == ASSUME CardGoes PROVE JudgeAtWork'
BY DEF JudgeAtWork, CardGoes

\* A task that joins the chain takes none away.
LEMMA JudgeQueued ==
  ASSUME LinesInv, JudgeAtWork, pr' = pr, deciding' = deciding,
         NEW t \in Task, chain' = Append(chain, t)
  PROVE  JudgeAtWork'
<1>1. chain \in Seq(Task)
  BY DEF LinesInv, TypeOK, RoomTyped
<1>2. Range(chain) \subseteq Range(chain')
  <2>1. \A i \in DOMAIN chain : i \in DOMAIN chain' /\ chain'[i] = chain[i]
    BY <1>1
  <2> QED
    BY <2>1 DEF Range
<1> QED
  BY <1>2 DEF JudgeAtWork

\* The session ends: its outcome joins the chain.
LEMMA JudgeDone ==
  ASSUME LinesInv, JudgeAtWork, NEW c \in deciding, SupervisorDone(c) PROVE JudgeAtWork'
<1> DEFINE t == [kind |-> "outcome", card |-> c]
<1>1. chain \in Seq(Task) /\ t \in Task
  BY DEF LinesInv, TypeOK, RoomTyped, NotesTyped, Task
<1>2. chain' = Append(chain, t) /\ pr' = pr /\ deciding' = deciding \ {c}
  BY DEF SupervisorDone
<1>3. Range(chain) \subseteq Range(chain') /\ t \in Range(chain')
  <2>1. \A i \in DOMAIN chain : i \in DOMAIN chain' /\ chain'[i] = chain[i]
    BY <1>1, <1>2
  <2>2. Len(chain) + 1 \in DOMAIN chain' /\ chain'[Len(chain) + 1] = t
    BY <1>1, <1>2
  <2> QED
    BY <2>1, <2>2 DEF Range
<1> QED
  BY <1>2, <1>3 DEF JudgeAtWork

\* Another task is taken off the chain: the outcome is still on it.
LEMMA JudgeTaken ==
  ASSUME LinesInv, JudgeAtWork, OtherTaken PROVE JudgeAtWork'
<1>1. chain \in Seq(Task) /\ chain # <<>> /\ chain' = Tail(chain)
  BY DEF LinesInv, TypeOK, RoomTyped, OtherTaken
<1>2. ASSUME NEW t \in Range(chain), t # Head(chain) PROVE t \in Range(chain')
  <2>1. PICK i \in DOMAIN chain : chain[i] = t
    BY DEF Range
  <2>2. i # 1
    BY <1>1, <1>2, <2>1
  <2>3. i - 1 \in DOMAIN chain' /\ chain'[i - 1] = t
    BY <1>1, <2>1, <2>2
  <2> QED
    BY <2>3 DEF Range
<1>3. ASSUME pr # None, NEW t \in Range(chain), t.kind = "outcome", t.card = pr.card
      PROVE  t # Head(chain)
  BY <1>3 DEF OtherTaken
<1> QED
  BY <1>2, <1>3 DEF JudgeAtWork, OtherTaken

LEMMA JudgeTake == ASSUME LinesInv, JudgeAtWork, Take PROVE JudgeAtWork'
<1>1. CASE TakeUnroutable \/ TakeMessage \/ TakeAnswer \/ TakeCancel
  <2>1. OtherTaken
    BY <1>1 DEF TakeUnroutable, TakeMessage, TakeAnswer, TakeCancel, TakesMessage, Takes,
                OtherTaken
  <2> QED
    BY <2>1, JudgeTaken
<1>2. ASSUME NEW a \in Agents, TakeReport(a) PROVE JudgeAtWork'
  <2>1. OtherTaken
    BY <1>2 DEF TakeReport, Takes, OtherTaken
  <2> QED
    BY <2>1, JudgeTaken
<1>3. CASE TakeDecision
  BY <1>3, JudgeGoes DEF TakeDecision, Decide, CardGoes, JudgeAtWork
<1>4. CASE TakeOutcome
  <2>1. CASE pr = None \/ pr.card # Head(chain).card
    <3>1. OtherTaken
      BY <1>4, <2>1 DEF TakeOutcome, Takes, OtherTaken
    <3> QED
      BY <3>1, JudgeTaken
  <2>2. CASE ~(pr = None \/ pr.card # Head(chain).card)
    BY <1>4, <2>2, JudgeGoes DEF TakeOutcome, Decide, Refuse, CardGoes
  <2> QED
    BY <2>1, <2>2
<1> QED
  BY <1>1, <1>2, <1>3, <1>4 DEF Take

\* Every other step of the room leaves the card, its judge and the chain
\* alone, but for a card that is opened.
LEMMA QuietSteps ==
  ASSUME Room, ~Take, ~TailCard, ~TailSupervise PROVE CardStays /\ refused' \in {refused, {}}
<1>1. CASE StartWave \/ EndDrain \/ Collect \/ Close
  BY <1>1 DEF StartWave, EndDrain, Collect, Close, CardStays, noteVars
<1>2. ASSUME NEW a \in Agents, AgentRuns(a) PROVE CardStays /\ refused' \in {refused, {}}
  BY <1>2 DEF AgentRuns, Snapshot, Begin, Speak, Throw, Finish, AgentStep, CardStays
<1>3. ASSUME NEW a \in Agents, PostResult(a) PROVE CardStays /\ refused' \in {refused, {}}
  <2>1. PostFrame
    BY <1>3 DEF PostResult, PostSkipped, PostUnchained, PostAskedAgain, PostCoalesced,
                PostHandedOff, PostProposed, PostEnding, LookedUp, Posting
  <2> QED
    BY <2>1 DEF PostFrame, CardStays, noteVars
<1>4. CASE TailAsk \/ TailOn
  BY <1>4 DEF TailAsk, TailOn, TailFrame, CardStays
<1> QED
  BY <1>1, <1>2, <1>3, <1>4 DEF Room, WaveTail

LEMMA JudgeOpens ==
  ASSUME TailSupervise, JudgeAtWork PROVE JudgeAtWork'
<1>1. CASE Reviewed
  <2>1. pr'.card = cards + 1 /\ deciding' = deciding \cup {cards + 1}
    BY <1>1 DEF TailSupervise, OpensCard
  <2> QED
    BY <2>1 DEF JudgeAtWork
<1>2. CASE ~Reviewed
  BY <1>2, JudgeStays DEF TailSupervise, TailFrame, CardStays
<1> QED
  BY <1>1, <1>2

LEMMA StepJudge == LinesInv /\ JudgeAtWork /\ [Next]_vars => JudgeAtWork'
<1> SUFFICES ASSUME LinesInv, JudgeAtWork, [Next]_vars PROVE JudgeAtWork'
  OBVIOUS
<1>1. CASE Room
  <2>1. CASE TailCard
    BY <2>1, JudgeGoes DEF TailCard, OpensCard, CardGoes
  <2> QED
    BY <1>1, <2>1, JudgeTake, JudgeOpens, JudgeStays, QuietSteps
<1>2. CASE Outside
  <2>1. ASSUME NEW kind \in {"message", "report"}, Submit(kind) PROVE JudgeAtWork'
    <3>1. [kind |-> kind, card |-> 0] \in Task
      BY DEF Task
    <3> QED
      BY <2>1, <3>1, JudgeQueued DEF Submit
  <2>2. CASE Click
    <3>1. [kind |-> "decision", card |-> 0] \in Task
      BY DEF Task
    <3> QED
      BY <2>2, <3>1, JudgeQueued DEF Click
  <2>3. CASE Stop
    BY <2>3, JudgeGoes DEF Stop, CardGoes
  <2>4. ASSUME NEW a \in Agents, SetActive(a) PROVE JudgeAtWork'
    BY <2>4, JudgeStays DEF SetActive, CardStays
  <2>5. ASSUME NEW m \in Modes, SetMode(m) PROVE JudgeAtWork'
    BY <2>5, JudgeStays DEF SetMode, CardStays
  <2> QED
    BY <1>2, <2>1, <2>2, <2>3, <2>4, <2>5 DEF Outside
<1>3. ASSUME NEW c \in deciding, SupervisorDone(c) PROVE JudgeAtWork'
  BY <1>3, JudgeDone
<1>4. CASE UNCHANGED vars
  BY <1>4, JudgeStays DEF vars, roomVars, noteVars, CardStays
<1> QED
  BY <1>1, <1>2, <1>3, <1>4 DEF Next

\* A card that waits for the supervisor never loses its session or outcome.
THEOREM RoomJudgeAtWork == Spec => []JudgeAtWork
<1>1. Init => JudgeAtWork
  BY DEF Init, JudgeAtWork
<1>2. LinesInv /\ JudgeAtWork /\ [Next]_vars => JudgeAtWork'
  BY StepJudge
<1> QED
  BY <1>1, <1>2, LinesInvariant, PTL DEF Spec

(* ---- refusals ------------------------------------------------------------------------- *)

LEMMA StepRefused == RefusedRests /\ [Next]_vars => RefusedRests'
<1> SUFFICES ASSUME RefusedRests, [Next]_vars PROVE RefusedRests'
  OBVIOUS
<1>1. ASSUME pr' = pr \/ pr' = None, refused' \in {refused, {}} PROVE RefusedRests'
  BY <1>1 DEF RefusedRests
<1>2. ASSUME pr' = None PROVE RefusedRests'
  BY <1>2 DEF RefusedRests
<1>3. CASE Take
  <2>1. CASE TakeUnroutable \/ TakeMessage \/ TakeAnswer \/ TakeCancel
    BY <1>1, <2>1 DEF TakeUnroutable, TakeMessage, TakeAnswer, TakeCancel, TakesMessage
  <2>2. ASSUME NEW a \in Agents, TakeReport(a) PROVE RefusedRests'
    BY <1>1, <2>2 DEF TakeReport
  <2>3. CASE TakeDecision
    BY <1>1, <2>3 DEF TakeDecision, Decide
  <2>4. CASE TakeOutcome
    <3>1. (UNCHANGED <<pr, refused>>) \/ pr' = None
      BY <2>4 DEF TakeOutcome, Decide, Refuse
    <3> QED
      BY <1>1, <1>2, <3>1
  <2> QED
    BY <1>3, <2>1, <2>2, <2>3, <2>4 DEF Take
<1>4. CASE TailCard
  <2>1. pr'.judge = "human"
    BY <1>4 DEF TailCard, OpensCard
  <2> QED
    BY <2>1 DEF RefusedRests
<1>5. CASE TailSupervise
  <2>1. refused' = refused
    BY <1>5 DEF TailSupervise, TailFrame
  <2>2. CASE Reviewed
    <3>1. pr'.hops = Between
      BY <1>5, <2>2 DEF TailSupervise, OpensCard
    <3> QED
      BY <2>1, <3>1 DEF RefusedRests, Between, Unrefused
  <2>3. CASE ~Reviewed
    <3>1. pr' = pr
      BY <1>5, <2>3 DEF TailSupervise
    <3> QED
      BY <1>1, <2>1, <3>1
  <2> QED
    BY <2>2, <2>3
<1>6. CASE Room
  BY <1>1, <1>3, <1>4, <1>5, <1>6, QuietSteps DEF CardStays
<1>7. CASE Outside \/ \E c \in deciding : SupervisorDone(c)
  BY <1>1, <1>7 DEF Outside, Submit, Click, Stop, SetActive, SetMode, SupervisorDone
<1>8. CASE UNCHANGED vars
  BY <1>1, <1>8 DEF vars, roomVars
<1> QED
  BY <1>6, <1>7, <1>8 DEF Next

\* A hop the supervisor refused is not put to it again in the same user turn.
THEOREM RoomRefusedRests == Spec => []RefusedRests
<1>1. Init => RefusedRests
  BY DEF Init, RefusedRests
<1> QED
  BY <1>1, StepRefused, PTL DEF Spec

(* ---- verdicts ---------------------------------------------------------------------------- *)

\* Only a task that starts shortens the chain.
LEMMA OnlyTakesShorten ==
  ASSUME LinesInv, [Next]_vars, chain # <<>>, chain' = Tail(chain) PROVE Take
<1>1. chain \in Seq(Task)
  BY DEF LinesInv, TypeOK, RoomTyped
<1>2. chain' # chain /\ \A t \in Task : chain' # Append(chain, t)
  <2>1. Len(chain') = Len(chain) - 1 /\ Len(chain) \in Nat
    BY <1>1
  <2>2. ASSUME chain' = chain PROVE FALSE
    <3>1. Len(chain') = Len(chain)
      BY <2>2
    <3> QED
      BY <2>1, <3>1
  <2>3. ASSUME NEW t \in Task PROVE chain' # Append(chain, t)
    <3>1. Len(Append(chain, t)) = Len(chain) + 1
      BY <1>1
    <3>2. ASSUME chain' = Append(chain, t) PROVE FALSE
      <4>1. Len(chain') = Len(Append(chain, t))
        BY <3>2
      <4> QED
        BY <2>1, <3>1, <4>1
    <3> QED
      BY <3>2
  <2> QED
    BY <2>2, <2>3
<1>3. CASE Room /\ ~Take
  <2>1. CASE TailCard \/ TailSupervise
    BY <1>2, <2>1 DEF TailCard, TailSupervise, TailFrame
  <2> QED
    BY <1>2, <1>3, <2>1, QuietSteps DEF CardStays
<1>4. CASE Outside
  <2>1. ASSUME NEW kind \in {"message", "report"}, Submit(kind) PROVE FALSE
    <3>1. [kind |-> kind, card |-> 0] \in Task
      BY DEF Task
    <3> QED
      BY <1>2, <2>1, <3>1 DEF Submit
  <2>2. ~Click
    <3>1. [kind |-> "decision", card |-> 0] \in Task
      BY DEF Task
    <3> QED
      BY <1>2, <3>1 DEF Click
  <2> QED
    BY <1>2, <1>4, <2>1, <2>2 DEF Outside, Stop, SetActive, SetMode
<1>5. ASSUME NEW c \in deciding, SupervisorDone(c) PROVE FALSE
  <2>1. [kind |-> "outcome", card |-> c] \in Task
    BY DEF Task, LinesInv, TypeOK, NotesTyped
  <2> QED
    BY <1>2, <1>5, <2>1 DEF SupervisorDone
<1>6. CASE UNCHANGED vars
  BY <1>2, <1>6 DEF vars, roomVars
<1> QED
  BY <1>3, <1>4, <1>5, <1>6 DEF Next

LEMMA VerdictFits ==
  ASSUME LinesInv, [Next]_vars, NEW c \in 1..cards,
         chain # <<>>, Head(chain) = [kind |-> "outcome", card |-> c],
         chain' = Tail(chain), pr' # pr
  PROVE  pr.card = c
<1>1. Take /\ Head(chain).kind = "outcome" /\ Head(chain).card = c
  BY OnlyTakesShorten
<1>2. TakeOutcome
  BY <1>1 DEF Take, TakeUnroutable, TakeMessage, TakeAnswer, TakeCancel, TakesMessage,
              TakeReport, TakeDecision, Takes
<1> QED
  BY <1>1, <1>2 DEF TakeOutcome

\* A verdict settles the card it was asked about, and no other.
THEOREM RoomVerdictFitsCard == Spec => VerdictFitsCard
<1>1. LinesInv /\ [Next]_vars =>
        [\A c \in 1..cards :
           chain # <<>> /\ Head(chain) = [kind |-> "outcome", card |-> c]
             /\ chain' = Tail(chain) /\ pr' # pr => pr.card = c]_vars
  BY VerdictFits
<1> QED
  BY <1>1, LinesInvariant, PTL DEF Spec, VerdictFitsCard

(* ---- the chain budget ------------------------------------------------------------- *)

\* The members of the wave that have not begun their turn.
Waiting == {a \in Agents : stage[a] \in {"snap", "lock"}}

\* While the room reviews no handoff there is no card and no proposal, and what
\* a user turn may still start covers every agent in line, in the wave or held
\* by the question that is being answered, and every hop left in the budget.
\* A turn that is over leaves no line behind.
ChainInv ==
  /\ left >= 0
  /\ pr = None /\ proposed = {}
  /\ pc = "lookup" => budget < MaxHops
  /\ Waiting \subseteq Range(wave)
  /\ pc # "wave" => Waiting = {}
  /\ pc \in {"idle", "close"} => queue = <<>> /\ kept = <<>>
  /\ pc \notin {"idle", "close"} =>
       /\ budget <= MaxHops
       /\ Cardinality(Waiting) + Len(queue) + Len(kept) + (MaxHops - budget) <= left

\* Types of what is counted.
LEMMA Counted ==
  ASSUME LinesInv
  PROVE  /\ IsFiniteSet(Waiting) /\ Cardinality(Waiting) \in Nat
         /\ Len(queue) \in Nat /\ Len(kept) \in Nat /\ Len(wave) \in Nat
         /\ budget \in Nat /\ left \in Int /\ MaxHops \in Nat /\ MaxHops >= 1
<1>1. IsFiniteSet(Waiting)
  BY AgentsAssumption, FS_Subset DEF Waiting
<1>2. Cardinality(Waiting) \in Nat
  BY <1>1, FS_CardinalityType
<1> QED
  BY <1>1, <1>2, HopsAssumption DEF LinesInv, TypeOK, RoomTyped, TaskTyped, NotesTyped

LEMMA NobodyWaits == Cardinality({}) = 0
BY FS_EmptySet

LEMMA InitChain == Init => ChainInv
<1> SUFFICES ASSUME Init PROVE ChainInv
  OBVIOUS
<1>1. Waiting = {}
  BY DEF Init, Waiting
<1> QED
  BY <1>1 DEF Init, ChainInv

\* Whatever leaves the task, its lines and its counts alone.
LEMMA ChainUntouched ==
  ASSUME ChainInv, UNCHANGED <<left, pr, proposed, pc, budget, stage, wave, queue, kept>>
  PROVE  ChainInv'
BY DEF ChainInv, Waiting

LEMMA OutsideChain == ASSUME LinesInv, ChainInv, Outside PROVE ChainInv'
<1>1. ASSUME NEW kind, Submit(kind) PROVE ChainInv'
  BY <1>1, ChainUntouched DEF Submit, taskVars
<1>2. CASE Click
  BY <1>2, ChainUntouched DEF Click, taskVars
<1>3. CASE Stop
  <2>1. /\ UNCHANGED <<left, proposed, pc, budget, stage, wave, kept>>
        /\ queue' = <<>> /\ pr' = None
    BY <1>3 DEF Stop, taskVars
  <2>2. Len(queue') = 0
    BY <2>1
  <2>3. Waiting' = Waiting
    BY <2>1 DEF Waiting
  <2> QED
    BY <2>1, <2>2, <2>3, Counted DEF ChainInv
<1>4. ASSUME NEW a, SetActive(a) PROVE ChainInv'
  BY <1>4, ChainUntouched DEF SetActive, taskVars
<1>5. ASSUME NEW m, SetMode(m) PROVE ChainInv'
  BY <1>5, ChainUntouched DEF SetMode, taskVars
<1> QED
  BY <1>1, <1>2, <1>3, <1>4, <1>5 DEF Outside

\* A task that starts on a line is given the turns it needs, and the hops.
LEMMA DispatchChain ==
  ASSUME LinesInv, ChainInv, pc = "idle", NEW line \in Seq(Agents), Dispatch(line),
         NewTurn(Len(line)), budget' = 0, pr' = pr
  PROVE  ChainInv'
<1>1. Waiting' = {} /\ kept' = <<>> /\ proposed' = {} /\ wave' = wave
  BY DEF Dispatch, taskVars, Waiting, ChainInv
<1>2. /\ queue' = line /\ pc' = "drain" /\ left' = Len(line) + MaxHops /\ pr' = None
      /\ Len(line) \in Nat
  BY DEF Dispatch, NewTurn, ChainInv
<1>3. Cardinality(Waiting') = 0 /\ Len(kept') = 0
  BY <1>1, NobodyWaits
<1> QED
  BY <1>1, <1>2, <1>3, Counted DEF ChainInv

LEMMA NothingChain ==
  ASSUME LinesInv, ChainInv, pc = "idle", NothingToDo, pr' = pr
  PROVE  ChainInv'
BY DEF NothingToDo, taskVars, ChainInv, Waiting

LEMMA TakeChain == ASSUME LinesInv, ChainInv, Take PROVE ChainInv'
<1>1. pc = "idle" /\ pr = None /\ Waiting = {} /\ proposed = {} /\ queue = <<>>
  BY DEF Take, TakeUnroutable, TakeMessage, TakeAnswer, TakeCancel, TakesMessage,
         TakeReport, TakeDecision, TakeOutcome, Takes, ChainInv
<1>2. CASE TakeUnroutable
  BY <1>1, <1>2, NothingChain DEF TakeUnroutable, TakesMessage
<1>3. CASE TakeMessage
  <2>1. PICK S \in SUBSET active : \E targets \in Orders(S) :
          Dispatch(targets) /\ NewTurn(Len(targets))
    BY <1>3 DEF TakeMessage
  <2>2. S \in SUBSET Agents
    BY DEF LinesInv, TypeOK, RoomTyped
  <2> QED
    BY <1>1, <1>3, <2>1, <2>2, OrdersLine, DispatchChain DEF TakeMessage, TakesMessage
<1>4. CASE TakeAnswer
  <2>1. /\ pq.held \in Seq(Agents) /\ Len(pq.held) \in Nat /\ pq.asker \in Agents
    BY <1>4, HeldLine DEF TakeAnswer
  <2>2. /\ wave' = <<pq.asker>> /\ kept' = pq.held /\ queue' = queue /\ pr' = pr
        /\ pc' = "wave" /\ proposed' = proposed /\ budget' = 0
        /\ left' = 1 + Len(pq.held) + MaxHops
        /\ stage' = [a \in Agents |-> IF a = pq.asker THEN "snap" ELSE "off"]
    BY <1>4 DEF TakeAnswer, TakesMessage, NewTurn
  <2>3. Waiting' = {pq.asker}
    BY <2>1, <2>2 DEF Waiting
  <2>4. Cardinality(Waiting') = 1
    BY <2>3, FS_Singleton
  <2>5. Waiting' \subseteq Range(wave')
    BY <2>2, <2>3 DEF Range
  <2>6. Len(queue') = 0
    BY <1>1, <2>2
  <2> QED
    BY <1>1, <2>1, <2>2, <2>4, <2>5, <2>6, Counted DEF ChainInv
<1>5. CASE TakeCancel
  BY <1>1, <1>5, HeldLine, DispatchChain DEF TakeCancel, TakesMessage
<1>6. ASSUME NEW a \in Agents, TakeReport(a) PROVE ChainInv'
  <2>1. <<a>> \in Seq(Agents) /\ Len(<<a>>) = 1
    OBVIOUS
  <2>2. CASE pq # None \/ pr # None \/ a \notin active
    BY <1>1, <1>6, <2>2, NothingChain DEF TakeReport
  <2>3. CASE ~(pq # None \/ pr # None \/ a \notin active)
    <3>1. Dispatch(<<a>>) /\ NewTurn(Len(<<a>>)) /\ budget' = 0 /\ pr' = pr
      BY <1>6, <2>1, <2>3 DEF TakeReport
    <3> QED
      BY <1>1, <2>1, <3>1, DispatchChain
  <2> QED
    BY <2>2, <2>3
<1>7. CASE TakeDecision
  BY <1>1, <1>7, NothingChain DEF TakeDecision
<1>8. CASE TakeOutcome
  BY <1>1, <1>8, NothingChain DEF TakeOutcome
<1> QED
  BY <1>2, <1>3, <1>4, <1>5, <1>6, <1>7, <1>8 DEF Take

\* A wave takes from the line as many as it makes wait.
LEMMA StartWaveChain == ASSUME LinesInv, ChainInv, StartWave PROVE ChainInv'
<1>1. PICK n \in DOMAIN queue : /\ wave' = SubSeq(queue, 1, n)
                                /\ queue' = SubSeq(queue, n + 1, Len(queue))
  BY DEF StartWave
<1>2. queue \in Seq(Agents) /\ Len(queue) \in Nat /\ n \in 1..Len(queue)
  BY DEF LinesInv, TypeOK, RoomTyped
<1>3. /\ Len(queue') = Len(queue) - n
      /\ Len(wave') = n /\ wave' \in [1..n -> Agents]
  <2>1. Len(queue') = Len(queue) - n
    BY <1>1, <1>2
  <2>2. Len(wave') = n
    BY <1>1, <1>2
  <2>3. wave' \in Seq(Agents)
    BY <1>1, <1>2
  <2> QED
    BY <2>1, <2>2, <2>3
<1>4. Waiting' = Range(wave')
  <2>1. stage' = [a \in Agents |-> IF a \in Range(wave') THEN "snap" ELSE "off"]
    BY DEF StartWave
  <2>2. Range(wave') \subseteq Agents
    BY <1>3 DEF Range
  <2> QED
    BY <2>1, <2>2 DEF Waiting
<1>5. Cardinality(Waiting') <= n /\ Cardinality(Waiting') \in Nat
  <2>1. wave' \in Surjection(1..n, Range(wave'))
    BY <1>3 DEF Surjection, Range
  <2>2. ExistsSurjection(1..n, Range(wave'))
    BY <2>1 DEF ExistsSurjection
  <2>3. Cardinality(Range(wave')) <= n
    BY <1>2, <2>2, FS_SurjCardinalityBound
  <2>4. IsFiniteSet(Range(wave'))
    BY <1>2, <2>1, FS_Interval, FS_Surjection
  <2> QED
    BY <1>4, <2>3, <2>4, FS_CardinalityType
<1>6. /\ pc = "drain" /\ pc' = "wave" /\ kept' = <<>> /\ pr' = pr /\ proposed' = proposed
      /\ budget' = budget /\ left' = left
  BY DEF StartWave, noteVars
<1>7. Len(kept') = 0 /\ Cardinality(Waiting) = 0
  BY <1>6, NobodyWaits DEF ChainInv
<1> QED
  BY <1>2, <1>3, <1>4, <1>5, <1>6, <1>7, Counted DEF ChainInv

\* A task that is over waits for nobody and holds nothing.
LEMMA ForgetChain ==
  ASSUME ForgetTask
  PROVE  Waiting' = {} /\ Len(kept') = 0 /\ kept' = <<>> /\ proposed' = {}
BY DEF ForgetTask, Waiting

LEMMA EndDrainChain == ASSUME LinesInv, ChainInv, EndDrain PROVE ChainInv'
BY ForgetChain DEF EndDrain, noteVars, ChainInv

LEMMA CloseChain == ASSUME LinesInv, ChainInv, Close PROVE ChainInv'
BY DEF Close, taskVars, ChainInv, Waiting

LEMMA CollectChain == ASSUME LinesInv, ChainInv, Collect PROVE ChainInv'
<1>1. /\ pc = "wave" /\ pc' = "post" /\ proposed' = {}
      /\ UNCHANGED <<left, pr, budget, stage, wave, queue, kept>>
  BY DEF Collect, WaveOver, noteVars
<1>2. Waiting' = Waiting
  BY <1>1 DEF Waiting
<1>3. Waiting = {}
  BY DEF Collect, WaveOver, ChainInv, Waiting, Range
<1> QED
  BY <1>1, <1>2, <1>3 DEF ChainInv

\* An agent that begins was waiting, and is paid for.
LEMMA AgentRunsChain == ASSUME LinesInv, ChainInv, NEW a \in Agents, AgentRuns(a) PROVE ChainInv'
<1>1. stage \in [Agents -> {"off", "snap", "lock", "gen", "after", "done"}]
  BY DEF LinesInv, TypeOK, TaskTyped
<1>2. /\ pc = "wave" /\ pc' = pc /\ UNCHANGED <<pr, proposed, budget, wave, queue, kept>>
  BY DEF AgentRuns, Snapshot, Begin, Speak, Throw, Finish, AgentStep
<1>3. CASE Snapshot(a)
  <2>1. Waiting' = Waiting /\ left' = left
    BY <1>1, <1>3 DEF Snapshot, AgentStep, Waiting
  <2> QED
    BY <1>2, <2>1 DEF ChainInv
<1>4. CASE Begin(a)
  <2>1. a \in Waiting /\ Waiting' = Waiting \ {a}
    BY <1>1, <1>4 DEF Begin, AgentStep, Waiting
  <2>2. Cardinality(Waiting') = Cardinality(Waiting) - 1
    BY <2>1, Counted, FS_RemoveElement
  <2>3. left' = left \/ left' = left - 1
    BY <1>4 DEF Begin
  <2>4. Cardinality(Waiting') \in Nat
    BY <2>1, Counted, FS_RemoveElement, FS_CardinalityType
  <2>5. left' >= 0
    BY <1>2, <2>2, <2>3, <2>4, Counted DEF ChainInv
  <2>6. Cardinality(Waiting') + Len(queue') + Len(kept') + (MaxHops - budget') <= left'
    BY <1>2, <2>2, <2>3, <2>4, Counted DEF ChainInv
  <2> QED
    BY <1>2, <2>1, <2>5, <2>6 DEF ChainInv
<1>5. CASE Speak(a) \/ Throw(a) \/ Finish(a)
  <2>1. Waiting' = Waiting /\ left' = left
    BY <1>1, <1>5 DEF Speak, Throw, Finish, AgentStep, Waiting
  <2> QED
    BY <1>2, <2>1 DEF ChainInv
<1> QED
  BY <1>3, <1>4, <1>5 DEF AgentRuns

\* One more agent in line is one more hop spent.
LEMMA LineGrows ==
  ASSUME LinesInv, NEW l \in Seq(Agents), Len(l) = Len(Line) + 1, LineBecomes(l)
  PROVE  Len(queue') + Len(kept') = Len(queue) + Len(kept) + 1
BY Counted DEF Line, LineBecomes

\* A result is posted: the line grows by at most what the budget is charged,
\* and the budget is charged only below its limit.
LEMMA PostChain ==
  ASSUME LinesInv, ChainInv, PostFrame, pc \in {"post", "lookup"}, pc' \in {"post", "lookup"},
         proposed' = proposed,
         pc' = "lookup" => budget' < MaxHops,
         \/ UNCHANGED <<queue, kept>> /\ budget' = budget
         \/ budget < MaxHops /\ UNCHANGED <<queue, kept>> /\ budget' = budget + 1
         \/ /\ budget < MaxHops /\ budget' = budget + 1
            /\ \E l \in Seq(Agents) : Len(l) = Len(Line) + 1 /\ LineBecomes(l)
  PROVE  ChainInv'
<1>1. /\ UNCHANGED <<left, pr, wave, stage>> /\ Waiting' = Waiting
  BY DEF PostFrame, noteVars, Waiting
<1>2. /\ budget' <= MaxHops /\ budget' \in Nat
      /\ Len(queue') + Len(kept') - budget' <= Len(queue) + Len(kept) - budget
      /\ Len(queue') \in Nat /\ Len(kept') \in Nat
  <2>1. CASE UNCHANGED <<queue, kept>>
    BY <2>1, Counted DEF ChainInv
  <2>2. CASE /\ budget < MaxHops /\ budget' = budget + 1
             /\ \E l \in Seq(Agents) : Len(l) = Len(Line) + 1 /\ LineBecomes(l)
    <3>1. PICK l \in Seq(Agents) : Len(l) = Len(Line) + 1 /\ LineBecomes(l)
      BY <2>2
    <3>2. Len(queue') + Len(kept') = Len(queue) + Len(kept) + 1
      BY <3>1, LineGrows
    <3>3. Len(queue') \in Nat /\ Len(kept') \in Nat
      BY <3>1, Counted DEF LineBecomes
    <3>4. budget' = budget + 1 /\ budget < MaxHops
      BY <2>2
    <3>5. /\ Len(queue) \in Nat /\ Len(kept) \in Nat /\ budget \in Nat /\ MaxHops \in Nat
      BY Counted
    <3> QED
      BY ONLY <3>2, <3>3, <3>4, <3>5
  <2> QED
    BY <2>1, <2>2
<1>3. Cardinality(Waiting) + Len(queue') + Len(kept') + (MaxHops - budget') <= left
  <2>1. Cardinality(Waiting) + Len(queue) + Len(kept) + (MaxHops - budget) <= left
    BY DEF ChainInv
  <2>2. /\ Cardinality(Waiting) \in Nat /\ Len(queue) \in Nat /\ Len(kept) \in Nat
        /\ budget \in Nat /\ left \in Int /\ MaxHops \in Nat
    BY Counted
  <2> QED
    BY ONLY <1>2, <2>1, <2>2, SMTT(60)
<1> QED
  BY <1>1, <1>2, <1>3 DEF ChainInv

LEMMA LongerLine ==
  ASSUME LinesInv, NEW b \in Agents
  PROVE  /\ Line \o <<b>> \in Seq(Agents) /\ Len(Line \o <<b>>) = Len(Line) + 1
         /\ <<b>> \o Line \in Seq(Agents) /\ Len(<<b>> \o Line) = Len(Line) + 1
<1>1. Line \in Seq(Agents)
  BY LineIsLine
<1> HIDE DEF Line
<1> QED
  BY <1>1

\* The room's own routing adds nobody, or somebody the budget is charged for.
LEMMA RouteOrStopChain ==
  ASSUME LinesInv, NEW a \in Agents, NEW candidates, RouteOrStop(a, candidates)
  PROVE  \/ UNCHANGED <<queue, kept>> /\ budget' = budget
         \/ /\ budget' = budget + 1
            /\ \E l \in Seq(Agents) : Len(l) = Len(Line) + 1 /\ LineBecomes(l)
<1>1. CASE \E b \in candidates : MayFollow(b, a)
  <2>1. PICK b \in candidates : MayFollow(b, a) /\ RouteTo(b)
    BY <1>1 DEF RouteOrStop
  <2>2. b \in Agents
    BY <2>1 DEF MayFollow, LinesInv, TypeOK, RoomTyped
  <2> QED
    BY <2>1, <2>2, LongerLine DEF RouteTo
<1>2. CASE ~\E b \in candidates : MayFollow(b, a)
  BY <1>2 DEF RouteOrStop
<1> QED
  BY <1>1, <1>2

\* The room hands on directly, or not at all.
Unreviewed == Modes \subseteq {"auto", "manual"}

LEMMA PostResultChain ==
  ASSUME Unreviewed, LinesInv, ChainInv, NEW a \in Agents, PostResult(a) PROVE ChainInv'
<1>1. mode \in {"auto", "manual"}
  BY DEF Unreviewed, LinesInv, TypeOK, RoomTyped
<1>2. PostFrame /\ pc \in {"post", "lookup"}
  BY DEF PostResult, PostSkipped, PostUnchained, PostAskedAgain, PostCoalesced,
         PostHandedOff, PostProposed, PostEnding, LookedUp, Posting
<1>3. CASE PostSkipped(a) \/ PostUnchained(a) \/ PostAskedAgain(a) \/ PostCoalesced(a)
  BY <1>2, <1>3, PostChain DEF PostSkipped, PostUnchained, PostAskedAgain, PostCoalesced,
                               Posting, ToNext
<1>4. CASE PostHandedOff(a)
  <2>1. PICK b \in HandedTo(a) \ ToSet(Line) :
          IF budget < MaxHops
          THEN /\ LineBecomes(IF resume THEN <<b>> \o Line ELSE Line \o <<b>>)
               /\ budget' = budget + 1
          ELSE UNCHANGED <<queue, kept, budget>>
    BY <1>4 DEF PostHandedOff
  <2>2. b \in Agents
    BY <2>1 DEF HandedTo, LinesInv, TypeOK, RoomTyped
  <2>3. pc' = "post" /\ proposed' = proposed
    BY <1>4 DEF PostHandedOff, Posting, ToNext
  <2>4. CASE budget < MaxHops
    <3> DEFINE l == IF resume THEN <<b>> \o Line ELSE Line \o <<b>>
    <3>1. l \in Seq(Agents) /\ Len(l) = Len(Line) + 1
      <4>1. CASE resume
        BY <2>2, <4>1, LongerLine
      <4>2. CASE ~resume
        BY <2>2, <4>2, LongerLine
      <4> QED
        BY <4>1, <4>2
    <3>2. LineBecomes(l) /\ budget' = budget + 1
      BY <2>1, <2>4
    <3> HIDE DEF l
    <3> QED
      BY <1>2, <2>3, <2>4, <3>1, <3>2, PostChain
  <2>5. CASE ~(budget < MaxHops)
    BY <1>2, <2>1, <2>3, <2>5, PostChain
  <2> QED
    BY <2>4, <2>5
<1>5. CASE PostProposed(a)
  BY <1>1, <1>5 DEF PostProposed, Chains
<1>6. CASE PostEnding(a)
  <2>1. proposed' = proposed
    BY <1>6 DEF PostEnding
  <2>2. CASE budget < MaxHops /\ PlanOwner # None
    BY <1>2, <1>6, <2>1, <2>2, PostChain DEF PostEnding, Posting
  <2>3. CASE ~(budget < MaxHops /\ PlanOwner # None)
    <3>1. pc' = "post"
      BY <1>6, <2>3 DEF PostEnding, Posting, ToNext
    <3>2. CASE budget < MaxHops
      <4>1. RouteOrStop(a, {Fallback})
        BY <1>6, <2>3, <3>2 DEF PostEnding
      <4> QED
        BY <1>2, <2>1, <3>1, <3>2, <4>1, RouteOrStopChain, PostChain
    <3>3. CASE ~(budget < MaxHops)
      BY <1>2, <1>6, <2>1, <2>3, <3>1, <3>3, PostChain DEF PostEnding
    <3> QED
      BY <3>2, <3>3
  <2> QED
    BY <2>2, <2>3
<1>7. CASE LookedUp(a)
  <2>1. pc = "lookup" /\ pc' = "post" /\ proposed' = proposed /\ budget < MaxHops
    BY <1>7 DEF LookedUp, ChainInv
  <2>2. CASE RouteOrStop(a, IF MayFollow(PlanOwner, a) THEN {PlanOwner} ELSE {Fallback})
    BY <1>2, <2>1, <2>2, RouteOrStopChain, PostChain
  <2>3. CASE budget' \in {budget, budget + 1} /\ UNCHANGED <<queue, kept>>
    BY <1>2, <2>1, <2>3, PostChain
  <2> QED
    BY <1>7, <2>2, <2>3 DEF LookedUp
<1> QED
  BY <1>3, <1>4, <1>5, <1>6, <1>7 DEF PostResult

\* What the wave leads to: with nothing proposed, a pause or the rest of the line.
LEMMA WaveTailChain == ASSUME LinesInv, ChainInv, WaveTail PROVE ChainInv'
<1>1. CASE TailAsk
  BY <1>1, ForgetChain DEF TailAsk, TailFrame, ChainInv
<1>2. CASE TailOn
  <2>1. /\ queue' = Line /\ pc = "post" /\ pc' = "drain"
        /\ UNCHANGED <<left, budget, pr>> /\ ForgetTask
    BY <1>2 DEF TailOn, Posted, TailFrame
  <2>2. Waiting' = {} /\ Len(kept') = 0 /\ proposed' = {}
    BY <2>1, ForgetChain
  <2>3. Cardinality(Waiting') = 0 /\ Waiting' \subseteq Range(wave')
    BY <2>2, NobodyWaits
  <2>4. Len(queue') <= Len(queue) + Len(kept) /\ Len(queue') \in Nat
    BY <2>1, Counted DEF Line
  <2>5. Cardinality(Waiting') + Len(queue') + Len(kept') + (MaxHops - budget') <= left'
    BY <2>1, <2>2, <2>3, <2>4, Counted DEF ChainInv
  <2> QED
    BY <2>1, <2>2, <2>3, <2>5 DEF ChainInv
<1>3. CASE TailCard \/ TailSupervise
  BY <1>3 DEF TailCard, TailSupervise, ChainInv
<1> QED
  BY <1>1, <1>2, <1>3 DEF WaveTail

LEMMA StepChain == Unreviewed /\ LinesInv /\ ChainInv /\ [Next]_vars => ChainInv'
<1> SUFFICES ASSUME Unreviewed, LinesInv, ChainInv, [Next]_vars PROVE ChainInv'
  OBVIOUS
<1>1. CASE Room
  BY <1>1, TakeChain, StartWaveChain, EndDrainChain, CollectChain, CloseChain,
     AgentRunsChain, PostResultChain, WaveTailChain DEF Room
<1>2. CASE Outside
  BY <1>2, OutsideChain
<1>3. ASSUME NEW c \in deciding, SupervisorDone(c) PROVE ChainInv'
  BY <1>3, ChainUntouched DEF SupervisorDone, taskVars
<1>4. CASE UNCHANGED vars
  BY <1>4, ChainUntouched DEF vars, roomVars, taskVars, noteVars
<1> QED
  BY <1>1, <1>2, <1>3, <1>4 DEF Next

\* While the room hands on directly, or not at all, a user turn runs the agents
\* it was sent to and at most MaxHops more, whatever they hand on, ask or fail
\* and whatever the room routes by itself (room-routing.ts, the chain budget).
THEOREM RoomChainBounded ==
  ASSUME Unreviewed PROVE Spec => []ChainBounded
<1>1. Init => ChainInv
  BY InitChain
<1>2. LinesInv /\ ChainInv /\ [Next]_vars => ChainInv'
  BY StepChain
<1>3. ChainInv => ChainBounded
  BY DEF ChainInv, ChainBounded
<1> QED
  BY <1>1, <1>2, <1>3, LinesInvariant, PTL DEF Spec

(* ---- work that waits ------------------------------------------------------------------- *)

\* Between tasks nobody is in line; agents wait in the queue or, while an
\* answer is followed up, behind it, and never in both.  Cards are numbered.
WorkInv ==
  /\ pc \in {"idle", "close"} => queue = <<>>
  /\ pc \in {"idle", "close", "drain"} => ~resume
  /\ IF resume THEN queue = <<>> ELSE kept = <<>>
  /\ pr # None => pr.card <= cards

LEMMA InitWork == Init => WorkInv
BY DEF Init, WorkInv

\* The agents of a line go on to wait, or are launched.
Stays(line) == ToSet(line) \subseteq Owed' \cup Range(wave')
WorkStays == Owed \subseteq Owed' \cup Range(wave')
WorkMayGo == WorkStays \/ aborted' \/ PauseReplaced

LEMMA AllStay ==
  ASSUME Stays(queue), Stays(kept), pq # None => Stays(pq.held), pr # None => Stays(pr.held)
  PROVE  WorkStays
BY DEF Stays, WorkStays, Owed

LEMMA NobodyStays == Stays(<<>>)
BY DEF Stays, ToSet

\* What is in a line, or held by a pause, after the step has stayed.
LEMMA InQueue == ASSUME NEW line, ToSet(line) \subseteq ToSet(queue') PROVE Stays(line)
BY DEF Stays, Owed

LEMMA InKept == ASSUME NEW line, ToSet(line) \subseteq ToSet(kept') PROVE Stays(line)
BY DEF Stays, Owed

LEMMA InQuestion ==
  ASSUME NEW line, pq' # None, ToSet(line) \subseteq ToSet(pq'.held) PROVE Stays(line)
BY DEF Stays, Owed

LEMMA InCard ==
  ASSUME NEW line, pr' # None, ToSet(line) \subseteq ToSet(pr'.held) PROVE Stays(line)
BY DEF Stays, Owed

\* A pause that stays as it is keeps its line.
LEMMA PausesStay ==
  /\ pq' = pq => (pq # None => Stays(pq.held))
  /\ pr' = pr => (pr # None => Stays(pr.held))
<1>1. ASSUME pq' = pq, pq # None PROVE Stays(pq.held)
  BY <1>1, InQuestion
<1>2. ASSUME pr' = pr, pr # None PROVE Stays(pr.held)
  BY <1>2, InCard
<1> QED
  BY <1>1, <1>2

\* Nothing of it is touched.
LEMMA LeftAlone == ASSUME UNCHANGED <<queue, kept, pq, pr>> PROVE WorkStays
<1>1. Stays(queue) /\ Stays(kept)
  BY InQueue, InKept
<1> QED
  BY <1>1, PausesStay, AllStay

\* A line that is added to at either end holds whom it held.
LEMMA LongerSet ==
  ASSUME NEW s \in Seq(Agents), NEW t \in Seq(Agents)
  PROVE  ToSet(s) \subseteq ToSet(s \o t) /\ ToSet(t) \subseteq ToSet(s \o t)
<1>1. ASSUME NEW i \in DOMAIN s PROVE s[i] \in ToSet(s \o t)
  <2>1. i \in DOMAIN (s \o t) /\ (s \o t)[i] = s[i]
    OBVIOUS
  <2> QED
    BY <2>1 DEF ToSet
<1>2. ASSUME NEW i \in DOMAIN t PROVE t[i] \in ToSet(s \o t)
  <2>1. Len(s) + i \in DOMAIN (s \o t) /\ (s \o t)[Len(s) + i] = t[i]
    OBVIOUS
  <2> QED
    BY <2>1 DEF ToSet
<1> QED
  BY <1>1, <1>2 DEF ToSet

LEMMA OutsideWork ==
  ASSUME WorkInv, Outside \/ \E c \in deciding : SupervisorDone(c)
  PROVE  WorkInv' /\ WorkMayGo
<1>1. CASE Stop
  BY <1>1 DEF Stop, WorkInv, WorkMayGo, taskVars
<1>2. CASE ~Stop
  <2>1. UNCHANGED <<pc, queue, kept, resume, pq, pr, cards>>
    BY <1>2 DEF Outside, Submit, Click, SetActive, SetMode, SupervisorDone, taskVars, roomVars
  <2>2. WorkInv'
    BY <2>1 DEF WorkInv
  <2> QED
    BY <2>1, <2>2, LeftAlone DEF WorkMayGo
<1> QED
  BY <1>1, <1>2

\* A task that finds nothing to do.
LEMMA NothingWork ==
  ASSUME WorkInv, NEW kind, Takes(kind), NothingToDo, UNCHANGED <<pq, pr>>
  PROVE  WorkInv' /\ WorkMayGo
<1>1. UNCHANGED <<pc, queue, kept, resume, pq, pr, cards>>
  BY DEF NothingToDo, Takes, taskVars
<1>2. WorkInv'
  BY <1>1 DEF WorkInv
<1> QED
  BY <1>1, <1>2, LeftAlone DEF WorkMayGo

\* A task that starts a pass takes up what a pause held, if it ends the pause.
LEMMA DispatchWork ==
  ASSUME WorkInv, NEW kind, Takes(kind), NEW line, Dispatch(line),
         pq' = pq \/ pq' = None, pq' # pq => ToSet(pq.held) \subseteq ToSet(line),
         pr' = pr \/ pr' = None, pr' # pr => ToSet(pr.held) \subseteq ToSet(line)
  PROVE  WorkInv' /\ WorkMayGo
<1>1. /\ pc = "idle" /\ pc' = "drain" /\ queue' = line
      /\ UNCHANGED <<kept, resume, cards>>
  BY DEF Takes, Dispatch, taskVars
<1>2. queue = <<>> /\ kept = <<>> /\ ~resume
  BY <1>1 DEF WorkInv
<1>3. WorkInv'
  <2>1. pr' # None => pr'.card <= cards'
    BY <1>1 DEF WorkInv
  <2> QED
    BY <1>1, <1>2, <2>1 DEF WorkInv
<1>4. Stays(queue) /\ Stays(kept)
  BY <1>2, NobodyStays
<1>5. pq # None => Stays(pq.held)
  <2>1. CASE pq' = pq
    BY <2>1, PausesStay
  <2>2. CASE pq' # pq
    BY <1>1, <2>2, InQueue
  <2> QED
    BY <2>1, <2>2
<1>6. pr # None => Stays(pr.held)
  <2>1. CASE pr' = pr
    BY <2>1, PausesStay
  <2>2. CASE pr' # pr
    BY <1>1, <2>2, InQueue
  <2> QED
    BY <2>1, <2>2
<1> QED
  BY <1>3, <1>4, <1>5, <1>6, AllStay DEF WorkMayGo

\* The held queue of a question goes on behind its answer.
LEMMA TakeAnswerWork == ASSUME WorkInv, TakeAnswer PROVE WorkInv' /\ WorkMayGo
<1>1. /\ pc = "idle" /\ pc' = "wave" /\ kept' = pq.held /\ resume' = TRUE
      /\ UNCHANGED <<queue, pr, cards>>
  BY DEF TakeAnswer, TakesMessage, Takes
<1>2. queue = <<>> /\ kept = <<>>
  BY <1>1 DEF WorkInv
<1>3. WorkInv'
  BY <1>1, <1>2 DEF WorkInv
<1>4. Stays(queue) /\ Stays(kept)
  BY <1>2, NobodyStays
<1>5. Stays(pq.held)
  BY <1>1, InKept
<1> QED
  BY <1>1, <1>3, <1>4, <1>5, PausesStay, AllStay DEF WorkMayGo

LEMMA DecideWork ==
  ASSUME LinesInv, WorkInv, NEW kind, Takes(kind), pr # None,
         NEW targets \in SUBSET Agents, Decide(targets)
  PROVE  WorkInv' /\ WorkMayGo
<1>1. PICK fresh \in Orders(targets \ ToSet(pr.held)) : Dispatch(pr.held \o fresh)
  BY DEF Decide
<1>2. pr.held \in Seq(Agents) /\ fresh \in Seq(Agents)
  <2>1. targets \ ToSet(pr.held) \in SUBSET Agents
    OBVIOUS
  <2> QED
    BY <2>1, HeldLine, OrdersLine
<1>3. ToSet(pr.held) \subseteq ToSet(pr.held \o fresh)
  BY <1>2, LongerSet
<1>4. pq' = pq /\ pr' = None
  BY DEF Decide
<1> QED
  BY <1>1, <1>3, <1>4, DispatchWork

LEMMA RefuseWork ==
  ASSUME LinesInv, WorkInv, NEW kind, Takes(kind), pr # None, Refuse
  PROVE  WorkInv' /\ WorkMayGo
<1> DEFINE again == (Proposers(pr.hops) \cap active) \ ToSet(pr.held)
           due == IF budget >= MaxHops THEN {} ELSE again
<1>1. PICK rerun \in Orders(due) : Dispatch(rerun \o pr.held)
  BY DEF Refuse
<1>2. pr.held \in Seq(Agents) /\ rerun \in Seq(Agents)
  <2>1. due \in SUBSET Agents
    BY DEF LinesInv, TypeOK, RoomTyped
  <2> HIDE DEF due
  <2> QED
    BY <2>1, HeldLine, OrdersLine
<1>3. ToSet(pr.held) \subseteq ToSet(rerun \o pr.held)
  BY <1>2, LongerSet
<1>4. pq' = pq /\ pr' = None
  BY DEF Refuse
<1> QED
  BY <1>1, <1>3, <1>4, DispatchWork

LEMMA TakeWork == ASSUME LinesInv, WorkInv, Take PROVE WorkInv' /\ WorkMayGo
<1>1. CASE TakeUnroutable
  BY <1>1, NothingWork DEF TakeUnroutable, TakesMessage
<1>2. CASE TakeMessage
  <2>1. PICK line : Dispatch(line)
    BY <1>2 DEF TakeMessage
  <2>2. Takes("message") /\ pq' = pq /\ pr' = pr
    BY <1>2 DEF TakeMessage, TakesMessage
  <2> QED
    BY <2>1, <2>2, DispatchWork
<1>3. CASE TakeAnswer
  BY <1>3, TakeAnswerWork
<1>4. CASE TakeCancel
  BY <1>4, DispatchWork DEF TakeCancel, TakesMessage
<1>5. ASSUME NEW a \in Agents, TakeReport(a) PROVE WorkInv' /\ WorkMayGo
  <2>1. Takes("report") /\ pq' = pq /\ pr' = pr
    BY <1>5 DEF TakeReport
  <2>2. NothingToDo \/ Dispatch(<<a>>)
    BY <1>5 DEF TakeReport
  <2> QED
    BY <2>1, <2>2, NothingWork, DispatchWork
<1>6. CASE TakeDecision
  <2>1. CASE pr = None
    BY <1>6, <2>1, NothingWork DEF TakeDecision
  <2>2. CASE pr # None
    <3>1. PICK targets \in Decisions : Decide(targets)
      BY <1>6, <2>2 DEF TakeDecision
    <3>2. targets \in SUBSET Agents
      BY <2>2, DecisionTargets
    <3> QED
      BY <1>6, <2>2, <3>1, <3>2, DecideWork DEF TakeDecision
  <2> QED
    BY <2>1, <2>2
<1>7. CASE TakeOutcome
  <2>1. CASE pr = None \/ pr.card # Head(chain).card
    BY <1>7, <2>1, NothingWork DEF TakeOutcome
  <2>2. CASE ~(pr = None \/ pr.card # Head(chain).card)
    <3>1. Takes("outcome") /\ (Refuse \/ \E targets \in Verdicts : Decide(targets))
      BY <1>7, <2>2 DEF TakeOutcome
    <3>2. Verdicts \subseteq SUBSET Agents
      BY <2>2, DecisionTargets
    <3> QED
      BY <2>2, <3>1, <3>2, RefuseWork, DecideWork
  <2> QED
    BY <2>1, <2>2
<1> QED
  BY <1>1, <1>2, <1>3, <1>4, <1>5, <1>6, <1>7 DEF Take

\* The wave is launched, the rest waits on.
LEMMA StartWaveWork == ASSUME LinesInv, WorkInv, StartWave PROVE WorkInv' /\ WorkMayGo
<1>1. PICK n \in DOMAIN queue : /\ wave' = SubSeq(queue, 1, n)
                                /\ queue' = SubSeq(queue, n + 1, Len(queue))
  BY DEF StartWave
<1>2. /\ pc = "drain" /\ pc' = "wave" /\ resume' = FALSE /\ kept' = <<>>
      /\ UNCHANGED <<pq, pr, cards>>
  BY DEF StartWave, noteVars
<1>3. kept = <<>>
  BY <1>2 DEF WorkInv
<1>4. WorkInv'
  BY <1>2 DEF WorkInv
<1>5. queue \in Seq(Agents)
  BY DEF LinesInv, TypeOK, RoomTyped
<1>6. ASSUME NEW i \in DOMAIN queue PROVE queue[i] \in Range(wave') \cup ToSet(queue')
  <2>1. CASE i <= n
    <3>1. i \in DOMAIN SubSeq(queue, 1, n) /\ SubSeq(queue, 1, n)[i] = queue[i]
      BY ONLY <1>5, <1>6, <2>1, n \in DOMAIN queue
    <3>2. i \in DOMAIN wave' /\ wave'[i] = queue[i]
      BY ONLY <1>1, <3>1
    <3> QED
      BY <3>2 DEF Range
  <2>2. CASE i > n
    <3> DEFINE rest == SubSeq(queue, n + 1, Len(queue))
    <3>1. i - n \in DOMAIN rest /\ rest[i - n] = queue[i]
      BY ONLY <1>5, <1>6, <2>2, n \in DOMAIN queue
    <3>2. i - n \in DOMAIN queue' /\ queue'[i - n] = queue[i]
      BY ONLY <1>1, <3>1
    <3> QED
      BY <3>2 DEF ToSet
  <2>3. i <= n \/ i > n
    BY ONLY <1>5, <1>6, n \in DOMAIN queue
  <2> QED
    BY ONLY <2>1, <2>2, <2>3
<1>7. Stays(queue)
  BY <1>6 DEF Stays, ToSet, Owed
<1>8. Stays(kept)
  BY <1>3, NobodyStays
<1> QED
  BY <1>2, <1>4, <1>7, <1>8, PausesStay, AllStay DEF WorkMayGo

\* The pass is over with nobody in line, or was stopped.
LEMMA EndDrainWork == ASSUME WorkInv, EndDrain PROVE WorkInv' /\ WorkMayGo
<1>1. /\ pc = "drain" /\ pc' = "close" /\ queue' = <<>> /\ kept' = <<>> /\ resume' = FALSE
      /\ UNCHANGED <<aborted, pq, pr, cards>> /\ (queue = <<>> \/ aborted)
  BY DEF EndDrain, ForgetTask, noteVars
<1>2. WorkInv'
  BY <1>1 DEF WorkInv
<1>3. CASE queue = <<>>
  <2>1. kept = <<>>
    BY <1>1 DEF WorkInv
  <2>2. UNCHANGED <<queue, kept, pq, pr>>
    BY <1>1, <1>3, <2>1
  <2> QED
    BY <1>2, <2>2, LeftAlone DEF WorkMayGo
<1>4. CASE aborted
  BY <1>1, <1>2, <1>4 DEF WorkMayGo
<1> QED
  BY <1>1, <1>3, <1>4

\* Steps that touch no line.
LEMMA QuietWork ==
  ASSUME WorkInv, Close \/ Collect \/ \E a \in Agents : AgentRuns(a)
  PROVE  WorkInv' /\ WorkMayGo
<1>1. UNCHANGED <<queue, kept, resume, pq, pr, cards>>
  BY DEF Close, Collect, AgentRuns, Snapshot, Begin, Speak, Throw, Finish, AgentStep,
         taskVars, noteVars
<1>2. pc' \in {"idle", "close", "drain"} => pc \in {"idle", "close"} \/ pc' = pc
  BY DEF Close, Collect, AgentRuns, Snapshot, Begin, Speak, Throw, Finish, AgentStep
<1>3. pc' = "drain" => pc = "drain"
  BY DEF Close, Collect, AgentRuns, Snapshot, Begin, Speak, Throw, Finish, AgentStep
<1>4. pc' \in {"idle", "close"} => pc \in {"idle", "close"}
  BY <1>2, <1>3
<1>5. WorkInv'
  BY <1>1, <1>3, <1>4 DEF WorkInv
<1> QED
  BY <1>1, <1>5, LeftAlone DEF WorkMayGo

\* The lines a step may leave where l was: all of l is in them.
Grows(l) == UNCHANGED <<queue, kept>> \/ \E m : LineBecomes(m) /\ ToSet(l) \subseteq ToSet(m)

LEMMA PostWork ==
  ASSUME WorkInv, PostFrame, pc' \in {"post", "lookup"}, Grows(Line)
  PROVE  WorkInv' /\ WorkMayGo
<1>1. UNCHANGED <<resume, pq, pr, cards>>
  BY DEF PostFrame, noteVars
<1>2. CASE UNCHANGED <<queue, kept>>
  <2>1. WorkInv'
    BY <1>1, <1>2 DEF WorkInv
  <2> QED
    BY <1>1, <1>2, <2>1, LeftAlone DEF WorkMayGo
<1>3. ASSUME NEW m, LineBecomes(m), ToSet(Line) \subseteq ToSet(m) PROVE WorkInv' /\ WorkMayGo
  <2>1. CASE resume
    <3>1. Line = kept /\ kept' = m /\ queue' = queue
      BY <1>3, <2>1 DEF Line, LineBecomes
    <3>2. WorkInv'
      BY <1>1, <2>1, <3>1 DEF WorkInv
    <3>3. Stays(queue) /\ Stays(kept)
      BY <1>3, <3>1, InQueue, InKept
    <3> QED
      BY <1>1, <3>2, <3>3, PausesStay, AllStay DEF WorkMayGo
  <2>2. CASE ~resume
    <3>1. Line = queue /\ queue' = m /\ kept' = kept
      BY <1>3, <2>2 DEF Line, LineBecomes
    <3>2. WorkInv'
      BY <1>1, <2>2, <3>1 DEF WorkInv
    <3>3. Stays(queue) /\ Stays(kept)
      BY <1>3, <3>1, InQueue, InKept
    <3> QED
      BY <1>1, <3>2, <3>3, PausesStay, AllStay DEF WorkMayGo
  <2> QED
    BY <2>1, <2>2
<1> QED
  BY <1>2, <1>3 DEF Grows

\* One agent joins a line at either end.
LEMMA JoinedSet ==
  ASSUME LinesInv, NEW b \in Agents
  PROVE  /\ ToSet(Line) \subseteq ToSet(Line \o <<b>>)
         /\ ToSet(Line) \subseteq ToSet(<<b>> \o Line)
<1>1. Line \in Seq(Agents) /\ <<b>> \in Seq(Agents)
  BY LineIsLine
<1> QED
  BY <1>1, LongerSet

LEMMA RouteOrStopWork ==
  ASSUME LinesInv, NEW a \in Agents, NEW candidates, RouteOrStop(a, candidates)
  PROVE  Grows(Line)
<1>1. CASE \E b \in candidates : MayFollow(b, a)
  <2>1. PICK b \in candidates : MayFollow(b, a) /\ RouteTo(b)
    BY <1>1 DEF RouteOrStop
  <2>2. b \in Agents
    BY <2>1 DEF MayFollow, LinesInv, TypeOK, RoomTyped
  <2>3. LineBecomes(Line \o <<b>>)
    BY <2>1 DEF RouteTo
  <2> QED
    BY <2>2, <2>3, JoinedSet DEF Grows
<1>2. CASE ~\E b \in candidates : MayFollow(b, a)
  BY <1>2 DEF RouteOrStop, Grows
<1> QED
  BY <1>1, <1>2

LEMMA PostResultWork ==
  ASSUME LinesInv, WorkInv, NEW a \in Agents, PostResult(a) PROVE WorkInv' /\ WorkMayGo
<1>1. PostFrame
  BY DEF PostResult, PostSkipped, PostUnchained, PostAskedAgain, PostCoalesced,
         PostHandedOff, PostProposed, PostEnding, LookedUp, Posting
<1>2. pc' \in {"post", "lookup"}
  BY DEF PostResult, PostSkipped, PostUnchained, PostAskedAgain, PostCoalesced,
         PostHandedOff, PostProposed, PostEnding, LookedUp, Posting, ToNext
<1>3. Grows(Line)
  <2>1. CASE PostSkipped(a) \/ PostUnchained(a) \/ PostAskedAgain(a) \/ PostCoalesced(a)
             \/ PostProposed(a)
    BY <2>1 DEF PostSkipped, PostUnchained, PostAskedAgain, PostCoalesced, PostProposed, Grows
  <2>2. CASE PostHandedOff(a)
    <3>1. PICK b \in HandedTo(a) \ ToSet(Line) :
            IF budget < MaxHops
            THEN /\ LineBecomes(IF resume THEN <<b>> \o Line ELSE Line \o <<b>>)
                 /\ budget' = budget + 1
            ELSE UNCHANGED <<queue, kept, budget>>
      BY <2>2 DEF PostHandedOff
    <3>2. b \in Agents
      BY <3>1 DEF HandedTo, LinesInv, TypeOK, RoomTyped
    <3>3. CASE budget < MaxHops
      <4>1. CASE resume
        <5>1. LineBecomes(<<b>> \o Line)
          BY <3>1, <3>3, <4>1
        <5> QED
          BY <3>2, <5>1, JoinedSet DEF Grows
      <4>2. CASE ~resume
        <5>1. LineBecomes(Line \o <<b>>)
          BY <3>1, <3>3, <4>2
        <5> QED
          BY <3>2, <5>1, JoinedSet DEF Grows
      <4> QED
        BY <4>1, <4>2
    <3>4. CASE ~(budget < MaxHops)
      BY <3>1, <3>4 DEF Grows
    <3> QED
      BY <3>3, <3>4
  <2>3. CASE PostEnding(a)
    <3>1. (UNCHANGED <<queue, kept>>) \/ RouteOrStop(a, {Fallback})
      BY <2>3 DEF PostEnding
    <3> QED
      BY <3>1, RouteOrStopWork DEF Grows
  <2>4. CASE LookedUp(a)
    <3>1. \/ UNCHANGED <<queue, kept>>
          \/ RouteOrStop(a, IF MayFollow(PlanOwner, a) THEN {PlanOwner} ELSE {Fallback})
      BY <2>4 DEF LookedUp
    <3> QED
      BY <3>1, RouteOrStopWork DEF Grows
  <2> QED
    BY <2>1, <2>2, <2>3, <2>4 DEF PostResult
<1> QED
  BY <1>1, <1>2, <1>3, PostWork

\* Whoever waits is in the line that is worked on.
LEMMA LineIsAll == ASSUME WorkInv, Stays(Line) PROVE Stays(queue) /\ Stays(kept)
<1>1. CASE resume
  <2>1. kept = Line /\ queue = <<>>
    BY <1>1 DEF Line, WorkInv
  <2> QED
    BY <2>1, NobodyStays
<1>2. CASE ~resume
  <2>1. queue = Line /\ kept = <<>>
    BY <1>2 DEF Line, WorkInv
  <2> QED
    BY <2>1, NobodyStays
<1> QED
  BY <1>1, <1>2

LEMMA TailAskWork == ASSUME LinesInv, WorkInv, TailAsk PROVE WorkInv' /\ WorkMayGo
<1>1. /\ pq' = [asker |-> asks, held |-> Line] /\ queue' = <<>> /\ pc' = "close"
      /\ kept' = <<>> /\ resume' = FALSE /\ UNCHANGED <<pr, cards>>
  BY DEF TailAsk, ForgetTask
<1>2. WorkInv'
  BY <1>1 DEF WorkInv
<1>3. pq' # None /\ pq'.held = Line
  <2>1. pq' \in Question
    BY <1>1, LineIsLine DEF TailAsk, LinesInv, TypeOK, TaskTyped, Maybe, Question
  <2> QED
    BY <1>1, <2>1, NoneAssumption
<1>4. Stays(Line)
  BY <1>3, InQuestion
<1>5. CASE pq = None \/ pq = pq'
  <2>1. pq # None => Stays(pq.held)
    BY <1>5, PausesStay
  <2> QED
    BY <1>1, <1>2, <1>4, <2>1, LineIsAll, PausesStay, AllStay DEF WorkMayGo
<1>6. CASE pq # None /\ pq # pq'
  BY <1>2, <1>3, <1>6 DEF WorkMayGo, PauseReplaced
<1> QED
  BY <1>5, <1>6

LEMMA TailOnWork == ASSUME WorkInv, TailOn PROVE WorkInv' /\ WorkMayGo
<1>1. /\ queue' = Line /\ pc' = "drain" /\ kept' = <<>> /\ resume' = FALSE
      /\ UNCHANGED <<pq, pr, cards>>
  BY DEF TailOn, ForgetTask
<1>2. WorkInv'
  BY <1>1 DEF WorkInv
<1>3. Stays(Line)
  BY <1>1, InQueue
<1> QED
  BY <1>1, <1>2, <1>3, LineIsAll, PausesStay, AllStay DEF WorkMayGo

\* A new card holds the line, and takes the place of none but an older card.
LEMMA OpensCardWork ==
  ASSUME LinesInv, WorkInv, NEW hops \in SUBSET Hop, NEW line \in Seq(Agents),
         NEW judge \in {"human", "supervisor"},
         OpensCard(hops, line, judge), ToSet(Line) \subseteq ToSet(line), pq' = pq
  PROVE  WorkInv' /\ WorkMayGo
<1>1. /\ pr' = [card |-> cards + 1, hops |-> hops, held |-> line, judge |-> judge]
      /\ cards' = cards + 1 /\ queue' = <<>> /\ pc' = "close"
      /\ kept' = <<>> /\ resume' = FALSE
  BY DEF OpensCard, ForgetTask
<1>2. cards \in Nat /\ pr \in Maybe(Card)
  BY DEF LinesInv, TypeOK, RoomTyped, NotesTyped
<1>3. pr' # None /\ pr'.held = line /\ pr'.card = cards + 1
  <2>1. pr' \in Card
    BY <1>1, <1>2 DEF Card
  <2> QED
    BY <1>1, <2>1, NoneAssumption
<1>4. WorkInv'
  BY <1>1, <1>2, <1>3 DEF WorkInv
<1>5. Stays(Line)
  BY <1>3, InCard
<1>6. CASE pr = None
  BY <1>4, <1>5, <1>6, LineIsAll, PausesStay, AllStay DEF WorkMayGo
<1>7. CASE pr # None
  <2>1. pr.card \in Nat /\ pr.card <= cards
    BY <1>2, <1>7 DEF WorkInv, Maybe, Card
  <2>2. pr'.card # pr.card
    BY <1>2, <1>3, <2>1
  <2> QED
    BY <1>3, <1>4, <1>7, <2>2 DEF WorkMayGo, PauseReplaced
<1> QED
  BY <1>6, <1>7

LEMMA TailCardWork == ASSUME LinesInv, WorkInv, TailCard PROVE WorkInv' /\ WorkMayGo
<1>1. proposed \in SUBSET Hop /\ Line \in Seq(Agents)
  BY LineIsLine DEF LinesInv, TypeOK, TaskTyped
<1>2. OpensCard(proposed, Line, "human") /\ pq' = pq
  BY DEF TailCard
<1> QED
  BY <1>1, <1>2, OpensCardWork

\* enqueue() drops nobody.
LEMMA EnqueuedKeeps ==
  ASSUME NEW line \in Seq(Agents), NEW S \in SUBSET Agents, NEW spent,
         NEW e \in Enqueued(S, line, spent)
  PROVE  ToSet(line) \subseteq ToSet(e[1])
<1> DEFINE fresh == S \ ToSet(line)
<1>1. CASE fresh = {} \/ spent >= MaxHops
  BY <1>1 DEF Enqueued
<1>2. CASE ~(fresh = {} \/ spent >= MaxHops)
  <2>1. PICK o \in Orders(fresh) :
          e = <<IF resume THEN o \o line ELSE line \o o, spent + Cardinality(fresh)>>
    BY <1>2 DEF Enqueued
  <2>2. o \in Seq(Agents)
    BY OrdersLine
  <2>3. e[1] = o \o line \/ e[1] = line \o o
    BY <2>1
  <2> QED
    BY <2>2, <2>3, LongerSet
<1> QED
  BY <1>1, <1>2

LEMMA TailSuperviseWork == ASSUME LinesInv, WorkInv, TailSupervise PROVE WorkInv' /\ WorkMayGo
<1>1. proposed \subseteq Hop /\ budget \in Nat /\ active \subseteq Agents
  BY DEF LinesInv, TypeOK, RoomTyped, TaskTyped
<1>2. Escapes \in SUBSET Agents
  BY <1>1 DEF Escapes
<1>3. Targets(HatSwitches) \in SUBSET Agents /\ Targets(Between) \in SUBSET Agents
      /\ Between \in SUBSET Hop
  BY <1>1 DEF Targets, HatSwitches, Between, Unrefused, Hop
<1> DEFINE Ends(second) ==
       IF Reviewed
       THEN OpensCard(Between, second[1], "supervisor")
       ELSE \E third \in Enqueued(Targets(Between), second[1], second[2]) :
              /\ queue' = third[1] /\ pc' = "drain"
              /\ ForgetTask /\ UNCHANGED <<pr, cards>>
<1>4. \E first \in Enqueued(Escapes, Line, budget) :
      \E second \in Enqueued(Targets(HatSwitches), first[1], first[2]) : Ends(second)
  BY DEF TailSupervise
<1>5. PICK first \in Enqueued(Escapes, Line, budget) :
      \E second \in Enqueued(Targets(HatSwitches), first[1], first[2]) : Ends(second)
  BY <1>4
<1>6. PICK second \in Enqueued(Targets(HatSwitches), first[1], first[2]) : Ends(second)
  BY <1>5
<1>7. /\ first[1] \in Seq(Agents) /\ IsInjective(first[1]) /\ first[2] \in Nat
      /\ ToSet(Line) \subseteq ToSet(first[1])
  BY <1>1, <1>2, LineIsLine, EnqueuedLine, EnqueuedKeeps
<1>8. /\ second[1] \in Seq(Agents) /\ IsInjective(second[1]) /\ second[2] \in Nat
      /\ ToSet(first[1]) \subseteq ToSet(second[1])
  BY <1>3, <1>7, EnqueuedLine, EnqueuedKeeps
<1>9. pq' = pq
  BY DEF TailSupervise
<1>10. CASE Reviewed
  <2>1. OpensCard(Between, second[1], "supervisor")
    BY <1>6, <1>10
  <2>2. ToSet(Line) \subseteq ToSet(second[1])
    BY <1>7, <1>8
  <2> QED
    BY <1>3, <1>8, <1>9, <2>1, <2>2, OpensCardWork
<1>11. CASE ~Reviewed
  <2>1. PICK third \in Enqueued(Targets(Between), second[1], second[2]) :
              /\ queue' = third[1] /\ pc' = "drain"
              /\ ForgetTask /\ UNCHANGED <<pr, cards>>
    BY <1>6, <1>11
  <2>2. ToSet(second[1]) \subseteq ToSet(third[1])
    BY <1>3, <1>8, EnqueuedKeeps
  <2>3. ToSet(Line) \subseteq ToSet(queue')
    BY <1>7, <1>8, <2>1, <2>2
  <2>4. kept' = <<>> /\ resume' = FALSE
    BY <2>1 DEF ForgetTask
  <2>5. WorkInv'
    BY <2>1, <2>4 DEF WorkInv
  <2>6. Stays(Line)
    BY <2>3, InQueue
  <2> QED
    BY <1>9, <2>1, <2>5, <2>6, LineIsAll, PausesStay, AllStay DEF WorkMayGo
<1> QED
  BY <1>10, <1>11

LEMMA StepWork == LinesInv /\ WorkInv /\ [Next]_vars => WorkInv' /\ WorkMayGo
<1> SUFFICES ASSUME LinesInv, WorkInv, [Next]_vars PROVE WorkInv' /\ WorkMayGo
  OBVIOUS
<1>1. CASE Room
  BY <1>1, TakeWork, StartWaveWork, EndDrainWork, QuietWork, PostResultWork, TailAskWork,
     TailOnWork, TailCardWork, TailSuperviseWork DEF Room, WaveTail
<1>2. CASE Outside \/ \E c \in deciding : SupervisorDone(c)
  BY <1>2, OutsideWork
<1>3. CASE UNCHANGED vars
  <2>1. UNCHANGED <<pc, queue, kept, resume, pq, pr, cards>>
    BY <1>3 DEF vars, roomVars, taskVars, noteVars
  <2>2. WorkInv'
    BY <2>1 DEF WorkInv
  <2> QED
    BY <2>1, <2>2, LeftAlone DEF WorkMayGo
<1> QED
  BY <1>1, <1>2, <1>3 DEF Next

\* An agent that waits for its turn, in line, behind an answer or held by a pause,
\* is launched or goes on waiting: no answer, cancel, decision, refusal or
\* cascade forgets it.  Only Stop drops it, or a second pause opened over the
\* first (room-routing.ts, room-core.ts: the held queues).
THEOREM RoomWorkKept == Spec => WorkKept
<1>1. Init => WorkInv
  BY InitWork
<1>2. LinesInv /\ WorkInv /\ [Next]_vars => WorkInv'
  BY StepWork
<1>3. LinesInv /\ WorkInv /\ [Next]_vars
        => [Owed \subseteq Owed' \cup Range(wave') \/ aborted' \/ PauseReplaced]_vars
  BY StepWork DEF WorkMayGo, WorkStays
<1> QED
  BY <1>1, <1>2, <1>3, LinesInvariant, PTL DEF Spec, WorkKept
=============================================================================
