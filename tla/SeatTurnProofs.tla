--------------------------- MODULE SeatTurnProofs ---------------------------
(***************************************************************************)
(* For any number of agents and seats, any number of checkpoints and any   *)
(* number of waves and Stops: the hats of a seat speak one at a time, Stop *)
(* is honoured wherever it finds an agent, a turn has a bounded number of  *)
(* prompts, and the seat is a pool of one.                                 *)
(*                                                                         *)
(* The heart of the argument is InLine: the chain of a seat holds exactly  *)
(* the hats that wait for it or speak, once each.  StopHonoured needs that *)
(* in a stopped room every agent between the lock and the end of its turn  *)
(* carries the flag (Flagged): the flag is cleared only where `aborted`    *)
(* was just seen to be down, or where the agent is past speaking.          *)
(***************************************************************************)
EXTENDS SeatTurn, FiniteSetTheorems, TLAPS

Phases == {"off", "snap", "lock", "seat", "gen", "after"}

SeatTyped ==
  /\ phase \in [Hats -> Phases]
  /\ flag \in [Hats -> BOOLEAN]
  /\ aborted \in BOOLEAN
  /\ line \in [Seats -> Seq(Hats)]
  /\ worn \in [Seats -> Hats]
  /\ breached \in [Hats -> BOOLEAN]
  /\ issued \in [Hats -> Nat]
  /\ prompts \in [Hats -> Nat]

\* The hats in the line of a seat are its own, wait or speak, and stand there
\* once; who waits or speaks is in line; who speaks is at its head.
InLine ==
  /\ \A s \in Seats : \A i \in DOMAIN line[s] :
       SeatOf[line[s][i]] = s /\ phase[line[s][i]] \in {"seat", "gen"}
  /\ \A s \in Seats : \A i, j \in DOMAIN line[s] : line[s][i] = line[s][j] => i = j
  /\ \A h \in Hats : phase[h] \in {"seat", "gen"} =>
       \E i \in DOMAIN line[SeatOf[h]] : line[SeatOf[h]][i] = h
  /\ \A h \in Hats : phase[h] = "gen" => Head(line[SeatOf[h]]) = h

Wearing == \A h \in Hats : phase[h] = "gen" => worn[SeatOf[h]] = h

\* A stopped room's agents know it.
Flagged == aborted => \A h \in Hats : phase[h] \in {"seat", "gen"} => flag[h]

\* One prompt to start with and one per checkpoint.
Counted == \A h \in Hats : prompts[h] <= issued[h] + 1 /\ issued[h] <= MaxContinues + 1

SeatInv == SeatTyped /\ InLine /\ Wearing /\ Flagged /\ Counted

USE HatsAssumption, ContinuesAssumption

LEMMA InitInv == Init => SeatInv
<1> SUFFICES ASSUME Init PROVE SeatInv
  OBVIOUS
<1>1. SeatTyped
  <2>1. phase \in [Hats -> Phases] /\ aborted \in BOOLEAN
    BY DEF Init, Phases
  <2>2. flag \in [Hats -> BOOLEAN] /\ breached \in [Hats -> BOOLEAN]
    BY DEF Init
  <2>3. issued \in [Hats -> Nat] /\ prompts \in [Hats -> Nat]
    BY DEF Init
  <2>4. line \in [Seats -> Seq(Hats)]
    BY DEF Init
  <2>5. worn \in [Seats -> Hats]
    BY DEF Init
  <2> QED
    BY <2>1, <2>2, <2>3, <2>4, <2>5 DEF SeatTyped
<1>2. InLine
  BY DEF Init, InLine
<1>3. Wearing /\ Flagged
  BY DEF Init, Wearing, Flagged
<1>4. Counted
  BY DEF Init, Counted
<1> QED
  BY <1>1, <1>2, <1>3, <1>4 DEF SeatInv

(* ---- what the steps do to the line --------------------------------------- *)

\* One more at the end of a sequence.
LEMMA AppendFacts ==
  ASSUME NEW S, NEW q \in Seq(S), NEW e \in S
  PROVE  /\ Append(q, e) \in Seq(S)
         /\ Len(q) + 1 \in DOMAIN Append(q, e) /\ Append(q, e)[Len(q) + 1] = e
         /\ \A i \in DOMAIN q : i \in DOMAIN Append(q, e) /\ Append(q, e)[i] = q[i]
         /\ \A i \in DOMAIN Append(q, e) : i \in DOMAIN q \/ i = Len(q) + 1
         /\ q # <<>> => Head(Append(q, e)) = Head(q)
OBVIOUS

\* The first taken off a sequence.
LEMMA TailFacts ==
  ASSUME NEW S, NEW q \in Seq(S), q # <<>>
  PROVE  /\ Tail(q) \in Seq(S)
         /\ 1 \in DOMAIN q /\ Head(q) = q[1]
         /\ \A i \in DOMAIN Tail(q) : i \in Nat /\ i + 1 # 1 /\ i + 1 \in DOMAIN q /\ Tail(q)[i] = q[i + 1]
         /\ \A i \in DOMAIN q : i # 1 => i - 1 \in DOMAIN Tail(q) /\ Tail(q)[i - 1] = q[i]
OBVIOUS

\* Joining the end of a line of others.
LEMMA Joins ==
  ASSUME SeatInv, NEW h \in Hats, phase[h] \notin {"seat", "gen"},
         phase' = [phase EXCEPT ![h] = "seat"],
         line' = [line EXCEPT ![SeatOf[h]] = Append(@, h)]
  PROVE  line' \in [Seats -> Seq(Hats)] /\ InLine'
<1> DEFINE t == SeatOf[h]
           q == line[t]
           r == Append(q, h)
<1>1. t \in Seats /\ q \in Seq(Hats)
  BY DEF SeatInv, SeatTyped
<1>2. /\ r \in Seq(Hats)
      /\ Len(q) + 1 \in DOMAIN r /\ r[Len(q) + 1] = h
      /\ \A i \in DOMAIN q : i \in DOMAIN r /\ r[i] = q[i]
      /\ \A i \in DOMAIN r : i \in DOMAIN q \/ i = Len(q) + 1
      /\ q # <<>> => Head(r) = Head(q)
  BY <1>1, AppendFacts
<1>3. /\ line' \in [Seats -> Seq(Hats)]
      /\ line'[t] = r
      /\ \A s \in Seats : s # t => line'[s] = line[s]
  BY <1>1, <1>2 DEF SeatInv, SeatTyped
<1>4. /\ phase'[h] = "seat"
      /\ \A g \in Hats : g # h => phase'[g] = phase[g]
  BY DEF SeatInv, SeatTyped
<1>5. \A s \in Seats : \A i \in DOMAIN line[s] : line[s][i] \in Hats /\ line[s][i] # h
  <2> SUFFICES ASSUME NEW s \in Seats, NEW i \in DOMAIN line[s]
               PROVE  line[s][i] \in Hats /\ line[s][i] # h
    OBVIOUS
  <2>1. line[s] \in Seq(Hats)
    BY DEF SeatInv, SeatTyped
  <2>2. phase[line[s][i]] \in {"seat", "gen"}
    BY DEF SeatInv, InLine
  <2> QED
    BY <2>1, <2>2
<1> HIDE DEF r, q
<1>6. \A s \in Seats : \A i \in DOMAIN line'[s] :
        SeatOf[line'[s][i]] = s /\ phase'[line'[s][i]] \in {"seat", "gen"}
  <2> SUFFICES ASSUME NEW s \in Seats, NEW i \in DOMAIN line'[s]
               PROVE  SeatOf[line'[s][i]] = s /\ phase'[line'[s][i]] \in {"seat", "gen"}
    OBVIOUS
  <2>1. \A k \in DOMAIN line[s] :
          SeatOf[line[s][k]] = s /\ phase'[line[s][k]] \in {"seat", "gen"}
    BY <1>4, <1>5 DEF SeatInv, InLine
  <2>2. CASE s = t /\ i = Len(q) + 1
    BY <2>2, <1>2, <1>3, <1>4
  <2>3. CASE s = t /\ i # Len(q) + 1
    BY <2>1, <2>3, <1>2, <1>3 DEF q
  <2>4. CASE s # t
    BY <2>1, <2>4, <1>3
  <2> QED
    BY <2>2, <2>3, <2>4
<1>7. \A s \in Seats : \A i, j \in DOMAIN line'[s] : line'[s][i] = line'[s][j] => i = j
  <2>1. \A i \in DOMAIN q : q[i] # h
    BY <1>1, <1>5 DEF q
  <2>2. \A i, j \in DOMAIN q : q[i] = q[j] => i = j
    BY <1>1 DEF q, SeatInv, InLine
  <2>3. \A i, j \in DOMAIN r : r[i] = r[j] => i = j
    BY <2>1, <2>2, <1>2
  <2>4. \A s \in Seats : s # t => \A i, j \in DOMAIN line'[s] : line'[s][i] = line'[s][j] => i = j
    BY <1>3 DEF SeatInv, InLine
  <2> QED
    BY <2>3, <2>4, <1>3
<1>8. \A g \in Hats : phase'[g] \in {"seat", "gen"} =>
        \E i \in DOMAIN line'[SeatOf[g]] : line'[SeatOf[g]][i] = g
  <2> SUFFICES ASSUME NEW g \in Hats, phase'[g] \in {"seat", "gen"}
               PROVE  \E i \in DOMAIN line'[SeatOf[g]] : line'[SeatOf[g]][i] = g
    OBVIOUS
  <2>1. CASE g = h
    BY <2>1, <1>2, <1>3
  <2>2. CASE g # h
    <3>1. PICK i \in DOMAIN line[SeatOf[g]] : line[SeatOf[g]][i] = g
      BY <2>2, <1>4 DEF SeatInv, InLine
    <3>2. CASE SeatOf[g] = t
      BY <3>1, <3>2, <1>2, <1>3 DEF q
    <3>3. CASE SeatOf[g] # t
      <4>1. line'[SeatOf[g]] = line[SeatOf[g]]
        BY <3>3, <1>3
      <4> QED
        BY <3>1, <4>1
    <3> QED
      BY <3>2, <3>3
  <2> QED
    BY <2>1, <2>2
<1>9. \A g \in Hats : phase'[g] = "gen" => Head(line'[SeatOf[g]]) = g
  <2> SUFFICES ASSUME NEW g \in Hats, phase'[g] = "gen" PROVE Head(line'[SeatOf[g]]) = g
    OBVIOUS
  <2>1. g # h /\ phase[g] = "gen"
    BY <1>4
  <2>2. PICK i \in DOMAIN line[SeatOf[g]] : line[SeatOf[g]][i] = g
    BY <2>1 DEF SeatInv, InLine
  <2>3. Head(line[SeatOf[g]]) = g
    BY <2>1 DEF SeatInv, InLine
  <2>4. CASE SeatOf[g] = t
    <3>1. q # <<>>
      BY <2>2, <2>4 DEF q
    <3> QED
      BY <3>1, <2>3, <2>4, <1>2, <1>3 DEF q
  <2>5. CASE SeatOf[g] # t
    <3>1. line'[SeatOf[g]] = line[SeatOf[g]]
      BY <2>5, <1>3
    <3> QED
      BY <2>3, <3>1
  <2> QED
    BY <2>4, <2>5
<1> QED
  BY <1>3, <1>6, <1>7, <1>8, <1>9 DEF InLine

\* Leaving from the head of the line.
LEMMA Leaves ==
  ASSUME SeatInv, NEW h \in Hats, phase[h] \in {"seat", "gen"}, Head(line[SeatOf[h]]) = h,
         phase' = [phase EXCEPT ![h] = "after"],
         line' = [line EXCEPT ![SeatOf[h]] = Tail(@)]
  PROVE  line' \in [Seats -> Seq(Hats)] /\ InLine'
<1> DEFINE t == SeatOf[h]
           q == line[t]
           r == Tail(q)
<1>1. t \in Seats /\ q \in Seq(Hats)
  BY DEF SeatInv, SeatTyped
<1>2. PICK k \in DOMAIN q : q[k] = h
  BY DEF SeatInv, InLine
<1>3. q # <<>>
  BY <1>2
<1>4. /\ r \in Seq(Hats)
      /\ 1 \in DOMAIN q /\ Head(q) = q[1]
      /\ \A i \in DOMAIN r : i \in Nat /\ i + 1 # 1 /\ i + 1 \in DOMAIN q /\ r[i] = q[i + 1]
      /\ \A i \in DOMAIN q : i # 1 => i - 1 \in DOMAIN r /\ r[i - 1] = q[i]
  BY <1>1, <1>3, TailFacts
<1>5. /\ line' \in [Seats -> Seq(Hats)]
      /\ line'[t] = r
      /\ \A s \in Seats : s # t => line'[s] = line[s]
  BY <1>1, <1>4 DEF SeatInv, SeatTyped
<1>6. /\ phase'[h] = "after"
      /\ \A g \in Hats : g # h => phase'[g] = phase[g]
  BY DEF SeatInv, SeatTyped
<1>7. q[1] = h
  BY <1>4
<1>8. \A i, j \in DOMAIN q : q[i] = q[j] => i = j
  BY <1>1 DEF SeatInv, InLine
<1>9. \A i \in DOMAIN r : r[i] # h
  <2> HIDE DEF r, q
  <2> QED
    BY <1>4, <1>7, <1>8
<1>10. \A s \in Seats : \A i \in DOMAIN line[s] : line[s][i] \in Hats
  BY DEF SeatInv, SeatTyped
<1> HIDE DEF r, q
<1>11. \A s \in Seats : \A i \in DOMAIN line'[s] :
         SeatOf[line'[s][i]] = s /\ phase'[line'[s][i]] \in {"seat", "gen"}
  <2> SUFFICES ASSUME NEW s \in Seats, NEW i \in DOMAIN line'[s]
               PROVE  SeatOf[line'[s][i]] = s /\ phase'[line'[s][i]] \in {"seat", "gen"}
    OBVIOUS
  <2>1. \A j \in DOMAIN line[s] : line[s][j] # h =>
          SeatOf[line[s][j]] = s /\ phase'[line[s][j]] \in {"seat", "gen"}
    BY <1>6, <1>10 DEF SeatInv, InLine
  <2>2. CASE s = t
    <3>1. i \in DOMAIN r /\ line'[s][i] = r[i]
      BY <2>2, <1>5
    <3>2. i + 1 \in DOMAIN q /\ r[i] = q[i + 1] /\ r[i] # h
      BY <3>1, <1>4, <1>9
    <3> QED
      BY <2>1, <2>2, <3>1, <3>2 DEF q
  <2>3. CASE s # t
    <3>1. line'[s] = line[s] /\ SeatOf[line[s][i]] = s
      BY <2>3, <1>5 DEF SeatInv, InLine
    <3>2. line[s][i] # h
      BY <2>3, <3>1
    <3> QED
      BY <2>1, <3>1, <3>2
  <2> QED
    BY <2>2, <2>3
<1>12. \A s \in Seats : \A i, j \in DOMAIN line'[s] : line'[s][i] = line'[s][j] => i = j
  <2>1. \A i, j \in DOMAIN r : r[i] = r[j] => i = j
    <3> SUFFICES ASSUME NEW i \in DOMAIN r, NEW j \in DOMAIN r, r[i] = r[j] PROVE i = j
      OBVIOUS
    <3>1. i \in Nat /\ j \in Nat /\ i + 1 = j + 1
      BY <1>4, <1>8
    <3> QED
      BY <3>1
  <2>2. \A s \in Seats : s # t => \A i, j \in DOMAIN line'[s] : line'[s][i] = line'[s][j] => i = j
    BY <1>5 DEF SeatInv, InLine
  <2> QED
    BY <2>1, <2>2, <1>5
<1>13. \A g \in Hats : phase'[g] \in {"seat", "gen"} =>
         \E i \in DOMAIN line'[SeatOf[g]] : line'[SeatOf[g]][i] = g
  <2> SUFFICES ASSUME NEW g \in Hats, phase'[g] \in {"seat", "gen"}
               PROVE  \E i \in DOMAIN line'[SeatOf[g]] : line'[SeatOf[g]][i] = g
    OBVIOUS
  <2>1. g # h /\ phase[g] \in {"seat", "gen"}
    BY <1>6
  <2>2. PICK i \in DOMAIN line[SeatOf[g]] : line[SeatOf[g]][i] = g
    BY <2>1 DEF SeatInv, InLine
  <2>3. CASE SeatOf[g] = t
    <3>1. i \in DOMAIN q /\ q[i] = g /\ i # 1
      BY <2>1, <2>2, <2>3, <1>7 DEF q
    <3>2. i - 1 \in DOMAIN r /\ r[i - 1] = g
      BY <3>1, <1>4
    <3> QED
      BY <3>2, <2>3, <1>5
  <2>4. CASE SeatOf[g] # t
    <3>1. line'[SeatOf[g]] = line[SeatOf[g]]
      BY <2>4, <1>5
    <3> QED
      BY <2>2, <3>1
  <2> QED
    BY <2>3, <2>4
<1>14. \A g \in Hats : phase'[g] = "gen" => Head(line'[SeatOf[g]]) = g
  <2> SUFFICES ASSUME NEW g \in Hats, phase'[g] = "gen" PROVE Head(line'[SeatOf[g]]) = g
    OBVIOUS
  <2>1. g # h /\ phase[g] = "gen"
    BY <1>6
  <2>2. Head(line[SeatOf[g]]) = g
    BY <2>1 DEF SeatInv, InLine
  <2>3. SeatOf[g] # t
    BY <2>1, <2>2
  <2>4. line'[SeatOf[g]] = line[SeatOf[g]]
    BY <2>3, <1>5
  <2> QED
    BY <2>2, <2>4
<1> QED
  BY <1>5, <1>11, <1>12, <1>13, <1>14 DEF InLine

\* The line stays, and so does who waits or speaks.
LEMMA Stays ==
  ASSUME SeatInv, UNCHANGED line, phase' \in [Hats -> Phases],
         \A h \in Hats : phase[h] \in {"seat", "gen"} <=> phase'[h] \in {"seat", "gen"},
         \A h \in Hats : phase'[h] = "gen" => Head(line[SeatOf[h]]) = h
  PROVE  line' \in [Seats -> Seq(Hats)] /\ InLine'
<1>1. \A s \in Seats : \A i \in DOMAIN line[s] : line[s][i] \in Hats
  BY DEF SeatInv, SeatTyped
<1> QED
  BY <1>1 DEF SeatInv, SeatTyped, InLine

(* ---- the steps ------------------------------------------------------------ *)

LEMMA LaunchInv == ASSUME SeatInv, NEW wave \in SUBSET Hats, Launch(wave) PROVE SeatInv'
<1>1. \A h \in Hats : phase[h] = "off" /\ phase'[h] \in {"off", "snap"}
  BY DEF Launch
<1>2. phase' \in [Hats -> Phases]
  BY DEF Launch, Phases
<1>3. line' \in [Seats -> Seq(Hats)] /\ InLine'
  BY <1>1, <1>2, Stays DEF Launch
<1>4. SeatTyped'
  BY <1>2, <1>3 DEF Launch, SeatInv, SeatTyped, budgetVars
<1>5. Wearing' /\ Flagged'
  BY <1>1 DEF Launch, Wearing, Flagged
<1>6. Counted'
  BY DEF Launch, SeatInv, Counted, budgetVars
<1> QED
  BY <1>3, <1>4, <1>5, <1>6 DEF SeatInv

LEMMA StopInv == ASSUME SeatInv, Stop PROVE SeatInv'
<1>1. SeatTyped'
  <2>1. flag' \in [Hats -> BOOLEAN]
    BY DEF Stop, SeatInv, SeatTyped
  <2> QED
    BY <2>1 DEF Stop, SeatInv, SeatTyped, budgetVars
<1>2. InLine'
  BY DEF Stop, SeatInv, InLine
<1>3. Wearing'
  BY DEF Stop, SeatInv, Wearing
<1>4. Flagged'
  <2>1. \A h \in Hats : phase[h] \in {"seat", "gen"} => flag'[h]
    BY DEF Stop, Running
  <2> QED
    BY <2>1 DEF Stop, Flagged
<1>5. Counted'
  BY DEF Stop, SeatInv, Counted, budgetVars
<1> QED
  BY <1>1, <1>2, <1>3, <1>4, <1>5 DEF SeatInv

\* An agent enters: it joins its seat's line, or is turned away.
LEMMA EntersInv ==
  ASSUME SeatInv, NEW h \in Hats, phase[h] \in {"snap", "lock"}, Enters(h),
         UNCHANGED <<flag, aborted, worn, budgetVars>>
  PROVE  SeatInv'
<1>1. /\ phase' \in [Hats -> Phases]
      /\ \A g \in Hats : phase'[g] = "gen" => g # h /\ phase[g] = "gen"
      /\ \A g \in Hats : g # h => phase'[g] = phase[g]
  BY DEF Enters, SeatInv, SeatTyped, Phases
<1>2. line' \in [Seats -> Seq(Hats)] /\ InLine'
  <2>1. CASE aborted
    <3>1. phase'[h] = "off"
      BY <2>1 DEF Enters, SeatInv, SeatTyped
    <3>2. \A g \in Hats : phase[g] = "gen" => Head(line[SeatOf[g]]) = g
      BY DEF SeatInv, InLine
    <3> QED
      BY <2>1, <3>1, <3>2, <1>1, Stays DEF Enters
  <2>2. CASE ~aborted
    BY <2>2, Joins DEF Enters
  <2> QED
    BY <2>1, <2>2
<1>3. SeatTyped'
  BY <1>1, <1>2 DEF SeatInv, SeatTyped, budgetVars
<1>4. Wearing'
  BY <1>1 DEF SeatInv, Wearing
<1>5. Flagged'
  <2> SUFFICES ASSUME aborted PROVE \A g \in Hats : phase'[g] \in {"seat", "gen"} => flag[g]
    BY DEF Flagged
  <2>1. phase'[h] = "off"
    BY DEF Enters, SeatInv, SeatTyped
  <2> QED
    BY <2>1, <1>1 DEF SeatInv, Flagged
<1>6. Counted'
  BY DEF SeatInv, Counted, budgetVars
<1> QED
  BY <1>2, <1>3, <1>4, <1>5, <1>6 DEF SeatInv

LEMMA SnappedInv == ASSUME SeatInv, NEW h \in Hats, Snapped(h) PROVE SeatInv'
<1>1. CASE h \in Local
  <2>1. /\ phase' \in [Hats -> Phases]
        /\ phase[h] = "snap" /\ phase'[h] = "lock"
        /\ \A g \in Hats : g # h => phase'[g] = phase[g]
    BY <1>1 DEF Snapped, SeatInv, SeatTyped, Phases
  <2>2. UNCHANGED <<flag, aborted, line, worn, breached, issued, prompts>>
    BY <1>1 DEF Snapped, budgetVars
  <2>3. line' \in [Seats -> Seq(Hats)] /\ InLine'
    <3>1. \A g \in Hats : phase[g] = "gen" => Head(line[SeatOf[g]]) = g
      BY DEF SeatInv, InLine
    <3> QED
      BY <2>1, <2>2, <3>1, Stays
  <2>4. SeatTyped'
    BY <2>1, <2>2 DEF SeatInv, SeatTyped
  <2>5. Wearing'
    BY <2>1, <2>2 DEF SeatInv, Wearing
  <2>6. Flagged'
    BY <2>1, <2>2 DEF SeatInv, Flagged
  <2>7. Counted'
    BY <2>2 DEF SeatInv, Counted
  <2> QED
    BY <2>3, <2>4, <2>5, <2>6, <2>7 DEF SeatInv
<1>2. CASE h \notin Local
  BY <1>2, EntersInv DEF Snapped
<1> QED
  BY <1>1, <1>2

LEMMA GetsSlotInv == ASSUME SeatInv, NEW h \in Hats, GetsSlot(h) PROVE SeatInv'
BY EntersInv DEF GetsSlot

\* The end of a turn, spoken or not: the head of the line leaves it.
LEMMA EndsInv ==
  ASSUME SeatInv, NEW h \in Hats, phase[h] \in {"seat", "gen"}, Head(line[SeatOf[h]]) = h,
         Ends(h), UNCHANGED <<aborted, budgetVars>>,
         worn' \in [Seats -> Hats],
         \A g \in Hats : g # h /\ phase[g] = "gen" => worn'[SeatOf[g]] = g
  PROVE  SeatInv'
<1>1. /\ phase' \in [Hats -> Phases]
      /\ phase'[h] = "after"
      /\ \A g \in Hats : g # h => phase'[g] = phase[g]
  BY DEF Ends, SeatInv, SeatTyped, Phases
<1>2. /\ flag' \in [Hats -> BOOLEAN]
      /\ \A g \in Hats : g # h => flag'[g] = flag[g]
  BY DEF Ends, SeatInv, SeatTyped
<1>3. line' \in [Seats -> Seq(Hats)] /\ InLine'
  BY Leaves DEF Ends
<1>4. SeatTyped'
  BY <1>1, <1>2, <1>3 DEF SeatInv, SeatTyped, budgetVars
<1>5. Wearing'
  BY <1>1 DEF Wearing
<1>6. Flagged'
  BY <1>1, <1>2 DEF SeatInv, Flagged
<1>7. Counted'
  BY DEF SeatInv, Counted, budgetVars
<1> QED
  BY <1>3, <1>4, <1>5, <1>6, <1>7 DEF SeatInv

LEMMA TakesSeatInv == ASSUME SeatInv, NEW h \in Hats, TakesSeat(h) PROVE SeatInv'
<1>1. phase[h] = "seat" /\ Head(line[SeatOf[h]]) = h
  BY DEF TakesSeat, MayTakeSeat
<1>2. SeatOf[h] \in Seats /\ worn \in [Seats -> Hats]
  BY DEF SeatInv, SeatTyped
<1>3. /\ worn' \in [Seats -> Hats]
      /\ worn'[SeatOf[h]] = h
      /\ \A s \in Seats : s # SeatOf[h] => worn'[s] = worn[s]
  BY <1>2 DEF TakesSeat, Wears
<1>4. \A g \in Hats : phase[g] = "gen" => g # h /\ SeatOf[g] # SeatOf[h]
  BY <1>1 DEF SeatInv, InLine
<1>5. \A g \in Hats : phase[g] = "gen" => worn'[SeatOf[g]] = g
  BY <1>3, <1>4 DEF SeatInv, SeatTyped, Wearing
<1>6. CASE flag[h]
  BY <1>1, <1>3, <1>5, <1>6, EndsInv DEF TakesSeat
<1>7. CASE ~flag[h]
  <2>1. Starts(h) /\ UNCHANGED aborted
    BY <1>7 DEF TakesSeat
  <2>2. ~aborted
    BY <1>1, <1>7 DEF SeatInv, Flagged
  <2>3. /\ phase' \in [Hats -> Phases]
        /\ phase'[h] = "gen"
        /\ \A g \in Hats : g # h => phase'[g] = phase[g]
    BY <2>1 DEF Starts, SeatInv, SeatTyped, Phases
  <2>4. line' \in [Seats -> Seq(Hats)] /\ InLine'
    <3>1. \A g \in Hats : phase'[g] = "gen" => Head(line[SeatOf[g]]) = g
      BY <2>3, <1>1 DEF SeatInv, InLine
    <3> QED
      BY <2>1, <2>3, <3>1, <1>1, Stays DEF Starts
  <2>5. SeatTyped'
    <3>1. flag' \in [Hats -> BOOLEAN] /\ breached' \in [Hats -> BOOLEAN]
      BY <2>1 DEF Starts, SeatInv, SeatTyped
    <3>2. issued' \in [Hats -> Nat] /\ prompts' \in [Hats -> Nat]
      BY <2>1 DEF Starts, SeatInv, SeatTyped
    <3> QED
      BY <3>1, <3>2, <2>1, <2>3, <2>4, <1>3 DEF SeatInv, SeatTyped
  <2>6. Wearing'
    BY <2>3, <1>3, <1>5 DEF Wearing
  <2>7. Flagged'
    BY <2>1, <2>2 DEF Flagged
  <2>8. Counted'
    <3>1. /\ issued'[h] = 0 /\ prompts'[h] = 1
          /\ \A g \in Hats : g # h => issued'[g] = issued[g] /\ prompts'[g] = prompts[g]
      BY <2>1 DEF Starts, SeatInv, SeatTyped
    <3>2. \A g \in Hats : g # h => prompts'[g] <= issued'[g] + 1 /\ issued'[g] <= MaxContinues + 1
      BY <3>1 DEF SeatInv, Counted
    <3>3. prompts'[h] <= issued'[h] + 1 /\ issued'[h] <= MaxContinues + 1
      BY <3>1
    <3> QED
      BY <3>2, <3>3 DEF Counted
  <2> QED
    BY <2>4, <2>5, <2>6, <2>7, <2>8 DEF SeatInv
<1> QED
  BY <1>6, <1>7

LEMMA BreachesInv == ASSUME SeatInv, NEW h \in Hats, Breaches(h) PROVE SeatInv'
<1>1. breached' \in [Hats -> BOOLEAN]
  BY DEF Breaches, SeatInv, SeatTyped
<1>2. UNCHANGED <<phase, flag, aborted, line, worn, issued, prompts>>
  BY DEF Breaches, turnVars
<1> QED
  BY <1>1, <1>2 DEF SeatInv, SeatTyped, InLine, Wearing, Flagged, Counted

LEMMA CheckpointInv ==
  ASSUME SeatInv, NEW h \in Hats, Checkpoint(h), UNCHANGED <<aborted, worn>>
  PROVE  SeatInv'
<1>1. UNCHANGED <<phase, flag, aborted, line, worn>>
  BY DEF Checkpoint
<1>2. breached' \in [Hats -> BOOLEAN]
  BY DEF Checkpoint, SeatInv, SeatTyped
<1>3. issued' \in [Hats -> Nat] /\ prompts' \in [Hats -> Nat]
  BY DEF Checkpoint, SeatInv, SeatTyped
<1>4. Counted'
  <2>1. /\ issued'[h] = issued[h] + 1 /\ prompts'[h] = prompts[h] + 1
        /\ \A g \in Hats : g # h => issued'[g] = issued[g] /\ prompts'[g] = prompts[g]
    BY DEF Checkpoint, SeatInv, SeatTyped
  <2>2. \A g \in Hats : g # h => prompts'[g] <= issued'[g] + 1 /\ issued'[g] <= MaxContinues + 1
    BY <2>1 DEF SeatInv, Counted
  <2>3. /\ issued[h] \in Nat /\ prompts[h] \in Nat
        /\ issued[h] <= MaxContinues /\ prompts[h] <= issued[h] + 1
    BY DEF Checkpoint, SeatInv, SeatTyped, Counted
  <2>4. prompts'[h] <= issued'[h] + 1 /\ issued'[h] <= MaxContinues + 1
    BY <2>1, <2>3
  <2> QED
    BY <2>2, <2>4 DEF Counted
<1> QED
  BY <1>1, <1>2, <1>3, <1>4 DEF SeatInv, SeatTyped, InLine, Wearing, Flagged

LEMMA RoundEndsInv == ASSUME SeatInv, NEW h \in Hats, RoundEnds(h) PROVE SeatInv'
<1>1. phase[h] = "gen" /\ UNCHANGED <<aborted, worn>>
  BY DEF RoundEnds
<1>2. CASE Ends(h) /\ UNCHANGED budgetVars
  <2>1. Head(line[SeatOf[h]]) = h
    BY <1>1 DEF SeatInv, InLine
  <2>2. worn' \in [Seats -> Hats] /\ \A g \in Hats : g # h /\ phase[g] = "gen" => worn'[SeatOf[g]] = g
    BY <1>1 DEF SeatInv, SeatTyped, Wearing
  <2> QED
    BY <2>1, <2>2, <1>1, <1>2, EndsInv
<1>3. CASE Checkpoint(h)
  BY <1>1, <1>3, CheckpointInv
<1> QED
  BY <1>2, <1>3 DEF RoundEnds

LEMMA FinishesInv == ASSUME SeatInv, NEW h \in Hats, Finishes(h) PROVE SeatInv'
<1>1. /\ phase' \in [Hats -> Phases]
      /\ phase[h] = "after" /\ phase'[h] = "off"
      /\ \A g \in Hats : g # h => phase'[g] = phase[g]
  BY DEF Finishes, SeatInv, SeatTyped, Phases
<1>2. UNCHANGED <<flag, aborted, line, worn, breached, issued, prompts>>
  BY DEF Finishes, budgetVars
<1>3. line' \in [Seats -> Seq(Hats)] /\ InLine'
  <2>1. \A g \in Hats : phase[g] = "gen" => Head(line[SeatOf[g]]) = g
    BY DEF SeatInv, InLine
  <2> QED
    BY <1>1, <1>2, <2>1, Stays
<1>4. SeatTyped'
  BY <1>1, <1>2 DEF SeatInv, SeatTyped
<1>5. Wearing' /\ Flagged'
  BY <1>1, <1>2 DEF SeatInv, Wearing, Flagged
<1>6. Counted'
  BY <1>2 DEF SeatInv, Counted
<1> QED
  BY <1>3, <1>4, <1>5, <1>6 DEF SeatInv

LEMMA StepInv == SeatInv /\ [Next]_vars => SeatInv'
<1> SUFFICES ASSUME SeatInv, [Next]_vars PROVE SeatInv'
  OBVIOUS
<1>1. ASSUME NEW wave \in SUBSET Hats \ {{}}, Launch(wave) PROVE SeatInv'
  BY <1>1, LaunchInv
<1>2. CASE Stop
  BY <1>2, StopInv
<1>3. ASSUME NEW h \in Hats, Turn(h) PROVE SeatInv'
  BY <1>3, SnappedInv, GetsSlotInv, TakesSeatInv, RoundEndsInv, FinishesInv DEF Turn
<1>4. ASSUME NEW h \in Hats, Breaches(h) PROVE SeatInv'
  BY <1>4, BreachesInv
<1>5. CASE UNCHANGED vars
  BY <1>5 DEF vars, turnVars, budgetVars, SeatInv, SeatTyped, InLine, Wearing, Flagged, Counted
<1> QED
  BY <1>1, <1>2, <1>3, <1>4, <1>5 DEF Next

THEOREM SeatInvariant == Spec => []SeatInv
<1>1. Init => SeatInv
  BY InitInv
<1>2. SeatInv /\ [Next]_vars => SeatInv'
  BY StepInv
<1> QED
  BY <1>1, <1>2, PTL DEF Spec

(* ---- the results ---------------------------------------------------------- *)

\* Any number of hats may share a seat: one speaks at a time, in its own name.
THEOREM SeatOneVoice == Spec => []OneVoice
<1>1. SeatInv => OneVoice
  <2> SUFFICES ASSUME SeatInv, NEW h \in Hats, phase[h] = "gen"
               PROVE  /\ line[SeatOf[h]] # <<>> /\ Head(line[SeatOf[h]]) = h
                      /\ worn[SeatOf[h]] = h
                      /\ \A g \in HatsOf(SeatOf[h]) : phase[g] = "gen" => g = h
    BY DEF OneVoice
  <2>1. PICK i \in DOMAIN line[SeatOf[h]] : line[SeatOf[h]][i] = h
    BY DEF SeatInv, InLine
  <2>2. line[SeatOf[h]] # <<>>
    BY <2>1
  <2>3. Head(line[SeatOf[h]]) = h
    BY DEF SeatInv, InLine
  <2>4. worn[SeatOf[h]] = h
    BY DEF SeatInv, Wearing
  <2>5. ASSUME NEW g \in HatsOf(SeatOf[h]), phase[g] = "gen" PROVE g = h
    BY <2>3, <2>5 DEF SeatInv, InLine, HatsOf
  <2> QED
    BY <2>2, <2>3, <2>4, <2>5
<1> QED
  BY <1>1, SeatInvariant, PTL

\* However many checkpoints are configured, a turn's prompts are counted.
THEOREM SeatRoundsBounded == Spec => []RoundsBounded
<1>1. SeatInv => RoundsBounded
  BY DEF SeatInv, SeatTyped, Counted, RoundsBounded
<1> QED
  BY <1>1, SeatInvariant, PTL

\* What StopHonoured says of one agent in one step.
Prompted(h) ==
  (phase[h] # "gen" /\ phase'[h] = "gen") \/ (phase[h] = "gen" /\ prompts'[h] > prompts[h])

\* Ending a turn prompts nobody.
LEMMA EndsSilently ==
  ASSUME SeatInv, NEW h \in Hats, Ends(h), UNCHANGED budgetVars
  PROVE  \A g \in Hats : ~Prompted(g)
<1>1. \A g \in Hats : phase'[g] = "gen" => phase[g] = "gen"
  BY DEF Ends, SeatInv, SeatTyped
<1>2. \A g \in Hats : prompts[g] \in Nat /\ prompts'[g] = prompts[g]
  BY DEF budgetVars, SeatInv, SeatTyped
<1> QED
  BY <1>1, <1>2 DEF Prompted

\* A room that is stopped prompts no session, at any stage of any turn.
THEOREM SeatStopHonoured == Spec => StopHonoured
<1>1. SeatInv /\ [Next]_vars => \A h \in Hats : Prompted(h) => ~aborted
  <2> SUFFICES ASSUME SeatInv, [Next]_vars, NEW h \in Hats, Prompted(h) PROVE ~aborted
    OBVIOUS
  <2>1. \A g \in Hats : prompts[g] \in Nat
    BY DEF SeatInv, SeatTyped
  <2>2. ASSUME NEW wave \in SUBSET Hats, Launch(wave) PROVE ~aborted
    BY <2>1, <2>2 DEF Launch, Prompted, budgetVars
  <2>3. CASE Stop
    BY <2>1, <2>3 DEF Stop, Prompted, budgetVars
  <2>4. ASSUME NEW g \in Hats, Enters(g), UNCHANGED prompts PROVE ~aborted
    <3>1. phase'[h] = "gen" => phase[h] = "gen"
      BY <2>4 DEF Enters, SeatInv, SeatTyped
    <3> QED
      BY <3>1, <2>1, <2>4 DEF Prompted
  <2>5. ASSUME NEW g \in Hats, Snapped(g) PROVE ~aborted
    <3>1. CASE g \in Local
      <4>1. UNCHANGED prompts /\ phase' = [phase EXCEPT ![g] = "lock"]
        BY <2>5, <3>1 DEF Snapped, budgetVars
      <4>2. phase'[h] = "gen" => phase[h] = "gen"
        BY <4>1 DEF SeatInv, SeatTyped
      <4> QED
        BY <4>1, <4>2, <2>1 DEF Prompted
    <3>2. CASE g \notin Local
      BY <2>4, <2>5, <3>2 DEF Snapped, budgetVars
    <3> QED
      BY <3>1, <3>2
  <2>6. ASSUME NEW g \in Hats, GetsSlot(g) PROVE ~aborted
    BY <2>4, <2>6 DEF GetsSlot, budgetVars
  <2>7. ASSUME NEW g \in Hats, TakesSeat(g) PROVE ~aborted
    <3>1. CASE flag[g]
      BY <2>7, <3>1, EndsSilently DEF TakesSeat
    <3>2. CASE ~flag[g]
      BY <2>7, <3>2 DEF TakesSeat, MayTakeSeat, SeatInv, Flagged
    <3> QED
      BY <3>1, <3>2
  <2>8. ASSUME NEW g \in Hats, RoundEnds(g) PROVE ~aborted
    <3>1. CASE Ends(g) /\ UNCHANGED budgetVars
      BY <3>1, <2>8, EndsSilently
    <3>2. CASE Checkpoint(g)
      BY <2>8, <3>2 DEF RoundEnds, Checkpoint, SeatInv, Flagged
    <3> QED
      BY <3>1, <3>2, <2>8 DEF RoundEnds
  <2>9. ASSUME NEW g \in Hats, Finishes(g) PROVE ~aborted
    BY <2>1, <2>9 DEF Finishes, Prompted, SeatInv, SeatTyped, budgetVars
  <2>10. ASSUME NEW g \in Hats, Breaches(g) PROVE ~aborted
    BY <2>1, <2>10 DEF Breaches, Prompted, turnVars
  <2>11. CASE UNCHANGED vars
    BY <2>1, <2>11 DEF vars, turnVars, budgetVars, Prompted
  <2> QED
    BY <2>2, <2>3, <2>5, <2>6, <2>7, <2>8, <2>9, <2>10, <2>11 DEF Next, Turn
<1>2. SeatInv /\ [Next]_vars =>
        [\A h \in Hats :
           (phase[h] # "gen" /\ phase'[h] = "gen") \/ (phase[h] = "gen" /\ prompts'[h] > prompts[h])
           => ~aborted]_vars
  BY <1>1 DEF Prompted
<1> QED
  BY <1>2, SeatInvariant, PTL DEF Spec, StopHonoured

\* The pool counts as the seat does.
LEMMA PoolCounts ==
  ASSUME NEW s \in Seats
  PROVE  /\ SeatPool(s)!Cardinality({}) = 0
         /\ \A e : SeatPool(s)!Cardinality({e}) = 1
<1>1. ASSUME NEW S PROVE SeatPool(s)!Cardinality(S) = Cardinality(S)
  BY DEF SeatPool!Cardinality, Cardinality
<1> QED
  BY <1>1, FS_EmptySet, FS_Singleton

\* A line of one.
LEMMA AloneFacts ==
  ASSUME NEW S, NEW q \in Seq(S), q = <<>>, NEW e \in S
  PROVE  Append(q, e) # <<>> /\ Head(Append(q, e)) = e /\ Tail(Append(q, e)) = <<>>
<1>1. Append(q, e) \in Seq(S) /\ Len(Append(q, e)) = 1 /\ Append(q, e)[1] = e
  OBVIOUS
<1>2. Append(q, e) # <<>> /\ Head(Append(q, e)) = e
  BY <1>1
<1>3. Tail(Append(q, e)) \in Seq(S) /\ Len(Tail(Append(q, e))) = 0
  BY <1>1, <1>2
<1> QED
  BY <1>2, <1>3

\* A hat that joins the line of its seat enters the pool or waits in it.
LEMMA PoolJoins ==
  ASSUME SeatInv, NEW h \in Hats, phase[h] \notin {"seat", "gen"},
         line' = [line EXCEPT ![SeatOf[h]] = Append(@, h)]
  PROVE  \A s \in Seats : line'[s] = line[s] \/ SeatPool(s)!Next
<1> DEFINE t == SeatOf[h]
           q == line[t]
<1>1. t \in Seats /\ q \in Seq(Hats) /\ h \in HatsOf(t)
  BY DEF SeatInv, SeatTyped, HatsOf
<1>2. line'[t] = Append(q, h) /\ \A s \in Seats : s # t => line'[s] = line[s]
  BY <1>1 DEF SeatInv, SeatTyped
<1>3. \A i \in DOMAIN q : q[i] # h
  BY <1>1 DEF SeatInv, InLine
<1>4. CASE q = <<>>
  <2>1. line'[t] # <<>> /\ Head(line'[t]) = h /\ Tail(line'[t]) = <<>>
    BY <1>1, <1>2, <1>4, AloneFacts
  <2>2. SeatPool(t)!Enter(h)
    BY <2>1, <1>1, <1>4, PoolCounts DEF SeatPool!Enter, SeatPool!Asking
  <2> QED
    BY <2>2, <1>1, <1>2 DEF SeatPool!Next
<1>5. CASE q # <<>>
  <2>1. line'[t] # <<>> /\ Head(line'[t]) = Head(q) /\ Tail(line'[t]) = Append(Tail(q), h)
    BY <1>1, <1>2, <1>5
  <2>2. Head(q) # h /\ \A i \in DOMAIN Tail(q) : Tail(q)[i] # h
    BY <1>1, <1>3, <1>5, TailFacts
  <2>3. ~SeatPool(t)!Asking(h)
    BY <2>2, <1>5 DEF SeatPool!Asking
  <2>4. SeatPool(t)!Cardinality({Head(q)}) >= 1
    <3>1. \A e : SeatPool(t)!Cardinality({e}) = 1
      BY <1>1, PoolCounts
    <3> HIDE DEF t, q
    <3>2. SeatPool(t)!Cardinality({Head(q)}) = 1
      BY <3>1, Zenon
    <3> QED
      BY <3>2
  <2>5. SeatPool(t)!Wait(h)
    BY <2>1, <2>3, <2>4, <1>5 DEF SeatPool!Wait
  <2> QED
    BY <2>5, <1>1, <1>2 DEF SeatPool!Next
<1> QED
  BY <1>4, <1>5

\* The head of the line that leaves gives its slot to the next.
LEMMA PoolLeaves ==
  ASSUME SeatInv, NEW h \in Hats, phase[h] \in {"seat", "gen"}, Head(line[SeatOf[h]]) = h,
         line' = [line EXCEPT ![SeatOf[h]] = Tail(@)]
  PROVE  \A s \in Seats : line'[s] = line[s] \/ SeatPool(s)!Next
<1> DEFINE t == SeatOf[h]
           q == line[t]
<1>1. t \in Seats /\ q \in Seq(Hats) /\ h \in HatsOf(t)
  BY DEF SeatInv, SeatTyped, HatsOf
<1>2. line'[t] = Tail(q) /\ \A s \in Seats : s # t => line'[s] = line[s]
  BY <1>1 DEF SeatInv, SeatTyped
<1>3. q # <<>> /\ Head(q) = h
  <2>1. PICK i \in DOMAIN q : q[i] = h
    BY DEF SeatInv, InLine
  <2> QED
    BY <2>1
<1>4. SeatPool(t)!Leave(h)
  <2>1. CASE Tail(q) = <<>>
    BY <2>1, <1>1, <1>2, <1>3 DEF SeatPool!Leave
  <2>2. CASE Tail(q) # <<>>
    BY <2>2, <1>1, <1>2, <1>3 DEF SeatPool!Leave
  <2> QED
    BY <2>1, <2>2
<1> QED
  BY <1>1, <1>2, <1>4 DEF SeatPool!Next

\* A seat implements the slot pool with one slot: every step of the room leaves
\* a seat's line alone or is a step of the pool.
THEOREM SeatImplementsPool == Spec => ImplementsPool
<1>1. Init => \A s \in Seats : SeatPool(s)!Init
  BY DEF Init, SeatPool!Init
<1>2. SeatInv /\ [Next]_vars => \A s \in Seats : line'[s] = line[s] \/ SeatPool(s)!Next
  <2> SUFFICES ASSUME SeatInv, [Next]_vars
               PROVE  \A s \in Seats : line'[s] = line[s] \/ SeatPool(s)!Next
    OBVIOUS
  <2>1. ASSUME NEW wave \in SUBSET Hats, Launch(wave) PROVE UNCHANGED line
    BY <2>1 DEF Launch
  <2>2. CASE Stop
    BY <2>2 DEF Stop
  <2>3. ASSUME NEW h \in Hats, Enters(h), phase[h] \notin {"seat", "gen"}
        PROVE  \A s \in Seats : line'[s] = line[s] \/ SeatPool(s)!Next
    BY <2>3, PoolJoins DEF Enters
  <2>4. ASSUME NEW h \in Hats, Snapped(h)
        PROVE  \A s \in Seats : line'[s] = line[s] \/ SeatPool(s)!Next
    BY <2>3, <2>4 DEF Snapped
  <2>5. ASSUME NEW h \in Hats, GetsSlot(h)
        PROVE  \A s \in Seats : line'[s] = line[s] \/ SeatPool(s)!Next
    BY <2>3, <2>5 DEF GetsSlot
  <2>6. ASSUME NEW h \in Hats, TakesSeat(h)
        PROVE  \A s \in Seats : line'[s] = line[s] \/ SeatPool(s)!Next
    <3>1. CASE flag[h]
      BY <2>6, <3>1, PoolLeaves DEF TakesSeat, MayTakeSeat, Ends
    <3>2. CASE ~flag[h]
      BY <2>6, <3>2 DEF TakesSeat, Starts
    <3> QED
      BY <3>1, <3>2
  <2>7. ASSUME NEW h \in Hats, RoundEnds(h)
        PROVE  \A s \in Seats : line'[s] = line[s] \/ SeatPool(s)!Next
    <3>1. phase[h] = "gen" /\ Head(line[SeatOf[h]]) = h
      BY <2>7 DEF RoundEnds, SeatInv, InLine
    <3>2. CASE Ends(h)
      BY <3>1, <3>2, PoolLeaves DEF Ends
    <3>3. CASE Checkpoint(h)
      BY <3>3 DEF Checkpoint
    <3> QED
      BY <2>7, <3>2, <3>3 DEF RoundEnds
  <2>8. ASSUME NEW h \in Hats, Finishes(h) \/ Breaches(h) PROVE UNCHANGED line
    BY <2>8 DEF Finishes, Breaches, turnVars
  <2>9. CASE UNCHANGED vars
    BY <2>9 DEF vars, turnVars
  <2> QED
    BY <2>1, <2>2, <2>4, <2>5, <2>6, <2>7, <2>8, <2>9 DEF Next, Turn
<1>3. SeatInv /\ [Next]_vars =>
        [\A s \in Seats : line'[s] = line[s] \/ SeatPool(s)!Next]_vars
  BY <1>2
<1> QED
  BY <1>1, <1>3, SeatInvariant, PTL DEF Spec, ImplementsPool
=============================================================================
