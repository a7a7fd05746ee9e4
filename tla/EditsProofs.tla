---------------------------- MODULE EditsProofs ----------------------------
(***************************************************************************)
(* What is edited while a room works: the hats of a seat, the agents of a  *)
(* room, the task board, the document of a preset; and what a client shows *)
(* of it all.  For each an inductive invariant that says what a step       *)
(* relies on, and the property it gives: HatFits of SeatSession,           *)
(* RosterKept of RosterEdits, BoardTrue of Board, PresetTrue of PresetDoc, *)
(* ClientMatches of ClientSync.                                            *)
(***************************************************************************)
EXTENDS SeatSession, RosterEdits, Board, PresetDoc, ClientSync,
        FiniteSetTheorems, SequenceTheorems, TLAPS

(* ---- sequences -------------------------------------------------------------------- *)

\* What is left of a sequence without one of its places.
LEMMA RemovedAt ==
  ASSUME NEW S, NEW s \in Seq(S), NEW n \in DOMAIN s
  PROVE  /\ RemoveAt(s, n) \in Seq(S) /\ Len(RemoveAt(s, n)) = Len(s) - 1
         /\ DOMAIN RemoveAt(s, n) = 1 .. (Len(s) - 1)
         /\ \A i \in 1 .. (Len(s) - 1) : RemoveAt(s, n)[i] = IF i < n THEN s[i] ELSE s[i + 1]
<1> DEFINE front == SubSeq(s, 1, n - 1)
           back == SubSeq(s, n + 1, Len(s))
<1>1. DOMAIN s = 1 .. Len(s) /\ Len(s) \in Nat /\ n \in Nat /\ 1 <= n /\ n <= Len(s)
  OBVIOUS
<1>2. \A i \in 1 .. Len(s) : s[i] \in S
  BY <1>1
<1>3. /\ front \in Seq(S) /\ Len(front) = n - 1
      /\ \A i \in 1 .. (n - 1) : front[i] = s[i]
  <2>1. 1 \in Int /\ n - 1 \in Int /\ \A i \in 1 .. (n - 1) : s[i] \in S
    BY <1>1, <1>2
  <2>2. /\ front \in Seq(S) /\ Len(front) = IF 1 <= n - 1 THEN (n - 1) - 1 + 1 ELSE 0
        /\ \A i \in 1 .. ((n - 1) - 1 + 1) : front[i] = s[1 + i - 1]
    BY ONLY <2>1, SubSeqProperties
  <2> HIDE DEF front
  <2>3. (n - 1) - 1 + 1 = n - 1 /\ \A i \in 1 .. (n - 1) : 1 + i - 1 = i
    BY <1>1
  <2> QED
    BY <1>1, <2>2, <2>3
<1>4. /\ back \in Seq(S) /\ Len(back) = Len(s) - n
      /\ \A i \in 1 .. (Len(s) - n) : back[i] = s[n + i]
  <2>1. n + 1 \in Int /\ Len(s) \in Int /\ \A i \in (n + 1) .. Len(s) : s[i] \in S
    BY <1>1, <1>2
  <2>2. /\ back \in Seq(S) /\ Len(back) = IF n + 1 <= Len(s) THEN Len(s) - (n + 1) + 1 ELSE 0
        /\ \A i \in 1 .. (Len(s) - (n + 1) + 1) : back[i] = s[(n + 1) + i - 1]
    BY ONLY <2>1, SubSeqProperties
  <2> HIDE DEF back
  <2>3. /\ Len(s) - (n + 1) + 1 = Len(s) - n
        /\ \A i \in 1 .. (Len(s) - n) : (n + 1) + i - 1 = n + i
    BY <1>1
  <2> QED
    BY <1>1, <2>2, <2>3
<1>5. RemoveAt(s, n) = front \o back
  BY DEF RemoveAt
<1> HIDE DEF front, back
<1> DEFINE left == front \o back
<1>6. /\ left \in Seq(S) /\ Len(left) = Len(front) + Len(back)
      /\ \A i \in 1 .. (Len(front) + Len(back)) :
           left[i] = IF i <= Len(front) THEN front[i] ELSE back[i - Len(front)]
  BY <1>3, <1>4, ConcatProperties
<1> HIDE DEF left
<1>7. Len(left) = Len(s) - 1
  BY <1>1, <1>3, <1>4, <1>6
<1>8. ASSUME NEW i \in 1 .. (Len(s) - 1) PROVE left[i] = IF i < n THEN s[i] ELSE s[i + 1]
  <2>1. i \in Nat /\ i \in 1 .. (Len(front) + Len(back))
    BY <1>1, <1>3, <1>4
  <2>2. CASE i < n
    BY <2>1, <2>2, <1>1, <1>3, <1>6
  <2>3. CASE ~(i < n)
    <3>1. i - (n - 1) \in 1 .. (Len(s) - n) /\ n + (i - (n - 1)) = i + 1 /\ ~(i <= n - 1)
      BY <2>1, <2>3, <1>1
    <3>2. left[i] = back[i - (n - 1)]
      BY <2>1, <3>1, <1>3, <1>6
    <3>3. back[i - (n - 1)] = s[n + (i - (n - 1))]
      BY <3>1, <1>4
    <3> QED
      BY <3>1, <3>2, <3>3, <2>3
  <2> QED
    BY <2>2, <2>3
<1>9. DOMAIN left = 1 .. (Len(s) - 1)
  BY <1>6, <1>7
<1> QED
  BY <1>5, <1>6, <1>7, <1>8, <1>9 DEF left
(* ---- the session of a seat ----------------------------------------------------- *)

\* Edits wait for the turns on the seat, and turns for a rebuild.
BetweenTurns == ~RebuildsInTurns

HatPersonas == [level : Levels \union {NoLevel}, tools : SUBSET Tools]
Waiting == [hat : Hats, wanted : Levels]
Sessions ==
  [n : Nat, of : SUBSET Hats, lone : BOOLEAN, level : Levels, tools : SUBSET (Tools \union Primitives)]

SessionTyped ==
  /\ onSeat \subseteq Hats /\ IsFiniteSet(onSeat)
  /\ persona \in [Hats -> HatPersonas]
  /\ applied \in Levels
  /\ sess \in Sessions
  /\ lined \in Seq(Waiting)

\* Who stands in line is on the seat and heard, as nobody leaves it meanwhile.
LineSeated == \A i \in DOMAIN lined : lined[i].hat \in onSeat \intersect heard

\* The session is built of the hats of now, unless it is being rebuilt.  Its
\* level is the last one a turn was given, or that of the only hat there is.
LevelKnown ==
  \/ sess.level = applied
  \/ ~Several(onSeat) /\ \A h \in onSeat : sess.level = persona[h].level

BuiltOfNow == ~building => sess.of = onSeat /\ LevelKnown

\* A turn that speaks is the first in line, and calls are a turn's.
Speaks == IF NobodySpeaks THEN ~called.ok ELSE lined # <<>> /\ ~building

SessionInv == SessionTyped /\ LineSeated /\ BuiltOfNow /\ Speaks /\ HatFits

LEMMA OneHat ==
  ASSUME IsFiniteSet(onSeat), ~Several(onSeat), NEW h \in onSeat, NEW g \in onSeat PROVE g = h
<1> SUFFICES ASSUME g # h PROVE FALSE
  OBVIOUS
<1>1. {g, h} \subseteq onSeat /\ Cardinality({g, h}) = 2
  <2>1. IsFiniteSet({g}) /\ Cardinality({g}) = 1
    BY FS_Singleton, Zenon
  <2>2. Cardinality({g} \union {h}) = Cardinality({g}) + 1
    BY <2>1, FS_AddElement
  <2>3. {g} \union {h} = {g, h}
    OBVIOUS
  <2> QED
    BY <2>1, <2>2, <2>3
<1>2. Cardinality({g, h}) <= Cardinality(onSeat) /\ Cardinality(onSeat) \in Nat
  BY <1>1, FS_Subset, FS_CardinalityType
<1> QED
  BY <1>1, <1>2 DEF Several

LEMMA LevelledTyped == ASSUME NEW l \in Levels \union {NoLevel} PROVE Levelled(l) \in Levels
BY SeatLevelsAssumption DEF Levelled

LEMMA BuiltTyped ==
  ASSUME SessionTyped, NEW n \in Nat, NEW worn \in SUBSET Hats
  PROVE  Built(n, worn) \in Sessions /\ Built(n, worn).of = worn /\ Built(n, worn).level = applied
<1>1. UnionTools(worn) \subseteq Tools
  BY DEF UnionTools, SessionTyped, HatPersonas
<1>2. Granted(worn, others) \subseteq Primitives
  BY DEF Granted
<1>3. Alone(worn, others) \in BOOLEAN
  BY DEF Alone
<1> QED
  BY <1>1, <1>2, <1>3 DEF Built, Sessions, SessionTyped

LEMMA InitSession == SessionInit => SessionInv
<1> SUFFICES ASSUME SessionInit PROVE SessionInv
  OBVIOUS
<1>1. PICK h \in Hats :
        /\ onSeat = {h} /\ persona \in [Hats -> HatPersonas] /\ sess = Built(1, {h})
        /\ applied = Levelled(persona[h].level)
  BY DEF SessionInit, HatPersonas
<1>2. lined = <<>> /\ speaking = 0
  BY DEF SessionInit
<1>3. IsFiniteSet(onSeat) /\ onSeat \subseteq Hats
  BY <1>1, FS_Singleton
<1>4. persona[h].level \in Levels \union {NoLevel}
  BY <1>1 DEF HatPersonas
<1>5. applied \in Levels
  BY <1>1, <1>4, LevelledTyped
<1>6. /\ UnionTools({h}) \subseteq Tools /\ Granted({h}, others) \subseteq Primitives
      /\ Alone({h}, others) \in BOOLEAN
  BY <1>1 DEF UnionTools, Granted, Alone, HatPersonas
<1>7. sess \in Sessions /\ sess.of = onSeat /\ sess.level = applied
  BY <1>1, <1>5, <1>6 DEF Built, Sessions
<1>8. SessionTyped
  BY <1>1, <1>2, <1>3, <1>5, <1>7 DEF SessionTyped
<1>9. LineSeated /\ ~called.ok
  BY <1>2 DEF SessionInit, NoCall, LineSeated
<1> QED
  BY <1>2, <1>7, <1>8, <1>9
     DEF SessionInv, BuiltOfNow, LevelKnown, Speaks, HatFits, NobodySpeaks

LEMMA LinesSession == ASSUME SessionInv, NEW h \in Hats, Lines(h) PROVE SessionInv'
<1> DEFINE turn == [hat |-> h, wanted |-> Levelled(persona[h].level)]
<1>1. /\ h \in onSeat /\ h \in heard /\ lined' = Append(lined, turn)
      /\ UNCHANGED <<onSeat, persona, applied, wearing, heard, sess, building, others, speaking,
                     called>>
  BY DEF Lines
<1>2. turn \in Waiting /\ turn.hat = h
  <2>1. persona[h].level \in Levels \union {NoLevel}
    BY DEF SessionInv, SessionTyped, HatPersonas
  <2> QED
    BY <2>1, LevelledTyped DEF Waiting
<1> HIDE DEF turn
<1>3. lined \in Seq(Waiting)
  BY DEF SessionInv, SessionTyped
<1>4. /\ lined' \in Seq(Waiting) /\ lined' # <<>>
      /\ lined # <<>> => Head(lined') = Head(lined)
      /\ \A i \in DOMAIN lined' : lined'[i] = turn \/ (i \in DOMAIN lined /\ lined'[i] = lined[i])
  BY <1>1, <1>2, <1>3
<1>5. SessionTyped'
  BY <1>1, <1>4 DEF SessionInv, SessionTyped
<1>6. LineSeated'
  BY <1>1, <1>2, <1>4 DEF SessionInv, LineSeated
<1>7. BuiltOfNow' /\ Speaks'
  BY <1>1, <1>4 DEF SessionInv, BuiltOfNow, LevelKnown, Speaks, NobodySpeaks, Several
<1>8. HatFits'
  <2> SUFFICES ASSUME ~NobodySpeaks' PROVE HatFits'
    BY DEF HatFits
  <2>1. ~NobodySpeaks /\ Head(lined') = Head(lined)
    BY <1>1, <1>4 DEF NobodySpeaks, SessionInv, Speaks
  <2> QED
    BY <1>1, <2>1 DEF SessionInv, HatFits, OwnLevel, Several
<1> QED
  BY <1>5, <1>6, <1>7, <1>8 DEF SessionInv

\* The turn takes its level from the hat it wears; one that is the level last
\* applied is the session's own, or that of a hat alone on the seat.
LEMMA TakesTurnSession == ASSUME BetweenTurns, SessionInv, TakesTurn PROVE SessionInv'
<1> DEFINE l == Head(lined).wanted
<1>1. /\ lined # <<>> /\ ~building /\ NobodySpeaks
      /\ wearing' = Head(lined).hat /\ AppliesLevel(l)
      /\ UNCHANGED <<onSeat, persona, heard, building, others, lined, called>>
  BY DEF TakesTurn, BetweenTurns
<1>2. lined[1] = Head(lined) /\ 1 \in DOMAIN lined /\ Head(lined) \in Waiting
  <2>1. lined \in Seq(Waiting)
    BY DEF SessionInv, SessionTyped
  <2>2. 1 \in DOMAIN lined /\ Head(lined) = lined[1]
    BY <1>1, <2>1
  <2>3. lined[1] \in Waiting
    BY <2>1, <2>2
  <2> QED
    BY <2>2, <2>3
<1>3. l \in Levels /\ wearing' \in onSeat /\ wearing' \in heard
  BY <1>1, <1>2 DEF SessionInv, LineSeated, Waiting
<1> HIDE DEF l
<1>4. CASE l = applied \/ l \in Refused
  <2>1. UNCHANGED <<applied, sess>>
    BY <1>1, <1>4 DEF AppliesLevel
  <2>2. SessionTyped' /\ LineSeated' /\ BuiltOfNow' /\ Speaks' /\ ~called'.ok
    BY <1>1, <2>1 DEF SessionInv, SessionTyped, LineSeated, BuiltOfNow, LevelKnown, Speaks, Several
  <2>3. sess.level = applied \/ (~Several(onSeat) /\ sess.level = persona[wearing'].level)
    BY <1>1, <1>3 DEF SessionInv, BuiltOfNow, LevelKnown
  <2>4. OwnLevel'
    BY <1>1, <1>4, <2>1, <2>3 DEF OwnLevel, Several, l
  <2> QED
    BY <1>1, <1>3, <2>2, <2>4 DEF SessionInv, HatFits
<1>5. CASE ~(l = applied \/ l \in Refused)
  <2>1. sess' = [sess EXCEPT !.level = l] /\ applied' = l
    BY <1>1, <1>5 DEF AppliesLevel
  <2>2. sess' \in Sessions /\ sess'.level = l /\ sess'.of = sess.of
    BY <1>3, <2>1 DEF SessionInv, SessionTyped, Sessions
  <2>3. SessionTyped' /\ LineSeated' /\ BuiltOfNow' /\ Speaks' /\ ~called'.ok
    BY <1>1, <1>3, <2>1, <2>2
       DEF SessionInv, SessionTyped, LineSeated, BuiltOfNow, LevelKnown, Speaks
  <2>4. OwnLevel'
    BY <1>1, <2>2 DEF OwnLevel, l
  <2> QED
    BY <1>1, <1>3, <2>3, <2>4 DEF SessionInv, HatFits
<1> QED
  BY <1>4, <1>5

LEMMA CallsToolSession ==
  ASSUME SessionInv, NEW t \in Tools \union Primitives, CallsTool(t) PROVE SessionInv'
<1>1. /\ ~NobodySpeaks /\ called' = [hat |-> wearing, tool |-> t, ok |-> Gate(wearing, t)]
      /\ UNCHANGED <<onSeat, persona, applied, wearing, heard, sess, building, others, lined,
                     speaking>>
  BY DEF CallsTool
<1>2. lined # <<>> /\ ~building /\ sess.of = onSeat
  BY <1>1 DEF SessionInv, Speaks, BuiltOfNow
<1>3. lined \in Seq(Waiting)
  BY DEF SessionInv, SessionTyped
<1>4. 1 \in DOMAIN lined /\ Head(lined) = lined[1]
  BY <1>2, <1>3
<1>5. wearing \in onSeat
  BY <1>1, <1>4 DEF SessionInv, HatFits, LineSeated
<1>6. Gate(wearing, t) => \/ t \in persona[wearing].tools
                          \/ \A h \in onSeat : t \notin persona[h].tools
  <2>1. CASE ~Several(onSeat)
    BY <1>5, <2>1, OneHat DEF SessionInv, SessionTyped
  <2>2. CASE Several(onSeat)
    BY <1>2, <1>5, <2>2 DEF Gate
  <2> QED
    BY <2>1, <2>2
<1>7. SessionTyped' /\ LineSeated' /\ BuiltOfNow' /\ Speaks'
  BY <1>1, <1>2
     DEF SessionInv, SessionTyped, LineSeated, BuiltOfNow, LevelKnown, Speaks, NobodySpeaks, Several
<1>8. HatFits'
  BY <1>1, <1>6 DEF SessionInv, HatFits, OwnLevel, Several, NobodySpeaks
<1> QED
  BY <1>7, <1>8 DEF SessionInv

LEMMA ReleasesTurnSession == ASSUME SessionInv, ReleasesTurn PROVE SessionInv'
<1>1. /\ ~NobodySpeaks /\ lined' = Tail(lined) /\ speaking' = 0 /\ called' = NoCall
      /\ UNCHANGED <<onSeat, persona, applied, wearing, heard, sess, building, others>>
  BY DEF ReleasesTurn
<1>2. lined # <<>> /\ lined \in Seq(Waiting)
  BY <1>1 DEF SessionInv, SessionTyped, Speaks
<1>3. /\ lined' \in Seq(Waiting)
      /\ \A i \in DOMAIN lined' : i + 1 \in DOMAIN lined /\ lined'[i] = lined[i + 1]
  BY <1>1, <1>2
<1>4. NobodySpeaks' /\ ~called'.ok
  BY <1>1 DEF NobodySpeaks, NoCall
<1>5. SessionTyped' /\ LineSeated' /\ BuiltOfNow'
  BY <1>1, <1>3 DEF SessionInv, SessionTyped, LineSeated, BuiltOfNow, LevelKnown, Several
<1> QED
  BY <1>4, <1>5 DEF SessionInv, HatFits, Speaks

\* A level that is given outside a turn is the session's at once where its hat is
\* alone, and waits for the hat's turn where it is not.
LEMMA SetThinkingSession ==
  ASSUME SessionInv, NEW h \in Hats, NEW l \in Levels, SetThinking(h, l) PROVE SessionInv'
<1>1. /\ h \in onSeat /\ persona' = [persona EXCEPT ![h].level = l]
      /\ sess' = IF Several(onSeat) THEN sess ELSE [sess EXCEPT !.level = l]
      /\ UNCHANGED <<onSeat, applied, wearing, heard, building, others, lined, speaking, called>>
  BY DEF SetThinking
<1>2. /\ persona' \in [Hats -> HatPersonas] /\ persona'[h].level = l
      /\ \A g \in Hats : persona'[g].tools = persona[g].tools
  BY <1>1 DEF SessionInv, SessionTyped, HatPersonas
<1>3. /\ sess' \in Sessions /\ sess'.of = sess.of
      /\ Several(onSeat) => sess'.level = sess.level
      /\ ~Several(onSeat) => sess'.level = l
  BY <1>1 DEF SessionInv, SessionTyped, Sessions
<1>4. ~Several(onSeat) => \A g \in onSeat : g = h
  BY <1>1, OneHat DEF SessionInv, SessionTyped
<1>5. SessionTyped' /\ LineSeated' /\ Speaks'
  BY <1>1, <1>2, <1>3 DEF SessionInv, SessionTyped, LineSeated, Speaks, NobodySpeaks
<1>6. BuiltOfNow'
  BY <1>1, <1>2, <1>3, <1>4 DEF SessionInv, BuiltOfNow, LevelKnown, Several
<1>7. HatFits'
  <2> SUFFICES ASSUME ~NobodySpeaks PROVE HatFits'
    BY <1>1 DEF HatFits, NobodySpeaks
  <2>1. wearing = Head(lined).hat /\ wearing \in heard /\ OwnLevel
    BY DEF SessionInv, HatFits
  <2>2. lined # <<>> /\ lined \in Seq(Waiting)
    BY DEF SessionInv, SessionTyped, Speaks
  <2>3. 1 \in DOMAIN lined /\ Head(lined) = lined[1]
    BY <2>2
  <2>4. Head(lined).hat \in onSeat /\ onSeat \subseteq Hats
    BY <2>3 DEF SessionInv, SessionTyped, LineSeated
  <2>5. OwnLevel'
    <3>1. CASE Several(onSeat)
      BY <3>1, <1>1, <1>3, <2>1 DEF OwnLevel, Several
    <3>2. CASE ~Several(onSeat)
      BY <3>2, <1>1, <1>2, <1>3, <1>4, <2>4 DEF OwnLevel, Several
    <3> QED
      BY <3>1, <3>2
  <2>6. called.ok => \/ called.tool \in persona[wearing].tools
                     \/ \A g \in onSeat : called.tool \notin persona[g].tools
    BY DEF SessionInv, HatFits
  <2> QED
    BY <1>1, <1>2, <2>1, <2>4, <2>5, <2>6 DEF HatFits
<1> QED
  BY <1>5, <1>6, <1>7 DEF SessionInv

\* Edits are made over an empty line: nobody speaks until the session is built.
LEMMA EditsSession ==
  ASSUME SessionInv, lined = <<>>, building', onSeat' \subseteq Hats, IsFiniteSet(onSeat'),
         persona' \in [Hats -> HatPersonas], UNCHANGED <<applied, sess, lined, speaking, called>>
  PROVE  SessionInv'
<1>1. NobodySpeaks /\ NobodySpeaks' /\ ~called'.ok
  BY DEF SessionInv, Speaks, NobodySpeaks
<1>2. SessionTyped' /\ BuiltOfNow' /\ LineSeated'
  BY DEF SessionInv, SessionTyped, BuiltOfNow, LineSeated
<1> QED
  BY <1>1, <1>2 DEF SessionInv, Speaks, HatFits

LEMMA HatEditsSession ==
  ASSUME BetweenTurns, SessionInv, NEW h \in Hats,
         \/ AddHat(h) \/ RemoveHat(h)
         \/ \E p \in HatPersonas : ReplaceHat(h, p)
  PROVE  SessionInv'
<1>1. /\ lined = <<>> /\ building' /\ UNCHANGED <<applied, sess, lined, speaking, called>>
      /\ onSeat' \in {onSeat, onSeat \union {h}, onSeat \ {h}}
  BY DEF AddHat, RemoveHat, ReplaceHat, Rebuilds, MayRebuild, BetweenTurns
<1>2. onSeat' \subseteq Hats /\ IsFiniteSet(onSeat')
  BY <1>1, FS_AddElement, FS_RemoveElement DEF SessionInv, SessionTyped
<1>3. persona' \in [Hats -> HatPersonas]
  BY DEF AddHat, RemoveHat, ReplaceHat, SessionInv, SessionTyped
<1> QED
  BY <1>1, <1>2, <1>3, EditsSession

LEMMA OthersSession == ASSUME BetweenTurns, SessionInv, OthersChange PROVE SessionInv'
<1>1. /\ UNCHANGED <<onSeat, persona, applied, wearing, heard, sess, lined, speaking, called>>
      /\ (lined = <<>> /\ building') \/ building' = building
  BY DEF OthersChange, Rebuilds, MayRebuild, BetweenTurns
<1>2. CASE lined = <<>> /\ building'
  BY <1>1, <1>2, EditsSession DEF SessionInv, SessionTyped
<1>3. CASE building' = building
  BY <1>1, <1>3 DEF SessionInv, SessionTyped, LineSeated, BuiltOfNow, LevelKnown, Speaks, HatFits,
                    OwnLevel, NobodySpeaks, Several
<1> QED
  BY <1>1, <1>2, <1>3

LEMMA SessionBuiltSession == ASSUME SessionInv, SessionBuilt PROVE SessionInv'
<1>1. /\ building /\ sess' = Built(sess.n + 1, onSeat) /\ heard' = onSeat /\ building' = FALSE
      /\ UNCHANGED <<onSeat, persona, applied, wearing, others, lined, speaking, called>>
  BY DEF SessionBuilt
<1>2. sess.n + 1 \in Nat /\ onSeat \in SUBSET Hats
  BY DEF SessionInv, SessionTyped, Sessions
<1>3. sess' \in Sessions /\ sess'.of = onSeat /\ sess'.level = applied
  BY <1>1, <1>2, BuiltTyped DEF SessionInv
<1>4. NobodySpeaks /\ NobodySpeaks'
  BY <1>1 DEF SessionInv, Speaks, NobodySpeaks
<1>5. SessionTyped' /\ LineSeated' /\ BuiltOfNow'
  BY <1>1, <1>3 DEF SessionInv, SessionTyped, LineSeated, BuiltOfNow, LevelKnown
<1> QED
  BY <1>1, <1>4, <1>5 DEF SessionInv, Speaks, HatFits

\* Whoever speaks on a shared seat speaks as himself: the events of the session go
\* to him, it thinks at his level, and the tools of the seat's other hats are kept
\* from him.  (Edits that rebuild the session under a turn are left out: there the
\* property fails.)
THEOREM SeatHatFits == ASSUME BetweenTurns PROVE SessionSpec => []HatFits
<1>1. SessionInit => SessionInv
  BY InitSession
<1>2. SessionInv /\ [SessionNext]_sessionVars => SessionInv'
  <2> SUFFICES ASSUME SessionInv, [SessionNext]_sessionVars PROVE SessionInv'
    OBVIOUS
  <2>1. CASE UNCHANGED sessionVars
    BY <2>1 DEF sessionVars, SessionInv, SessionTyped, LineSeated, BuiltOfNow, LevelKnown, Speaks,
                HatFits, OwnLevel, NobodySpeaks, Several
  <2>2. CASE TakesTurn \/ ReleasesTurn \/ OthersChange \/ SessionBuilt
    BY <2>2, TakesTurnSession, ReleasesTurnSession, OthersSession, SessionBuiltSession
  <2>3. ASSUME NEW h \in Hats, Lines(h) \/ AddHat(h) \/ RemoveHat(h) PROVE SessionInv'
    BY <2>3, LinesSession, HatEditsSession
  <2>4. ASSUME NEW h \in Hats, NEW l \in Levels, SetThinking(h, l) PROVE SessionInv'
    BY <2>4, SetThinkingSession
  <2>5. ASSUME NEW h \in Hats, NEW l \in Levels \union {NoLevel}, NEW ts \in SUBSET Tools,
               ReplaceHat(h, [level |-> l, tools |-> ts])
        PROVE  SessionInv'
    <3>1. [level |-> l, tools |-> ts] \in HatPersonas
      BY DEF HatPersonas
    <3> QED
      BY <2>5, <3>1, HatEditsSession
  <2>6. ASSUME NEW t \in Tools \union Primitives, CallsTool(t) PROVE SessionInv'
    BY <2>6, CallsToolSession
  <2> QED
    BY <2>1, <2>2, <2>3, <2>4, <2>5, <2>6 DEF SessionNext
<1>3. SessionInv => HatFits
  BY DEF SessionInv
<1> QED
  BY <1>1, <1>2, <1>3, PTL DEF SessionSpec

(* ---- the task board and the plans ---------------------------------------------- *)

\* No update fails half way; a discussion is started once the plan is let go of.
WholeUpdates == ~Blanks
PlanLetGo == ~FreshStarts

\* What the turn at work changed is known to the room, and so is the plan it goes by.
BoardInv ==
  /\ calls \in Seq([plan : Plans, reads : BOOLEAN, ok : BOOLEAN])
  /\ DOMAIN kept = Discussions /\ discussion \in Discussions
  /\ WholeUpdates => BoardShown
  /\ PlanLetGo =>
       /\ \A i \in Adopts(calls) : calls[i].plan \in worked
       /\ activePlanId # NoPlan => activePlanId \in worked
       /\ OwnPlan

LEMMA NoCalls == <<>> \in Seq([plan : Plans, reads : BOOLEAN, ok : BOOLEAN]) /\ Adopts(<<>>) = {}
BY DEF Adopts

LEMMA InitBoard == BoardInit => BoardInv
<1> SUFFICES ASSUME BoardInit PROVE BoardInv
  OBVIOUS
<1>1. PICK d \in Discussions :
        discussion = d /\ kept = [e \in Discussions |-> IF e = d THEN NoTasks ELSE NotKept]
  BY DEF BoardInit
<1> QED
  BY <1>1, NoCalls DEF BoardInit, BoardInv, BoardShown, OwnPlan

LEMMA TasksBoard ==
  ASSUME BoardInv, UNCHANGED <<planVars, discussion>>, DOMAIN kept' = DOMAIN kept,
         WholeUpdates => BoardShown'
  PROVE  BoardInv'
BY DEF BoardInv, planVars, OwnPlan, Adopts

LEMMA PlanCallBoard ==
  ASSUME BoardInv, NEW p \in Plans, NEW reads \in BOOLEAN, NEW ok \in BOOLEAN,
         PlanCall(p, reads, ok)
  PROVE  BoardInv'
<1> DEFINE c == [plan |-> p, reads |-> reads, ok |-> ok]
<1>1. /\ calls' = Append(calls, c) /\ UNCHANGED <<activePlanId, routed, taskVars, discussion>>
      /\ worked' = IF ok /\ ~reads THEN worked \union {p} ELSE worked
  BY DEF PlanCall
<1>2. /\ c \in [plan : Plans, reads : BOOLEAN, ok : BOOLEAN]
      /\ c.plan = p /\ c.reads = reads /\ c.ok = ok
  OBVIOUS
<1> HIDE DEF c
<1>3. calls \in Seq([plan : Plans, reads : BOOLEAN, ok : BOOLEAN])
  BY DEF BoardInv
<1>4. /\ calls' \in Seq([plan : Plans, reads : BOOLEAN, ok : BOOLEAN])
      /\ \A i \in DOMAIN calls' : calls'[i] = c \/ (i \in DOMAIN calls /\ calls'[i] = calls[i])
  BY <1>1, <1>2, <1>3
<1>5. worked \subseteq worked'
  BY <1>1
<1>6. PlanLetGo => \A i \in Adopts(calls') : calls'[i].plan \in worked'
  BY <1>1, <1>2, <1>4, <1>5 DEF BoardInv, Adopts
<1> QED
  BY <1>1, <1>4, <1>5, <1>6 DEF BoardInv, BoardShown, OwnPlan, taskVars

LEMMA TurnRoutedBoard == ASSUME BoardInv, TurnRouted PROVE BoardInv'
<1>1. /\ calls' = <<>> /\ UNCHANGED <<worked, taskVars, discussion>>
      /\ routed' \in {activePlanId', NoPlan}
      /\ activePlanId' = activePlanId \/ \E i \in Adopts(calls) : activePlanId' = calls[i].plan
  BY DEF TurnRouted
<1>2. PlanLetGo => (activePlanId' # NoPlan => activePlanId' \in worked)
  BY <1>1 DEF BoardInv
<1> QED
  BY <1>1, <1>2, NoCalls DEF BoardInv, BoardShown, OwnPlan, taskVars

\* Another discussion, a goal, a boot: the plans worked on are none, and so is the
\* one the room goes by.
LEMMA FreshBoard ==
  ASSUME BoardInv, calls' = <<>>, PlanLetGo => activePlanId' = NoPlan, routed' = NoPlan,
         DOMAIN kept' = Discussions, discussion' \in Discussions, WholeUpdates => BoardShown'
  PROVE  BoardInv'
BY NoCalls DEF BoardInv, OwnPlan

LEMMA StepBoard == BoardInv /\ [BoardNext]_boardVars => BoardInv'
<1> SUFFICES ASSUME BoardInv, [BoardNext]_boardVars PROVE BoardInv'
  OBVIOUS
<1>1. CASE UNCHANGED boardVars
  BY <1>1, TasksBoard DEF boardVars, taskVars, BoardInv, BoardShown
<1>2. CASE CreateTask
  <2>1. BoardShown' /\ UNCHANGED <<planVars, discussion, kept>>
    BY <1>2 DEF CreateTask, Changed, BoardShown
  <2> QED
    BY <2>1, TasksBoard
<1>3. CASE SaveBoard
  <2>1. /\ UNCHANGED <<tasks, board, planVars, discussion>>
        /\ kept' = [kept EXCEPT ![discussion] = tasks]
    BY <1>3 DEF SaveBoard
  <2>2. DOMAIN kept' = DOMAIN kept /\ kept'[discussion] = tasks
    BY <2>1 DEF BoardInv
  <2> QED
    BY <2>1, <2>2, TasksBoard DEF BoardInv, BoardShown
<1>4. CASE Reboot
  <2>1. /\ board' = tasks' /\ tasks' = kept[discussion] /\ calls' = <<>> /\ activePlanId' = NoPlan
        /\ routed' = NoPlan /\ UNCHANGED <<kept, discussion>>
    BY <1>4 DEF Reboot, Loads
  <2> QED
    BY <2>1, FreshBoard DEF BoardInv, BoardShown
<1>5. CASE StartGoal
  BY <1>5, FreshBoard DEF StartGoal, NoTurn, taskVars, BoardInv, BoardShown
<1>6. ASSUME NEW i \in 1 .. MaxTasks, DeleteTask(i) PROVE BoardInv'
  <2>1. BoardShown' /\ UNCHANGED <<planVars, discussion, kept>>
    BY <1>6 DEF DeleteTask, Changed, BoardShown
  <2> QED
    BY <2>1, TasksBoard
<1>7. ASSUME NEW i \in 1 .. MaxTasks, NEW s \in Statuses, NEW blank \in BOOLEAN,
             UpdateTask(i, s, blank)
      PROVE  BoardInv'
  <2>1. UNCHANGED <<planVars, discussion, kept>> /\ (blank => Blanks)
    BY <1>7 DEF UpdateTask
  <2>2. WholeUpdates => BoardShown'
    BY <1>7, <2>1 DEF UpdateTask, Changed, BoardShown, WholeUpdates
  <2> QED
    BY <2>1, <2>2, TasksBoard
<1>8. ASSUME NEW d \in Discussions, Switch(d) PROVE BoardInv'
  <2>1. /\ calls' = <<>> /\ activePlanId' = NoPlan /\ routed' = NoPlan /\ discussion' = d
        /\ board' = tasks' /\ tasks' = kept[d] /\ d # discussion
        /\ kept' = [kept EXCEPT ![discussion] = tasks]
    BY <1>8 DEF Switch, NoTurn, Loads
  <2>2. DOMAIN kept' = Discussions /\ kept'[d] = kept[d]
    BY <2>1 DEF BoardInv
  <2> QED
    BY <2>1, <2>2, FreshBoard DEF BoardShown
<1>9. ASSUME NEW d \in Discussions, StartFresh(d) PROVE BoardInv'
  <2>1. /\ calls' = <<>> /\ routed' = NoPlan /\ discussion' = d /\ activePlanId' = activePlanId
        /\ FreshStarts \/ activePlanId = NoPlan
        /\ board' = tasks' /\ tasks' = NoTasks
        /\ kept' = [kept EXCEPT ![discussion] = tasks, ![d] = NoTasks]
    BY <1>9 DEF StartFresh, NoTurn, Loads
  <2>2. DOMAIN kept' = Discussions /\ kept'[d] = NoTasks
    BY <2>1 DEF BoardInv
  <2> QED
    BY <2>1, <2>2, FreshBoard DEF BoardShown, PlanLetGo
<1>10. ASSUME NEW p \in Plans, PlanFileChanges(p) PROVE BoardInv'
  BY <1>10 DEF PlanFileChanges, taskVars, BoardInv, BoardShown, OwnPlan, Adopts
<1> QED
  BY <1>1, <1>2, <1>3, <1>4, <1>5, <1>6, <1>7, <1>8, <1>9, <1>10, PlanCallBoard, TurnRoutedBoard
     DEF BoardNext

\* The board that clients are shown, and that a conversation's file will have, is the
\* one the agents work by, and a turn is routed only by a plan that this discussion's
\* own agents changed.  (Each part fails where an update fails half way, or a new
\* discussion keeps the plan of the one before.)
THEOREM BoardStaysTrue == ASSUME WholeUpdates, PlanLetGo PROVE BoardSpec => []BoardTrue
<1>1. BoardInit => BoardInv
  BY InitBoard
<1>2. BoardInv /\ [BoardNext]_boardVars => BoardInv'
  BY StepBoard
<1>3. BoardInv => BoardTrue
  BY DEF BoardInv, BoardTrue
<1> QED
  BY <1>1, <1>2, <1>3, PTL DEF BoardSpec

(* ---- the requests that change a roster ------------------------------------------ *)

\* An edit or a load has the roster to itself.
EditsAlone == ~EditsOverlap

Creates == [kind : {"create"}, id : Ids]
Updates == [kind : {"update"}, id : Ids, kept : Seq(Ids), was : BOOLEAN]
LoadJobs == [kind : {"load"}, left : Seq(Ids), cb : BOOLEAN]

RosterTyped ==
  /\ order \in Seq(Ids)
  /\ entry \in [Ids -> Nat] /\ lives \in Nat
  /\ flagOf \in [Lives -> BOOLEAN] /\ flagged \in [Ids -> BOOLEAN]
  /\ edits \in [Slots -> {Unused} \union Creates \union Updates \union LoadJobs]

\* Nobody is twice in the order, and no two agents share a participant.
OneEach ==
  /\ \A i, j \in DOMAIN order : order[i] = order[j] => i = j
  /\ \A a, b \in Ids : entry[a] = entry[b] /\ entry[a] # 0 => a = b
  /\ \A a \in Ids : entry[a] <= lives /\ (entry[a] # 0 => entry[a] \in Lives)

\* What an edit or a load read when it began is what there is.
Exclusive == \A j, k \in Slots :
  edits[j].kind \in {"update", "load"} /\ edits[k].kind \in {"create", "update", "load"} => j = k

ReadStill == \A k \in Slots :
  /\ edits[k].kind = "update" =>
       /\ edits[k].kept = order /\ edits[k].id \in Keys
       /\ edits[k].was = flagged[edits[k].id]
  /\ edits[k].kind = "load" => edits[k].cb

EditsInv == RosterTyped /\ OneEach /\ Exclusive /\ ReadStill /\ RosterKept

LEMMA KindsApart ==
  /\ Unused.kind = "none"
  /\ \A e \in Creates : e.kind = "create" /\ e.id \in Ids
  /\ \A e \in Updates : e.kind = "update" /\ e.id \in Ids /\ e.kept \in Seq(Ids) /\ e.was \in BOOLEAN
  /\ \A e \in LoadJobs : e.kind = "load" /\ e.left \in Seq(Ids) /\ e.cb \in BOOLEAN
BY DEF Unused, Creates, Updates, LoadJobs

LEMMA KindOf ==
  ASSUME RosterTyped, NEW k \in Slots
  PROVE  /\ edits[k].kind = "create" => edits[k] \in Creates
         /\ edits[k].kind = "update" => edits[k] \in Updates
         /\ edits[k].kind = "load" => edits[k] \in LoadJobs
BY KindsApart DEF RosterTyped

LEMMA NoDoing ==
  ASSUME NEW kinds, Doing(kinds) = {}, NEW k \in Slots PROVE edits[k].kind \notin kinds
BY DEF Doing

LEMMA Placed ==
  ASSUME NEW id \in Keys
  PROVE  PlaceOf(id) \in DOMAIN order /\ order[PlaceOf(id)] = id
<1>1. \E i \in DOMAIN order : order[i] = id
  BY DEF Keys, ToSet
<1> QED
  BY <1>1 DEF PlaceOf

\* Without an agent, the order is that of the others.
LEMMA WithoutOne ==
  ASSUME RosterTyped, OneEach, NEW id \in Keys
  PROVE  /\ OrderWithout(id) \in Seq(Ids)
         /\ \A i, j \in DOMAIN OrderWithout(id) :
              OrderWithout(id)[i] = OrderWithout(id)[j] => i = j
         /\ ToSet(OrderWithout(id)) = Keys \ {id}
<1> DEFINE at == PlaceOf(id)
           left == OrderWithout(id)
<1>1. at \in DOMAIN order /\ order[at] = id
  BY Placed
<1>2. /\ order \in Seq(Ids) /\ DOMAIN order = 1 .. Len(order) /\ Len(order) \in Nat
  BY DEF RosterTyped
<1>3. at \in Nat /\ at >= 1 /\ at <= Len(order)
  BY <1>1, <1>2
<1>4. left = RemoveAt(order, at)
  BY DEF OrderWithout
<1> HIDE DEF at, left
<1>7. /\ left \in Seq(Ids) /\ DOMAIN left = 1 .. (Len(order) - 1)
      /\ \A i \in 1 .. (Len(order) - 1) : left[i] = IF i < at THEN order[i] ELSE order[i + 1]
  BY <1>1, <1>2, <1>4, RemovedAt
<1> DEFINE from(i) == IF i < at THEN i ELSE i + 1
<1>5. ASSUME NEW i \in DOMAIN left
      PROVE  from(i) \in DOMAIN order /\ from(i) # at /\ left[i] = order[from(i)]
  <2>1. CASE i < at
    BY <2>1, <1>2, <1>3, <1>7
  <2>2. CASE ~(i < at)
    BY <2>2, <1>2, <1>3, <1>7
  <2> QED
    BY <2>1, <2>2
<1>6. \A i, j \in DOMAIN left : from(i) = from(j) => i = j
  BY <1>2, <1>3, <1>7
<1> HIDE DEF from
<1>8. \A i, j \in DOMAIN left : left[i] = left[j] => i = j
  BY <1>5, <1>6 DEF OneEach
<1>9. \A i \in DOMAIN left : left[i] \in Keys \ {id}
  BY <1>1, <1>5 DEF OneEach, Keys, ToSet
<1>10. ASSUME NEW a \in Keys \ {id} PROVE \E i \in DOMAIN left : left[i] = a
  <2>1. PICK j \in DOMAIN order : order[j] = a
    BY DEF Keys, ToSet
  <2>2. j # at
    BY <1>1, <2>1
  <2>3. CASE j < at
    BY <2>1, <2>3, <1>2, <1>3, <1>7
  <2>4. CASE j > at
    <3>1. j - 1 \in DOMAIN left /\ (j - 1) + 1 = j /\ ~(j - 1 < at)
      BY <2>1, <2>4, <1>2, <1>3, <1>7
    <3> QED
      BY <3>1, <2>1, <1>7
  <2> QED
    BY <2>1, <2>2, <2>3, <2>4, <1>2, <1>3
<1>11. ToSet(left) = Keys \ {id}
  BY <1>9, <1>10 DEF ToSet
<1> QED
  BY <1>7, <1>8, <1>11 DEF left

\* It holds of a room with one agent and no request at work.
LEMMA EditsStart ==
  EditsInit => EditsInv
<1> SUFFICES ASSUME EditsInit PROVE EditsInv
  OBVIOUS
<1>1. PICK id \in Ids : order = <<id>> /\ entry = [i \in Ids |-> IF i = id THEN 1 ELSE 0]
  BY DEF EditsInit
<1>2. /\ wanted = Keys /\ flagOf = [n \in Lives |-> TRUE] /\ watched = TRUE
      /\ edits = [k \in Slots |-> Unused] /\ lives = 1 /\ flagged = [i \in Ids |-> TRUE]
  BY DEF EditsInit
<1>3. order \in Seq(Ids) /\ DOMAIN order = {1} /\ order[1] = id /\ Keys = {id}
  BY <1>1 DEF Keys, ToSet
<1>4. 1 \in Lives
  BY EditsBoundsAssumption DEF Lives
<1>5. \A k \in Slots : edits[k].kind = "none"
  BY <1>2, KindsApart
<1>6. RosterTyped
  BY <1>1, <1>2, <1>3, <1>4 DEF RosterTyped
<1>7. OneEach
  BY <1>1, <1>2, <1>3, <1>4 DEF OneEach
<1>8. Exclusive /\ ReadStill
  BY <1>5 DEF Exclusive, ReadStill
<1>9. RosterKept
  <2>1. EntriesExist
    BY <1>1, <1>3 DEF EntriesExist
  <2>2. NoneLost /\ Watched
    BY <1>2 DEF NoneLost, Watched
  <2>3. FlagsKept
    BY <1>1, <1>2, <1>3, <1>4 DEF FlagsKept
  <2> QED
    BY <2>1, <2>2, <2>3 DEF RosterKept
<1> QED
  BY <1>6, <1>7, <1>8, <1>9 DEF EditsInv

(* The roster, without the requests at work. *)
RosterPart ==
  /\ order \in Seq(Ids)
  /\ entry \in [Ids -> Nat] /\ lives \in Nat
  /\ flagOf \in [Lives -> BOOLEAN] /\ flagged \in [Ids -> BOOLEAN]
  /\ OneEach /\ EntriesExist /\ NoneLost /\ FlagsKept

(* The requests at work. *)
JobsPart ==
  /\ edits \in [Slots -> {Unused} \union Creates \union Updates \union LoadJobs]
  /\ Exclusive /\ ReadStill /\ Watched

LEMMA TwoParts == EditsInv <=> RosterPart /\ JobsPart
BY DEF EditsInv, RosterPart, JobsPart, RosterTyped, RosterKept

LEMMA TwoPartsNext == RosterPart' /\ JobsPart' => EditsInv'
BY DEF EditsInv, RosterPart, JobsPart, RosterTyped, RosterKept

\* A participant of its own for an agent, new to the roster or not.
LEMMA Added ==
  ASSUME EditsInv, NEW id \in Ids, lives < MaxLives, lives' = lives + 1,
         flagOf' = [flagOf EXCEPT ![lives + 1] = TRUE],
         order' = IF id \in Keys THEN order ELSE Append(order, id),
         entry' = [entry EXCEPT ![id] = lives + 1],
         wanted' = wanted \union {id},
         flagged' = [flagged EXCEPT ![id] = TRUE]
  PROVE  RosterPart'
<1> USE DEF EditsInv, RosterTyped
<1>1. lives + 1 \in Lives /\ lives + 1 \in Nat /\ lives + 1 # 0
  BY EditsBoundsAssumption DEF Lives
<1>2. /\ order' \in Seq(Ids) /\ Keys' = Keys \union {id}
      /\ \A i, j \in DOMAIN order' : order'[i] = order'[j] => i = j
  <2>1. CASE id \in Keys
    BY <2>1 DEF Keys, OneEach
  <2>2. CASE id \notin Keys
    <3>1. order' = Append(order, id)
      BY <2>2
    <3>2. /\ order' \in Seq(Ids) /\ DOMAIN order' = 1 .. (Len(order) + 1)
          /\ DOMAIN order = 1 .. Len(order) /\ Len(order) \in Nat
          /\ \A i \in 1 .. Len(order) : order'[i] = order[i]
          /\ order'[Len(order) + 1] = id
      BY <3>1
    <3>3. \A i \in DOMAIN order : order[i] # id
      BY <2>2 DEF Keys, ToSet
    <3>4. Keys' = Keys \union {id}
      BY <3>2 DEF Keys, ToSet
    <3>5. \A i \in DOMAIN order' : i \in DOMAIN order \/ i = Len(order) + 1
      BY <3>2
    <3>6. \A i, j \in DOMAIN order' : order'[i] = order'[j] => i = j
      BY <3>2, <3>3, <3>5 DEF OneEach
    <3> QED
      BY <3>2, <3>4, <3>6
  <2> QED
    BY <2>1, <2>2
<1>3. \A i \in Ids : entry'[i] = IF i = id THEN lives + 1 ELSE entry[i]
  OBVIOUS
<1>4. \A i \in Ids : entry[i] # lives + 1
  BY <1>1 DEF OneEach
<1>5. OneEach'
  <2>1. \A a, b \in Ids : entry'[a] = entry'[b] /\ entry'[a] # 0 => a = b
    BY <1>3, <1>4 DEF OneEach
  <2>2. \A a \in Ids : entry'[a] <= lives' /\ (entry'[a] # 0 => entry'[a] \in Lives)
    BY <1>1, <1>3 DEF OneEach
  <2> QED
    BY <1>2, <2>1, <2>2 DEF OneEach
<1>6. entry' \in [Ids -> Nat] /\ lives' \in Nat
  BY <1>1
<1>7. flagOf' \in [Lives -> BOOLEAN] /\ flagged' \in [Ids -> BOOLEAN]
  OBVIOUS
<1>8. EntriesExist'
  BY <1>1, <1>2, <1>3 DEF EntriesExist, RosterKept
<1>9. NoneLost'
  BY <1>2 DEF NoneLost, RosterKept
<1>10. FlagsKept'
  <2> SUFFICES ASSUME NEW i \in Keys', entry'[i] # 0 PROVE flagOf'[entry'[i]] = flagged'[i]
    BY DEF FlagsKept
  <2>1. i \in Ids
    BY <1>2 DEF Keys, ToSet
  <2>2. CASE i = id
    BY <2>2, <1>1, <1>3
  <2>3. CASE i # id
    <3>1. i \in Keys /\ entry[i] # 0 /\ entry[i] \in Lives
      BY <2>1, <2>3, <1>2, <1>3 DEF OneEach
    <3>2. flagOf[entry[i]] = flagged[i]
      BY <3>1 DEF FlagsKept, RosterKept
    <3> QED
      BY <3>1, <3>2, <2>1, <2>3, <1>1, <1>3, <1>4
  <2> QED
    BY <2>2, <2>3
<1> QED
  BY <1>2, <1>5, <1>6, <1>7, <1>8, <1>9, <1>10 DEF RosterPart

\* A step that leaves the roster alone.
LEMMA RosterStays ==
  ASSUME EditsInv, UNCHANGED <<order, entry, flagOf, lives, wanted, flagged>> PROVE RosterPart'
<1>1. RosterPart
  BY TwoParts
<1>2. Keys' = Keys
  BY DEF Keys
<1>3. OneEach' /\ EntriesExist'
  BY <1>1, <1>2 DEF RosterPart, OneEach, EntriesExist
<1>4. NoneLost'
  BY <1>1, <1>2 DEF RosterPart, NoneLost
<1>5. FlagsKept'
  BY <1>1, <1>2 DEF RosterPart, FlagsKept
<1> QED
  BY <1>1, <1>3, <1>4, <1>5 DEF RosterPart

\* A step that ends a request, and leaves what the others read as it was.
LEMMA JobEnds ==
  ASSUME EditsInv, NEW k \in Slots, Closes(k),
         \A j \in Slots \ {k} : edits[j].kind # "update",
         edits[k].kind # "load" => watched' = watched,
         edits[k].kind = "load" => watched' = edits[k].cb
  PROVE  JobsPart'
<1> USE DEF EditsInv, RosterTyped
<1>1. \A j \in Slots : edits'[j] = IF j = k THEN Unused ELSE edits[j]
  BY DEF Closes
<1>2. edits' \in [Slots -> {Unused} \union Creates \union Updates \union LoadJobs]
  BY DEF Closes
<1>3. Exclusive'
  BY <1>1, KindsApart DEF Exclusive
<1>4. ReadStill'
  <2>1. \A j \in Slots : edits'[j].kind # "update"
    BY <1>1, KindsApart
  <2>2. \A j \in Slots : edits'[j].kind = "load" => edits'[j].cb
    BY <1>1, KindsApart DEF ReadStill
  <2> QED
    BY <2>1, <2>2 DEF ReadStill
<1>5. Watched'
  <2> SUFFICES ASSUME Doing({"load"})' = {} PROVE watched'
    BY DEF Watched
  <2>1. CASE edits[k].kind = "load"
    BY <2>1 DEF ReadStill
  <2>2. CASE edits[k].kind # "load"
    <3>1. \A j \in Slots : edits[j].kind # "load"
      BY <1>1, <2>2 DEF Doing
    <3> QED
      BY <3>1, <2>2 DEF Doing, Watched, RosterKept
  <2> QED
    BY <2>1, <2>2
<1> QED
  BY <1>2, <1>3, <1>4, <1>5 DEF JobsPart

(* ---- one lemma per operation ------------------------------------------------------ *)

LEMMA NothingElse ==
  ASSUME EditsInv,
         UNCHANGED <<order, entry, flagOf, watched, edits, lives, wanted, flagged>>
  PROVE  EditsInv'
<1>1. RosterPart'
  BY RosterStays
<1>2. JobsPart
  BY TwoParts
<1>3. Keys' = Keys /\ Doing({"load"})' = Doing({"load"})
  BY DEF Keys, Doing
<1>4. Exclusive' /\ ReadStill'
  BY <1>2, <1>3 DEF JobsPart, Exclusive, ReadStill
<1>5. JobsPart'
  BY <1>2, <1>3, <1>4 DEF JobsPart, Watched
<1> QED
  BY <1>1, <1>5, TwoPartsNext

LEMMA CreateBeginsKeeps ==
  ASSUME EditsAlone, EditsInv, NEW k \in Slots, NEW id \in Ids, CreateBegins(k, id)
  PROVE  EditsInv'
<1>1. /\ Doing({"update", "load"}) = {} /\ edits[k] = Unused
      /\ UNCHANGED <<order, entry, flagOf, watched, lives, wanted, flagged>>
      /\ edits' = [edits EXCEPT ![k] = [kind |-> "create", id |-> id]]
  BY DEF CreateBegins, EditsAlone
<1>2. RosterPart'
  BY <1>1, RosterStays
<1> DEFINE new == [kind |-> "create", id |-> id]
<1>3. new \in Creates /\ new.kind = "create"
  BY DEF Creates
<1> HIDE DEF new
<1>4. \A j \in Slots : edits'[j] = IF j = k THEN new ELSE edits[j]
  BY <1>1 DEF EditsInv, RosterTyped, new
<1>5. \A j \in Slots : edits[j].kind \notin {"update", "load"}
  BY <1>1, NoDoing
<1>6. \A j \in Slots : edits'[j].kind \notin {"update", "load"}
  BY <1>3, <1>4, <1>5
<1>7. edits' \in [Slots -> {Unused} \union Creates \union Updates \union LoadJobs]
  BY <1>1, <1>3 DEF EditsInv, RosterTyped, new
<1>8. Exclusive' /\ ReadStill'
  BY <1>6 DEF Exclusive, ReadStill
<1>9. Watched'
  BY <1>1, <1>5 DEF Watched, Doing, EditsInv, RosterKept
<1> QED
  BY <1>2, <1>7, <1>8, <1>9, TwoPartsNext DEF JobsPart

LEMMA CreateEndsKeeps ==
  ASSUME EditsInv, NEW k \in Slots, CreateEnds(k) PROVE EditsInv'
<1> DEFINE id == edits[k].id
<1>1. edits[k].kind = "create" /\ id \in Ids
  BY KindOf, KindsApart DEF CreateEnds, EditsInv
<1>2. /\ lives < MaxLives /\ lives' = lives + 1
      /\ flagOf' = [flagOf EXCEPT ![lives + 1] = TRUE]
      /\ order' = (IF id \in Keys THEN order ELSE Append(order, id))
      /\ entry' = [entry EXCEPT ![id] = lives + 1]
      /\ wanted' = wanted \union {id}
      /\ flagged' = [flagged EXCEPT ![id] = TRUE]
      /\ Closes(k) /\ watched' = watched
  BY DEF CreateEnds, Attach
<1> HIDE DEF id
<1>3. RosterPart'
  BY <1>1, <1>2, Added
<1>4. \A j \in Slots \ {k} : edits[j].kind # "update"
  BY <1>1 DEF EditsInv, Exclusive
<1>5. JobsPart'
  BY <1>1, <1>2, <1>4, JobEnds
<1> QED
  BY <1>3, <1>5, TwoPartsNext

LEMMA KickNowKeeps ==
  ASSUME EditsAlone, EditsInv, NEW id \in Ids, KickNow(id) PROVE EditsInv'
<1> USE DEF EditsInv, RosterTyped
<1>1. /\ id \in Keys /\ Doing({"update", "load"}) = {} /\ order' = OrderWithout(id)
      /\ entry' = [entry EXCEPT ![id] = 0] /\ wanted' = wanted \ {id}
      /\ UNCHANGED <<flagOf, watched, edits, lives, flagged>>
  BY DEF KickNow, EditsAlone
<1>2. /\ order' \in Seq(Ids) /\ Keys' = Keys \ {id}
      /\ \A i, j \in DOMAIN order' : order'[i] = order'[j] => i = j
  BY <1>1, WithoutOne DEF Keys
<1>3. \A a \in Ids : entry'[a] = IF a = id THEN 0 ELSE entry[a]
  BY <1>1
<1>4. entry' \in [Ids -> Nat]
  BY <1>1
<1>5. OneEach'
  <2>1. \A a, b \in Ids : entry'[a] = entry'[b] /\ entry'[a] # 0 => a = b
    BY <1>3 DEF OneEach
  <2>2. \A a \in Ids : entry'[a] <= lives' /\ (entry'[a] # 0 => entry'[a] \in Lives)
    BY <1>1, <1>3 DEF OneEach
  <2> QED
    BY <1>2, <2>1, <2>2 DEF OneEach
<1>6. EntriesExist' /\ NoneLost'
  BY <1>1, <1>2, <1>3 DEF EntriesExist, NoneLost, RosterKept
<1>7. FlagsKept'
  <2>1. Keys \subseteq Ids
    BY DEF Keys, ToSet
  <2>2. \A i \in Keys' : i \in Keys /\ i \in Ids /\ entry'[i] = entry[i]
    BY <2>1, <1>2, <1>3
  <2>3. \A i \in Keys : entry[i] # 0 => flagOf[entry[i]] = flagged[i]
    BY DEF FlagsKept, RosterKept
  <2> QED
    BY <1>1, <2>2, <2>3 DEF FlagsKept
<1>8. RosterPart'
  BY <1>1, <1>2, <1>4, <1>5, <1>6, <1>7 DEF RosterPart
<1>9. \A j \in Slots : edits'[j].kind \notin {"update", "load"}
  BY <1>1, NoDoing
<1>10. Exclusive' /\ ReadStill'
  BY <1>9 DEF Exclusive, ReadStill
<1>11. Watched'
  BY <1>1 DEF Watched, Doing, RosterKept
<1> QED
  BY <1>1, <1>8, <1>10, <1>11, TwoPartsNext DEF JobsPart

LEMMA ReorderKeeps ==
  ASSUME EditsAlone, EditsInv, NEW id \in Ids, Reorder(id) PROVE EditsInv'
<1> USE DEF EditsInv, RosterTyped
<1> DEFINE rest == OrderWithout(id)
<1>1. /\ id \in Keys /\ Doing({"update"}) = {} /\ order' = <<id>> \o rest
      /\ UNCHANGED <<entry, flagOf, watched, edits, lives, wanted, flagged>>
  BY DEF Reorder, EditsAlone
<1>2. /\ rest \in Seq(Ids) /\ ToSet(rest) = Keys \ {id}
      /\ \A i, j \in DOMAIN rest : rest[i] = rest[j] => i = j
  BY <1>1, WithoutOne
<1> HIDE DEF rest
<1>3. /\ order' \in Seq(Ids) /\ DOMAIN order' = 1 .. (Len(rest) + 1) /\ Len(rest) \in Nat
      /\ DOMAIN rest = 1 .. Len(rest) /\ order'[1] = id
      /\ \A i \in 1 .. Len(rest) : order'[i + 1] = rest[i]
  BY <1>1, <1>2
<1>4. \A i \in DOMAIN rest : rest[i] # id
  BY <1>2 DEF ToSet
<1>5. \A i \in DOMAIN order' : i # 1 => i - 1 \in DOMAIN rest /\ order'[i] = rest[i - 1]
  BY ONLY <1>3
<1>6. Keys' = Keys
  <2>1. \A a \in ToSet(rest) : \E i \in DOMAIN order' : order'[i] = a
    <3> SUFFICES ASSUME NEW i \in DOMAIN rest PROVE \E j \in DOMAIN order' : order'[j] = rest[i]
      BY DEF ToSet
    <3>1. i + 1 \in DOMAIN order' /\ order'[i + 1] = rest[i]
      BY <1>3
    <3> QED
      BY <3>1
  <2>2. \A i \in DOMAIN order' : order'[i] \in Keys
    BY <1>1, <1>2, <1>3, <1>5 DEF ToSet
  <2>3. \A a \in Keys : \E i \in DOMAIN order' : order'[i] = a
    <3>1. 1 \in DOMAIN order' /\ order'[1] = id
      BY <1>3
    <3>2. \A a \in Keys : a = id \/ a \in ToSet(rest)
      BY <1>2
    <3> QED
      BY <3>1, <3>2, <2>1
  <2> QED
    BY <2>2, <2>3 DEF Keys, ToSet
<1>7. ASSUME NEW i \in DOMAIN order', NEW j \in DOMAIN order', order'[i] = order'[j]
      PROVE  i = j
  <2>1. CASE i # 1 /\ j # 1
    <3>1. i - 1 = j - 1
      BY <2>1, <1>2, <1>5, <1>7
    <3> QED
      BY <3>1, <1>3
  <2>2. CASE i = 1 \/ j = 1
    BY <2>2, <1>3, <1>4, <1>5, <1>7
  <2> QED
    BY <2>1, <2>2
<1>8. OneEach'
  BY <1>1, <1>7 DEF OneEach
<1>9. EntriesExist' /\ NoneLost' /\ FlagsKept'
  BY <1>1, <1>6 DEF EntriesExist, NoneLost, FlagsKept, RosterKept
<1>10. RosterPart'
  BY <1>1, <1>3, <1>8, <1>9 DEF RosterPart
<1>11. \A j \in Slots : edits'[j].kind # "update"
  BY <1>1, NoDoing
<1>12. Exclusive' /\ ReadStill'
  BY <1>1, <1>11 DEF Exclusive, ReadStill
<1>13. Watched'
  BY <1>1 DEF Watched, Doing, RosterKept
<1> QED
  BY <1>1, <1>10, <1>12, <1>13, TwoPartsNext DEF JobsPart

LEMMA EditBeginsKeeps ==
  ASSUME EditsAlone, EditsInv, NEW k \in Slots, NEW id \in Ids, EditBegins(k, id)
  PROVE  EditsInv'
<1> USE DEF EditsInv, RosterTyped
<1> DEFINE new == [kind |-> "update", id |-> id, kept |-> order, was |-> flagOf[entry[id]]]
<1>1. /\ Doing({"create", "update", "load"}) = {} /\ id \in Keys /\ entry[id] # 0
      /\ UNCHANGED <<order, entry, flagOf, watched, lives, wanted, flagged>>
      /\ edits' = [edits EXCEPT ![k] = new]
  BY DEF EditBegins, EditsAlone
<1>2. RosterPart'
  BY <1>1, RosterStays
<1>3. flagOf[entry[id]] = flagged[id]
  BY <1>1 DEF FlagsKept, RosterKept
<1>4. /\ new \in Updates /\ new.kind = "update" /\ new.id = id /\ new.kept = order
      /\ new.was = flagged[id]
  BY <1>3 DEF Updates
<1> HIDE DEF new
<1>5. \A j \in Slots : edits'[j] = IF j = k THEN new ELSE edits[j]
  BY <1>1
<1>6. \A j \in Slots : edits[j].kind \notin {"create", "update", "load"}
  BY <1>1, NoDoing
<1>7. edits' \in [Slots -> {Unused} \union Creates \union Updates \union LoadJobs]
  BY <1>1, <1>4
<1>8. Exclusive'
  BY <1>4, <1>5, <1>6 DEF Exclusive
<1>9. Keys' = Keys
  BY <1>1 DEF Keys
<1>10. ReadStill'
  BY <1>1, <1>4, <1>5, <1>6, <1>9 DEF ReadStill
<1>11. Watched'
  BY <1>1, <1>6 DEF Watched, Doing, RosterKept
<1> QED
  BY <1>2, <1>7, <1>8, <1>10, <1>11, TwoPartsNext DEF JobsPart

LEMMA EditEndsKeeps ==
  ASSUME EditsInv, NEW k \in Slots, EditEnds(k) PROVE EditsInv'
<1> USE DEF EditsInv, RosterTyped
<1> DEFINE id == edits[k].id
<1>1. /\ edits[k].kind = "update" /\ id \in Ids /\ id \in Keys /\ edits[k].kept = order
      /\ edits[k].was = flagged[id]
  BY KindOf, KindsApart DEF EditEnds, ReadStill
<1>2. /\ lives < MaxLives /\ lives' = lives + 1
      /\ flagOf' = [flagOf EXCEPT ![lives + 1] = flagged[id]]
      /\ order' = order
      /\ entry' = [i \in Ids |-> CASE i = id -> lives + 1
                                   [] i \in Keys \ {id} -> entry[i]
                                   [] OTHER -> 0]
      /\ Closes(k) /\ UNCHANGED <<watched, wanted, flagged>>
  BY <1>1 DEF EditEnds, Attach, Keys
<1> HIDE DEF id
<1>3. \A i \in Ids \ Keys : entry[i] = 0
  BY DEF EntriesExist, RosterKept
<1>4. \A i \in Ids : entry'[i] = IF i = id THEN lives + 1 ELSE entry[i]
  BY <1>2, <1>3
<1>5. lives + 1 \in Lives /\ lives + 1 \in Nat /\ lives + 1 # 0
  BY <1>2, EditsBoundsAssumption DEF Lives
<1>6. \A i \in Ids : entry[i] # lives + 1
  BY <1>5 DEF OneEach
<1>7. entry' \in [Ids -> Nat]
  <2>1. \A i \in Ids : (IF i = id THEN lives + 1 ELSE entry[i]) \in Nat
    BY <1>5
  <2>2. DOMAIN entry' = Ids
    BY <1>2
  <2> QED
    BY <2>1, <2>2, <1>4, <1>2
<1>8. Keys' = Keys
  BY <1>2 DEF Keys
<1>9. OneEach'
  <2>1. \A a, b \in Ids : entry'[a] = entry'[b] /\ entry'[a] # 0 => a = b
    BY <1>4, <1>6 DEF OneEach
  <2>2. \A a \in Ids : entry'[a] <= lives' /\ (entry'[a] # 0 => entry'[a] \in Lives)
    BY <1>2, <1>4, <1>5 DEF OneEach
  <2> QED
    BY <1>2, <2>1, <2>2 DEF OneEach
<1>10. EntriesExist' /\ NoneLost'
  BY <1>1, <1>2, <1>4, <1>5, <1>8 DEF EntriesExist, NoneLost, RosterKept
<1>11. FlagsKept'
  <2> SUFFICES ASSUME NEW i \in Keys, entry'[i] # 0 PROVE flagOf'[entry'[i]] = flagged[i]
    BY <1>2, <1>8 DEF FlagsKept
  <2>1. i \in Ids
    BY DEF Keys, ToSet
  <2>2. CASE i = id
    BY <2>2, <1>1, <1>2, <1>4, <1>5
  <2>3. CASE i # id
    <3>1. entry[i] # 0 /\ entry[i] \in Lives /\ flagOf[entry[i]] = flagged[i]
      BY <2>1, <2>3, <1>4 DEF OneEach, FlagsKept, RosterKept
    <3> QED
      BY <3>1, <2>1, <2>3, <1>2, <1>4, <1>6
  <2> QED
    BY <2>2, <2>3
<1>12. RosterPart'
  <2>1. order' \in Seq(Ids) /\ lives' \in Nat /\ flagged' \in [Ids -> BOOLEAN]
    BY <1>2, <1>5
  <2>2. flagOf' \in [Lives -> BOOLEAN]
    BY <1>1, <1>2
  <2> QED
    BY <2>1, <2>2, <1>7, <1>9, <1>10, <1>11 DEF RosterPart
<1>13. \A j \in Slots \ {k} : edits[j].kind # "update"
  BY <1>1 DEF Exclusive
<1>14. JobsPart'
  BY <1>1, <1>2, <1>13, JobEnds
<1> QED
  BY <1>12, <1>14, TwoPartsNext

LEMMA SetFlagKeeps ==
  ASSUME EditsAlone, EditsInv, NEW id \in Ids, NEW value \in BOOLEAN, NEW refused \in BOOLEAN,
         SetFlag(id, value, refused)
  PROVE  EditsInv'
<1> USE DEF EditsInv, RosterTyped
<1>1. /\ id \in Keys /\ entry[id] # 0 /\ \A j \in Doing({"update"}) : edits[j].id # id
      /\ flagOf' = [flagOf EXCEPT ![entry[id]] = value]
      /\ flagged' = [flagged EXCEPT ![id] = value]
      /\ UNCHANGED <<order, entry, watched, edits, lives, wanted>>
  BY DEF SetFlag, EditsAlone
<1>2. Keys' = Keys
  BY <1>1 DEF Keys
<1>3. flagOf' \in [Lives -> BOOLEAN] /\ flagged' \in [Ids -> BOOLEAN]
  BY <1>1
<1>4. OneEach' /\ EntriesExist' /\ NoneLost'
  BY <1>1, <1>2 DEF OneEach, EntriesExist, NoneLost, RosterKept
<1>5. FlagsKept'
  <2> SUFFICES ASSUME NEW i \in Keys, entry[i] # 0 PROVE flagOf'[entry[i]] = flagged'[i]
    BY <1>1, <1>2 DEF FlagsKept
  <2>1. i \in Ids /\ entry[i] \in Lives /\ entry[id] \in Lives
    BY <1>1 DEF Keys, ToSet, OneEach
  <2>2. flagOf[entry[i]] = flagged[i] /\ (entry[i] = entry[id] => i = id)
    BY <2>1, <1>1 DEF FlagsKept, RosterKept, OneEach
  <2> QED
    BY <2>1, <2>2, <1>1
<1>6. RosterPart'
  BY <1>1, <1>3, <1>4, <1>5 DEF RosterPart
<1>7. ReadStill'
  <2> SUFFICES ASSUME NEW k \in Slots
               PROVE  /\ edits[k].kind = "update" =>
                           /\ edits[k].kept = order /\ edits[k].id \in Keys
                           /\ edits[k].was = flagged'[edits[k].id]
                      /\ edits[k].kind = "load" => edits[k].cb
    BY <1>1, <1>2 DEF ReadStill
  <2>1. CASE edits[k].kind = "update"
    <3>1. edits[k].id # id /\ edits[k].id \in Ids
      BY <2>1, <1>1, KindOf, KindsApart DEF Doing
    <3> QED
      BY <2>1, <3>1, <1>1 DEF ReadStill
  <2>2. CASE edits[k].kind # "update"
    BY <2>2 DEF ReadStill
  <2> QED
    BY <2>1, <2>2
<1>8. Exclusive' /\ Watched'
  BY <1>1 DEF Exclusive, Watched, Doing, RosterKept
<1> QED
  BY <1>1, <1>6, <1>7, <1>8, TwoPartsNext DEF JobsPart

LEMMA LoadBeginsKeeps ==
  ASSUME EditsAlone, EditsInv, NEW k \in Slots, NEW ids \in Seq(Ids), LoadBegins(k, ids)
  PROVE  EditsInv'
<1> USE DEF EditsInv, RosterTyped
<1> DEFINE new == [kind |-> "load", left |-> ids, cb |-> TRUE]
<1>1. /\ Doing({"create", "update", "load"}) = {} /\ watched' = FALSE
      /\ edits' = [edits EXCEPT ![k] = [kind |-> "load", left |-> ids, cb |-> watched]]
      /\ order' = <<>> /\ entry' = [i \in Ids |-> 0] /\ wanted' = {}
      /\ UNCHANGED <<flagOf, lives, flagged>>
  BY DEF LoadBegins, EditsAlone
<1>2. \A j \in Slots : edits[j].kind \notin {"create", "update", "load"}
  BY <1>1, NoDoing
<1>3. watched = TRUE
  <2>1. Doing({"load"}) = {}
    BY <1>2 DEF Doing
  <2> QED
    BY <2>1, <1>1 DEF Watched, RosterKept
<1>4. edits' = [edits EXCEPT ![k] = new]
  BY <1>1, <1>3
<1>5. new \in LoadJobs /\ new.kind = "load" /\ new.cb = TRUE
  BY DEF LoadJobs
<1> HIDE DEF new
<1>6. \A j \in Slots : edits'[j] = IF j = k THEN new ELSE edits[j]
  BY <1>4
<1>7. edits' \in [Slots -> {Unused} \union Creates \union Updates \union LoadJobs]
  BY <1>4, <1>5
<1>8. Exclusive' /\ ReadStill'
  BY <1>2, <1>5, <1>6 DEF Exclusive, ReadStill
<1>9. Watched'
  <2>1. k \in Doing({"load"})'
    BY <1>5, <1>6 DEF Doing
  <2> QED
    BY <2>1 DEF Watched
<1>10. Keys' = {} /\ DOMAIN order' = {} /\ order' \in Seq(Ids)
  BY <1>1 DEF Keys, ToSet
<1>11. RosterPart'
  BY <1>1, <1>10 DEF RosterPart, OneEach, EntriesExist, NoneLost, FlagsKept
<1> QED
  BY <1>7, <1>8, <1>9, <1>11, TwoPartsNext DEF JobsPart

LEMMA LoadAddsKeeps ==
  ASSUME EditsInv, NEW k \in Slots, LoadAdds(k) PROVE EditsInv'
<1> USE DEF EditsInv, RosterTyped
<1> DEFINE id == Head(edits[k].left)
           rest == Tail(edits[k].left)
<1>1. edits[k].kind = "load" /\ edits[k] \in LoadJobs /\ edits[k].left # <<>>
  BY KindOf DEF LoadAdds
<1>2. edits[k].left \in Seq(Ids)
  BY <1>1, KindsApart
<1>3. id \in Ids /\ rest \in Seq(Ids)
  BY <1>1, <1>2
<1>4. /\ lives < MaxLives /\ lives' = lives + 1
      /\ flagOf' = [flagOf EXCEPT ![lives + 1] = TRUE]
      /\ order' = (IF id \in Keys THEN order ELSE Append(order, id))
      /\ entry' = [entry EXCEPT ![id] = lives + 1]
      /\ wanted' = wanted \union {id}
      /\ flagged' = [flagged EXCEPT ![id] = TRUE]
      /\ \/ Restores(k)
         \/ edits' = [edits EXCEPT ![k].left = rest] /\ UNCHANGED watched
  BY DEF LoadAdds, Attach
<1> HIDE DEF id, rest
<1>5. RosterPart'
  BY <1>3, <1>4, Added
<1>6. \A j \in Slots \ {k} : edits[j].kind \notin {"update", "load"}
  BY <1>1 DEF Exclusive
<1>7. CASE Restores(k)
  <2>1. JobsPart'
    BY <1>1, <1>6, <1>7, JobEnds DEF Restores
  <2> QED
    BY <2>1, <1>5, TwoPartsNext
<1>8. CASE edits' = [edits EXCEPT ![k].left = rest] /\ UNCHANGED watched
  <2>1. edits'[k] = [edits[k] EXCEPT !.left = rest]
    BY <1>8
  <2>2. /\ edits'[k] \in LoadJobs /\ edits'[k].kind = "load" /\ edits'[k].cb = edits[k].cb
    BY <2>1, <1>1, <1>3 DEF LoadJobs
  <2>3. \A j \in Slots \ {k} : edits'[j] = edits[j]
    BY <1>8
  <2>4. edits' \in [Slots -> {Unused} \union Creates \union Updates \union LoadJobs]
    BY <1>8, <2>1, <2>2
  <2>5. Exclusive'
    BY <1>1, <2>2, <2>3 DEF Exclusive
  <2>6. ReadStill'
    BY <1>1, <1>6, <2>2, <2>3 DEF ReadStill
  <2>7. Watched'
    <3>1. k \in Doing({"load"})'
      BY <2>2 DEF Doing
    <3> QED
      BY <3>1 DEF Watched
  <2> QED
    BY <1>5, <2>4, <2>5, <2>6, <2>7, TwoPartsNext DEF JobsPart
<1> QED
  BY <1>4, <1>7, <1>8

LEMMA LoadEndsKeeps ==
  ASSUME EditsInv, NEW k \in Slots, LoadEnds(k) PROVE EditsInv'
<1>1. /\ edits[k].kind = "load" /\ Closes(k) /\ watched' = edits[k].cb
      /\ UNCHANGED <<order, entry, flagOf, lives, wanted, flagged>>
  BY DEF LoadEnds, Restores
<1>2. RosterPart'
  BY <1>1, RosterStays
<1>3. \A j \in Slots \ {k} : edits[j].kind # "update"
  BY <1>1 DEF EditsInv, Exclusive
<1>4. JobsPart'
  BY <1>1, <1>3, JobEnds
<1> QED
  BY <1>2, <1>4, TwoPartsNext

\* Every step keeps the invariant.
LEMMA EditsStepKeeps ==
  ASSUME EditsAlone, EditsInv, [EditsNext]_editVars PROVE EditsInv'
<1>1. ASSUME NEW k \in Slots, EditStep(k) PROVE EditsInv'
  <2>1. ASSUME NEW id \in Ids, CreateBegins(k, id) \/ EditBegins(k, id) PROVE EditsInv'
    BY <2>1, CreateBeginsKeeps, EditBeginsKeeps
  <2>2. ASSUME NEW a \in Ids, NEW b \in Ids, LoadBegins(k, <<a, b>>) PROVE EditsInv'
    BY <2>2, <<a, b>> \in Seq(Ids), LoadBeginsKeeps
  <2>3. CASE CreateEnds(k) \/ EditEnds(k) \/ LoadAdds(k) \/ LoadEnds(k)
    BY <2>3, CreateEndsKeeps, EditEndsKeeps, LoadAddsKeeps, LoadEndsKeeps
  <2> QED
    BY <1>1, <2>1, <2>2, <2>3 DEF EditStep
<1>2. ASSUME NEW id \in Ids, KickNow(id) \/ Reorder(id) PROVE EditsInv'
  BY <1>2, KickNowKeeps, ReorderKeeps
<1>3. ASSUME NEW id \in Ids, NEW value \in BOOLEAN, NEW refused \in BOOLEAN,
             SetFlag(id, value, refused)
      PROVE  EditsInv'
  BY <1>3, SetFlagKeeps
<1>4. ASSUME NEW id, NEW rest, PatchSettings(id, rest) PROVE EditsInv'
  BY <1>4, NothingElse DEF PatchSettings
<1>5. CASE TurnFlips \/ UNCHANGED editVars
  BY <1>5, NothingElse DEF TurnFlips, editVars
<1> QED
  BY <1>1, <1>2, <1>3, <1>4, <1>5 DEF EditsNext

\* Requests that change who is in the room take nothing from one another, for any
\* agents and any number of requests, while an edit or a load has the roster to itself.
THEOREM RosterStaysKept ==
  ASSUME EditsAlone PROVE EditsSpec => []RosterKept
<1>1. EditsInit => EditsInv
  BY EditsStart
<1>2. EditsInv /\ [EditsNext]_editVars => EditsInv'
  BY EditsStepKeeps
<1>3. EditsInv => RosterKept
  BY DEF EditsInv
<1> QED
  BY <1>1, <1>2, <1>3, PTL DEF EditsSpec

(* ---- the document of a preset ------------------------------------------------------ *)

Build == {1, 2}
Words == (UNION {ToSet(id) : id \in Roles \union Customs}) \union Nat
Names == Seq(Words)

LEMMA NumbersAreWords == \A n \in Nat : n \in Words
BY Zenon DEF Words

\* The ids of the roles and of the others are names.
LEMMA IdsAreNames == Roles \union Customs \subseteq Names
<1> SUFFICES ASSUME NEW id \in Roles \union Customs PROVE id \in Names
  OBVIOUS
<1>1. id \in Seq(ToSet(id))
  BY PresetIdsAssumption
<1>2. ASSUME NEW w \in ToSet(id) PROVE w \in Words
  BY Zenon DEF Words
<1> DEFINE S == ToSet(id)
<1>3. id \in Seq(S) /\ \A w \in S : w \in Words
  BY <1>1, <1>2
<1> HIDE DEF S
<1>4. id \in Seq(Words)
  BY <1>3
<1> QED
  BY <1>4 DEF Names

PlainSkills == {"absent", "[]", "own"}

\* A member as a document or the composer has it, and as a room has it.
Drafts == [id : Names, prompt : {"absent", "own"}, skills : PlainSkills]
Seated(b) ==
  {p \in [id : Names, prompt : Prompts, skills : SkillLists] :
     /\ p.prompt # "absent"
     /\ p.id \in Roles => p.skills \in PlainSkills \union {ShippedSkills[p.id][b]}
     /\ p.id \notin Roles => p.prompt = "own" /\ p.skills \in PlainSkills}

\* Strip and Rehydrate, by the build they run in.
Stripped(p, b) ==
  IF p.id \notin Roles THEN p
  ELSE [p EXCEPT !.prompt = "absent",
                 !.skills = IF @ = ShippedSkills[p.id][b] THEN "absent" ELSE @]
Filled(p, b) ==
  IF p.id \notin Roles THEN p
  ELSE [p EXCEPT !.prompt = IF @ = "absent" THEN <<"shipped in 1", "shipped in 2">>[b] ELSE @,
                 !.skills = IF @ = "absent" THEN ShippedSkills[p.id][b] ELSE @]

AllStripped(list, b) == [i \in DOMAIN list |-> Stripped(list[i], b)]
AllFilled(list, b) == [i \in DOMAIN list |-> Filled(list[i], b)]

LEMMA StripIs ==
  \A list, gates :
    /\ stripSeedFields(list) = AllStripped(list, build)
    /\ Stored(list, gates) = [members |-> AllStripped(list, build), gates |-> gates]
BY DEF stripSeedFields, Strip, Stored, SEED_PERSONAS, ShippedPrompt, AllStripped, Stripped

LEMMA FillIs == \A list : rehydrateSeedFields(list) = AllFilled(list, build)
BY DEF rehydrateSeedFields, Rehydrate, SEED_PERSONAS, ShippedPrompt, AllFilled, Filled

\* A sequence is what its places hold.
LEMMA SameLength ==
  ASSUME NEW S, NEW l \in Seq(S), NEW T, NEW f, f = [i \in DOMAIN l |-> f[i]],
         \A i \in DOMAIN l : f[i] \in T
  PROVE  f \in Seq(T) /\ Len(f) = Len(l) /\ DOMAIN f = DOMAIN l
<1>1. DOMAIN l = 1 .. Len(l) /\ Len(l) \in Nat
  OBVIOUS
<1>2. f \in [1 .. Len(l) -> T]
  BY <1>1
<1> QED
  BY <1>1, <1>2

\* No two members of one id.
LEMMA DistinctIs ==
  ASSUME NEW S, NEW l \in Seq(S)
  PROVE  /\ Distinct(l) <=> \A i, j \in DOMAIN l : l[i].id = l[j].id => i = j
         /\ IsFiniteSet(IdsOf(l))
<1> DEFINE f == [i \in DOMAIN l |-> l[i].id]
<1>1. DOMAIN l = 1 .. Len(l) /\ Len(l) \in Nat
  OBVIOUS
<1>2. f \in Surjection(DOMAIN l, IdsOf(l))
  BY DEF Surjection, IdsOf
<1>3. IsFiniteSet(DOMAIN l) /\ Cardinality(DOMAIN l) = Len(l)
  <2>1. /\ IsFiniteSet(1 .. Len(l))
        /\ Cardinality(1 .. Len(l)) = IF 1 > Len(l) THEN 0 ELSE Len(l) - 1 + 1
    BY <1>1, FS_Interval
  <2> QED
    BY <1>1, <2>1
<1>4. f \in Injection(DOMAIN l, IdsOf(l)) <=> \A i, j \in DOMAIN l : l[i].id = l[j].id => i = j
  <2>1. DOMAIN f = DOMAIN l /\ \A i \in DOMAIN l : f[i] = l[i].id
    OBVIOUS
  <2>2. f \in [DOMAIN l -> IdsOf(l)]
    BY DEF IdsOf
  <2> HIDE DEF f
  <2> QED
    BY <2>1, <2>2 DEF Injection, IsInjective
<1> HIDE DEF f
<1>5. /\ IsFiniteSet(IdsOf(l))
      /\ Cardinality(IdsOf(l)) = Cardinality(DOMAIN l) <=> f \in Injection(DOMAIN l, IdsOf(l))
  BY ONLY <1>2, <1>3, FS_Surjection
<1> QED
  BY <1>3, <1>4, <1>5 DEF Distinct

\* A least number of a set of numbers.
LEMMA LeastOf ==
  ASSUME NEW T, T \subseteq Nat, T # {} PROVE Min(T) \in T
<1> DEFINE R == OpToRel(<, Nat)
<1>1. IsWellFoundedOn(R, Nat)
  BY NatLessThanWellFounded
<1>2. \A x, y \in Nat : <<y, x>> \in R <=> y < x
  BY DEF OpToRel
<1> HIDE DEF R
<1>3. PICK x \in T : \A y \in T : ~(<<y, x>> \in R)
  BY <1>1, WFMin
<1>4. ASSUME NEW y \in T PROVE x <= y
  <2>1. x \in Nat /\ y \in Nat
    OBVIOUS
  <2>2. ~(y < x)
    BY <2>1, <1>2, <1>3, Zenon
  <2> QED
    BY <2>1, <2>2
<1> QED
  BY <1>4 DEF Min

\* The first id that is free is a name, and free.
LEMMA UniqueIdIsFree ==
  ASSUME NEW id \in Names, NEW taken, IsFiniteSet(taken)
  PROVE  uniqueId(id, taken) \in Names /\ uniqueId(id, taken) \notin taken
<1>1. CASE id \notin taken
  BY <1>1 DEF uniqueId
<1>2. CASE id \in taken
  <2> DEFINE c == Cardinality(taken)
             T == {n \in 2..(2 + c) : Append(id, n) \notin taken}
             f == [n \in 2..(2 + c) |-> Append(id, n)]
  <2>1. c \in Nat
    BY FS_CardinalityType
  <2>2. \A n \in Nat : Append(id, n) \in Names
    BY NumbersAreWords DEF Names
  <2>3. T # {}
    <3> SUFFICES ASSUME T = {} PROVE FALSE
      OBVIOUS
    <3>1. f \in [2..(2 + c) -> taken]
      OBVIOUS
    <3>2. \A m, n \in 2..(2 + c) : f[m] = f[n] => m = n
      <4>1. \A n \in 2..(2 + c) : f[n] = Append(id, n) /\ f[n][Len(id) + 1] = n
        BY <2>1 DEF Names
      <4> QED
        BY <4>1
    <3>3. IsFiniteSet(2..(2 + c)) /\ Cardinality(2..(2 + c)) = c + 1
      <4>1. 2 \in Int /\ 2 + c \in Int
        BY <2>1
      <4>2. /\ IsFiniteSet(2..(2 + c))
            /\ Cardinality(2..(2 + c)) = IF 2 > 2 + c THEN 0 ELSE (2 + c) - 2 + 1
        BY <4>1, FS_Interval
      <4> QED
        BY <2>1, <4>2
    <3>4. Cardinality(taken) < Cardinality(2..(2 + c))
      BY <2>1, <3>3
    <3> HIDE DEF f, c
    <3>5. \E m, n \in 2..(2 + c) : m # n /\ f[m] = f[n]
      BY ONLY <3>1, <3>3, <3>4, FS_PigeonHole, IsFiniteSet(taken)
    <3> QED
      BY <3>2, <3>5
  <2>4. T \subseteq Nat
    BY <2>1
  <2>5. uniqueId(id, taken) = Append(id, Min(T))
    BY <1>2 DEF uniqueId
  <2>6. Min(T) \in T
    BY <2>3, <2>4, LeastOf
  <2> QED
    BY <2>2, <2>4, <2>5, <2>6
<1> QED
  BY <1>1, <1>2

(* What a document on disk is, and what a room made from one is. *)
Docs == [members : Seq(Drafts), gates : BOOLEAN]
GoodDoc(d) ==
  /\ d \in Docs /\ d.members # <<>> /\ Distinct(d.members) /\ Prompted(d.members)
  /\ \A i \in DOMAIN d.members : d.members[i].id \in Roles => d.members[i].prompt = "absent"

Rooms(b) ==
  [members : Seq(Seated(b)), gates : BOOLEAN, from : Docs, clean : BOOLEAN, loaded : BOOLEAN]
GoodRoom(l, b) ==
  /\ l \in Rooms(b) /\ l.members # <<>> /\ Distinct(l.members)
  /\ GoodDoc(l.from)
  /\ l.clean => ToSet(AllStripped(l.members, b)) = ToSet(AllStripped(l.from.members, b))
  /\ l.loaded => l.members = AllFilled(l.from.members, b) /\ l.gates = l.from.gates

Composers == [members : Seq(Drafts), gates : BOOLEAN, named : BOOLEAN]

PresetInv ==
  /\ build \in Build
  /\ file # NoDoc => GoodDoc(file)
  /\ composer # NoDoc => composer \in Composers
  /\ card # NoDoc => composer \in Composers /\ card.was \in Drafts
  /\ live # NoDoc => GoodRoom(live, build)

LEMMA SkillsOf ==
  ASSUME NEW b \in Build, NEW r \in Roles
  PROVE  ShippedSkills[r][b] \in SkillLists /\ ShippedSkills[r][b] \notin {"[]", "own"}
<1> DEFINE s == ShippedSkills[r]
<1>1. s \in [1..2 -> STRING \ {"[]", "own"}] /\ b \in 1..2
  BY ShippedSkillsAssumption DEF Build
<1>2. s[b] \in STRING \ {"[]", "own"} /\ s[b] \in Range(s)
  BY <1>1 DEF Range
<1>3. \A x \in Range(ShippedSkills[r]) : x \in SkillLists
  BY Zenon DEF SkillLists
<1> QED
  BY <1>2, <1>3

\* Of a member, stripping leaves what a document may have.
LEMMA StripsOne ==
  ASSUME NEW b \in Build, NEW p,
         p \in Drafts \/ p \in Seated(b)
  PROVE  LET q == Stripped(p, b) IN
         /\ q \in [id : Names, prompt : Prompts, skills : PlainSkills] /\ q.id = p.id
         /\ p.id \in Roles => q.prompt = "absent"
         /\ p.id \notin Roles => q = p
         /\ p.id \notin Roles /\ p.prompt # "absent" => q.prompt = "own"
<1>1. /\ p \in [id : Names, prompt : Prompts, skills : SkillLists]
      /\ p.id \notin Roles => p.skills \in PlainSkills /\ p.prompt \in {"absent", "own"}
      /\ p.id \in Roles => p.skills \in PlainSkills \union {ShippedSkills[p.id][b]}
  <2>1. CASE p \in Drafts
    <3>1. p \in [id : Names, prompt : {"absent", "own"}, skills : PlainSkills]
      BY <2>1 DEF Drafts
    <3>2. p.prompt \in {"absent", "own"} /\ p.skills \in PlainSkills
      BY <3>1
    <3>3. PlainSkills \subseteq SkillLists /\ {"absent", "own"} \subseteq Prompts
      BY DEF PlainSkills, SkillLists, Prompts
    <3> QED
      BY <3>1, <3>2, <3>3
  <2>2. CASE p \in Seated(b)
    BY <2>2 DEF Seated
  <2> QED
    BY <2>1, <2>2
<1>2. CASE p.id \notin Roles
  BY <1>1, <1>2 DEF Stripped
<1>3. CASE p.id \in Roles
  <2> DEFINE s == IF p.skills = ShippedSkills[p.id][b] THEN "absent" ELSE p.skills
  <2>1. s \in PlainSkills
    BY <1>1, <1>3 DEF PlainSkills
  <2> HIDE DEF s
  <2>2. Stripped(p, b) = [p EXCEPT !.prompt = "absent", !.skills = s]
    BY <1>3 DEF Stripped, s
  <2>3. Stripped(p, b) = [id |-> p.id, prompt |-> "absent", skills |-> s]
    BY <1>1, <2>2
  <2>4. "absent" \in Prompts
    BY DEF Prompts
  <2> QED
    BY <1>1, <1>3, <2>1, <2>3, <2>4
<1> QED
  BY <1>2, <1>3

\* What is written of a list of members that a save accepts is a good document.
LEMMA StoresGood ==
  ASSUME NEW b \in Build, NEW S, S = Drafts \/ S = Seated(b), NEW l \in Seq(S),
         NEW g \in BOOLEAN, l # <<>>, Distinct(l), Prompted(l)
  PROVE  GoodDoc([members |-> AllStripped(l, b), gates |-> g])
<1> DEFINE m == AllStripped(l, b)
<1>1. ASSUME NEW i \in DOMAIN l
      PROVE  /\ m[i] \in Drafts /\ m[i].id = l[i].id
             /\ l[i].id \in Roles => m[i].prompt = "absent"
             /\ l[i].id \notin Roles => m[i].prompt = "own"
  <2> DEFINE q == Stripped(l[i], b)
  <2>1. m[i] = q
    BY DEF AllStripped
  <2>2. l[i] \in Drafts \/ l[i] \in Seated(b)
    <3>1. l[i] \in S
      OBVIOUS
    <3> QED
      BY <3>1, Zenon
  <2>3. l[i].id \notin Roles => l[i].prompt # "absent"
    BY DEF Prompted
  <2>4. /\ q \in [id : Names, prompt : Prompts, skills : PlainSkills] /\ q.id = l[i].id
        /\ l[i].id \in Roles => q.prompt = "absent"
        /\ l[i].id \notin Roles => q.prompt = "own"
    BY <2>2, <2>3, StripsOne
  <2> HIDE DEF q
  <2> QED
    BY <2>1, <2>4 DEF Drafts
<1>2. m = [i \in DOMAIN l |-> m[i]]
  BY DEF AllStripped
<1> HIDE DEF m
<1>3. m \in Seq(Drafts) /\ Len(m) = Len(l) /\ DOMAIN m = DOMAIN l
  BY <1>1, <1>2, SameLength
<1>4. m # <<>>
  BY <1>3
<1>5. Distinct(m)
  <2>1. \A i, j \in DOMAIN l : l[i].id = l[j].id => i = j
    BY DistinctIs
  <2> QED
    BY <1>1, <1>3, <2>1, DistinctIs
<1>6. Prompted(m)
  BY <1>1, <1>3 DEF Prompted
<1> DEFINE d == [members |-> m, gates |-> g]
<1>7. d.members = m /\ d \in Docs
  BY <1>3 DEF Docs
<1> HIDE DEF d
<1>8. GoodDoc(d)
  BY <1>1, <1>3, <1>4, <1>5, <1>6, <1>7 DEF GoodDoc
<1> QED
  BY <1>8 DEF d, m

ShippedIn(b) == <<"shipped in 1", "shipped in 2">>[b]

LEMMA ShippedKnown ==
  ASSUME NEW b \in Build
  PROVE  ShippedIn(b) \in Prompts /\ ShippedIn(b) # "absent"
<1>1. CASE b = 1
  <2>1. ShippedIn(b) = "shipped in 1"
    BY <1>1 DEF ShippedIn
  <2> QED
    BY <2>1 DEF Prompts
<1>2. CASE b = 2
  <2>1. ShippedIn(b) = "shipped in 2"
    BY <1>2 DEF ShippedIn
  <2> QED
    BY <2>1 DEF Prompts
<1> QED
  BY <1>1, <1>2 DEF Build

\* What the program ships is a list of members, one for each role.
Seeds(b) ==
  [r \in Roles |-> [id |-> r, prompt |-> ShippedIn(b), skills |-> ShippedSkills[r][b]]]

LEMMA SeedsInARow ==
  ASSUME NEW b \in Build
  PROVE  LET l == SetToSeq(Range(Seeds(b))) IN
         /\ l \in Seq(Seated(b)) /\ l # <<>> /\ Distinct(l) /\ Prompted(l)
<1> DEFINE R == Range(Seeds(b))
           l == SetToSeq(R)
           n == Cardinality(R)
<1>1. ASSUME NEW r \in Roles
      PROVE  Seeds(b)[r] = [id |-> r, prompt |-> ShippedIn(b), skills |-> ShippedSkills[r][b]]
  BY DEF Seeds
<1>2. ASSUME NEW r \in Roles PROVE Seeds(b)[r] \in Seated(b) /\ Seeds(b)[r].id = r
  <2>1. r \in Names /\ ShippedSkills[r][b] \in SkillLists
    BY IdsAreNames, SkillsOf
  <2> DEFINE p == [id |-> r, prompt |-> ShippedIn(b), skills |-> ShippedSkills[r][b]]
  <2>2. /\ p \in [id : Names, prompt : Prompts, skills : SkillLists]
        /\ p.id = r /\ p.prompt = ShippedIn(b) /\ p.skills = ShippedSkills[r][b]
    BY <2>1, ShippedKnown
  <2> HIDE DEF p
  <2>3. p \in Seated(b)
    BY <2>2, ShippedKnown DEF Seated
  <2> QED
    BY <1>1, <2>2, <2>3 DEF p
<1>3. DOMAIN Seeds(b) = Roles
  BY DEF Seeds
<1>4. R = {Seeds(b)[r] : r \in Roles}
  BY <1>3 DEF Range
<1>5. R \subseteq Seated(b) /\ R # {}
  BY <1>2, <1>4, PresetIdsAssumption
<1>6. \A p, q \in R : p.id = q.id => p = q
  BY <1>2, <1>4
<1>7. \A p \in R : p.id \in Roles
  BY <1>2, <1>4
<1>8. IsFiniteSet(R)
  <2>1. Seeds(b) \in Surjection(Roles, R)
    BY <1>3, <1>4 DEF Surjection, Seeds
  <2> QED
    BY ONLY <2>1, FS_Surjection, PresetIdsAssumption
<1> HIDE DEF R
<1>9. n \in Nat /\ n # 0 /\ ExistsBijection(1..n, R)
  BY <1>5, <1>8, FS_CardinalityType, FS_EmptySet
<1>10. PICK f \in [1..n -> R] : IsInjective(f)
  BY <1>9 DEF ExistsBijection, Bijection, Injection
<1>11. l \in [1..n -> R] /\ IsInjective(l)
  BY <1>10 DEF SetToSeq
<1> HIDE DEF l, n
<1>12. /\ l \in Seq(R) /\ DOMAIN l = 1..n /\ Len(l) = n /\ \A i \in DOMAIN l : l[i] \in R
  BY <1>9, <1>11
<1>13. l \in Seq(Seated(b)) /\ l # <<>>
  BY <1>5, <1>9, <1>12
<1>14. Distinct(l)
  <2>1. \A i, j \in DOMAIN l : l[i].id = l[j].id => i = j
    BY <1>6, <1>11, <1>12 DEF IsInjective
  <2> QED
    BY <1>12, <2>1, DistinctIs
<1>15. Prompted(l)
  BY <1>7, <1>12 DEF Prompted
<1> QED
  BY <1>13, <1>14, <1>15 DEF l, R

\* The document the program writes itself is a good one.
LEMMA DefaultIsGood == build \in Build => GoodDoc(DefaultDoc)
<1> SUFFICES ASSUME build \in Build PROVE GoodDoc(DefaultDoc)
  OBVIOUS
<1> DEFINE l == SetToSeq(Range(Seeds(build)))
<1>1. SEED_PERSONAS = Seeds(build)
  BY DEF SEED_PERSONAS, Seeds, ShippedPrompt, ShippedIn
<1>2. l \in Seq(Seated(build)) /\ l # <<>> /\ Distinct(l) /\ Prompted(l)
  BY SeedsInARow
<1>3. DefaultDoc = [members |-> AllStripped(l, build), gates |-> FALSE]
  BY <1>1, StripIs DEF DefaultDoc
<1> HIDE DEF l
<1>4. GoodDoc([members |-> AllStripped(l, build), gates |-> FALSE])
  BY <1>2, StoresGood
<1> QED
  BY <1>3, <1>4

LEMMA PresetStart == PresetInit => PresetInv
<1> SUFFICES ASSUME PresetInit PROVE PresetInv
  OBVIOUS
<1>1. build = 1 /\ file = DefaultDoc /\ composer = NoDoc /\ card = NoDoc /\ live = NoDoc
  BY DEF PresetInit
<1>2. build \in Build
  BY <1>1 DEF Build
<1> QED
  BY <1>1, <1>2, DefaultIsGood DEF PresetInv

\* Of a member that a load filled in, stripping leaves what the document had.
LEMMA FillsOne ==
  ASSUME NEW b \in Build, NEW p \in Drafts,
         p.id \in Roles => p.prompt = "absent",
         p.id \notin Roles => p.prompt # "absent"
  PROVE  /\ Filled(p, b) \in Seated(b) /\ Filled(p, b).id = p.id
         /\ Stripped(Filled(p, b), b) = Stripped(p, b)
         /\ p.id \in Roles => Filled(p, b).prompt = ShippedIn(b)
         /\ Filled(p, b).skills = (IF p.skills = "absent" /\ p.id \in Roles
                                   THEN ShippedSkills[p.id][b] ELSE p.skills)
<1>1. /\ p = [id |-> p.id, prompt |-> p.prompt, skills |-> p.skills]
      /\ p.id \in Names /\ p.prompt \in {"absent", "own"} /\ p.skills \in PlainSkills
  BY DEF Drafts
<1>2. CASE p.id \notin Roles
  <2>1. Filled(p, b) = p /\ p.prompt = "own"
    BY <1>1, <1>2 DEF Filled
  <2>2. p \in [id : Names, prompt : Prompts, skills : SkillLists]
    <3>1. p.prompt \in Prompts /\ p.skills \in SkillLists
      BY <1>1 DEF Prompts, SkillLists, PlainSkills
    <3> QED
      BY <1>1, <3>1
  <2>3. p \in Seated(b)
    BY <1>1, <1>2, <2>1, <2>2 DEF Seated
  <2> QED
    BY <1>2, <2>1, <2>3
<1>3. CASE p.id \in Roles
  <2> DEFINE ship == ShippedSkills[p.id][b]
             s == IF p.skills = "absent" THEN ship ELSE p.skills
             q == [id |-> p.id, prompt |-> ShippedIn(b), skills |-> s]
  <2>1. ship \in SkillLists /\ ship \notin {"[]", "own"}
    BY <1>3, SkillsOf
  <2>2. s \in SkillLists /\ s \in PlainSkills \union {ship}
    BY <1>1, <2>1 DEF SkillLists, PlainSkills
  <2>3. Filled(p, b) = q
    <3>1. Filled(p, b) = [p EXCEPT !.prompt = ShippedIn(b), !.skills = s]
      BY <1>3 DEF Filled, ShippedIn
    <3> QED
      BY <1>1, <3>1
  <2>4. q \in [id : Names, prompt : Prompts, skills : SkillLists]
    BY <1>1, <2>2, ShippedKnown
  <2>5. q.id = p.id /\ q.prompt = ShippedIn(b) /\ q.skills = s
    OBVIOUS
  <2>6. (IF s = ship THEN "absent" ELSE s) = (IF p.skills = ship THEN "absent" ELSE p.skills)
    BY <1>1, <2>1 DEF PlainSkills
  <2>7. Stripped(p, b) = [id |-> p.id, prompt |-> "absent",
                          skills |-> IF p.skills = ship THEN "absent" ELSE p.skills]
    BY <1>1, <1>3 DEF Stripped
  <2>8. Stripped(q, b) = [id |-> p.id, prompt |-> "absent",
                          skills |-> IF s = ship THEN "absent" ELSE s]
    BY <1>3 DEF Stripped
  <2>9. q \in Seated(b)
    BY <1>3, <2>2, <2>4, <2>5, ShippedKnown DEF Seated
  <2> QED
    BY <1>3, <2>3, <2>5, <2>6, <2>7, <2>8, <2>9
<1> QED
  BY <1>2, <1>3

\* To strip a member twice is to strip it once.
LEMMA StripsOnce ==
  ASSUME NEW b \in Build, NEW p \in Seated(b)
  PROVE  Stripped(Stripped(p, b), b) = Stripped(p, b)
<1>1. p = [id |-> p.id, prompt |-> p.prompt, skills |-> p.skills]
  BY DEF Seated
<1>2. CASE p.id \notin Roles
  BY <1>2 DEF Stripped
<1>3. CASE p.id \in Roles
  <2> DEFINE ship == ShippedSkills[p.id][b]
             s == IF p.skills = ship THEN "absent" ELSE p.skills
             q == [id |-> p.id, prompt |-> "absent", skills |-> s]
  <2>1. Stripped(p, b) = q
    BY <1>1, <1>3 DEF Stripped
  <2>2. Stripped(q, b) = [id |-> p.id, prompt |-> "absent",
                          skills |-> IF s = ship THEN "absent" ELSE s]
    BY <1>3 DEF Stripped
  <2> QED
    BY <2>1, <2>2
<1> QED
  BY <1>2, <1>3

\* A room made from a good document.
LEMMA LoadsGood ==
  ASSUME NEW b \in Build, NEW d, GoodDoc(d)
  PROVE  GoodRoom([members |-> AllFilled(d.members, b), gates |-> d.gates, from |-> d,
                   clean |-> TRUE, loaded |-> TRUE], b)
<1> DEFINE l == d.members
           m == AllFilled(l, b)
<1>1. d \in Docs /\ l \in Seq(Drafts) /\ l # <<>> /\ Distinct(l)
  BY DEF GoodDoc, Docs
<1>2. ASSUME NEW i \in DOMAIN l
      PROVE  /\ m[i] \in Seated(b) /\ m[i].id = l[i].id
             /\ Stripped(m[i], b) = Stripped(l[i], b)
  <2>1. m[i] = Filled(l[i], b)
    BY DEF AllFilled
  <2>2. l[i] \in Drafts
    BY <1>1
  <2>3. /\ l[i].id \in Roles => l[i].prompt = "absent"
        /\ l[i].id \notin Roles => l[i].prompt # "absent"
    BY DEF GoodDoc, Prompted
  <2> HIDE DEF l, m
  <2> QED
    BY <2>1, <2>2, <2>3, FillsOne
<1>3. m = [i \in DOMAIN l |-> m[i]]
  BY DEF AllFilled
<1> DEFINE r == [members |-> m, gates |-> d.gates, from |-> d, clean |-> TRUE, loaded |-> TRUE]
<1> HIDE DEF m
<1>4. m \in Seq(Seated(b)) /\ Len(m) = Len(l) /\ DOMAIN m = DOMAIN l
  BY <1>1, <1>2, <1>3, SameLength
<1>5. m # <<>>
  BY <1>1, <1>4
<1>6. Distinct(m)
  <2>1. \A i, j \in DOMAIN l : l[i].id = l[j].id => i = j
    BY <1>1, DistinctIs
  <2> QED
    BY <1>2, <1>4, <2>1, DistinctIs
<1>7. AllStripped(m, b) = AllStripped(l, b)
  BY <1>2, <1>4 DEF AllStripped
<1>8. /\ r.members = m /\ r.gates = d.gates /\ r.from = d
      /\ r \in Rooms(b)
  BY <1>1, <1>4 DEF Rooms, Docs
<1> HIDE DEF r
<1>9. GoodRoom(r, b)
  BY <1>5, <1>6, <1>7, <1>8 DEF GoodRoom, m
<1> QED
  BY <1>9 DEF r, m

\* An element more, anywhere in a sequence.
LEMMA InsertedAt ==
  ASSUME NEW S, NEW s \in Seq(S), NEW n \in 1 .. (Len(s) + 1), NEW e \in S
  PROVE  InsertAt(s, n, e) \in Seq(S)
<1>1. DOMAIN s = 1 .. Len(s) /\ Len(s) \in Nat
  OBVIOUS
<1>2. \A i \in 1 .. Len(s) : s[i] \in S
  BY <1>1
<1>3. SubSeq(s, 1, n - 1) \in Seq(S)
  <2>1. 1 \in Int /\ n - 1 \in Int /\ \A i \in 1 .. (n - 1) : s[i] \in S
    BY <1>1, <1>2
  <2> QED
    BY ONLY <2>1, SubSeqProperties
<1>4. SubSeq(s, n, Len(s)) \in Seq(S)
  <2>1. n \in Int /\ Len(s) \in Int /\ \A i \in n .. Len(s) : s[i] \in S
    BY <1>1, <1>2
  <2> QED
    BY ONLY <2>1, SubSeqProperties
<1>5. \A front, back \in Seq(S) : front \o <<e>> \o back \in Seq(S)
  OBVIOUS
<1> QED
  BY <1>3, <1>4, <1>5 DEF InsertAt

(* One lemma per operation that changes what the invariant is about. *)

\* A step that leaves the documents and the rooms alone.
LEMMA ComposerMoves ==
  ASSUME PresetInv, UNCHANGED <<build, file, live>>,
         composer' # NoDoc => composer' \in Composers,
         card' # NoDoc => composer' \in Composers /\ card'.was \in Drafts
  PROVE  PresetInv'
BY DEF PresetInv

LEMMA KeepsTyped ==
  ASSUME composer \in Composers, NEW list \in Seq(Drafts), Keeps(list)
  PROVE  composer' \in Composers
<1>1. composer' = [members |-> list, gates |-> composer.gates, named |-> composer.named]
  BY DEF Keeps, Composers
<1> QED
  BY <1>1 DEF Composers

LEMMA ComposingTyped ==
  ASSUME PresetInv, Composing
  PROVE  composer \in Composers /\ members \in Seq(Drafts) /\ IsFiniteSet(IdsOf(members))
<1>1. composer \in Composers
  BY DEF PresetInv, Composing
<1>2. members \in Seq(Drafts)
  BY <1>1 DEF Composers, members
<1> QED
  BY <1>1, <1>2, DistinctIs

LEMMA OpensComposerKeeps ==
  ASSUME PresetInv, OpensComposer PROVE PresetInv'
<1>1. UNCHANGED <<build, file, card, live>>
  BY DEF OpensComposer
<1>2. composer' \in Composers
  <2>1. CASE composer' = [members |-> <<>>, gates |-> FALSE, named |-> FALSE]
    BY <2>1 DEF Composers
  <2>2. CASE /\ file # NoDoc
             /\ \E n \in BOOLEAN :
                  composer' = [members |-> file.members, gates |-> file.gates, named |-> n]
    <3>1. file \in Docs
      BY <2>2 DEF PresetInv, GoodDoc
    <3> QED
      BY <2>2, <3>1 DEF Docs, Composers
  <2> QED
    BY <2>1, <2>2 DEF OpensComposer
<1> QED
  BY <1>1, <1>2, ComposerMoves DEF PresetInv

LEMMA EditMemberKeeps ==
  ASSUME PresetInv, Composing, NEW i \in DOMAIN members, editMember(i) PROVE PresetInv'
<1>1. card'.was = members[i] /\ UNCHANGED <<build, file, composer, live>>
  BY DEF editMember, CardFor
<1>2. members[i] \in Drafts
  BY ComposingTyped
<1> QED
  BY <1>1, <1>2, ComposerMoves DEF Composing, PresetInv

LEMMA AddMemberKeeps ==
  ASSUME PresetInv, NEW p \in Drafts, addMember(p) PROVE PresetInv'
<1>1. /\ Composing /\ Keeps(Append(members, p))
      /\ card' = CardFor(Append(members, p), Len(members) + 1)
      /\ UNCHANGED <<build, file, live>>
  BY DEF addMember
<1>2. composer \in Composers /\ members \in Seq(Drafts)
  BY <1>1, ComposingTyped
<1>3. Append(members, p) \in Seq(Drafts) /\ Append(members, p)[Len(members) + 1] = p
  BY <1>2
<1>4. composer' \in Composers
  BY <1>1, <1>2, <1>3, KeepsTyped
<1>5. card'.was = p
  BY <1>1, <1>3 DEF CardFor
<1> QED
  BY <1>1, <1>4, <1>5, ComposerMoves

\* The lines a composer adds are a blank member or one of a role.
LEMMA NewMembers ==
  ASSUME PresetInv, Composing
  PROVE  blankMember \in Drafts /\ \A r \in Roles : memberFromTemplate(r) \in Drafts
<1>1. IsFiniteSet(IdsOf(members))
  BY ComposingTyped
<1>2. ASSUME NEW id \in Roles \union Customs
      PROVE  [id |-> uniqueId(id, IdsOf(members)), prompt |-> "absent", skills |-> "absent"]
               \in Drafts
  <2>1. uniqueId(id, IdsOf(members)) \in Names
    BY <1>1, IdsAreNames, UniqueIdIsFree
  <2> QED
    BY <2>1 DEF Drafts, PlainSkills
<1>3. (CHOOSE c \in Customs : Len(c) = 1) \in Customs
  BY PresetIdsAssumption
<1> QED
  BY <1>2, <1>3 DEF blankMember, memberFromTemplate

LEMMA CardDoneKeeps ==
  ASSUME PresetInv, CardDone PROVE PresetInv'
<1>1. /\ card # NoDoc /\ card' = NoDoc /\ UNCHANGED <<build, file, live>>
  BY DEF CardDone
<1>2. PICK p \in Edited(card.was) : Keeps(ReplaceAt(members, card.at, p))
  BY DEF CardDone
<1>3. composer \in Composers /\ card.was \in Drafts /\ members \in Seq(Drafts)
  BY <1>1 DEF PresetInv, Composers, members
<1>4. p \in Drafts
  <2> DEFINE w == card.was
  <2>1. w.id \in Names /\ w.prompt \in {"absent", "own"} /\ w.skills \in PlainSkills
    BY <1>3 DEF Drafts
  <2>2. p \in [id : {w.id} \union Roles \union Customs, prompt : {w.prompt, "own", "absent"},
               skills : {w.skills, "own", "[]", "absent"}]
    BY <1>2 DEF Edited
  <2> HIDE DEF w
  <2>3. p.id \in Names
    BY <2>1, <2>2, IdsAreNames
  <2>4. p.prompt \in {"absent", "own"} /\ p.skills \in PlainSkills
    BY <2>1, <2>2 DEF PlainSkills
  <2>5. p = [id |-> p.id, prompt |-> p.prompt, skills |-> p.skills]
    BY <2>2
  <2> QED
    BY <2>3, <2>4, <2>5 DEF Drafts
<1>5. ReplaceAt(members, card.at, p) \in Seq(Drafts)
  <2> DEFINE l == members
             f == [l EXCEPT ![card.at] = p]
  <2>1. f = [i \in DOMAIN l |-> f[i]] /\ \A i \in DOMAIN l : f[i] \in Drafts
    BY <1>3, <1>4
  <2> HIDE DEF f, l
  <2>2. f \in Seq(Drafts)
    BY <2>1, <1>3, SameLength DEF l
  <2> QED
    BY <2>2 DEF ReplaceAt, f, l
<1>6. composer' \in Composers
  BY <1>2, <1>3, <1>5, KeepsTyped
<1> QED
  BY <1>1, <1>6, ComposerMoves

LEMMA RearrangesKeeps ==
  ASSUME PresetInv, Rearranges PROVE PresetInv'
<1>1. Composing /\ UNCHANGED <<build, file, card, live>>
  BY DEF Rearranges
<1> DEFINE l == members
<1>2. composer \in Composers /\ l \in Seq(Drafts) /\ IsFiniteSet(IdsOf(l))
  BY <1>1, ComposingTyped
<1>3. PICK i \in DOMAIN l :
        \/ Keeps(duplicateMember(i)) \/ Keeps(RemoveAt(l, i))
        \/ \E j \in {i - 1, i + 1} \intersect DOMAIN l : Keeps(moveMember(i, j))
  BY DEF Rearranges
<1> HIDE DEF l
<1>4. DOMAIN l = 1 .. Len(l) /\ Len(l) \in Nat /\ l[i] \in Drafts
  BY <1>2
<1>5. \E list \in Seq(Drafts) : Keeps(list)
  <2>1. CASE Keeps(duplicateMember(i))
    <3> DEFINE id == uniqueId(l[i].id, IdsOf(l))
    <3>1. id \in Names
      BY <1>2, <1>4, UniqueIdIsFree DEF Drafts
    <3> HIDE DEF id
    <3>2. [l[i] EXCEPT !.id = id] \in Drafts
      BY <1>4, <3>1 DEF Drafts
    <3>3. i + 1 \in 1 .. (Len(l) + 1)
      BY <1>4
    <3>4. duplicateMember(i) \in Seq(Drafts)
      BY <1>2, <3>2, <3>3, InsertedAt DEF duplicateMember, l, id
    <3> QED
      BY <2>1, <3>4
  <2>2. CASE Keeps(RemoveAt(l, i))
    BY <2>2, <1>2, RemovedAt
  <2>3. ASSUME NEW j \in {i - 1, i + 1} \intersect DOMAIN l, Keeps(moveMember(i, j))
        PROVE  \E list \in Seq(Drafts) : Keeps(list)
    <3> DEFINE rest == RemoveAt(l, i)
    <3>1. rest \in Seq(Drafts) /\ Len(rest) = Len(l) - 1
      BY <1>2, RemovedAt
    <3>2. j \in 1 .. (Len(rest) + 1)
      BY <1>4, <3>1
    <3>3. InsertAt(rest, j, l[i]) \in Seq(Drafts)
      BY <1>4, <3>1, <3>2, InsertedAt
    <3> QED
      BY <2>3, <3>3 DEF moveMember, l
  <2> QED
    BY <1>3, <2>1, <2>2, <2>3
<1>6. composer' \in Composers
  BY <1>2, <1>5, KeepsTyped
<1> QED
  BY <1>1, <1>6, ComposerMoves DEF PresetInv

LEMMA NamesItKeeps ==
  ASSUME PresetInv, NamesIt \/ Discards PROVE PresetInv'
<1>1. Composing /\ UNCHANGED <<build, file, card, live>>
  BY DEF NamesIt, Discards
<1>2. composer \in Composers
  BY <1>1, ComposingTyped
<1>3. composer' \in Composers \/ composer' = NoDoc
  BY <1>2 DEF NamesIt, Discards, Composers
<1>4. card' = NoDoc
  BY <1>1 DEF Composing
<1> QED
  BY <1>1, <1>3, <1>4, ComposerMoves

\* A step that writes the file, and no room.
LEMMA FileWritten ==
  ASSUME PresetInv, UNCHANGED <<build, live>>,
         file' # NoDoc => GoodDoc(file'),
         (composer' = NoDoc /\ card' = NoDoc) \/ UNCHANGED <<composer, card>>
  PROVE  PresetInv'
BY DEF PresetInv

LEMMA SavesKeeps ==
  ASSUME PresetInv, ~Promptless, Saves PROVE PresetInv'
<1>1. /\ Composing /\ members # <<>> /\ Prompted(members) /\ Distinct(members)
      /\ file' = Stored(members, composer.gates) /\ composer' = NoDoc
      /\ UNCHANGED <<build, card, live>>
  BY DEF Saves, parsePresetFile
<1>2. composer \in Composers /\ members \in Seq(Drafts) /\ composer.gates \in BOOLEAN
  BY <1>1, ComposingTyped DEF Composers
<1>3. build \in Build
  BY DEF PresetInv
<1>4. GoodDoc(Stored(members, composer.gates))
  BY <1>1, <1>2, <1>3, StoresGood, StripIs
<1> QED
  BY <1>1, <1>4, FileWritten DEF Composing

LEMMA AuthorsDocKeeps ==
  ASSUME PresetInv, ~Promptless, AuthorsDoc PROVE PresetInv'
<1>1. PICK list \in Authored :
        /\ Prompted(list)
        /\ IF parsePresetFile(list) THEN file' = Stored(list, TRUE) ELSE file' = file
  BY DEF AuthorsDoc
<1>2. UNCHANGED <<build, composer, card, live>>
  BY DEF AuthorsDoc
<1>3. list \in Seq(Drafts)
  <2> DEFINE S == [id : Roles \union Customs, prompt : {"absent", "own"},
                   skills : {"absent", "[]", "own"}]
  <2>1. list \in UNION {[1..m -> S] : m \in 0..2}
    BY DEF Authored, BoundedSeq, SeqOf
  <2>2. PICK m \in 0..2 : list \in [1..m -> S]
    BY <2>1
  <2>3. S \subseteq Drafts
    BY IdsAreNames DEF Drafts, PlainSkills
  <2> HIDE DEF S
  <2> QED
    BY <2>2, <2>3
<1>4. file' # NoDoc => GoodDoc(file')
  <2>1. CASE parsePresetFile(list)
    <3>1. build \in Build
      BY DEF PresetInv
    <3>2. GoodDoc(Stored(list, TRUE))
      BY <2>1, <1>1, <1>3, <3>1, StoresGood, StripIs DEF parsePresetFile
    <3> QED
      BY <1>1, <2>1, <3>2
  <2>2. CASE ~parsePresetFile(list)
    BY <1>1, <2>2 DEF PresetInv
  <2> QED
    BY <2>1, <2>2
<1> QED
  BY <1>2, <1>4, FileWritten

\* What a room has can be written.
LEMMA RosterStored ==
  ASSUME PresetInv, live # NoDoc
  PROVE  GoodDoc(Stored(live.members, live.gates))
<1>1. build \in Build /\ GoodRoom(live, build)
  BY DEF PresetInv
<1>2. /\ live.members \in Seq(Seated(build)) /\ live.gates \in BOOLEAN
      /\ live.members # <<>> /\ Distinct(live.members)
  BY <1>1 DEF GoodRoom, Rooms
<1>3. \A i \in DOMAIN live.members : live.members[i] \in Seated(build)
  BY <1>2
<1>4. Prompted(live.members)
  BY <1>3 DEF Prompted, Seated
<1> QED
  BY <1>1, <1>2, <1>4, StoresGood, StripIs

LEMMA SavePresetKeeps ==
  ASSUME PresetInv, doSavePreset \/ deletePreset PROVE PresetInv'
<1>1. /\ UNCHANGED <<build, composer, card, live>>
      /\ file' = NoDoc \/ (live # NoDoc /\ file' = Stored(live.members, live.gates))
  BY DEF doSavePreset, deletePreset
<1>2. file' # NoDoc => GoodDoc(file')
  BY <1>1, RosterStored
<1> QED
  BY <1>1, <1>2, FileWritten

LEMMA PushPresetKeeps ==
  ASSUME PresetInv, doPushPreset PROVE PresetInv'
<1> DEFINE d == Stored(live.members, live.gates)
           b == build
<1>1. /\ live # NoDoc /\ file' = d
      /\ live' = [live EXCEPT !.from = d, !.clean = TRUE, !.loaded = FALSE]
      /\ UNCHANGED <<build, composer, card>>
  BY DEF doPushPreset
<1>2. GoodDoc(d)
  BY <1>1, RosterStored
<1>3. b \in Build /\ GoodRoom(live, b)
  BY <1>1 DEF PresetInv
<1>4. d.members = AllStripped(live.members, b)
  BY StripIs
<1> HIDE DEF d
<1>5. \A i \in DOMAIN live.members : live.members[i] \in Seated(b)
  BY <1>3 DEF GoodRoom, Rooms
<1>6. AllStripped(d.members, b) = AllStripped(live.members, b)
  BY <1>3, <1>4, <1>5, StripsOnce DEF AllStripped
<1>7. /\ live' \in Rooms(b) /\ live'.members = live.members /\ live'.from = d
      /\ ~live'.loaded
  BY <1>1, <1>2, <1>3 DEF GoodRoom, GoodDoc, Rooms
<1>8. GoodRoom(live', b)
  BY <1>2, <1>3, <1>6, <1>7 DEF GoodRoom
<1> QED
  BY <1>1, <1>2, <1>8 DEF PresetInv

LEMMA LoadPresetKeeps ==
  ASSUME PresetInv, doLoadPreset PROVE PresetInv'
<1>1. /\ file # NoDoc
      /\ live' = [members |-> AllFilled(file.members, build), gates |-> file.gates,
                  from |-> file, clean |-> TRUE, loaded |-> TRUE]
      /\ UNCHANGED <<build, file, composer, card>>
  BY FillIs DEF doLoadPreset
<1>2. build \in Build /\ GoodDoc(file)
  BY <1>1 DEF PresetInv
<1>3. GoodRoom(live', build)
  BY <1>1, <1>2, LoadsGood
<1> QED
  BY <1>1, <1>3 DEF PresetInv

\* A room whose roster was edited: neither clean nor as it was loaded.
LEMMA RosterEdited ==
  ASSUME PresetInv, live # NoDoc, NEW list \in Seq(Seated(build)), list # <<>>, Distinct(list),
         live' = [live EXCEPT !.members = list, !.clean = FALSE, !.loaded = FALSE],
         UNCHANGED <<build, file, composer, card>>
  PROVE  PresetInv'
<1>1. GoodRoom(live, build) /\ build \in Build
  BY DEF PresetInv
<1>2. /\ live' \in Rooms(build) /\ live'.members = list /\ live'.from = live.from
      /\ ~live'.clean /\ ~live'.loaded
  BY <1>1 DEF GoodRoom, Rooms
<1>3. GoodRoom(live', build)
  BY <1>1, <1>2 DEF GoodRoom
<1> QED
  BY <1>3 DEF PresetInv

LEMMA EditsRosterKeeps ==
  ASSUME PresetInv, ~Emptied, EditsRoster PROVE PresetInv'
<1> DEFINE l == live.members
           b == build
<1>1. live # NoDoc /\ UNCHANGED <<build, file, composer, card>>
  BY DEF EditsRoster
<1>2. b \in Build /\ GoodRoom(live, b) /\ live \in Rooms(b)
  BY <1>1 DEF PresetInv, GoodRoom
<1>3. /\ l \in Seq(Seated(b)) /\ l # <<>> /\ \A i, j \in DOMAIN l : l[i].id = l[j].id => i = j
  BY <1>2, DistinctIs DEF GoodRoom, Rooms
<1>4. DOMAIN l = 1 .. Len(l) /\ Len(l) \in Nat /\ \A i \in DOMAIN l : l[i] \in Seated(b)
  BY <1>3
<1>5. ASSUME NEW i \in DOMAIN l,
             live' = [live EXCEPT !.members[i].prompt = "own", !.clean = FALSE, !.loaded = FALSE]
      PROVE  PresetInv'
  <2> DEFINE p == [l[i] EXCEPT !.prompt = "own"]
             f == [l EXCEPT ![i] = p]
  <2>1. "own" \in Prompts /\ "own" # "absent"
    BY DEF Prompts
  <2>2. p \in Seated(b) /\ p.id = l[i].id
    <3>1. l[i] \in [id : Names, prompt : Prompts, skills : SkillLists]
      BY <1>4 DEF Seated
    <3>2. /\ p \in [id : Names, prompt : Prompts, skills : SkillLists]
          /\ p.id = l[i].id /\ p.prompt = "own" /\ p.skills = l[i].skills
      BY <2>1, <3>1
    <3>3. /\ l[i].id \in Roles => l[i].skills \in PlainSkills \union {ShippedSkills[l[i].id][b]}
          /\ l[i].id \notin Roles => l[i].skills \in PlainSkills
      BY <1>4 DEF Seated
    <3> HIDE DEF p
    <3> QED
      BY <2>1, <3>2, <3>3 DEF Seated
  <2>3. /\ f = [j \in DOMAIN l |-> f[j]]
        /\ \A j \in DOMAIN l : f[j] \in Seated(b) /\ f[j].id = l[j].id
    BY <1>4, <2>2
  <2>4. live' = [live EXCEPT !.members = f, !.clean = FALSE, !.loaded = FALSE]
    BY <1>5
  <2> HIDE DEF f, p, l
  <2>5. f \in Seq(Seated(b)) /\ Len(f) = Len(l) /\ DOMAIN f = DOMAIN l
    BY <1>3, <2>3, SameLength
  <2>6. f # <<>>
    BY <1>3, <1>4, <2>5
  <2>7. Distinct(f)
    BY <1>3, <2>3, <2>5, DistinctIs
  <2> QED
    BY <1>1, <2>4, <2>5, <2>6, <2>7, RosterEdited
<1>6. ASSUME NEW i \in DOMAIN l, Len(l) > 1,
             live' = [live EXCEPT !.members = RemoveAt(@, i), !.clean = FALSE, !.loaded = FALSE]
      PROVE  PresetInv'
  <2> DEFINE f == RemoveAt(l, i)
             from(j) == IF j < i THEN j ELSE j + 1
  <2>1. /\ f \in Seq(Seated(b)) /\ Len(f) = Len(l) - 1 /\ DOMAIN f = 1 .. (Len(l) - 1)
        /\ \A j \in 1 .. (Len(l) - 1) : f[j] = IF j < i THEN l[j] ELSE l[j + 1]
    BY <1>3, RemovedAt
  <2>2. live' = [live EXCEPT !.members = f, !.clean = FALSE, !.loaded = FALSE]
    BY <1>6
  <2> HIDE DEF f, l
  <2>3. f # <<>>
    BY <1>4, <1>6, <2>1
  <2>4. \A j \in DOMAIN f : from(j) \in DOMAIN l /\ f[j] = l[from(j)]
    BY <1>4, <2>1
  <2>5. \A j, k \in DOMAIN f : from(j) = from(k) => j = k
    BY <1>4, <2>1
  <2> HIDE DEF from
  <2>6. Distinct(f)
    <3>1. ASSUME NEW j \in DOMAIN f, NEW k \in DOMAIN f, f[j].id = f[k].id PROVE j = k
      <4>1. from(j) = from(k)
        BY <3>1, <2>4, <1>3 DEF l
      <4> QED
        BY <4>1, <2>5
    <3> QED
      BY <2>1, <3>1, DistinctIs
  <2> QED
    BY <1>1, <2>1, <2>2, <2>3, <2>6, RosterEdited
<1>7. ASSUME NEW id \in (Roles \union Customs) \ IdsOf(l),
             live' = [live EXCEPT !.clean = FALSE, !.loaded = FALSE,
                        !.members = Append(@, [id |-> id, prompt |-> "own", skills |-> "absent"])]
      PROVE  PresetInv'
  <2> DEFINE p == [id |-> id, prompt |-> "own", skills |-> "absent"]
             f == Append(l, p)
  <2>1. p \in Seated(b) /\ p.id = id
    <3>1. id \in Names /\ "own" \in Prompts /\ "absent" \in SkillLists /\ "absent" \in PlainSkills
      BY IdsAreNames DEF Prompts, SkillLists, PlainSkills
    <3>2. /\ p \in [id : Names, prompt : Prompts, skills : SkillLists]
          /\ p.id = id /\ p.prompt = "own" /\ p.skills = "absent"
      BY <3>1
    <3> HIDE DEF p
    <3> QED
      BY <3>1, <3>2 DEF Seated
  <2>2. live' = [live EXCEPT !.members = f, !.clean = FALSE, !.loaded = FALSE]
    BY <1>2, <1>7 DEF Rooms
  <2>3. \A i \in DOMAIN l : l[i].id # id
    BY DEF IdsOf
  <2> HIDE DEF p
  <2>4. /\ f \in Seq(Seated(b)) /\ f # <<>> /\ DOMAIN f = 1 .. (Len(l) + 1)
        /\ f[Len(l) + 1] = p /\ \A i \in DOMAIN l : f[i] = l[i]
    BY <1>3, <1>4, <2>1
  <2> HIDE DEF f, l
  <2>5. \A i \in DOMAIN f : i \in DOMAIN l \/ i = Len(l) + 1
    BY <1>4, <2>4
  <2>6. \A i, j \in DOMAIN f : f[i].id = f[j].id => i = j
    BY <1>3, <2>1, <2>3, <2>4, <2>5
  <2>7. Distinct(f)
    BY <2>4, <2>6, DistinctIs
  <2> QED
    BY <1>1, <2>2, <2>4, <2>7, RosterEdited
<1> QED
  BY <1>5, <1>6, <1>7 DEF EditsRoster

LEMMA UpgradesKeeps ==
  ASSUME PresetInv, ~UpgradesLive, Upgrades PROVE PresetInv'
<1>1. /\ build' = 2 /\ file' = (IF file = NoDoc THEN DefaultDoc' ELSE file) /\ live' = NoDoc
      /\ UNCHANGED <<composer, card>>
  BY DEF Upgrades
<1>2. build' \in Build
  BY <1>1 DEF Build
<1>3. GoodDoc(DefaultDoc')
  <2>1. build' \in Build => GoodDoc(DefaultDoc')
    <3>1. (build \in Build => GoodDoc(DefaultDoc))'
      BY DefaultIsGood, PTL
    <3> QED
      BY <3>1 DEF GoodDoc, Docs, Drafts, Names, Words, Build, Prompted, Distinct, IdsOf
  <2> QED
    BY <1>2, <2>1
<1> QED
  BY <1>1, <1>2, <1>3 DEF PresetInv

\* Every step keeps the invariant.
LEMMA PresetStepKeeps ==
  ASSUME ~Promptless, ~Emptied, ~UpgradesLive, PresetInv, [PresetNext]_presetVars
  PROVE  PresetInv'
<1>1. CASE OpensComposer \/ CardDone \/ Rearranges \/ NamesIt \/ Discards
  BY <1>1, OpensComposerKeeps, CardDoneKeeps, RearrangesKeeps, NamesItKeeps
<1>2. CASE Saves \/ AuthorsDoc \/ doSavePreset \/ doPushPreset \/ deletePreset
  BY <1>2, SavesKeeps, AuthorsDocKeeps, SavePresetKeeps, PushPresetKeeps
<1>3. CASE doLoadPreset \/ EditsRoster \/ Upgrades
  BY <1>3, LoadPresetKeeps, EditsRosterKeeps, UpgradesKeeps
<1>4. CASE Composing /\ addMember(blankMember)
  BY <1>4, NewMembers, AddMemberKeeps
<1>5. ASSUME NEW r \in Roles, Composing, addMember(memberFromTemplate(r)) PROVE PresetInv'
  BY <1>5, NewMembers, AddMemberKeeps
<1>6. ASSUME Composing, NEW i \in DOMAIN members, editMember(i) PROVE PresetInv'
  BY <1>6, EditMemberKeeps
<1>7. CASE UNCHANGED presetVars
  BY <1>7 DEF presetVars, PresetInv
<1> QED
  BY <1>1, <1>2, <1>3, <1>4, <1>5, <1>6, <1>7 DEF PresetNext

\* What the invariant says is what a preset promises.
LEMMA PresetInvTells ==
  ASSUME PresetInv PROVE PresetTrue
<1>1. DocSound
  BY DEF PresetInv, GoodDoc, DocSound
<1>2. NoStaleCopy
  <2> SUFFICES ASSUME file # NoDoc, NEW i \in DOMAIN file.members, file.members[i].id \in Roles
               PROVE  /\ file.members[i].prompt = "absent"
                      /\ file.members[i].skills
                           \notin Range(ShippedSkills[file.members[i].id]) \ {"absent"}
    BY DEF NoStaleCopy
  <2> DEFINE p == file.members[i]
  <2>1. p \in Drafts /\ p.prompt = "absent"
    BY DEF PresetInv, GoodDoc, Docs
  <2>2. p.skills \in PlainSkills
    BY <2>1 DEF Drafts
  <2> HIDE DEF p
  <2>3. ASSUME NEW r \in Roles, NEW s \in Range(ShippedSkills[r]) PROVE s \notin {"[]", "own"}
    <3> DEFINE f == ShippedSkills[r]
    <3>1. f \in [1..2 -> STRING \ {"[]", "own"}]
      BY ShippedSkillsAssumption
    <3> QED
      BY <3>1 DEF Range
  <2> QED
    BY <2>1, <2>2, <2>3 DEF PlainSkills, p
<1>3. RolesKnown
  <2> SUFFICES ASSUME live # NoDoc, NEW i \in DOMAIN live.members
               PROVE  live.members[i].prompt # "absent"
    BY DEF RolesKnown
  <2>1. live.members \in Seq(Seated(build))
    BY DEF PresetInv, GoodRoom, Rooms
  <2>2. live.members[i] \in Seated(build)
    BY <2>1
  <2> QED
    BY <2>2 DEF Seated
<1>4. LoadedTrue
  <2> SUFFICES ASSUME live # NoDoc
               PROVE  /\ live.clean => ~Deviates(live.members, live.from.members)
                      /\ live.loaded => \A i \in DOMAIN live.members :
                           LET p == live.members[i]  doc == live.from.members[i] IN
                           /\ p.id \in Roles => p.prompt = ShippedPrompt
                           /\ p.skills = (IF doc.skills = "absent" /\ p.id \in Roles
                                          THEN ShippedSkills[p.id][build] ELSE doc.skills)
                           /\ live.gates = live.from.gates
    BY DEF LoadedTrue
  <2>1. build \in Build /\ GoodRoom(live, build) /\ GoodDoc(live.from)
    BY DEF PresetInv, GoodRoom
  <2>2. live.clean => ~Deviates(live.members, live.from.members)
    BY <2>1, StripIs DEF GoodRoom, Deviates
  <2>3. ASSUME live.loaded, NEW i \in DOMAIN live.members
        PROVE  LET p == live.members[i]  doc == live.from.members[i] IN
               /\ p.id \in Roles => p.prompt = ShippedPrompt
               /\ p.skills = (IF doc.skills = "absent" /\ p.id \in Roles
                              THEN ShippedSkills[p.id][build] ELSE doc.skills)
               /\ live.gates = live.from.gates
    <3> DEFINE d == live.from.members
               doc == d[i]
    <3>1. live.members = AllFilled(d, build) /\ live.gates = live.from.gates
      BY <2>1, <2>3 DEF GoodRoom
    <3>2. i \in DOMAIN d /\ live.members[i] = Filled(doc, build)
      BY <3>1, <2>3 DEF AllFilled
    <3>3. d \in Seq(Drafts)
      BY <2>1 DEF GoodDoc, Docs
    <3>4. doc \in Drafts
      BY <3>2, <3>3
    <3>5. /\ doc.id \in Roles => doc.prompt = "absent"
          /\ doc.id \notin Roles => doc.prompt # "absent"
      BY <3>2, <2>1 DEF GoodDoc, Prompted
    <3>6. ShippedPrompt = ShippedIn(build)
      BY DEF ShippedPrompt, ShippedIn
    <3> HIDE DEF doc
    <3>7. /\ Filled(doc, build).id = doc.id
          /\ doc.id \in Roles => Filled(doc, build).prompt = ShippedIn(build)
          /\ Filled(doc, build).skills = (IF doc.skills = "absent" /\ doc.id \in Roles
                                          THEN ShippedSkills[doc.id][build] ELSE doc.skills)
      BY <2>1, <3>4, <3>5, FillsOne
    <3> QED
      BY <3>1, <3>2, <3>6, <3>7 DEF doc
  <2> QED
    BY <2>2, <2>3
<1> QED
  BY <1>1, <1>2, <1>3, <1>4 DEF PresetTrue

\* A preset keeps what it promises through the composer, saves and pushes, loads and
\* the change of a build, for any roles, other ids and lists of skills the builds ship:
\* while every member without a role has a prompt, a room keeps an agent and none
\* lives through an upgrade.
THEOREM PresetStaysTrue ==
  ASSUME ~Promptless, ~Emptied, ~UpgradesLive PROVE PresetSpec => []PresetTrue
<1>1. PresetInit => PresetInv
  BY PresetStart
<1>2. PresetInv /\ [PresetNext]_presetVars => PresetInv'
  BY PresetStepKeeps
<1>3. PresetInv => PresetTrue
  BY PresetInvTells
<1> QED
  BY <1>1, <1>2, <1>3, PTL DEF PresetSpec

(* ---- what a client shows of a room ------------------------------------------------- *)

ReplyOf == [name : {"reply"}, kind : {"transcript", "settings"}, entries : Seq(Nat), route : BOOLEAN]
TurnPhases == {"start", "agent", "resume", "pause", "end"}
Sent ==
  UNION {[name : {"message"}, entry : Nat], [name : {"transcript"}, entries : Seq(Nat)],
         [name : {"turn"}, phase : TurnPhases],
         [name : {"routing"}, type : {"proposed", "resolved"}],
         ReplyOf, [name : {"lost"}]}

RoomPart == entries \in Seq(Nat) /\ phase \in Phases /\ posts \in Nat
ShownPart == /\ messages \in Seq(Nat) /\ pendingRoute \in BOOLEAN
             /\ turnActive \in BOOLEAN /\ paused \in BOOLEAN
WayPart == /\ sent \in Seq(Sent) /\ replies \in Seq(ReplyOf)
           /\ requests \in [{"transcript", "settings"} -> Nat] /\ lost \in Nat
FlagsPart == /\ ordered \in BOOLEAN /\ decision \in BOOLEAN
             /\ online \in BOOLEAN /\ missed \in BOOLEAN
SyncTyped == RoomPart /\ ShownPart /\ WayPart /\ FlagsPart

\* An element of the stream is one of these.
LEMMA SentKinds ==
  ASSUME NEW ev \in Sent
  PROVE  \/ ev.name = "message" /\ ev.entry \in Nat
         \/ ev.name = "transcript" /\ ev.entries \in Seq(Nat)
         \/ ev.name = "turn" /\ ev.phase \in TurnPhases
         \/ ev.name = "routing" /\ ev.type \in {"proposed", "resolved"}
         \/ ev.name = "reply" /\ ev \in ReplyOf
         \/ ev.name = "lost"
BY DEF Sent, ReplyOf

\* What a step of the room sends is nothing or one event.
LEMMA TellsOne ==
  ASSUME NEW from, NEW to, <<from, to>> \in Steps \/ <<from, to>> = <<"routing", "queued">>
  PROVE  Tells(from, to) =
           IF to = "idle" THEN <<[name |-> "turn", phase |-> "end"]>>
           ELSE IF to = "asking" THEN <<[name |-> "turn", phase |-> "pause"]>>
           ELSE IF to = "routing" THEN <<[name |-> "routing", type |-> "proposed"]>>
           ELSE IF to = "queued" THEN <<[name |-> "routing", type |-> "resolved"]>>
           ELSE IF from = "idle" THEN <<[name |-> "turn", phase |-> "start"]>>
           ELSE IF from = "queued" THEN <<[name |-> "turn", phase |-> "agent"]>>
           ELSE <<[name |-> "turn", phase |-> "resume"]>>
BY DEF Tells, Steps

\* What a step sends.
LEMMA TellsSent ==
  ASSUME NEW from, NEW to, <<from, to>> \in Steps \/ <<from, to>> = <<"routing", "queued">>
  PROVE  Tells(from, to) \in Seq(Sent) /\ \E ev \in Sent : Tells(from, to) = <<ev>>
<1>1. /\ [name |-> "turn", phase |-> "end"] \in Sent
      /\ [name |-> "turn", phase |-> "pause"] \in Sent
      /\ [name |-> "turn", phase |-> "start"] \in Sent
      /\ [name |-> "turn", phase |-> "agent"] \in Sent
      /\ [name |-> "turn", phase |-> "resume"] \in Sent
  BY DEF Sent, TurnPhases
<1>2. /\ [name |-> "routing", type |-> "proposed"] \in Sent
      /\ [name |-> "routing", type |-> "resolved"] \in Sent
  BY DEF Sent
<1>3. \E ev \in Sent : Tells(from, to) = <<ev>>
  BY <1>1, <1>2, TellsOne
<1> QED
  BY <1>3

\* One event more, or none.
LEMMA OneMore ==
  ASSUME NEW w \in Seq(Sent), NEW ev \in Sent
  PROVE  /\ w \o <<ev>> = Append(w, ev) /\ Append(w, ev) \in Seq(Sent)
         /\ Len(Append(w, ev)) = Len(w) + 1 /\ DOMAIN Append(w, ev) = 1 .. (Len(w) + 1)
         /\ Append(w, ev)[Len(w) + 1] = ev
         /\ \A i \in DOMAIN w : Append(w, ev)[i] = w[i]
         /\ DOMAIN w = 1 .. Len(w) /\ Len(w) \in Nat
OBVIOUS

LEMMA CutSent ==
  ASSUME SyncTyped
  PROVE  /\ Cut \in Seq(Sent) /\ DOMAIN Cut = DOMAIN sent
         /\ \A i \in DOMAIN Cut : Cut[i].name \in {"reply", "lost"}
<1>1. sent \in Seq(Sent) /\ DOMAIN sent = 1 .. Len(sent) /\ Len(sent) \in Nat
      /\ \A i \in DOMAIN sent : sent[i] \in Sent
  BY DEF SyncTyped, WayPart
<1>2. [name |-> "lost"] \in Sent
  BY DEF Sent
<1>3. Cut \in [1 .. Len(sent) -> Sent]
  BY <1>1, <1>2 DEF Cut
<1>4. Cut \in Seq(Sent)
  BY <1>1, <1>3
<1>5. \A i \in DOMAIN Cut : Cut[i].name \in {"reply", "lost"}
  BY DEF Cut
<1> QED
  BY <1>4, <1>5 DEF Cut

LEMMA InitSync == SyncInit => SyncTyped
<1> SUFFICES ASSUME SyncInit PROVE SyncTyped
  OBVIOUS
<1>1. RoomPart /\ ShownPart
  <2>1. entries \in Seq(Nat) /\ messages \in Seq(Nat)
    BY DEF SyncInit
  <2> QED
    BY <2>1 DEF SyncInit, RoomPart, ShownPart, Phases
<1>2. WayPart
  BY DEF SyncInit, WayPart
<1>3. FlagsPart
  BY OrdersAssumption DEF SyncInit, FlagsPart
<1> QED
  BY <1>1, <1>2, <1>3 DEF SyncTyped

LEMMA BroadcastTyped ==
  ASSUME SyncTyped, NEW ev \in Sent, Broadcast(<<ev>>)
  PROVE  /\ sent' \in Seq(Sent) /\ missed' \in BOOLEAN
         /\ sent' = IF online THEN Append(sent, ev) ELSE sent
<1>1. sent \in Seq(Sent) /\ missed \in BOOLEAN /\ online \in BOOLEAN
  BY DEF SyncTyped, WayPart, FlagsPart
<1>2. sent' = IF online THEN Append(sent, ev) ELSE sent
  BY <1>1, OneMore DEF Broadcast
<1>3. sent' \in Seq(Sent)
  BY <1>1, <1>2, OneMore
<1>4. missed' \in BOOLEAN
  BY DEF Broadcast
<1> QED
  BY <1>2, <1>3, <1>4

LEMMA PostTyped ==
  ASSUME SyncTyped, PostEntry
  PROVE  SyncTyped' /\ sent' = IF online THEN Append(sent, [name |-> "message", entry |-> posts])
                               ELSE sent
<1>1. [name |-> "message", entry |-> posts] \in Sent
  BY DEF Sent, SyncTyped, RoomPart
<1>2. Broadcast(<<[name |-> "message", entry |-> posts]>>)
  BY DEF PostEntry
<1>3. /\ sent' \in Seq(Sent) /\ missed' \in BOOLEAN
      /\ sent' = IF online THEN Append(sent, [name |-> "message", entry |-> posts]) ELSE sent
  BY <1>1, <1>2, BroadcastTyped
<1>4. RoomPart'
  BY DEF PostEntry, SyncTyped, RoomPart
<1>5. ShownPart'
  BY DEF PostEntry, SyncTyped, ShownPart, shownVars
<1>6. WayPart'
  BY <1>3 DEF PostEntry, SyncTyped, WayPart
<1>7. FlagsPart'
  BY <1>3 DEF PostEntry, SyncTyped, FlagsPart
<1> QED
  BY <1>3, <1>4, <1>5, <1>6, <1>7 DEF SyncTyped

LEMMA TruncateTyped ==
  ASSUME SyncTyped, NEW keep \in 0 .. Len(entries), Truncate(keep)
  PROVE  SyncTyped' /\ sent' = IF online
                               THEN Append(sent, [name |-> "transcript", entries |-> entries'])
                               ELSE sent
<1>1. entries' \in Seq(Nat)
  <2>1. entries \in Seq(Nat) /\ entries' = SubSeq(entries, 1, keep)
        /\ keep \in 0 .. Len(entries)
    BY DEF Truncate, SyncTyped, RoomPart
  <2> QED
    BY ONLY <2>1
<1>2. [name |-> "transcript", entries |-> entries'] \in Sent
  BY <1>1 DEF Sent
<1>3. Broadcast(<<[name |-> "transcript", entries |-> entries']>>)
  BY DEF Truncate
<1>4. /\ sent' \in Seq(Sent) /\ missed' \in BOOLEAN
      /\ sent' = IF online THEN Append(sent, [name |-> "transcript", entries |-> entries'])
                 ELSE sent
  BY <1>2, <1>3, BroadcastTyped
<1>5. RoomPart'
  BY <1>1 DEF Truncate, SyncTyped, RoomPart
<1>6. ShownPart'
  BY DEF Truncate, SyncTyped, ShownPart, shownVars
<1>7. WayPart'
  BY <1>4 DEF Truncate, SyncTyped, WayPart
<1>8. FlagsPart'
  BY <1>4 DEF Truncate, SyncTyped, FlagsPart
<1> QED
  BY <1>4, <1>5, <1>6, <1>7, <1>8 DEF SyncTyped

\* The event that a step of the turn sends.
Told(from, to) == Tells(from, to)[1]

LEMMA TurnTyped ==
  ASSUME SyncTyped, NEW s \in Steps, Turn(s[1], s[2])
  PROVE  /\ SyncTyped' /\ Told(s[1], s[2]) \in Sent
         /\ sent' = IF online THEN Append(sent, Told(s[1], s[2])) ELSE sent
<1>1. s = <<s[1], s[2]>> /\ s[2] \in Phases
  BY DEF Steps, Phases
<1>2. \E ev \in Sent : Tells(s[1], s[2]) = <<ev>>
  BY <1>1, TellsSent
<1>3. Told(s[1], s[2]) \in Sent /\ Tells(s[1], s[2]) = <<Told(s[1], s[2])>>
  BY <1>2 DEF Told
<1>4. Broadcast(<<Told(s[1], s[2])>>)
  BY <1>3 DEF Turn
<1>5. /\ sent' \in Seq(Sent) /\ missed' \in BOOLEAN
      /\ sent' = IF online THEN Append(sent, Told(s[1], s[2])) ELSE sent
  BY <1>3, <1>4, BroadcastTyped
<1>6. RoomPart'
  BY <1>1 DEF Turn, SyncTyped, RoomPart
<1>7. ShownPart'
  BY DEF Turn, SyncTyped, ShownPart, shownVars
<1>8. WayPart'
  BY <1>5 DEF Turn, SyncTyped, WayPart
<1>9. FlagsPart'
  BY <1>5 DEF Turn, SyncTyped, FlagsPart
<1> QED
  BY <1>3, <1>5, <1>6, <1>7, <1>8, <1>9 DEF SyncTyped

Resolved == [name |-> "routing", type |-> "resolved"]

LEMMA DecidesTyped ==
  ASSUME SyncTyped, Decides
  PROVE  /\ SyncTyped' /\ Resolved \in Sent
         /\ sent' = IF phase = "routing" /\ online THEN Append(sent, Resolved) ELSE sent
<1>1. Resolved \in Sent
  BY DEF Resolved, Sent
<1>2. Tells("routing", "queued") = <<Resolved>>
  BY TellsOne DEF Resolved
<1>3. CASE phase = "routing"
  <2>1. Broadcast(<<Resolved>>) /\ phase' = "queued"
    BY <1>2, <1>3 DEF Decides
  <2>2. /\ sent' \in Seq(Sent) /\ missed' \in BOOLEAN
        /\ sent' = IF online THEN Append(sent, Resolved) ELSE sent
    BY <1>1, <2>1, BroadcastTyped
  <2>3. RoomPart'
    BY <2>1 DEF Decides, SyncTyped, RoomPart, Phases
  <2>4. ShownPart'
    BY DEF Decides, SyncTyped, ShownPart, shownVars
  <2>5. WayPart'
    BY <2>2 DEF Decides, SyncTyped, WayPart
  <2>6. FlagsPart'
    BY <2>2 DEF Decides, SyncTyped, FlagsPart
  <2> QED
    BY <1>1, <1>3, <2>2, <2>3, <2>4, <2>5, <2>6 DEF SyncTyped
<1>4. CASE phase # "routing"
  <2>1. UNCHANGED <<phase, sent, missed>>
    BY <1>4 DEF Decides
  <2>2. RoomPart'
    BY <2>1 DEF Decides, SyncTyped, RoomPart
  <2>3. ShownPart'
    BY DEF Decides, SyncTyped, ShownPart, shownVars
  <2>4. WayPart'
    BY <2>1 DEF Decides, SyncTyped, WayPart
  <2>5. FlagsPart'
    BY <2>1 DEF Decides, SyncTyped, FlagsPart
  <2> QED
    BY <1>1, <1>4, <2>1, <2>2, <2>3, <2>4, <2>5 DEF SyncTyped
<1> QED
  BY <1>3, <1>4

LEMMA ServeTyped ==
  ASSUME SyncTyped, NEW kind \in DOMAIN requests, Serve(kind)
  PROVE  /\ SyncTyped' /\ AnswerTo(kind) \in ReplyOf /\ AnswerTo(kind) \in Sent
         /\ sent' = IF ordered THEN Append(sent, AnswerTo(kind)) ELSE sent
<1>1. kind \in {"transcript", "settings"} /\ entries \in Seq(Nat)
  BY DEF SyncTyped, WayPart, RoomPart
<1>2. AnswerTo(kind) \in ReplyOf
  <2>1. (IF kind = "transcript" THEN entries ELSE <<>>) \in Seq(Nat)
    BY <1>1
  <2>2. (kind = "settings" /\ phase = "routing") \in BOOLEAN
    OBVIOUS
  <2> QED
    BY <1>1, <2>1, <2>2 DEF AnswerTo, ReplyOf
<1>3. AnswerTo(kind) \in Sent
  BY <1>2 DEF Sent
<1>4. /\ sent \in Seq(Sent) /\ replies \in Seq(ReplyOf) /\ lost \in Nat /\ lost' = lost
      /\ requests \in [{"transcript", "settings"} -> Nat]
  BY DEF Serve, SyncTyped, WayPart
<1>5. requests' \in [{"transcript", "settings"} -> Nat]
  BY <1>1, <1>4 DEF Serve
<1>6. sent' = (IF ordered THEN Append(sent, AnswerTo(kind)) ELSE sent)
      /\ replies' = (IF ordered THEN replies ELSE Append(replies, AnswerTo(kind)))
  BY DEF Serve
<1>7. sent' \in Seq(Sent) /\ replies' \in Seq(ReplyOf)
  BY <1>2, <1>3, <1>4, <1>6
<1>8. WayPart'
  BY <1>4, <1>5, <1>7 DEF WayPart
<1>9. RoomPart' /\ ShownPart' /\ FlagsPart'
  BY DEF Serve, SyncTyped, RoomPart, ShownPart, FlagsPart, roomVars, shownVars
<1> QED
  BY <1>2, <1>3, <1>6, <1>8, <1>9 DEF SyncTyped

LEMMA PatchTyped ==
  ASSUME SyncTyped, NEW answer \in ReplyOf, Patch(answer) PROVE ShownPart'
BY DEF Patch, SyncTyped, ShownPart, ReplyOf

LEMMA OvertakesTyped ==
  ASSUME SyncTyped, NEW i \in DOMAIN replies, Overtakes(i) PROVE SyncTyped'
<1>1. replies \in Seq(ReplyOf)
  BY DEF SyncTyped, WayPart
<1>2. replies[i] \in ReplyOf /\ replies' \in Seq(ReplyOf)
  BY <1>1, RemovedAt DEF Overtakes
<1>3. ShownPart'
  BY <1>2, PatchTyped DEF Overtakes
<1>4. WayPart'
  BY <1>2 DEF Overtakes, SyncTyped, WayPart
<1>5. RoomPart' /\ FlagsPart'
  BY DEF Overtakes, SyncTyped, RoomPart, FlagsPart, roomVars
<1> QED
  BY <1>3, <1>4, <1>5 DEF SyncTyped

LEMMA RestOfWire ==
  ASSUME NEW w \in Seq(Sent), w # <<>>
  PROVE  /\ Head(w) \in Sent /\ Head(w) = w[1] /\ Tail(w) \in Seq(Sent)
         /\ Len(w) \in Nat /\ Len(w) >= 1 /\ DOMAIN w = 1 .. Len(w)
         /\ DOMAIN Tail(w) = 1 .. (Len(w) - 1) /\ Len(Tail(w)) = Len(w) - 1
         /\ \A i \in 1 .. (Len(w) - 1) : Tail(w)[i] = w[i + 1]
OBVIOUS

LEMMA DeliverTyped == ASSUME SyncTyped, Receives PROVE SyncTyped'
<1> DEFINE ev == Head(sent)
<1>1. ev \in Sent /\ sent' = Tail(sent) /\ sent' \in Seq(Sent)
  BY RestOfWire DEF Receives, SyncTyped, WayPart
<1>2. /\ ev.name = "message" =>
              messages' = Append(messages, ev.entry)
                /\ UNCHANGED <<pendingRoute, turnActive, paused>>
      /\ ev.name = "transcript" =>
              messages' = ev.entries /\ UNCHANGED <<pendingRoute, turnActive, paused>>
      /\ ev.name = "turn" => ReducePhase(ev.phase)
      /\ ev.name = "routing" => ReduceRouting(ev.type)
      /\ ev.name = "reply" => Patch(ev)
      /\ ev.name = "lost" => UNCHANGED shownVars
      /\ missed' = (missed /\ ~(ev.name = "turn" /\ ev.phase = "end"))
  BY DEF Receives
<1> HIDE DEF ev
<1>3. /\ messages \in Seq(Nat) /\ pendingRoute \in BOOLEAN
      /\ turnActive \in BOOLEAN /\ paused \in BOOLEAN
  BY DEF SyncTyped, ShownPart
<1>4. ShownPart'
  <2>1. CASE ev.name = "message" /\ ev.entry \in Nat
    BY <1>2, <1>3, <2>1 DEF ShownPart
  <2>2. CASE ev.name = "transcript" /\ ev.entries \in Seq(Nat)
    BY <1>2, <1>3, <2>2 DEF ShownPart
  <2>3. CASE ev.name = "turn" /\ ev.phase \in TurnPhases
    <3>1. ReducePhase(ev.phase)
      BY <1>2, <2>3
    <3>2. turnActive' \in BOOLEAN
      BY <3>1 DEF ReducePhase
    <3>3. paused' \in BOOLEAN /\ pendingRoute' \in BOOLEAN
      BY <1>3, <3>1 DEF ReducePhase
    <3> QED
      BY <1>3, <3>1, <3>2, <3>3 DEF ShownPart, ReducePhase
  <2>4. CASE ev.name = "routing"
    BY <1>2, <1>3, <2>4 DEF ShownPart, ReduceRouting
  <2>5. CASE ev.name = "reply" /\ ev \in ReplyOf
    BY <1>2, <2>5, PatchTyped
  <2>6. CASE ev.name = "lost"
    BY <1>2, <1>3, <2>6 DEF ShownPart, shownVars
  <2> QED
    BY <1>1, <2>1, <2>2, <2>3, <2>4, <2>5, <2>6, SentKinds
<1>5. WayPart'
  BY <1>1 DEF Receives, SyncTyped, WayPart
<1>6. missed' \in BOOLEAN
  BY <1>2
<1>7. RoomPart' /\ FlagsPart'
  BY <1>6 DEF Receives, SyncTyped, RoomPart, FlagsPart, roomVars
<1> QED
  BY <1>4, <1>5, <1>7 DEF SyncTyped

LEMMA BreakTyped == ASSUME SyncTyped, StreamBreaks PROVE SyncTyped'
<1>1. sent' \in Seq(Sent)
  BY CutSent DEF StreamBreaks
<1>2. missed' \in BOOLEAN /\ online' \in BOOLEAN
  <2>1. missed' = (missed \/ sent' # sent) /\ online' = FALSE
    BY DEF StreamBreaks
  <2> QED
    BY ONLY <2>1
<1>3. WayPart'
  BY <1>1 DEF StreamBreaks, SyncTyped, WayPart
<1>4. RoomPart' /\ ShownPart'
  BY DEF StreamBreaks, SyncTyped, RoomPart, ShownPart, roomVars, shownVars
<1>5. FlagsPart'
  BY <1>2 DEF StreamBreaks, SyncTyped, FlagsPart
<1> QED
  BY <1>3, <1>4, <1>5 DEF SyncTyped

LEMMA AsksTyped == ASSUME SyncTyped PROVE Asks \in [{"transcript", "settings"} -> Nat]
BY DEF Asks, SyncTyped, WayPart

Whole == [name |-> "transcript", entries |-> entries]

LEMMA OpensTyped ==
  ASSUME SyncTyped, StreamOpens
  PROVE  SyncTyped' /\ Whole \in Sent /\ sent' = Append(sent, Whole)
<1>1. Whole \in Sent
  BY DEF Whole, Sent, SyncTyped, RoomPart
<1>2. sent' = Append(sent, Whole)
  BY DEF StreamOpens, Connects, Whole
<1>3. sent' \in Seq(Sent)
  BY <1>1, <1>2, OneMore DEF SyncTyped, WayPart
<1>4. WayPart'
  BY <1>3, AsksTyped DEF StreamOpens, SyncTyped, WayPart
<1>5. RoomPart' /\ ShownPart'
  BY DEF StreamOpens, SyncTyped, RoomPart, ShownPart, roomVars, shownVars
<1>6. FlagsPart'
  BY DEF StreamOpens, Connects, SyncTyped, FlagsPart
<1> QED
  BY <1>1, <1>2, <1>4, <1>5, <1>6 DEF SyncTyped

LEMMA StartsOverTyped == ASSUME SyncTyped, StoreStarts PROVE SyncTyped'
<1>1. sent' \in Seq(Sent)
  BY CutSent DEF StoreStarts
<1>2. missed' \in BOOLEAN /\ online' \in BOOLEAN
  BY DEF StoreStarts
<1>3. WayPart'
  BY <1>1, AsksTyped DEF StoreStarts, SyncTyped, WayPart
<1>4. RoomPart'
  BY DEF StoreStarts, SyncTyped, RoomPart, roomVars
<1>5. ShownPart'
  BY DEF StoreStarts, SyncTyped, ShownPart
<1>6. FlagsPart'
  BY <1>2 DEF StoreStarts, SyncTyped, FlagsPart
<1> QED
  BY <1>3, <1>4, <1>5, <1>6 DEF SyncTyped

LEMMA ClickTyped == ASSUME SyncTyped, Click \/ ClickFails PROVE SyncTyped'
<1>1. RoomPart' /\ ShownPart'
  BY DEF Click, ClickFails, SyncTyped, RoomPart, ShownPart, roomVars, shownVars
<1>2. WayPart'
  BY DEF Click, ClickFails, SyncTyped, WayPart, wayVars
<1>3. FlagsPart'
  BY DEF Click, ClickFails, SyncTyped, FlagsPart, wayVars
<1> QED
  BY <1>1, <1>2, <1>3 DEF SyncTyped

LEMMA StepSync == SyncTyped /\ [SyncNext]_syncVars => SyncTyped'
<1> SUFFICES ASSUME SyncTyped, [SyncNext]_syncVars PROVE SyncTyped'
  OBVIOUS
<1>1. CASE SyncNext
  BY <1>1, PostTyped, TruncateTyped, TurnTyped, DecidesTyped, ServeTyped, OvertakesTyped,
     DeliverTyped, BreakTyped, OpensTyped, StartsOverTyped, ClickTyped DEF SyncNext
<1>2. CASE UNCHANGED syncVars
  <2>1. RoomPart' /\ ShownPart'
    BY <1>2 DEF syncVars, SyncTyped, RoomPart, ShownPart, roomVars, shownVars
  <2>2. WayPart' /\ FlagsPart'
    BY <1>2 DEF syncVars, SyncTyped, WayPart, FlagsPart, wayVars
  <2> QED
    BY <2>1, <2>2 DEF SyncTyped
<1> QED
  BY <1>1, <1>2

(* ---- what the stream still has to say ------------------------------------------------ *)

Word(b) == IF b THEN "yes" ELSE "no"

\* What an element of the stream makes of the card, of the turn shown as running,
\* of the question; "" when it says nothing of it.
Says(what, ev) ==
  IF what = "card"
  THEN IF ev.name = "reply" /\ ev.kind = "settings" THEN Word(ev.route)
       ELSE IF ev.name = "routing" THEN Word(ev.type = "proposed")
       ELSE IF ev.name = "turn" /\ ev.phase = "end" THEN "no" ELSE ""
  ELSE IF what = "active"
  THEN IF ev.name = "turn" THEN Word(ev.phase \in {"start", "agent", "resume"})
       ELSE IF ev.name = "routing" /\ ev.type = "proposed" THEN "no" ELSE ""
  ELSE IF ev.name = "turn" /\ ev.phase = "pause" THEN "yes"
       ELSE IF ev.name = "turn" /\ ev.phase \in {"resume", "end"} THEN "no" ELSE ""

\* Once the stream is read to its end, what shows `now` shows `then`.
EndsAs(w, what, now, then) ==
  \/ now = then /\ \A i \in DOMAIN w : Says(what, w[i]) = ""
  \/ \E k \in DOMAIN w :
       /\ Says(what, w[k]) = then /\ then # ""
       /\ \A i \in DOMAIN w : i > k => Says(what, w[i]) = ""

LEMMA EndsQuietly ==
  ASSUME NEW w \in Seq(Sent), NEW what, NEW now, NEW then, NEW ev \in Sent,
         Says(what, ev) = "", EndsAs(w, what, now, then)
  PROVE  EndsAs(Append(w, ev), what, now, then)
<1> DEFINE u == Append(w, ev)
<1>1. /\ DOMAIN u = 1 .. (Len(w) + 1) /\ u[Len(w) + 1] = ev
      /\ DOMAIN w = 1 .. Len(w) /\ Len(w) \in Nat
      /\ \A i \in DOMAIN w : u[i] = w[i]
  BY OneMore
<1> HIDE DEF u
<1>2. ASSUME NEW i \in DOMAIN u, i \notin DOMAIN w PROVE Says(what, u[i]) = ""
  <2>1. i = Len(w) + 1
    BY ONLY <1>1, <1>2
  <2> QED
    BY ONLY <1>1, <2>1, Says(what, ev) = ""
<1>3. CASE now = then /\ \A i \in DOMAIN w : Says(what, w[i]) = ""
  <2>1. \A i \in DOMAIN u : Says(what, u[i]) = ""
    BY ONLY <1>1, <1>2, <1>3
  <2> QED
    BY <1>3, <2>1 DEF EndsAs, u
<1>4. ASSUME NEW k \in DOMAIN w, Says(what, w[k]) = then, then # "",
             \A i \in DOMAIN w : i > k => Says(what, w[i]) = ""
      PROVE  EndsAs(u, what, now, then)
  <2>1. k \in DOMAIN u /\ u[k] = w[k]
    BY ONLY <1>1, k \in DOMAIN w
  <2>2. \A i \in DOMAIN u : i > k => Says(what, u[i]) = ""
    BY ONLY <1>1, <1>2, <1>4
  <2> QED
    BY <1>4, <2>1, <2>2 DEF EndsAs
<1> QED
  BY <1>3, <1>4 DEF EndsAs, u

LEMMA EndsSaid ==
  ASSUME NEW w \in Seq(Sent), NEW what, NEW now, NEW ev \in Sent, Says(what, ev) # ""
  PROVE  EndsAs(Append(w, ev), what, now, Says(what, ev))
<1> DEFINE u == Append(w, ev)
<1>1. /\ DOMAIN u = 1 .. (Len(w) + 1) /\ u[Len(w) + 1] = ev /\ Len(w) \in Nat
  BY OneMore
<1> HIDE DEF u
<1>2. Len(w) + 1 \in DOMAIN u /\ \A i \in DOMAIN u : ~(i > Len(w) + 1)
  BY ONLY <1>1
<1>3. EndsAs(u, what, now, Says(what, ev))
  BY <1>1, <1>2 DEF EndsAs
<1> QED
  BY <1>3 DEF u

\* One element is read.
LEMMA EndsOneLess ==
  ASSUME NEW w \in Seq(Sent), w # <<>>, NEW what, NEW now, NEW next, NEW then,
         EndsAs(w, what, now, then),
         next = IF Says(what, Head(w)) = "" THEN now ELSE Says(what, Head(w))
  PROVE  EndsAs(Tail(w), what, next, then)
<1> DEFINE u == Tail(w)
<1>1. /\ Head(w) = w[1] /\ Len(w) \in Nat /\ Len(w) >= 1 /\ DOMAIN w = 1 .. Len(w)
      /\ DOMAIN u = 1 .. (Len(w) - 1)
      /\ \A i \in 1 .. (Len(w) - 1) : u[i] = w[i + 1]
  BY RestOfWire
<1> HIDE DEF u
<1>2. \A i \in DOMAIN u : i \in Nat /\ i + 1 \in DOMAIN w /\ i + 1 > 1 /\ u[i] = w[i + 1]
  BY ONLY <1>1
<1>3. CASE now = then /\ \A i \in DOMAIN w : Says(what, w[i]) = ""
  <2>1. Says(what, w[1]) = "" /\ \A i \in DOMAIN u : Says(what, u[i]) = ""
    <3>1. 1 \in DOMAIN w
      BY ONLY <1>1
    <3> QED
      BY <1>2, <1>3, <3>1
  <2>2. next = then
    BY <1>1, <1>3, <2>1
  <2> QED
    BY <2>1, <2>2 DEF EndsAs, u
<1>4. ASSUME NEW k \in DOMAIN w, Says(what, w[k]) = then, then # "",
             \A i \in DOMAIN w : i > k => Says(what, w[i]) = ""
      PROVE  EndsAs(u, what, next, then)
  <2>1. CASE k = 1
    <3>1. next = then
      BY <1>1, <1>4, <2>1
    <3>2. \A i \in DOMAIN u : Says(what, u[i]) = ""
      BY ONLY <1>2, <1>4, <2>1
    <3> QED
      BY <3>1, <3>2 DEF EndsAs
  <2>2. CASE k # 1
    <3>1. k - 1 \in DOMAIN u /\ u[k - 1] = w[k]
      <4>1. k - 1 \in 1 .. (Len(w) - 1) /\ (k - 1) + 1 = k
        BY ONLY <1>1, k \in DOMAIN w, <2>2
      <4> QED
        BY ONLY <1>1, <4>1
    <3>2. \A i \in DOMAIN u : i > k - 1 => Says(what, u[i]) = ""
      <4>1. k \in Nat
        BY ONLY <1>1, k \in DOMAIN w
      <4>2. \A i \in DOMAIN u : i > k - 1 => i + 1 > k
        BY ONLY <1>2, <4>1
      <4> QED
        BY ONLY <1>2, <1>4, <4>2
    <3> QED
      BY <1>4, <3>1, <3>2 DEF EndsAs
  <2> QED
    BY <2>1, <2>2
<1> QED
  BY <1>3, <1>4 DEF EndsAs, u

\* A stream that says nothing of it.
LEMMA EndsSilent ==
  ASSUME NEW w, NEW what, NEW now, \A i \in DOMAIN w : Says(what, w[i]) = ""
  PROVE  \A then : EndsAs(w, what, now, then) <=> now = then
<1>1. ASSUME NEW then, NEW k \in DOMAIN w, Says(what, w[k]) = then, then # "" PROVE FALSE
  BY <1>1
<1> QED
  BY <1>1 DEF EndsAs

\* The transcript that is shown after an element of the stream.
SetsText(ev) == ev.name = "transcript" \/ (ev.name = "reply" /\ ev.kind = "transcript")
After(text, ev) ==
  IF ev.name = "message" THEN Append(text, ev.entry)
  ELSE IF SetsText(ev) THEN ev.entries ELSE text

\* Read to its end, the stream makes `then` of the transcript that is shown: from
\* what is shown now, or from the last place that sets it anew, on to the end.
Leads(w, now, then) ==
  \E f \in [Nat -> Seq(Nat)], k \in 0 .. Len(w) :
    /\ IF k = 0 THEN f[0] = now ELSE SetsText(w[k]) /\ f[k] = w[k].entries
    /\ \A i \in 1 .. Len(w) : i > k => f[i] = After(f[i - 1], w[i])
    /\ f[Len(w)] = then

LEMMA LeadsOn ==
  ASSUME NEW w \in Seq(Sent), NEW now, NEW then, NEW ev \in Sent, Leads(w, now, then),
         After(then, ev) \in Seq(Nat)
  PROVE  Leads(Append(w, ev), now, After(then, ev))
<1> DEFINE u == Append(w, ev)
           n == Len(w)
           end == After(then, ev)
<1>1. /\ DOMAIN u = 1 .. (n + 1) /\ u[n + 1] = ev /\ Len(u) = n + 1
      /\ DOMAIN w = 1 .. n /\ n \in Nat
      /\ \A i \in DOMAIN w : u[i] = w[i]
  BY OneMore
<1>2. PICK f \in [Nat -> Seq(Nat)], k \in 0 .. n :
        /\ IF k = 0 THEN f[0] = now ELSE SetsText(w[k]) /\ f[k] = w[k].entries
        /\ \A i \in 1 .. n : i > k => f[i] = After(f[i - 1], w[i])
        /\ f[n] = then
  BY DEF Leads
<1> DEFINE g == [f EXCEPT ![n + 1] = end]
<1>3. end \in Seq(Nat) /\ end = After(then, ev)
  OBVIOUS
<1> HIDE DEF u, n, end
<1>4. /\ g \in [Nat -> Seq(Nat)] /\ g[n + 1] = end
      /\ \A i \in 0 .. n : g[i] = f[i]
  <2>1. n \in Nat /\ n + 1 \in Nat /\ \A i \in 0 .. n : i \in Nat /\ i # n + 1
    BY ONLY <1>1
  <2> QED
    BY ONLY <1>3, <2>1, f \in [Nat -> Seq(Nat)]
<1> HIDE DEF g
<1>5. k \in 0 .. Len(u) /\ k \in 0 .. n /\ k \in Nat
  BY ONLY <1>1, k \in 0 .. n
<1>6. IF k = 0 THEN g[0] = now ELSE SetsText(u[k]) /\ g[k] = u[k].entries
  <2>1. CASE k = 0
    BY ONLY <1>2, <1>4, <1>5, <2>1
  <2>2. CASE k # 0
    <3>1. k \in DOMAIN w
      BY ONLY <1>1, <1>5, <2>2
    <3> QED
      BY ONLY <1>1, <1>2, <1>4, <1>5, <2>2, <3>1
  <2> QED
    BY <2>1, <2>2
<1>7. ASSUME NEW i \in 1 .. Len(u), i > k PROVE g[i] = After(g[i - 1], u[i])
  <2>1. CASE i = n + 1
    <3>1. g[i - 1] = then /\ u[i] = ev /\ g[i] = end
      BY ONLY <1>1, <1>2, <1>4, <2>1
    <3> QED
      BY ONLY <1>3, <3>1
  <2>2. CASE i # n + 1
    <3>1. i \in 1 .. n /\ i \in 0 .. n /\ i - 1 \in 0 .. n /\ i \in DOMAIN w
      <4>1. n \in Nat /\ i \in 1 .. (n + 1) /\ i # n + 1
        BY ONLY <1>1, i \in 1 .. Len(u), <2>2
      <4>2. i \in 1 .. n /\ i \in 0 .. n /\ i - 1 \in 0 .. n
        BY ONLY <4>1
      <4> QED
        BY ONLY <1>1, <4>2
    <3> QED
      BY ONLY <1>1, <1>2, <1>4, i > k, <3>1
  <2> QED
    BY <2>1, <2>2
<1>8. g[Len(u)] = end
  BY ONLY <1>1, <1>4
<1>9. Leads(u, now, end)
  BY <1>4, <1>5, <1>6, <1>7, <1>8 DEF Leads
<1> QED
  BY <1>9 DEF u, end

\* An element that sets it anew.
LEMMA LeadsAnew ==
  ASSUME NEW w \in Seq(Sent), NEW now, NEW ev \in Sent, SetsText(ev), ev.entries \in Seq(Nat)
  PROVE  Leads(Append(w, ev), now, ev.entries)
<1> DEFINE u == Append(w, ev)
           n == Len(w)
           f == [i \in Nat |-> ev.entries]
<1>1. DOMAIN u = 1 .. (n + 1) /\ u[n + 1] = ev /\ Len(u) = n + 1 /\ n \in Nat
  BY OneMore
<1>2. f \in [Nat -> Seq(Nat)] /\ f[n + 1] = ev.entries
  BY <1>1
<1> HIDE DEF u, n, f
<1>3. n + 1 \in 0 .. Len(u) /\ n + 1 # 0 /\ \A i \in 1 .. Len(u) : ~(i > n + 1)
  BY ONLY <1>1
<1>4. Leads(u, now, ev.entries)
  BY <1>1, <1>2, <1>3 DEF Leads
<1> QED
  BY <1>4 DEF u

LEMMA LeadsOneLess ==
  ASSUME NEW w \in Seq(Sent), w # <<>>, NEW now, NEW then, Leads(w, now, then)
  PROVE  Leads(Tail(w), After(now, Head(w)), then)
<1> DEFINE u == Tail(w)
           n == Len(w)
           next == After(now, Head(w))
<1>1. /\ Head(w) = w[1] /\ Head(w) \in Sent /\ n \in Nat /\ n >= 1 /\ DOMAIN w = 1 .. n
      /\ DOMAIN u = 1 .. (n - 1) /\ Len(u) = n - 1
      /\ \A i \in 1 .. (n - 1) : u[i] = w[i + 1]
  BY RestOfWire
<1>2. PICK f \in [Nat -> Seq(Nat)], k \in 0 .. n :
        /\ IF k = 0 THEN f[0] = now ELSE SetsText(w[k]) /\ f[k] = w[k].entries
        /\ \A i \in 1 .. n : i > k => f[i] = After(f[i - 1], w[i])
        /\ f[n] = then
  BY DEF Leads
<1> DEFINE g == [i \in Nat |-> f[i + 1]]
<1>3. next = After(now, w[1])
  BY <1>1
<1>4. SetsText(w[1]) => next = w[1].entries
  <2>1. SetsText(w[1]) => w[1].name # "message"
    BY DEF SetsText
  <2> QED
    BY <1>3, <2>1 DEF After
<1> HIDE DEF u, n, next
<1>5. n \in Nat /\ n >= 1 /\ Len(u) = n - 1
  BY ONLY <1>1
<1>6. g \in [Nat -> Seq(Nat)] /\ \A i \in Nat : g[i] = f[i + 1]
  BY ONLY f \in [Nat -> Seq(Nat)]
<1> HIDE DEF g
<1>7. /\ k \in Nat /\ k >= 0 /\ k <= n
  BY ONLY <1>1, k \in 0 .. n
<1>8. g[Len(u)] = then
  BY ONLY <1>1, <1>2, <1>6
<1>9. \A i \in 1 .. Len(u) : i + 1 > k => g[i] = After(g[i - 1], u[i])
  <2>1. ASSUME NEW i \in 1 .. Len(u), i + 1 > k PROVE g[i] = After(g[i - 1], u[i])
    <3>0. i \in 1 .. (n - 1) /\ i \in Nat
      BY ONLY <1>5, i \in 1 .. Len(u)
    <3>1. i + 1 \in 1 .. n /\ i - 1 \in Nat /\ i \in Nat /\ (i + 1) - 1 = (i - 1) + 1
          /\ i \in 1 .. (n - 1)
      BY ONLY <1>5, <3>0
    <3>2. f[i + 1] = After(f[(i + 1) - 1], w[i + 1])
      BY ONLY <1>2, <2>1, <3>1
    <3> QED
      BY ONLY <1>1, <1>6, <3>1, <3>2
  <2> QED
    BY <2>1
<1>10. CASE k <= 1
  <2>1. g[0] = next
    <3>1. CASE k = 0
      <4>1. f[1] = After(f[1 - 1], w[1])
        BY ONLY <1>1, <1>2, <3>1
      <4>2. 1 - 1 = 0 /\ 0 + 1 = 1 /\ 0 \in Nat
        OBVIOUS
      <4>3. f[1] = After(now, w[1])
        BY ONLY <1>2, <3>1, <4>1, <4>2
      <4> QED
        BY ONLY <1>3, <1>6, <4>2, <4>3
    <3>2. CASE k = 1
      <4>1. SetsText(w[1]) /\ f[1] = w[1].entries
        BY ONLY <1>2, <3>2
      <4>2. 0 + 1 = 1 /\ 0 \in Nat
        OBVIOUS
      <4> QED
        BY ONLY <1>4, <1>6, <4>1, <4>2
    <3>3. k = 0 \/ k = 1
      BY ONLY <1>7, <1>10
    <3> QED
      BY <3>1, <3>2, <3>3
  <2>2. \A i \in 1 .. Len(u) : i > 0 => g[i] = After(g[i - 1], u[i])
    <3>1. \A i \in 1 .. Len(u) : i + 1 > k
      BY ONLY <1>1, <1>7, <1>10
    <3> QED
      BY ONLY <1>9, <3>1
  <2>3. 0 \in 0 .. Len(u)
    BY ONLY <1>1
  <2> QED
    BY <1>6, <1>8, <2>1, <2>2, <2>3 DEF Leads, u, next
<1>11. CASE k > 1
  <2>1. /\ k - 1 \in 0 .. Len(u) /\ k - 1 # 0 /\ k - 1 \in 1 .. (n - 1) /\ k - 1 \in Nat
        /\ (k - 1) + 1 = k
    BY ONLY <1>5, <1>7, <1>11
  <2>2. SetsText(u[k - 1]) /\ g[k - 1] = u[k - 1].entries
    <3>1. u[k - 1] = w[k]
      BY ONLY <1>1, <2>1
    <3>2. g[k - 1] = f[k]
      BY ONLY <1>6, <2>1
    <3>3. k # 0
      BY ONLY <1>7, <1>11
    <3> QED
      BY ONLY <1>2, <3>1, <3>2, <3>3
  <2>3. \A i \in 1 .. Len(u) : i > k - 1 => g[i] = After(g[i - 1], u[i])
    BY ONLY <1>1, <1>7, <1>9
  <2> QED
    BY <1>6, <1>8, <2>1, <2>2, <2>3 DEF Leads, u, next
<1>12. k <= 1 \/ k > 1
  BY ONLY <1>7
<1> QED
  BY ONLY <1>10, <1>11, <1>12

LEMMA LeadsNowhere == ASSUME NEW now, NEW then, Leads(<<>>, now, then) PROVE now = then
BY DEF Leads

(* ---- what is shown, once everything has arrived ---------------------------------------- *)

\* Off the stream nothing is sent.
CutInv == ~online => \A i \in DOMAIN sent : sent[i].name \in {"reply", "lost"}

\* Nothing overtakes when the order is kept.
OrderedInv == ordered => replies = <<>>

TextInv == ordered /\ online => Leads(sent, messages, entries)

\* The card comes out right; or the room will be asked; or a click hid it and the room
\* has not heard of it.
CardInv ==
  ordered /\ online /\ lost = 0 =>
    \/ requests["settings"] > 0
    \/ EndsAs(sent, "card", Word(pendingRoute), Word(phase = "routing"))
    \/ decision /\ EndsAs(sent, "card", Word(pendingRoute), "no")

\* An end of a turn makes good what was missed of it.
EndIn(w) == \E i \in DOMAIN w : w[i].name = "turn" /\ w[i].phase = "end"

TurnInv ==
  ~missed \/ EndIn(sent) =>
    /\ EndsAs(sent, "active", Word(turnActive), Word(phase = "running"))
    /\ EndsAs(sent, "paused", Word(paused), Word(phase = "asking"))

ViewInv == SyncTyped /\ CutInv /\ OrderedInv /\ TextInv /\ CardInv /\ TurnInv

LEMMA NothingSent ==
  /\ <<>> \in Seq(Sent)
  /\ Leads(<<>>, <<>>, <<>>)
  /\ \A what, now : EndsAs(<<>>, what, now, now)
<1>1. <<>> \in Seq(Sent) /\ Len(<<>>) = 0 /\ \A i \in DOMAIN <<>> : FALSE
  OBVIOUS
<1>2. Leads(<<>>, <<>>, <<>>)
  <2> DEFINE f == [i \in Nat |-> <<>>]
  <2>1. f \in [Nat -> Seq(Nat)] /\ f[0] = <<>>
    OBVIOUS
  <2> HIDE DEF f
  <2>2. 0 \in 0 .. Len(<<>>) /\ \A i \in 1 .. Len(<<>>) : FALSE
    OBVIOUS
  <2> QED
    BY <1>1, <2>1, <2>2 DEF Leads
<1>3. \A what, now : EndsAs(<<>>, what, now, now)
  BY <1>1 DEF EndsAs
<1> QED
  BY <1>1, <1>2, <1>3

LEMMA InitView == SyncInit => ViewInv
<1> SUFFICES ASSUME SyncInit PROVE ViewInv
  OBVIOUS
<1>1. /\ sent = <<>> /\ messages = <<>> /\ entries = <<>> /\ replies = <<>>
      /\ turnActive = FALSE /\ paused = FALSE /\ phase = "idle" /\ online = FALSE
  BY DEF SyncInit
<1>2. CutInv /\ OrderedInv /\ TextInv /\ CardInv
  BY <1>1 DEF CutInv, OrderedInv, TextInv, CardInv
<1>3. Word(turnActive) = Word(phase = "running") /\ Word(paused) = Word(phase = "asking")
  BY <1>1 DEF Word
<1>4. TurnInv
  BY <1>1, <1>3, NothingSent DEF TurnInv
<1> QED
  BY <1>2, <1>4, InitSync DEF ViewInv

\* Elements that say nothing of the turn, and are no text unless they are a transcript.
LEMMA PlainSays ==
  ASSUME NEW ev, ev.name \in {"message", "transcript", "reply", "lost"}
  PROVE  /\ Says("active", ev) = "" /\ Says("paused", ev) = ""
         /\ ev.name # "reply" => Says("card", ev) = ""
         /\ ev.name = "reply" =>
              Says("card", ev) = IF ev.kind = "settings" THEN Word(ev.route) ELSE ""
BY DEF Says

\* The turn goes on as it was.
LEMMA TurnQuiet ==
  ASSUME SyncTyped, CutInv, TurnInv, NEW ev \in Sent,
         Says("active", ev) = "", Says("paused", ev) = "",
         sent' = sent \/ sent' = Append(sent, ev),
         UNCHANGED <<turnActive, paused>>,
         phase' = "running" <=> phase = "running", phase' = "asking" <=> phase = "asking",
         (missed' <=> missed) \/ (missed' /\ ~online /\ sent' = sent)
  PROVE  TurnInv'
<1>1. sent \in Seq(Sent)
  BY DEF SyncTyped, WayPart
<1>2. ~(ev.name = "turn" /\ ev.phase = "end")
  BY DEF Says, Word
<1>3. EndIn(sent') => EndIn(sent)
  <2>1. CASE sent' = sent
    BY <2>1
  <2>2. CASE sent' = Append(sent, ev)
    <3>1. /\ DOMAIN sent' = 1 .. (Len(sent) + 1) /\ sent'[Len(sent) + 1] = ev
          /\ Len(sent) \in Nat /\ DOMAIN sent = 1 .. Len(sent)
          /\ \A i \in DOMAIN sent : sent'[i] = sent[i]
      BY <1>1, <2>2, OneMore
    <3>2. \A i \in DOMAIN sent' : i = Len(sent) + 1 \/ i \in DOMAIN sent
      BY ONLY <3>1
    <3> QED
      BY <1>2, <3>1, <3>2 DEF EndIn
  <2> QED
    BY <2>1, <2>2
<1>4. ~online => ~EndIn(sent)
  BY DEF CutInv, EndIn
<1>5. CASE ~missed \/ EndIn(sent)
  <2>1. /\ EndsAs(sent, "active", Word(turnActive), Word(phase = "running"))
        /\ EndsAs(sent, "paused", Word(paused), Word(phase = "asking"))
    BY <1>5 DEF TurnInv
  <2>2. /\ EndsAs(sent', "active", Word(turnActive), Word(phase = "running"))
        /\ EndsAs(sent', "paused", Word(paused), Word(phase = "asking"))
    BY <1>1, <2>1, EndsQuietly
  <2>3. Word(phase' = "running") = Word(phase = "running")
        /\ Word(phase' = "asking") = Word(phase = "asking")
    BY DEF Word
  <2>4. turnActive' = turnActive /\ paused' = paused
    OBVIOUS
  <2> QED
    BY <2>2, <2>3, <2>4 DEF TurnInv
<1>6. CASE ~(~missed \/ EndIn(sent))
  BY <1>3, <1>6 DEF TurnInv
<1> QED
  BY <1>5, <1>6

\* An event that says nothing of the card.
LEMMA CardQuiet ==
  ASSUME SyncTyped, CardInv, NEW ev \in Sent, Says("card", ev) = "",
         sent' = sent \/ sent' = Append(sent, ev),
         UNCHANGED <<ordered, online, lost, requests, decision, pendingRoute>>,
         phase' = "routing" <=> phase = "routing"
  PROVE  CardInv'
<1>1. sent \in Seq(Sent)
  BY DEF SyncTyped, WayPart
<1>2. Word(phase' = "routing") = Word(phase = "routing")
  BY DEF Word
<1>3. \A then : EndsAs(sent, "card", Word(pendingRoute), then)
                  => EndsAs(sent', "card", Word(pendingRoute), then)
  BY <1>1, EndsQuietly
<1>4. pendingRoute' = pendingRoute /\ requests' = requests /\ (decision' <=> decision)
      /\ lost' = lost /\ (ordered' <=> ordered) /\ (online' <=> online)
  OBVIOUS
<1> QED
  BY <1>2, <1>3, <1>4 DEF CardInv

\* An event that sets it as the room has it.
LEMMA CardSaid ==
  ASSUME SyncTyped, NEW ev \in Sent, Says("card", ev) = Word(phase' = "routing"),
         online => sent' = Append(sent, ev), UNCHANGED online
  PROVE  CardInv'
<1>1. sent \in Seq(Sent)
  BY DEF SyncTyped, WayPart
<1>2. Word(phase' = "routing") # ""
  BY DEF Word
<1>3. online => EndsAs(sent', "card", Word(pendingRoute'), Word(phase' = "routing"))
  BY <1>1, <1>2, EndsSaid
<1> QED
  BY <1>3 DEF CardInv

\* Off the stream nothing is appended.
LEMMA CutQuiet ==
  ASSUME CutInv, UNCHANGED online, online \/ sent' = sent PROVE CutInv'
BY DEF CutInv

LEMMA PostView == ASSUME ViewInv, PostEntry PROVE ViewInv'
<1> DEFINE ev == [name |-> "message", entry |-> posts]
<1>1. SyncTyped' /\ sent' = IF online THEN Append(sent, ev) ELSE sent
  BY PostTyped DEF ViewInv
<1>2. /\ ev.name = "message" /\ ev.entry = posts /\ ev \in Sent /\ posts \in Nat
      /\ sent \in Seq(Sent) /\ entries \in Seq(Nat) /\ online \in BOOLEAN
  BY DEF Sent, ViewInv, SyncTyped, RoomPart, WayPart, FlagsPart
<1>3. /\ entries' = Append(entries, posts) /\ (missed' <=> missed \/ ~online)
      /\ UNCHANGED <<ordered, phase, messages, pendingRoute, turnActive, paused, requests,
                     replies, lost, decision, online>>
  BY DEF PostEntry, Broadcast, shownVars
<1> HIDE DEF ev
<1>4. Says("active", ev) = "" /\ Says("paused", ev) = "" /\ Says("card", ev) = ""
  <2>1. ev.name \in {"message", "transcript", "reply", "lost"} /\ ev.name # "reply"
    BY <1>2
  <2> QED
    BY ONLY <2>1 DEF Says
<1>5. After(entries, ev) = entries'
  BY <1>2, <1>3 DEF After
<1>6. CutInv' /\ OrderedInv'
  BY <1>1, <1>3, CutQuiet DEF ViewInv, OrderedInv
<1>7. TextInv'
  <2>1. entries' \in Seq(Nat)
    BY <1>2, <1>3
  <2>2. ordered /\ online => Leads(Append(sent, ev), messages, entries')
    BY <1>2, <1>5, <2>1, LeadsOn DEF ViewInv, TextInv
  <2> QED
    BY <1>1, <1>3, <2>2 DEF TextInv
<1>8. CardInv'
  BY <1>1, <1>2, <1>3, <1>4, CardQuiet DEF ViewInv
<1>9. TurnInv'
  BY <1>1, <1>2, <1>3, <1>4, TurnQuiet DEF ViewInv
<1> QED
  BY <1>1, <1>6, <1>7, <1>8, <1>9 DEF ViewInv

LEMMA TruncateView ==
  ASSUME ViewInv, NEW keep \in 0 .. Len(entries), Truncate(keep) PROVE ViewInv'
<1> DEFINE ev == [name |-> "transcript", entries |-> entries']
<1>1. SyncTyped' /\ sent' = IF online THEN Append(sent, ev) ELSE sent
  BY TruncateTyped DEF ViewInv
<1>2. /\ ev.name = "transcript" /\ ev.entries = entries' /\ entries' \in Seq(Nat)
      /\ ev \in Sent /\ sent \in Seq(Sent) /\ online \in BOOLEAN
  BY <1>1 DEF Sent, ViewInv, SyncTyped, RoomPart, WayPart, FlagsPart
<1>3. /\ (missed' <=> missed \/ ~online)
      /\ UNCHANGED <<ordered, phase, messages, pendingRoute, turnActive, paused, requests,
                     replies, lost, decision, online>>
  BY DEF Truncate, Broadcast, shownVars
<1> HIDE DEF ev
<1>4. Says("active", ev) = "" /\ Says("paused", ev) = "" /\ Says("card", ev) = ""
  <2>1. ev.name \in {"message", "transcript", "reply", "lost"} /\ ev.name # "reply"
    BY <1>2
  <2> QED
    BY ONLY <2>1 DEF Says
<1>5. CutInv' /\ OrderedInv'
  BY <1>1, <1>3, CutQuiet DEF ViewInv, OrderedInv
<1>6. TextInv'
  <2>1. SetsText(ev)
    BY <1>2 DEF SetsText
  <2>2. Leads(Append(sent, ev), messages, entries')
    BY <1>2, <2>1, LeadsAnew
  <2> QED
    BY <1>1, <1>3, <2>2 DEF TextInv
<1>7. CardInv'
  BY <1>1, <1>2, <1>3, <1>4, CardQuiet DEF ViewInv
<1>8. TurnInv'
  BY <1>1, <1>2, <1>3, <1>4, TurnQuiet DEF ViewInv
<1> QED
  BY <1>1, <1>5, <1>6, <1>7, <1>8 DEF ViewInv

\* What the event of a step of the turn says.
LEMMA ToldSays ==
  ASSUME NEW s \in Steps
  PROVE  LET ev == Told(s[1], s[2])
         IN  /\ Says("active", ev) = Word(s[2] = "running")
             /\ \/ Says("paused", ev) = Word(s[2] = "asking")
                \/ Says("paused", ev) = "" /\ s[1] # "asking" /\ s[2] # "asking"
             /\ \/ Says("card", ev) = Word(s[2] = "routing")
                \/ Says("card", ev) = "" /\ s[1] # "routing" /\ s[2] # "routing"
             /\ ev.name \in {"turn", "routing"}
             /\ ev.name = "turn" /\ ev.phase = "end" <=> s[2] = "idle"
<1>1. s = <<s[1], s[2]>>
  BY DEF Steps
<1>2. Told(s[1], s[2]) =
           IF s[2] = "idle" THEN [name |-> "turn", phase |-> "end"]
           ELSE IF s[2] = "asking" THEN [name |-> "turn", phase |-> "pause"]
           ELSE IF s[2] = "routing" THEN [name |-> "routing", type |-> "proposed"]
           ELSE IF s[2] = "queued" THEN [name |-> "routing", type |-> "resolved"]
           ELSE IF s[1] = "idle" THEN [name |-> "turn", phase |-> "start"]
           ELSE IF s[1] = "queued" THEN [name |-> "turn", phase |-> "agent"]
           ELSE [name |-> "turn", phase |-> "resume"]
  BY <1>1, TellsOne DEF Told
<1>3. CASE s[2] = "idle"
  BY <1>2, <1>3 DEF Says, Word
<1>4. CASE s[2] = "asking"
  BY <1>2, <1>4 DEF Says, Word, Steps
<1>5. CASE s[2] = "routing"
  BY <1>2, <1>5 DEF Says, Word, Steps
<1>6. CASE s[2] = "running"
  <2>1. s[1] \in {"idle", "asking", "queued"}
    BY <1>6 DEF Steps
  <2> QED
    BY <1>2, <1>6, <2>1 DEF Says, Word
<1>7. s[2] \in {"idle", "asking", "routing", "running"}
  BY DEF Steps
<1> QED
  BY <1>3, <1>4, <1>5, <1>6, <1>7

LEMMA TurnView == ASSUME ViewInv, NEW s \in Steps, Turn(s[1], s[2]) PROVE ViewInv'
<1> DEFINE ev == Told(s[1], s[2])
<1>1. SyncTyped' /\ ev \in Sent /\ sent' = IF online THEN Append(sent, ev) ELSE sent
  BY TurnTyped DEF ViewInv
<1>2. sent \in Seq(Sent) /\ entries \in Seq(Nat) /\ online \in BOOLEAN
  BY DEF ViewInv, SyncTyped, RoomPart, WayPart, FlagsPart
<1>3. /\ Says("active", ev) = Word(s[2] = "running")
      /\ \/ Says("paused", ev) = Word(s[2] = "asking")
         \/ Says("paused", ev) = "" /\ s[1] # "asking" /\ s[2] # "asking"
      /\ \/ Says("card", ev) = Word(s[2] = "routing")
         \/ Says("card", ev) = "" /\ s[1] # "routing" /\ s[2] # "routing"
      /\ ev.name \in {"turn", "routing"}
      /\ ev.name = "turn" /\ ev.phase = "end" <=> s[2] = "idle"
  BY ToldSays
<1>4. /\ phase = s[1] /\ phase' = s[2] /\ (missed' <=> missed \/ ~online)
      /\ UNCHANGED <<ordered, entries, messages, pendingRoute, turnActive, paused, requests,
                     replies, lost, decision, online>>
  BY DEF Turn, Broadcast, shownVars
<1> HIDE DEF ev
<1>5. CutInv' /\ OrderedInv'
  BY <1>1, <1>4, CutQuiet DEF ViewInv, OrderedInv
<1>6. TextInv'
  <2>1. After(entries, ev) = entries
    <3>1. ev.name # "message" /\ ~SetsText(ev)
      BY <1>3 DEF SetsText
    <3> QED
      BY <3>1 DEF After
  <2>2. ordered /\ online => Leads(Append(sent, ev), messages, entries)
    BY <1>1, <1>2, <2>1, LeadsOn DEF ViewInv, TextInv
  <2> QED
    BY <1>1, <1>4, <2>2 DEF TextInv
<1>7. CardInv'
  <2>1. CASE Says("card", ev) = Word(s[2] = "routing")
    BY <1>1, <1>4, <2>1, CardSaid DEF ViewInv
  <2>2. CASE Says("card", ev) = "" /\ s[1] # "routing" /\ s[2] # "routing"
    BY <1>1, <1>2, <1>4, <2>2, CardQuiet DEF ViewInv
  <2> QED
    BY <1>3, <2>1, <2>2
<1>8. TurnInv'
  <2>1. CASE ~online
    <3>1. sent' = sent /\ missed'
      BY <1>1, <1>4, <2>1
    <3>2. ~EndIn(sent')
      BY <2>1, <3>1 DEF ViewInv, CutInv, EndIn
    <3> QED
      BY <3>1, <3>2 DEF TurnInv
  <2>2. CASE online
    <3>1. sent' = Append(sent, ev) /\ (missed' <=> missed)
      BY <1>1, <1>4, <2>2
    <3>2. EndsAs(sent', "active", Word(turnActive), Word(s[2] = "running"))
      <4>1. Says("active", ev) # ""
        BY <1>3 DEF Word
      <4> QED
        BY <1>1, <1>2, <1>3, <3>1, <4>1, EndsSaid
    <3>3. ASSUME ~missed' \/ EndIn(sent')
          PROVE  EndsAs(sent', "paused", Word(paused), Word(s[2] = "asking"))
      <4>1. CASE Says("paused", ev) = Word(s[2] = "asking")
        <5>1. Says("paused", ev) # ""
          BY <4>1 DEF Word
        <5> QED
          BY <1>1, <1>2, <3>1, <4>1, <5>1, EndsSaid
      <4>2. CASE Says("paused", ev) = "" /\ s[1] # "asking" /\ s[2] # "asking"
        <5>1. ~(ev.name = "turn" /\ ev.phase = "end")
          BY <4>2 DEF Says
        <5>2. EndIn(sent') => EndIn(sent)
          <6>1. /\ DOMAIN sent' = 1 .. (Len(sent) + 1) /\ sent'[Len(sent) + 1] = ev
                /\ Len(sent) \in Nat /\ DOMAIN sent = 1 .. Len(sent)
                /\ \A i \in DOMAIN sent : sent'[i] = sent[i]
            BY <1>1, <1>2, <3>1, OneMore
          <6>2. \A i \in DOMAIN sent' : i = Len(sent) + 1 \/ i \in DOMAIN sent
            BY ONLY <6>1
          <6> QED
            BY <5>1, <6>1, <6>2 DEF EndIn
        <5>3. EndsAs(sent, "paused", Word(paused), Word(phase = "asking"))
          BY <3>1, <3>3, <5>2 DEF ViewInv, TurnInv
        <5>4. Word(phase = "asking") = Word(s[2] = "asking")
          BY <1>4, <4>2 DEF Word
        <5> QED
          BY <1>1, <1>2, <3>1, <4>2, <5>3, <5>4, EndsQuietly
      <4> QED
        BY <1>3, <4>1, <4>2
    <3>4. turnActive' = turnActive /\ paused' = paused /\ phase' = s[2]
      BY <1>4
    <3> QED
      BY <3>2, <3>3, <3>4 DEF TurnInv
  <2> QED
    BY <2>1, <2>2
<1> QED
  BY <1>1, <1>5, <1>6, <1>7, <1>8 DEF ViewInv

\* A card that is resolved leaves the turn as it was.
LEMMA ResolvedSays ==
  /\ Says("active", Resolved) = "" /\ Says("paused", Resolved) = "" /\ Says("card", Resolved) = "no"
  /\ \A text : After(text, Resolved) = text
<1>1. Resolved.name = "routing" /\ Resolved.type = "resolved"
  BY DEF Resolved
<1>2. ~SetsText(Resolved)
  BY <1>1 DEF SetsText
<1> QED
  BY <1>1, <1>2 DEF Says, Word, After

LEMMA DecidesView == ASSUME ViewInv, Decides PROVE ViewInv'
<1>1. /\ SyncTyped' /\ Resolved \in Sent
      /\ sent' = IF phase = "routing" /\ online THEN Append(sent, Resolved) ELSE sent
  BY DecidesTyped DEF ViewInv
<1>2. /\ sent \in Seq(Sent) /\ entries \in Seq(Nat) /\ online \in BOOLEAN
  BY DEF ViewInv, SyncTyped, RoomPart, WayPart, FlagsPart
<1>3. /\ decision /\ decision' = FALSE
      /\ UNCHANGED <<ordered, entries, messages, pendingRoute, turnActive, paused, requests,
                     replies, lost, online>>
  BY DEF Decides, shownVars
<1>4. CASE phase = "routing"
  <2>1. phase' = "queued" /\ (missed' <=> missed \/ ~online)
    BY <1>4 DEF Decides, Broadcast
  <2>2. CutInv' /\ OrderedInv'
    BY <1>1, <1>3, CutQuiet DEF ViewInv, OrderedInv
  <2>3. TextInv'
    <3>1. ordered /\ online => Leads(Append(sent, Resolved), messages, entries)
      BY <1>1, <1>2, ResolvedSays, LeadsOn DEF ViewInv, TextInv
    <3> QED
      BY <1>1, <1>3, <1>4, <3>1 DEF TextInv
  <2>4. CardInv'
    <3>1. Says("card", Resolved) = Word(phase' = "routing")
      BY <2>1, ResolvedSays DEF Word
    <3> QED
      BY <1>1, <1>3, <1>4, <3>1, CardSaid DEF ViewInv
  <2>5. TurnInv'
    BY <1>1, <1>2, <1>3, <1>4, <2>1, ResolvedSays, TurnQuiet DEF ViewInv
  <2> QED
    BY <1>1, <2>2, <2>3, <2>4, <2>5 DEF ViewInv
<1>5. CASE phase # "routing"
  <2>1. UNCHANGED <<phase, sent, missed>>
    BY <1>5 DEF Decides
  <2>2. CutInv' /\ OrderedInv' /\ TextInv' /\ TurnInv'
    BY <1>3, <2>1 DEF ViewInv, CutInv, OrderedInv, TextInv, TurnInv, EndIn
  <2>3. CardInv'
    <3>1. Word(phase = "routing") = "no"
      BY <1>5 DEF Word
    <3>2. ordered /\ online /\ lost = 0 =>
            \/ requests["settings"] > 0
            \/ EndsAs(sent, "card", Word(pendingRoute), Word(phase = "routing"))
      BY <3>1 DEF ViewInv, CardInv
    <3> QED
      BY <1>3, <2>1, <3>2 DEF CardInv
  <2> QED
    BY <1>1, <2>2, <2>3 DEF ViewInv
<1> QED
  BY <1>4, <1>5

LEMMA ServeView == ASSUME ViewInv, NEW kind \in DOMAIN requests, Serve(kind) PROVE ViewInv'
<1> DEFINE ev == AnswerTo(kind)
<1>1. /\ SyncTyped' /\ ev \in ReplyOf /\ ev \in Sent
      /\ sent' = IF ordered THEN Append(sent, ev) ELSE sent
  BY ServeTyped DEF ViewInv
<1>2. /\ sent \in Seq(Sent) /\ entries \in Seq(Nat) /\ ordered \in BOOLEAN
      /\ requests \in [{"transcript", "settings"} -> Nat]
      /\ kind \in {"transcript", "settings"}
  BY DEF ViewInv, SyncTyped, RoomPart, WayPart, FlagsPart
<1>3. /\ ordered => replies' = replies
      /\ requests' = [requests EXCEPT ![kind] = @ - 1]
      /\ UNCHANGED <<ordered, entries, phase, messages, pendingRoute, turnActive, paused,
                     lost, decision, online, missed>>
  BY DEF Serve, roomVars, shownVars
<1>4. /\ ev.name = "reply" /\ ev.kind = kind
      /\ kind = "transcript" => ev.entries = entries
      /\ kind = "settings" => (ev.route <=> phase = "routing")
  BY <1>2 DEF AnswerTo
<1> HIDE DEF ev
<1>5. /\ Says("active", ev) = "" /\ Says("paused", ev) = ""
      /\ kind = "transcript" => Says("card", ev) = ""
      /\ kind = "settings" => Says("card", ev) = Word(phase = "routing")
  BY <1>4 DEF Says, Word
<1>6. CutInv'
  <2>1. CASE sent' = sent
    BY <1>3, <2>1 DEF ViewInv, CutInv
  <2>2. CASE sent' = Append(sent, ev)
    <3>1. /\ DOMAIN sent' = 1 .. (Len(sent) + 1) /\ sent'[Len(sent) + 1] = ev
          /\ Len(sent) \in Nat /\ DOMAIN sent = 1 .. Len(sent)
          /\ \A i \in DOMAIN sent : sent'[i] = sent[i]
      BY <1>1, <1>2, <2>2, OneMore
    <3>2. \A i \in DOMAIN sent' : i = Len(sent) + 1 \/ i \in DOMAIN sent
      BY ONLY <3>1
    <3> QED
      BY <1>3, <1>4, <3>1, <3>2 DEF ViewInv, CutInv
  <2> QED
    BY <1>1, <2>1, <2>2
<1>7. OrderedInv'
  BY <1>3 DEF ViewInv, OrderedInv
<1>8. TextInv'
  <2>1. CASE kind = "transcript"
    <3>1. SetsText(ev) /\ ev.entries = entries
      BY <1>4, <2>1 DEF SetsText
    <3>2. Leads(Append(sent, ev), messages, entries)
      BY <1>1, <1>2, <3>1, LeadsAnew
    <3> QED
      BY <1>1, <1>3, <3>2 DEF TextInv
  <2>2. CASE kind = "settings"
    <3>1. After(entries, ev) = entries
      BY <1>4, <2>2 DEF After, SetsText
    <3>2. ordered /\ online => Leads(Append(sent, ev), messages, entries)
      BY <1>1, <1>2, <3>1, LeadsOn DEF ViewInv, TextInv
    <3> QED
      BY <1>1, <1>3, <3>2 DEF TextInv
  <2> QED
    BY <1>2, <2>1, <2>2
<1>9. CardInv'
  <2>1. CASE ~ordered
    BY <1>3, <2>1 DEF CardInv
  <2>2. CASE ordered /\ kind = "settings"
    <3>1. sent' = Append(sent, ev) /\ Says("card", ev) = Word(phase' = "routing")
      BY <1>1, <1>3, <1>5, <2>2
    <3> QED
      BY <1>1, <1>3, <3>1, CardSaid DEF ViewInv
  <2>3. CASE ordered /\ kind = "transcript"
    <3>1. requests'["settings"] = requests["settings"]
      BY <1>2, <1>3, <2>3
    <3>2. sent' = Append(sent, ev)
      BY <1>1, <2>3
    <3>3. Says("card", ev) = "" /\ sent \in Seq(Sent) /\ ev \in Sent
      BY <1>1, <1>2, <1>5, <2>3
    <3>4. ASSUME NEW then, EndsAs(sent, "card", Word(pendingRoute), then)
          PROVE  EndsAs(sent', "card", Word(pendingRoute), then)
      BY <3>2, <3>3, <3>4, EndsQuietly
    <3> QED
      BY <1>3, <3>1, <3>4 DEF ViewInv, CardInv
  <2> QED
    BY <1>2, <2>1, <2>2, <2>3
<1>10. TurnInv'
  BY <1>1, <1>3, <1>5, TurnQuiet DEF ViewInv
<1> QED
  BY <1>1, <1>6, <1>7, <1>8, <1>9, <1>10 DEF ViewInv

LEMMA OvertakesView == ASSUME ViewInv, NEW i \in DOMAIN replies, Overtakes(i) PROVE ViewInv'
<1>1. replies # <<>>
  BY DEF ViewInv, SyncTyped, WayPart
<1>2. ~ordered
  BY <1>1 DEF ViewInv, OrderedInv
<1>3. UNCHANGED <<ordered, phase, sent, turnActive, paused, online, missed>>
  BY DEF Overtakes, Patch, roomVars
<1>4. CutInv' /\ TurnInv'
  BY <1>3 DEF ViewInv, CutInv, TurnInv, EndIn
<1>5. OrderedInv' /\ TextInv' /\ CardInv'
  BY <1>2, <1>3 DEF OrderedInv, TextInv, CardInv
<1> QED
  BY <1>4, <1>5, OvertakesTyped DEF ViewInv

\* What a client makes of one element.
LEMMA DeliverShows ==
  ASSUME SyncTyped, Receives
  PROVE  LET ev == Head(sent)
         IN  /\ messages' = After(messages, ev)
             /\ Word(pendingRoute') = (IF Says("card", ev) = "" THEN Word(pendingRoute)
                                       ELSE Says("card", ev))
             /\ Word(turnActive') = (IF Says("active", ev) = "" THEN Word(turnActive)
                                     ELSE Says("active", ev))
             /\ Word(paused') = (IF Says("paused", ev) = "" THEN Word(paused)
                                 ELSE Says("paused", ev))
             /\ missed' <=> missed /\ ~(ev.name = "turn" /\ ev.phase = "end")
<1> DEFINE ev == Head(sent)
<1>1. ev \in Sent
  BY RestOfWire DEF Receives, SyncTyped, WayPart
<1>2. /\ ev.name = "message" =>
              messages' = Append(messages, ev.entry)
                /\ UNCHANGED <<pendingRoute, turnActive, paused>>
      /\ ev.name = "transcript" =>
              messages' = ev.entries /\ UNCHANGED <<pendingRoute, turnActive, paused>>
      /\ ev.name = "turn" => ReducePhase(ev.phase)
      /\ ev.name = "routing" => ReduceRouting(ev.type)
      /\ ev.name = "reply" => Patch(ev)
      /\ ev.name = "lost" => UNCHANGED shownVars
      /\ missed' = (missed /\ ~(ev.name = "turn" /\ ev.phase = "end"))
  BY DEF Receives
<1> HIDE DEF ev
<1> DEFINE Shows ==
      /\ messages' = After(messages, ev)
      /\ Word(pendingRoute') = (IF Says("card", ev) = "" THEN Word(pendingRoute)
                                ELSE Says("card", ev))
      /\ Word(turnActive') = (IF Says("active", ev) = "" THEN Word(turnActive)
                              ELSE Says("active", ev))
      /\ Word(paused') = (IF Says("paused", ev) = "" THEN Word(paused) ELSE Says("paused", ev))
<1>3. ASSUME ev.name \in {"message", "transcript", "lost"}
      PROVE  Shows
  <2>1. /\ messages' = After(messages, ev)
        /\ UNCHANGED <<pendingRoute, turnActive, paused>>
    BY <1>2, <1>3 DEF After, SetsText, shownVars
  <2>2. Says("card", ev) = "" /\ Says("active", ev) = "" /\ Says("paused", ev) = ""
    BY ONLY <1>3 DEF Says
  <2>3. pendingRoute' = pendingRoute /\ turnActive' = turnActive /\ paused' = paused
    BY ONLY <2>1
  <2> QED
    BY ONLY <2>1, <2>2, <2>3
<1>4. ASSUME ev.name = "turn" /\ ev.phase \in TurnPhases
      PROVE  Shows
  <2>1. /\ turnActive' = (ev.phase \in {"start", "agent", "resume"})
        /\ paused' = (IF ev.phase = "pause" THEN TRUE
                      ELSE IF ev.phase \in {"resume", "end"} THEN FALSE ELSE paused)
        /\ pendingRoute' = (IF ev.phase = "end" THEN FALSE ELSE pendingRoute)
        /\ messages' = messages
    BY <1>2, <1>4 DEF ReducePhase
  <2>2. messages' = After(messages, ev)
    BY <1>4, <2>1 DEF After, SetsText
  <2>3. Says("active", ev) = Word(ev.phase \in {"start", "agent", "resume"})
    BY <1>4 DEF Says
  <2>4. Word(turnActive') = (IF Says("active", ev) = "" THEN Word(turnActive)
                              ELSE Says("active", ev))
    BY <2>1, <2>3 DEF Word
  <2>5. Word(paused') = (IF Says("paused", ev) = "" THEN Word(paused) ELSE Says("paused", ev))
    BY <1>4, <2>1 DEF Says, Word, TurnPhases
  <2>6. Word(pendingRoute') = (IF Says("card", ev) = "" THEN Word(pendingRoute)
                                ELSE Says("card", ev))
    BY <1>4, <2>1 DEF Says, Word, TurnPhases
  <2> QED
    BY <2>2, <2>4, <2>5, <2>6
<1>5. ASSUME ev.name = "routing" /\ ev.type \in {"proposed", "resolved"}
      PROVE  Shows
  <2>1. /\ pendingRoute' = (ev.type = "proposed")
        /\ turnActive' = (IF ev.type = "proposed" THEN FALSE ELSE turnActive)
        /\ UNCHANGED <<messages, paused>>
    BY <1>2, <1>5 DEF ReduceRouting
  <2>2. messages' = After(messages, ev)
    BY <1>5, <2>1 DEF After, SetsText
  <2>3. Says("paused", ev) = "" /\ Says("card", ev) = Word(ev.type = "proposed")
    BY <1>5 DEF Says
  <2>4. Word(pendingRoute') = (IF Says("card", ev) = "" THEN Word(pendingRoute)
                                ELSE Says("card", ev))
    BY <2>1, <2>3 DEF Word
  <2>5. Word(turnActive') = (IF Says("active", ev) = "" THEN Word(turnActive)
                              ELSE Says("active", ev))
    BY <1>5, <2>1 DEF Says, Word
  <2> QED
    BY <2>1, <2>2, <2>3, <2>4, <2>5
<1>6. ASSUME ev.name = "reply" /\ ev \in ReplyOf
      PROVE  Shows
  <2>1. /\ messages' = (IF ev.kind = "transcript" THEN ev.entries ELSE messages)
        /\ pendingRoute' = (IF ev.kind = "settings" THEN ev.route ELSE pendingRoute)
        /\ UNCHANGED <<turnActive, paused>>
    BY <1>2, <1>6 DEF Patch
  <2>2. messages' = After(messages, ev)
    BY <1>6, <2>1 DEF After, SetsText
  <2>3. /\ Says("active", ev) = "" /\ Says("paused", ev) = ""
        /\ Says("card", ev) = IF ev.kind = "settings" THEN Word(ev.route) ELSE ""
    BY ONLY <1>6 DEF Says
  <2>4. Word(pendingRoute') = (IF Says("card", ev) = "" THEN Word(pendingRoute)
                                ELSE Says("card", ev))
    BY <2>1, <2>3 DEF Word
  <2> QED
    BY <2>1, <2>2, <2>3, <2>4
<1>7. Shows
  BY <1>1, <1>3, <1>4, <1>5, <1>6, SentKinds
<1> QED
  BY <1>2, <1>7 DEF ev

LEMMA DeliverView == ASSUME ViewInv, Receives PROVE ViewInv'
<1> DEFINE ev == Head(sent)
<1>1. sent \in Seq(Sent) /\ sent # <<>> /\ sent' = Tail(sent)
  BY DEF Receives, ViewInv, SyncTyped, WayPart
<1>2. /\ ev = sent[1] /\ Len(sent) \in Nat /\ Len(sent) >= 1 /\ DOMAIN sent = 1 .. Len(sent)
      /\ DOMAIN sent' = 1 .. (Len(sent) - 1)
      /\ \A i \in 1 .. (Len(sent) - 1) : sent'[i] = sent[i + 1]
  BY <1>1, RestOfWire
<1>3. /\ messages' = After(messages, ev)
      /\ Word(pendingRoute') = (IF Says("card", ev) = "" THEN Word(pendingRoute)
                                ELSE Says("card", ev))
      /\ Word(turnActive') = (IF Says("active", ev) = "" THEN Word(turnActive)
                              ELSE Says("active", ev))
      /\ Word(paused') = (IF Says("paused", ev) = "" THEN Word(paused) ELSE Says("paused", ev))
      /\ missed' <=> missed /\ ~(ev.name = "turn" /\ ev.phase = "end")
  BY DeliverShows DEF ViewInv
<1>4. UNCHANGED <<ordered, entries, phase, requests, replies, lost, decision, online>>
  BY DEF Receives, roomVars
<1>5. \A i \in DOMAIN sent' : i + 1 \in DOMAIN sent /\ sent'[i] = sent[i + 1]
  BY ONLY <1>2
<1>6. CutInv' /\ OrderedInv'
  BY <1>4, <1>5 DEF ViewInv, CutInv, OrderedInv
<1>7. TextInv'
  <2>1. ordered /\ online => Leads(sent', messages', entries)
    BY <1>1, <1>3, LeadsOneLess DEF ViewInv, TextInv
  <2> QED
    BY <1>4, <2>1 DEF TextInv
<1>8. CardInv'
  <2>1. \A then : EndsAs(sent, "card", Word(pendingRoute), then)
                    => EndsAs(sent', "card", Word(pendingRoute'), then)
    BY <1>1, <1>3, EndsOneLess
  <2> QED
    BY <1>4, <2>1 DEF ViewInv, CardInv
<1>9. TurnInv'
  <2>1. \A then : EndsAs(sent, "active", Word(turnActive), then)
                    => EndsAs(sent', "active", Word(turnActive'), then)
    BY <1>1, <1>3, EndsOneLess
  <2>2. \A then : EndsAs(sent, "paused", Word(paused), then)
                    => EndsAs(sent', "paused", Word(paused'), then)
    BY <1>1, <1>3, EndsOneLess
  <2>3. EndIn(sent') => EndIn(sent)
    BY <1>5 DEF EndIn
  <2>4. ~missed' => ~missed \/ EndIn(sent)
    <3>1. 1 \in DOMAIN sent
      BY ONLY <1>2
    <3> QED
      BY <1>2, <1>3, <3>1 DEF EndIn
  <2> QED
    BY <1>4, <2>1, <2>2, <2>3, <2>4 DEF ViewInv, TurnInv
<1> QED
  BY <1>6, <1>7, <1>8, <1>9, DeliverTyped DEF ViewInv

\* What is left after a break says nothing of the turn.
LEMMA CutSays ==
  ASSUME SyncTyped
  PROVE  /\ ~EndIn(Cut)
         /\ \A i \in DOMAIN Cut : Says("active", Cut[i]) = "" /\ Says("paused", Cut[i]) = ""
<1>1. \A i \in DOMAIN Cut : Cut[i].name \in {"reply", "lost"}
  BY CutSent
<1>2. ASSUME NEW i \in DOMAIN Cut
      PROVE  Says("active", Cut[i]) = "" /\ Says("paused", Cut[i]) = ""
  BY <1>1 DEF Says
<1> QED
  BY <1>1, <1>2 DEF EndIn

LEMMA BreakView == ASSUME ViewInv, StreamBreaks PROVE ViewInv'
<1>1. /\ sent' = Cut /\ online' = FALSE /\ missed' = (missed \/ sent' # sent)
      /\ UNCHANGED <<ordered, phase, turnActive, paused, replies>>
  BY DEF StreamBreaks, roomVars, shownVars
<1>2. CutInv'
  BY <1>1, CutSent DEF ViewInv, CutInv
<1>3. OrderedInv' /\ TextInv' /\ CardInv'
  BY <1>1 DEF ViewInv, OrderedInv, TextInv, CardInv
<1>4. TurnInv'
  <2>1. ~EndIn(sent')
    BY <1>1, CutSays DEF ViewInv
  <2>2. CASE missed'
    BY <2>1, <2>2 DEF TurnInv
  <2>3. CASE ~missed'
    <3>1. ~missed /\ sent' = sent
      BY <1>1, <2>3
    <3> QED
      BY <1>1, <3>1 DEF ViewInv, TurnInv
  <2> QED
    BY <2>2, <2>3
<1> QED
  BY <1>2, <1>3, <1>4, BreakTyped DEF ViewInv

LEMMA OpensView == ASSUME ViewInv, StreamOpens PROVE ViewInv'
<1>1. SyncTyped' /\ Whole \in Sent /\ sent' = Append(sent, Whole)
  BY OpensTyped DEF ViewInv
<1>2. /\ Whole.name = "transcript" /\ Whole.entries = entries
      /\ sent \in Seq(Sent) /\ entries \in Seq(Nat)
      /\ requests \in [{"transcript", "settings"} -> Nat]
  BY DEF Whole, ViewInv, SyncTyped, RoomPart, WayPart
<1>3. /\ online' = TRUE /\ requests'["settings"] = requests["settings"] + 1
      /\ UNCHANGED <<ordered, entries, phase, messages, turnActive, paused, replies, missed>>
  BY <1>2 DEF StreamOpens, Connects, Asks, roomVars, shownVars
<1>4. CutInv' /\ OrderedInv'
  BY <1>3 DEF ViewInv, CutInv, OrderedInv
<1>5. TextInv'
  <2>1. SetsText(Whole)
    BY <1>2 DEF SetsText
  <2>2. Leads(sent', messages, entries)
    BY <1>1, <1>2, <2>1, LeadsAnew
  <2> QED
    BY <1>3, <2>2 DEF TextInv
<1>6. CardInv'
  BY <1>2, <1>3 DEF CardInv
<1>7. Says("active", Whole) = "" /\ Says("paused", Whole) = ""
  BY <1>2 DEF Says
<1>8. TurnInv'
  BY <1>1, <1>3, <1>7, TurnQuiet DEF ViewInv
<1> QED
  BY <1>1, <1>4, <1>5, <1>6, <1>8 DEF ViewInv

LEMMA StartsOverView == ASSUME ViewInv, StoreStarts PROVE ViewInv'
<1>1. /\ sent' = Cut /\ online' = FALSE /\ turnActive' = FALSE /\ paused' = FALSE
      /\ missed' = (phase # "idle" \/ sent' # sent)
      /\ UNCHANGED <<ordered, phase, replies>>
  BY DEF StoreStarts, roomVars
<1>2. CutInv'
  BY <1>1, CutSent DEF ViewInv, CutInv
<1>3. OrderedInv' /\ TextInv' /\ CardInv'
  BY <1>1 DEF ViewInv, OrderedInv, TextInv, CardInv
<1>4. TurnInv'
  <2>1. /\ ~EndIn(sent')
        /\ \A i \in DOMAIN sent' : Says("active", sent'[i]) = "" /\ Says("paused", sent'[i]) = ""
    BY <1>1, CutSays DEF ViewInv
  <2>2. CASE missed'
    BY <2>1, <2>2 DEF TurnInv
  <2>3. CASE ~missed'
    <3>1. phase' = "idle"
      BY <1>1, <2>3
    <3>2. Word(turnActive') = Word(phase' = "running") /\ Word(paused') = Word(phase' = "asking")
      BY <1>1, <3>1 DEF Word
    <3> QED
      BY <2>1, <3>2, EndsSilent DEF TurnInv
  <2> QED
    BY <2>2, <2>3
<1> QED
  BY <1>2, <1>3, <1>4, StartsOverTyped DEF ViewInv

\* A click hides the card, whatever the stream still says of it.
LEMMA ClickView == ASSUME ViewInv, Click PROVE ViewInv'
<1>1. /\ pendingRoute = TRUE /\ ~decision /\ pendingRoute' = FALSE /\ decision' = TRUE
      /\ UNCHANGED <<ordered, entries, phase, messages, turnActive, paused, sent, requests,
                     replies, lost, online, missed>>
  BY DEF Click, roomVars, wayVars, ViewInv, SyncTyped, ShownPart
<1>2. CutInv' /\ OrderedInv' /\ TextInv' /\ TurnInv'
  BY <1>1 DEF ViewInv, CutInv, OrderedInv, TextInv, TurnInv, EndIn
<1>3. CardInv'
  <2>1. ASSUME ordered, online, lost = 0
        PROVE  \/ requests["settings"] > 0
               \/ EndsAs(sent, "card", "no", Word(phase = "routing"))
               \/ EndsAs(sent, "card", "no", "no")
    <3>1. CASE requests["settings"] > 0
      BY <3>1
    <3>2. CASE EndsAs(sent, "card", Word(pendingRoute), Word(phase = "routing"))
      <4>1. \/ \A i \in DOMAIN sent : Says("card", sent[i]) = ""
            \/ EndsAs(sent, "card", "no", Word(phase = "routing"))
        BY <3>2 DEF EndsAs
      <4> QED
        BY <4>1 DEF EndsAs
    <3> QED
      BY <1>1, <2>1, <3>1, <3>2 DEF ViewInv, CardInv
  <2>2. Word(pendingRoute') = "no"
    BY <1>1 DEF Word
  <2> QED
    BY <1>1, <2>1, <2>2 DEF CardInv
<1> QED
  BY <1>2, <1>3, ClickTyped DEF ViewInv

LEMMA ClickFailsView == ASSUME ViewInv, ClickFails PROVE ViewInv'
<1>1. /\ lost' = lost + 1 /\ lost \in Nat
      /\ UNCHANGED <<ordered, entries, phase, messages, turnActive, paused, sent,
                     replies, online, missed>>
  BY DEF ClickFails, roomVars, shownVars, wayVars, ViewInv, SyncTyped, WayPart
<1>2. CutInv' /\ OrderedInv' /\ TextInv' /\ TurnInv'
  BY <1>1 DEF ViewInv, CutInv, OrderedInv, TextInv, TurnInv, EndIn
<1>3. CardInv'
  <2>1. lost' # 0
    BY <1>1
  <2> QED
    BY <2>1 DEF CardInv
<1> QED
  BY <1>2, <1>3, ClickTyped DEF ViewInv

LEMMA StepView == ViewInv /\ [SyncNext]_syncVars => ViewInv'
<1> SUFFICES ASSUME ViewInv, [SyncNext]_syncVars PROVE ViewInv'
  OBVIOUS
<1>1. CASE SyncNext
  BY <1>1, PostView, TruncateView, TurnView, DecidesView, ServeView, OvertakesView,
     DeliverView, BreakView, OpensView, StartsOverView, ClickView, ClickFailsView DEF SyncNext
<1>2. CASE UNCHANGED syncVars
  <2>1. SyncTyped'
    BY <1>2, StepSync DEF ViewInv
  <2>2. UNCHANGED <<ordered, entries, phase, messages, pendingRoute, turnActive, paused, sent,
                    requests, replies, lost, decision, online, missed>>
    BY <1>2 DEF syncVars, roomVars, shownVars, wayVars
  <2>3. CutInv' /\ OrderedInv' /\ TextInv' /\ CardInv' /\ TurnInv'
    BY <2>2 DEF ViewInv, CutInv, OrderedInv, TextInv, CardInv, TurnInv, EndIn
  <2> QED
    BY <2>1, <2>3 DEF ViewInv
<1> QED
  BY <1>1, <1>2

\* At rest nothing is left to be read.
LEMMA RestShows == ViewInv => ClientMatches
<1> SUFFICES ASSUME ViewInv PROVE ClientMatches
  OBVIOUS
<1>1. ASSUME Settled
      PROVE  /\ sent = <<>> /\ online /\ ~decision /\ ~(requests["settings"] > 0)
             /\ \A what, now, then : EndsAs(sent, what, now, then) => now = then
  <2>1. sent = <<>> /\ online /\ ~decision /\ \A k \in DOMAIN requests : requests[k] = 0
    BY <1>1 DEF Settled
  <2>2. DOMAIN requests = {"transcript", "settings"}
    BY DEF ViewInv, SyncTyped, WayPart
  <2>3. requests["settings"] = 0
    BY <2>1, <2>2
  <2>4. \A i \in DOMAIN sent : FALSE
    BY <2>1
  <2> QED
    BY <2>1, <2>3, <2>4 DEF EndsAs
<1>2. /\ pendingRoute \in BOOLEAN /\ turnActive \in BOOLEAN /\ paused \in BOOLEAN
  BY DEF ViewInv, SyncTyped, ShownPart
<1>3. TranscriptMatches
  BY <1>1, LeadsNowhere DEF TranscriptMatches, ViewInv, TextInv
<1>4. CardMatches
  <2>1. ASSUME Settled, ordered, lost = 0 PROVE Word(pendingRoute) = Word(phase = "routing")
    BY <1>1, <2>1 DEF ViewInv, CardInv
  <2> QED
    BY <1>2, <2>1 DEF CardMatches, Word
<1>5. PhaseMatches
  <2>1. ASSUME Settled, ~missed
        PROVE  /\ Word(turnActive) = Word(phase = "running")
               /\ Word(paused) = Word(phase = "asking")
    BY <1>1, <2>1 DEF ViewInv, TurnInv
  <2> QED
    BY <1>2, <2>1 DEF PhaseMatches, Word
<1> QED
  BY <1>3, <1>4, <1>5 DEF ClientMatches

\* However the stream broke and the client started over, a client to which nothing is
\* on its way shows the room: its transcript and its card, if answers and events kept
\* their order and no click failed, and its turn, if it heard the whole of it
\* (store.ts: loadSnapshot; state.ts: reduce).
THEOREM ClientShowsTheRoom == SyncSpec => []ClientMatches
<1>1. SyncInit => ViewInv
  BY InitView
<1>2. ViewInv /\ [SyncNext]_syncVars => ViewInv'
  BY StepView
<1>3. ViewInv => ClientMatches
  BY RestShows
<1> QED
  BY <1>1, <1>2, <1>3, PTL DEF SyncSpec
=============================================================================
