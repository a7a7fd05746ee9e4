----------------------------- MODULE TeamProofs -----------------------------
(***************************************************************************)
(* Proofs about who is in a room and what binds them: the agents and their *)
(* seats (Roster), the preset the line-up came from (PresetDrift), the     *)
(* gates on its handoffs (HandoffGate), and the forms that make and edit   *)
(* agents (Form), with the window a form's rows are cut to.                *)
(*                                                                         *)
(* Of the roster, SeatInv says who sits where and is inductive by itself;  *)
(* what a session was shown (SightInv) rests on it: a name that no seat    *)
(* has must own no session and no cursor, or the next seat of that name    *)
(* would inherit them.                                                     *)
(*                                                                         *)
(* Of the forms, FormInv ties what was asked of the server to the form     *)
(* that asked, and what the server made to both.                           *)
(***************************************************************************)
EXTENDS Roster, PresetDrift, HandoffGate, Form, SequenceTheorems, FiniteSetTheorems,
        WellFoundedInduction, TLAPS

(* ---- handoff gates ---------------------------------------------------------- *)

\* The agent that has the turn takes part, a turn that was not given away owes
\* no step, and the step that follows a handoff ends it for good.
GateInv ==
  /\ agent \in present /\ batch \in Seq(Calls)
  /\ late \in Nat /\ steps \in Nat /\ fired \in BOOLEAN
  /\ late > 0 => fired /\ every /\ late = 1 /\ steps > 0

LEMMA InitGate == GateInit => GateInv
<1> SUFFICES ASSUME GateInit PROVE GateInv
  OBVIOUS
<1>1. agent \in present /\ batch \in Seq(Calls)
  BY DEF GateInit
<1>2. late \in Nat /\ steps \in Nat /\ late = 0
  BY DEF GateInit
<1>3. fired \in BOOLEAN
  BY DEF GateInit
<1> QED
  BY <1>1, <1>2, <1>3 DEF GateInv

LEMMA CallTools ==
  ASSUME NEW call \in Calls PROVE call.tool \in {"handoff", "write", "ask", "other"}
BY DEF Calls

LEMMA BatchIsSeq == ASSUME NEW b \in Batches PROVE b \in Seq(Calls)
BY DEF Batches

\* A result that passes the guard keeps what was decided.
LEMMA GuardKeeps ==
  ASSUME GateInv, NEW t \in BOOLEAN, Guarded(t), UNCHANGED <<agent, present, late, steps>>,
         batch' \in Seq(Calls)
  PROVE  GateInv'
<1>1. fired' \in BOOLEAN
  BY DEF Guarded
<1>2. late > 0 => fired' /\ every'
  BY DEF Guarded, GateInv
<1> QED
  BY <1>1, <1>2 DEF GateInv

LEMMA StepGate == GateInv /\ [GateNext]_gateVars => GateInv'
<1> SUFFICES ASSUME GateInv, [GateNext]_gateVars PROVE GateInv'
  OBVIOUS
<1>1. ASSUME NEW b \in Batches, Answers(b) PROVE GateInv'
  <2>1. late = 0
    BY <1>1 DEF Answers, GateInv
  <2>2. late' \in Nat /\ steps' \in Nat /\ steps' > 0 /\ fired' = fired /\ every' = TRUE
    BY <1>1 DEF Answers, GateInv
  <2>3. late' > 0 => fired' /\ late' = 1
    BY <1>1, <2>1 DEF Answers
  <2>4. batch' \in Seq(Calls)
    BY <1>1, BatchIsSeq DEF Answers
  <2> QED
    BY <1>1, <2>2, <2>3, <2>4 DEF Answers, GateInv
<1>2. CASE Ends
  BY <1>2 DEF Ends, GateInv
<1>3. ASSUME NEW ok \in BOOLEAN, Result(ok) PROVE GateInv'
  <2>1. UNCHANGED <<agent, present, late, steps>>
    BY <1>3 DEF Result
  <2> DEFINE call == Head(batch)
  <2>5. call \in Calls /\ batch' \in Seq(Calls)
    BY <1>3 DEF Result, GateInv
  <2>2. CASE call.tool = "handoff"
    BY <1>3, <2>1, <2>2, <2>5, GuardKeeps DEF Result, Handoff
  <2>3. CASE call.tool = "write" \/ call.tool = "other"
    BY <1>3, <2>1, <2>3, <2>5, GuardKeeps DEF Result
  <2>4. CASE call.tool = "ask"
    BY <1>3, <2>1, <2>4, <2>5, GuardKeeps DEF Result
  <2> QED
    BY <2>2, <2>3, <2>4, <2>5, CallTools
<1>4. ASSUME NEW a \in Members, SwitchMember(a) PROVE GateInv'
  BY <1>4 DEF SwitchMember, GateInv
<1>5. CASE UNCHANGED gateVars
  BY <1>5 DEF gateVars, GateInv
<1> QED
  BY <1>1, <1>2, <1>3, <1>4, <1>5 DEF GateNext

LEMMA GateInvariant == GateSpec => []GateInv
<1>1. GateInit => GateInv
  BY InitGate
<1>2. GateInv /\ [GateNext]_gateVars => GateInv'
  BY StepGate
<1> QED
  BY <1>1, <1>2, PTL DEF GateSpec

\* With whatever gates, an agent that has somebody to hand to has somebody it
\* may hand to: a gate that binds it names a reviewer who is there.
THEOREM GateNeverTrapped == GateSpec => []NeverTrapped
<1>1. GateInv => NeverTrapped
  <2> SUFFICES ASSUME agent \in present, present # {agent}
               PROVE  \E a \in present \ {agent} : Allows(agent, a, touched, present)
    BY DEF GateInv, NeverTrapped
  <2>1. CASE Armed(agent, touched, present) = {}
    <3>1. PICK a \in present : a # agent
      OBVIOUS
    <3>2. Allows(agent, a, touched, present)
      BY <2>1 DEF Allows
    <3> QED
      BY <3>1, <3>2
  <2>2. CASE Armed(agent, touched, present) # {}
    <3>1. PICK g \in Armed(agent, touched, present) : TRUE
      BY <2>2
    <3>2. g.via \in present \ {agent}
      BY <3>1 DEF Armed, Applicable
    <3>3. Allows(agent, g.via, touched, present)
      BY <3>1 DEF Allows
    <3> QED
      BY <3>2, <3>3
  <2> QED
    BY <2>1, <2>2
<1> QED
  BY <1>1, GateInvariant, PTL

\* An agent that gave its turn away gets at most one more step of the model,
\* however many calls its batches hold and in whatever order.
THEOREM GateOneMoreStep == GateSpec => []OneMoreStep
<1>1. GateInv => OneMoreStep
  BY DEF GateInv, OneMoreStep
<1> QED
  BY <1>1, GateInvariant, PTL

(* ---- presets ------------------------------------------------------------------ *)

\* Every model of every line-up is there, so a line-up is loaded as it is kept.
AllAvailable == \A l \in Lineups : Downgraded(l) = l

\* A preset is written or applied while nobody edits the roster.
Alone == ~DriftOverlaps

\* While a preset is written the roster is the one being written; what is on
\* disk is the room as it is, but for a pull under way; the roster kept with
\* the provenance is the file's, unless one of them was changed; and a
\* deviation that was announced is latched.
DriftInv ==
  /\ DriftTypeOK /\ DriftTold
  /\ presetOp.at \in {"load", "apply"} => presetOp.lineup = presetOp.read
  /\ presetOp.at = "push" => presetOp.lineup = current
  /\ presetOp.at # "apply" => saved = [roster |-> current, born |-> born]
  /\ (~changed /\ saved.born /\ file # Nothing) => saved.roster = file
  /\ announced => latched

DriftOps == [at : {"load", "apply", "push"}, lineup : Lineups, read : Lineups \cup {Nothing}]

LEMMA InitDrift == DriftInit => DriftInv
<1> SUFFICES ASSUME DriftInit PROVE DriftInv
  OBVIOUS
<1>1. DriftTypeOK
  <2>1. /\ file \in Lineups \union {Nothing} /\ current \in Lineups
        /\ baseline \in Lineups \union {Nothing} /\ presetOp = NoPresetOp
        /\ saved = [roster |-> Seed, born |-> FALSE]
    BY LineupsAssumption DEF DriftInit
  <2>2. saved \in [roster : Lineups, born : BOOLEAN]
    BY <2>1, LineupsAssumption
  <2>3. born \in BOOLEAN
    BY DEF DriftInit
  <2>4. latched \in BOOLEAN
    BY DEF DriftInit
  <2> QED
    BY <2>1, <2>2, <2>3, <2>4 DEF DriftTypeOK
<1>2. DriftTold
  BY DEF DriftInit, DriftTold, NoticeOnce, NoPhantomDrift, ProvenanceLasts
<1> QED
  BY <1>1, <1>2 DEF DriftInit, DriftInv, NoPresetOp

\* What an operation at work looks like.
LEMMA OpAtWork ==
  ASSUME DriftTypeOK, presetOp # NoPresetOp
  PROVE  /\ presetOp.at \in {"load", "apply", "push"} /\ presetOp.lineup \in Lineups
         /\ presetOp.read \in Lineups \cup {Nothing}
BY DEF DriftTypeOK

LEMMA FreeIsFree == NoPresetOp.at = "free"
BY DEF NoPresetOp

LEMMA RecordOf ==
  ASSUME NEW s \in [roster : Lineups, born : BOOLEAN]
  PROVE  s = [roster |-> s.roster, born |-> s.born] /\ s.roster \in Lineups /\ s.born \in BOOLEAN
OBVIOUS

LEMMA SavedTyped ==
  ASSUME NEW l \in Lineups, NEW b \in BOOLEAN
  PROVE  /\ [roster |-> l, born |-> b] \in [roster : Lineups, born : BOOLEAN]
         /\ [roster |-> l, born |-> b].roster = l /\ [roster |-> l, born |-> b].born = b
OBVIOUS

\* The roster is edited with no operation at work: it deviates or not, and is
\* announced if so.
LEMMA EditDrift == ASSUME Alone, DriftInv, NEW l \in Lineups, Edit(l) PROVE DriftInv'
<1>1. /\ presetOp = NoPresetOp /\ presetOp' = presetOp /\ current' = l /\ file' = file
      /\ born' = born /\ baseline' = baseline /\ changed' = TRUE
      /\ saved' = [roster |-> l, born |-> born]
      /\ latched' = Deviates' /\ (announced' => Deviates')
  BY DEF Edit, Undisturbed, Alone, SaveCurrent, Latch
<1>2. born \in BOOLEAN
  BY DEF DriftInv, DriftTypeOK
<1>3. saved' \in [roster : Lineups, born : BOOLEAN]
  BY <1>1, <1>2, SavedTyped
<1>4. latched' \in BOOLEAN
  BY <1>1 DEF Deviates, Dormant
<1>5. DriftTypeOK'
  BY <1>1, <1>2, <1>3, <1>4 DEF DriftTypeOK, DriftInv
<1>6. repeated' = FALSE
  BY DEF Edit, Notices, DriftInv, DriftTold, NoticeOnce
<1>7. DriftTold'
  BY <1>1, <1>6 DEF DriftTold, NoPhantomDrift, ProvenanceLasts, NoticeOnce
<1> QED
  BY <1>1, <1>5, <1>7, FreeIsFree DEF DriftInv

\* A load, a pull or a push begins: what it will do is what it read.
LEMMA BeginsDrift ==
  ASSUME AllAvailable, DriftInv, LoadsPreset \/ ApplyPreset \/ Push PROVE DriftInv'
<1>1. presetOp = NoPresetOp /\ file' = file /\ current' = current /\ saved' = saved
      /\ changed' = changed /\ repeated' = repeated
  BY DEF LoadsPreset, ApplyPreset, Push, room, driftGhosts
<1>2. /\ DriftTypeOK /\ DriftTold /\ saved = [roster |-> current, born |-> born]
  BY <1>1, FreeIsFree DEF DriftInv
<1>3. CASE LoadsPreset
  <2>1. /\ UNCHANGED <<born, baseline, latched, announced>>
        /\ file # Nothing /\ presetOp' = [at |-> "load", lineup |-> Downgraded(file), read |-> file]
    BY <1>3 DEF LoadsPreset, room, driftGhosts
  <2>2. file \in Lineups /\ Downgraded(file) = file
    BY <1>2, <2>1 DEF DriftTypeOK, AllAvailable
  <2>3. /\ presetOp'.at = "load" /\ presetOp'.lineup = file /\ presetOp'.read = file
        /\ presetOp' \in DriftOps /\ presetOp' # NoPresetOp
    BY <2>1, <2>2, FreeIsFree DEF DriftOps
  <2>4. DriftTypeOK'
    BY <1>1, <1>2, <2>1, <2>3 DEF DriftTypeOK, DriftOps
  <2>5. DriftTold'
    BY <1>1, <1>2, <2>3 DEF DriftTold, NoticeOnce, NoPhantomDrift, ProvenanceLasts
  <2> QED
    BY <1>1, <1>2, <2>1, <2>3, <2>4, <2>5 DEF DriftInv
<1>4. CASE ApplyPreset
  <2>1. /\ born' = TRUE /\ baseline' = Downgraded(file) /\ latched' = FALSE /\ announced' = FALSE
        /\ file # Nothing
        /\ presetOp' = [at |-> "apply", lineup |-> Downgraded(file), read |-> file]
    BY <1>4 DEF ApplyPreset
  <2>2. file \in Lineups /\ Downgraded(file) = file
    BY <1>2, <2>1 DEF DriftTypeOK, AllAvailable
  <2>3. /\ presetOp'.at = "apply" /\ presetOp'.lineup = file /\ presetOp'.read = file
        /\ presetOp' \in DriftOps /\ presetOp' # NoPresetOp
    BY <2>1, <2>2, FreeIsFree DEF DriftOps
  <2>4. DriftTypeOK'
    <3>1. born' \in BOOLEAN
      BY <2>1
    <3>2. latched' \in BOOLEAN
      BY <2>1
    <3> QED
      BY <1>1, <1>2, <2>1, <2>2, <2>3, <3>1, <3>2 DEF DriftTypeOK, DriftOps
  <2>5. DriftTold'
    BY <1>1, <1>2, <2>3 DEF DriftTold, NoticeOnce, NoPhantomDrift, ProvenanceLasts
  <2> QED
    BY <1>1, <1>2, <2>1, <2>3, <2>4, <2>5 DEF DriftInv
<1>5. CASE Push
  <2>1. /\ UNCHANGED <<born, baseline, latched, announced>>
        /\ presetOp' = [at |-> "push", lineup |-> current, read |-> file]
    BY <1>5 DEF Push, room, driftGhosts
  <2>2. file \in Lineups \cup {Nothing} /\ current \in Lineups
    BY <1>2 DEF DriftTypeOK
  <2>3. /\ presetOp'.at = "push" /\ presetOp'.lineup = current
        /\ presetOp' \in DriftOps /\ presetOp' # NoPresetOp
    BY <2>1, <2>2, FreeIsFree DEF DriftOps
  <2>4. DriftTypeOK'
    BY <1>1, <1>2, <2>1, <2>3 DEF DriftTypeOK, DriftOps
  <2>5. DriftTold'
    BY <1>1, <1>2, <2>3 DEF DriftTold, NoticeOnce, NoPhantomDrift, ProvenanceLasts
  <2> QED
    BY <1>1, <1>2, <2>1, <2>3, <2>4, <2>5 DEF DriftInv
<1> QED
  BY <1>3, <1>4, <1>5

\* A load, a pull or a push lands: roster, baseline and file agree again.
LEMMA LandsDrift == ASSUME DriftInv, PresetLands \/ PushLands PROVE DriftInv'
<1>1. presetOp # NoPresetOp /\ presetOp' = NoPresetOp /\ repeated' = repeated /\ announced' = FALSE
  BY FreeIsFree DEF PresetLands, PushLands
<1>2. /\ DriftTypeOK /\ presetOp.lineup \in Lineups /\ presetOp.read \in Lineups \cup {Nothing}
      /\ born \in BOOLEAN /\ current \in Lineups /\ file \in Lineups \cup {Nothing} /\ ~repeated
  BY <1>1, OpAtWork DEF DriftInv, DriftTypeOK, DriftTold, NoticeOnce
<1>3. /\ born' \in BOOLEAN /\ current' \in Lineups /\ file' \in Lineups \cup {Nothing}
      /\ baseline' = current' /\ saved' = [roster |-> current', born |-> born']
  <2>1. CASE PresetLands
    BY <1>2, <2>1 DEF PresetLands, SaveCurrent
  <2>2. CASE PushLands
    BY <1>2, <2>2 DEF PushLands, SaveCurrent, NewBaseline, DriftInv
  <2> QED
    BY <2>1, <2>2
<1>4. latched' \in BOOLEAN
  <2>1. CASE PresetLands
    BY <1>2, <2>1 DEF PresetLands, DriftTypeOK
  <2>2. CASE PushLands
    BY <2>2 DEF PushLands
  <2> QED
    BY <2>1, <2>2
<1>5. ~changed' => file' = current'
  <2>1. CASE PresetLands
    BY <2>1 DEF PresetLands, DriftInv
  <2>2. CASE PushLands
    BY <2>2 DEF PushLands, DriftInv
  <2> QED
    BY <2>1, <2>2
<1>6. /\ saved' \in [roster : Lineups, born : BOOLEAN]
      /\ saved'.roster = current' /\ saved'.born = born'
  BY <1>3, SavedTyped
<1>7. DriftTypeOK'
  BY <1>1, <1>3, <1>4, <1>6 DEF DriftTypeOK
<1>8. DriftTold'
  BY <1>1, <1>2, <1>3
     DEF DriftTold, NoticeOnce, NoPhantomDrift, ProvenanceLasts, Deviates, Dormant
<1> QED
  BY <1>1, <1>3, <1>5, <1>6, <1>7, <1>8, FreeIsFree DEF DriftInv

LEMMA NewConversationDrift == ASSUME DriftInv, NewConversation PROVE DriftInv'
<1>1. /\ presetOp = NoPresetOp /\ presetOp' = presetOp /\ file' = file /\ current' = current
      /\ born' = FALSE /\ baseline' = Nothing /\ latched' = FALSE /\ announced' = FALSE
      /\ repeated' = repeated /\ saved' = [roster |-> current, born |-> FALSE]
  BY DEF NewConversation, SaveCurrent
<1>2. current \in Lineups /\ file \in Lineups \cup {Nothing} /\ ~repeated
  BY DEF DriftInv, DriftTypeOK, DriftTold, NoticeOnce
<1>3. saved' \in [roster : Lineups, born : BOOLEAN] /\ ~saved'.born
  BY <1>1, <1>2, SavedTyped
<1>4. born' \in BOOLEAN
  BY <1>1
<1>5. latched' \in BOOLEAN
  BY <1>1
<1>6. DriftTypeOK'
  BY <1>1, <1>2, <1>3, <1>4, <1>5 DEF DriftTypeOK
<1>7. DriftTold'
  BY <1>1, <1>2 DEF DriftTold, NoticeOnce, NoPhantomDrift, ProvenanceLasts
<1> QED
  BY <1>1, <1>3, <1>6, <1>7, FreeIsFree DEF DriftInv

LEMMA AuthorDrift ==
  ASSUME DriftInv, NEW l \in Lineups \cup {Nothing}, Author(l) PROVE DriftInv'
<1>1. /\ file' = l /\ changed' = TRUE
      /\ UNCHANGED <<current, born, baseline, latched, saved, presetOp, announced, repeated>>
  BY DEF Author, room
<1>2. DriftTypeOK'
  BY <1>1 DEF DriftInv, DriftTypeOK
<1>3. DriftTold'
  BY <1>1, FreeIsFree DEF DriftInv, DriftTold, NoticeOnce, NoPhantomDrift, ProvenanceLasts
<1> QED
  BY <1>1, <1>2, <1>3 DEF DriftInv

LEMMA RebootDrift == ASSUME DriftInv, Reboot PROVE DriftInv'
<1>1. /\ current' = saved.roster /\ born' = saved.born /\ file' = file /\ saved' = saved
      /\ baseline' = (IF saved.born THEN file ELSE Nothing)
      /\ latched' = Deviates' /\ announced' = Deviates' /\ presetOp' = NoPresetOp
      /\ changed' = changed /\ repeated' = repeated
  BY DEF Reboot, LatchAtReboot
<1>2. /\ saved \in [roster : Lineups, born : BOOLEAN] /\ file \in Lineups \cup {Nothing}
      /\ ~repeated
  BY DEF DriftInv, DriftTypeOK, DriftTold, NoticeOnce
<1>3. /\ saved = [roster |-> saved.roster, born |-> saved.born]
      /\ saved.roster \in Lineups /\ saved.born \in BOOLEAN
  BY <1>2, RecordOf
<1>4. latched' \in BOOLEAN
  BY <1>1 DEF Deviates, Dormant
<1>5. DriftTypeOK'
  BY <1>1, <1>2, <1>3, <1>4 DEF DriftTypeOK
<1>6. DriftTold'
  BY <1>1, <1>2, <1>3
     DEF DriftInv, DriftTold, NoticeOnce, NoPhantomDrift, ProvenanceLasts, Deviates, Dormant
<1> QED
  BY <1>1, <1>3, <1>5, <1>6, FreeIsFree DEF DriftInv

LEMMA StepDrift == Alone /\ AllAvailable /\ DriftInv /\ [DriftNext]_driftVars => DriftInv'
<1> SUFFICES ASSUME Alone, AllAvailable, DriftInv, [DriftNext]_driftVars PROVE DriftInv'
  OBVIOUS
<1>1. CASE DriftNext
  BY <1>1, EditDrift, AuthorDrift, BeginsDrift, LandsDrift, NewConversationDrift, RebootDrift
     DEF DriftNext
<1>2. CASE UNCHANGED driftVars
  BY <1>2 DEF driftVars, room, driftGhosts, DriftInv, DriftTypeOK, DriftTold, NoticeOnce,
              NoPhantomDrift, ProvenanceLasts, Deviates, Dormant
<1> QED
  BY <1>1, <1>2

\* For any line-ups whose models are all there, and any edits, reboots and
\* changes of the file from elsewhere: a room deviates from its preset only if
\* one of them was changed, says so once, and is after a reboot what it was
\* (preset-drift.ts), if nobody edits it while a preset is written or applied.
THEOREM PresetDriftTold ==
  ASSUME Alone, AllAvailable PROVE DriftSpec => []DriftTold
<1>1. DriftInit => DriftInv
  BY InitDrift
<1>2. DriftInv /\ [DriftNext]_driftVars => DriftInv'
  BY StepDrift
<1>3. DriftInv => DriftTold
  BY DEF DriftInv
<1> QED
  BY <1>1, <1>2, <1>3, PTL DEF DriftSpec

(* ---- the roster and its seats ------------------------------------------------ *)

\* No change of the roster lands while an edit rebuilds a session.
Undivided == ~Overlaps

WornByMembers == \A s \in SeatNames : hats[s] \subseteq participants
AllSeated == \A a \in participants : \E s \in SeatNames : a \in hats[s]
OneSeat == \A s, r \in SeatNames : \A a \in Agents : a \in hats[s] /\ a \in hats[r] => s = r
OwnSeat == \A a \in Agents : hats[a] \subseteq {a}
SameModels == \A s \in SeatNames : \A g, h \in hats[s] : model[g] = model[h]
Told == \A s \in SeatNames :
  hats[s] # {} => builtLone[s] = LoneWith(s, hats, participants, active)

\* The edit under way puts back the roster as it is, and its agent sits where
\* the session is being built.
EditHolds == ~Idle =>
  /\ edit.order = participants
  /\ edit.seat \in SeatNames /\ hats[edit.seat] # {}
  /\ edit.cursor \in 0 .. MaxLog

SeatsHold == WornByMembers /\ AllSeated /\ OneSeat /\ OwnSeat /\ SameModels
SeatInv == TypeOK /\ SeatsHold /\ Told /\ EditHolds

LEMMA NamesApart == \A a \in Agents, s \in Shared : a # s
BY SeatNamesAssumption

\* An agent of the room has its seat, and one seat only.
LEMMA SeatOf ==
  ASSUME SeatInv, NEW a \in participants
  PROVE  /\ SeatOfHat(a) \in SeatNames /\ a \in hats[SeatOfHat(a)] /\ a \in Agents
         /\ \A s \in SeatNames : a \in hats[s] => s = SeatOfHat(a)
<1>1. \E s \in SeatNames : a \in hats[s]
  BY DEF SeatInv, SeatsHold, AllSeated
<1>2. SeatOfHat(a) \in SeatNames /\ a \in hats[SeatOfHat(a)]
  BY <1>1 DEF SeatOfHat
<1>3. a \in Agents
  BY DEF SeatInv, TypeOK
<1> QED
  BY <1>2, <1>3 DEF SeatInv, SeatsHold, OneSeat

LEMMA LoneIsBoolean ==
  ASSUME NEW s, NEW worn, NEW ps, NEW act PROVE LoneWith(s, worn, ps, act) \in BOOLEAN
BY DEF LoneWith

LEMMA FramedFits ==
  ASSUME NEW worn, NEW ps, NEW act
  PROVE  /\ Framed(worn, ps, act) \in [SeatNames -> BOOLEAN]
         /\ \A s \in SeatNames : Framed(worn, ps, act)[s] = LoneWith(s, worn, ps, act)
BY LoneIsBoolean DEF Framed

LEMMA LargerIn ==
  ASSUME NEW n \in Nat, NEW i \in 0 .. n, NEW j \in 0 .. n PROVE Larger(i, j) \in 0 .. n
BY DEF Larger

LEMMA InitSeats == Init => SeatInv
<1> SUFFICES ASSUME Init PROVE SeatInv
  OBVIOUS
<1>1. participants \subseteq Agents /\ defused \subseteq Shared /\ log \in 0 .. MaxLog
  BY RosterBoundsAssumption DEF Init
<1>2. model \in [Agents -> Models] /\ active \in [Agents -> BOOLEAN]
  BY DEF Init
<1>3. hats \in [SeatNames -> SUBSET Agents] /\ builtLone \in [SeatNames -> BOOLEAN]
  BY DEF Init
<1>4. cursor \in [SeatNames -> 0 .. MaxLog] /\ session \in [SeatNames -> 0 .. MaxLog]
  BY RosterBoundsAssumption DEF Init
<1>5. SeatsHold
  BY DEF Init, SeatsHold, WornByMembers, AllSeated, OneSeat, OwnSeat, SameModels, SeatNames
<1>6. Told /\ EditHolds
  BY DEF Init, Told, EditHolds, Idle
<1> QED
  BY <1>1, <1>2, <1>3, <1>4, <1>5, <1>6 DEF SeatInv, TypeOK

LEMMA SpeakSeats == ASSUME SeatInv, NEW a \in Agents, Speak(a) PROVE SeatInv'
<1>1. SeatOfHat(a) \in SeatNames
  BY SeatOf DEF Speak
<1>2. log + 1 \in 0 .. MaxLog /\ log' = log + 1 /\ log \in Nat
  BY RosterBoundsAssumption DEF Speak, SeatInv, TypeOK
<1>3. cursor' \in [SeatNames -> 0 .. MaxLog] /\ session' \in [SeatNames -> 0 .. MaxLog]
  BY <1>1, <1>2 DEF Speak, SeatInv, TypeOK
<1>4. TypeOK'
  BY <1>2, <1>3 DEF Speak, SeatInv, TypeOK, roster
<1>5. SeatsHold' /\ Told'
  BY DEF Speak, SeatInv, roster, SeatsHold, Told, WornByMembers, AllSeated, OneSeat, OwnSeat,
         SameModels
<1>6. EditHolds'
  BY <1>2 DEF Speak, SeatInv, roster, EditHolds, Idle
<1> QED
  BY <1>4, <1>5, <1>6 DEF SeatInv

LEMMA CreateSeats ==
  ASSUME Undivided, SeatInv, NEW a \in Agents, NEW m \in Models, NEW wish \in Shared \union {a},
         Create(a, m, wish)
  PROVE  SeatInv'
<1> DEFINE s == Joins(a, m, wish)
<1>1. s \in SeatNames /\ (s \in Shared \/ s = a)
  BY DEF Joins, SeatNames
<1>2. hats' = [hats EXCEPT ![s] = @ \union {a}]
  BY DEF Create
<1>3. Idle /\ a \notin participants /\ participants' = participants \union {a}
  BY DEF Create, Settled, Undivided
<1>4. model' = [model EXCEPT ![a] = m] /\ active' = [active EXCEPT ![a] = TRUE]
  BY DEF Create
<1>5. builtLone' = Framed(hats', participants', active')
  BY DEF Create
<1>6. \A h \in hats[s] : h # a /\ model[h] = m
  <2>1. \A h \in hats[s] : h # a
    BY <1>1, <1>3 DEF SeatInv, SeatsHold, WornByMembers
  <2>2. CASE s = a
    BY <2>1, <2>2 DEF SeatInv, SeatsHold, OwnSeat
  <2>3. CASE s # a
    BY <2>1, <2>3 DEF Joins
  <2> QED
    BY <2>1, <2>2, <2>3
<1>7. TypeOK'
  <2>1. CursorAtJoin(s, 0) \in 0 .. MaxLog
    BY <1>1, RosterBoundsAssumption, LargerIn DEF SeatInv, TypeOK, CursorAtJoin
  <2>2. cursor' \in [SeatNames -> 0 .. MaxLog]
    BY <2>1, <1>1 DEF Create, SeatInv, TypeOK
  <2>3. hats' \in [SeatNames -> SUBSET Agents]
    BY <1>2 DEF SeatInv, TypeOK
  <2>4. model' \in [Agents -> Models] /\ active' \in [Agents -> BOOLEAN]
    BY <1>4 DEF SeatInv, TypeOK
  <2>5. builtLone' \in [SeatNames -> BOOLEAN]
    BY <1>5, FramedFits
  <2> QED
    BY <1>3, <2>2, <2>3, <2>4, <2>5 DEF Create, SeatInv, TypeOK
<1>8. WornByMembers' /\ AllSeated'
  BY <1>1, <1>2, <1>3 DEF SeatInv, TypeOK, SeatsHold, WornByMembers, AllSeated
<1>9. OneSeat'
  BY <1>1, <1>2, <1>3 DEF SeatInv, TypeOK, SeatsHold, WornByMembers, OneSeat
<1>10. OwnSeat'
  BY <1>1, <1>2, NamesApart DEF SeatInv, TypeOK, SeatsHold, OwnSeat, SeatNames
<1>11. SameModels'
  BY <1>1, <1>2, <1>3, <1>4, <1>6 DEF SeatInv, TypeOK, SeatsHold, SameModels, WornByMembers
<1>12. Told' /\ EditHolds'
  BY <1>3, <1>5, FramedFits DEF Create, Told, EditHolds, Idle
<1> QED
  BY <1>7, <1>8, <1>9, <1>10, <1>11, <1>12 DEF SeatInv, SeatsHold

LEMMA ForgottenTyped ==
  ASSUME SeatInv, NEW gone
  PROVE  ForgetCursors(gone, cursor) \in [SeatNames -> 0 .. MaxLog]
BY RosterBoundsAssumption DEF SeatInv, TypeOK, ForgetCursors

LEMMA KickSeats ==
  ASSUME Undivided, SeatInv, NEW a \in Agents, Kick(a) PROVE SeatInv'
<1>1. hats' = [s \in SeatNames |-> hats[s] \ {a}]
  BY DEF Kick, Leaves
<1>2. Idle /\ participants' = participants \ {a} /\ UNCHANGED <<model, active, defused, edit, log>>
  BY DEF Kick, Settled, Undivided
<1>3. builtLone' = Framed(hats', participants', active')
  BY <1>2 DEF Kick
<1>4. TypeOK'
  <2>1. cursor' \in [SeatNames -> 0 .. MaxLog]
    BY ForgottenTyped DEF Kick
  <2>2. session' \in [SeatNames -> 0 .. MaxLog]
    BY RosterBoundsAssumption DEF Kick, DeletesDir, SeatInv, TypeOK
  <2>3. hats' \in [SeatNames -> SUBSET Agents]
    BY <1>1 DEF SeatInv, TypeOK
  <2>4. builtLone' \in [SeatNames -> BOOLEAN]
    BY <1>3, FramedFits
  <2> QED
    BY <1>2, <2>1, <2>2, <2>3, <2>4 DEF SeatInv, TypeOK
<1>5. WornByMembers' /\ AllSeated'
  BY <1>1, <1>2 DEF SeatInv, SeatsHold, WornByMembers, AllSeated
<1>6. OneSeat' /\ OwnSeat' /\ SameModels'
  BY <1>1, <1>2 DEF SeatInv, SeatsHold, OneSeat, OwnSeat, SameModels, SeatNames
<1>7. Told' /\ EditHolds'
  BY <1>2, <1>3, FramedFits DEF Told, EditHolds, Idle
<1> QED
  BY <1>4, <1>5, <1>6, <1>7 DEF SeatInv, SeatsHold

LEMMA SetActiveSeats ==
  ASSUME Undivided, SeatInv, NEW a \in Agents, NEW on \in BOOLEAN, SetActive(a, on) PROVE SeatInv'
<1>1. builtLone' = Framed(hats', participants', active')
  BY DEF SetActive
<1>2. active' \in [Agents -> BOOLEAN]
  BY DEF SetActive, SeatInv, TypeOK
<1>3. builtLone' \in [SeatNames -> BOOLEAN]
  BY <1>1, FramedFits
<1>4. TypeOK'
  BY <1>2, <1>3 DEF SetActive, SeatInv, TypeOK
<1>5. SeatsHold'
  BY DEF SetActive, SeatInv, SeatsHold, WornByMembers, AllSeated, OneSeat, OwnSeat, SameModels
<1>6. Told' /\ EditHolds'
  BY <1>1, FramedFits DEF SetActive, Settled, Undivided, Told, EditHolds, Idle
<1> QED
  BY <1>4, <1>5, <1>6 DEF SeatInv

LEMMA UpdateSeats ==
  ASSUME Undivided, SeatInv, NEW a \in Agents, NEW m \in Models, Update(a, m) PROVE SeatInv'
<1> DEFINE own == SeatOfHat(a)
           off == Detaches(a, m)
<1>1. /\ own \in SeatNames /\ a \in hats[own] /\ a \in SeatNames /\ a \in participants
      /\ \A s \in SeatNames : a \in hats[s] => s = own
  BY SeatOf DEF Update, SeatNames
<1>2. UNCHANGED <<participants, active, defused, cursor, session, log>>
  BY DEF Update
<1>3. edit' = [id |-> a, model |-> m, order |-> participants, cursor |-> cursor[own],
               seat |-> IF off THEN a ELSE own]
  BY DEF Update
<1>4. model' = [model EXCEPT ![a] = m]
  BY DEF Update
<1>5. /\ off => hats' = [[s \in SeatNames |-> hats[s] \ {a}] EXCEPT ![a] = {a}]
      /\ ~off => hats' = hats
  BY DEF Update, Leaves
<1> HIDE DEF off, own
<1>a. \A s \in SeatNames :
        /\ off /\ s = a => hats'[s] = {a}
        /\ off /\ s # a => hats'[s] = hats[s] \ {a}
        /\ ~off => hats'[s] = hats[s]
  BY <1>5
<1>b. a \in Agents /\ hats \in [SeatNames -> SUBSET Agents]
  BY DEF SeatInv, TypeOK
<1>6. builtLone' = [s \in SeatNames |-> IF a \in hats[s] \union hats'[s]
                                       THEN LoneWith(s, hats', participants, active)
                                       ELSE builtLone[s]]
  BY DEF Update
<1>7. hats' \in [SeatNames -> SUBSET Agents]
  <2>1. CASE off
    <3> DEFINE left == [s \in SeatNames |-> hats[s] \ {a}]
    <3>1. left \in [SeatNames -> SUBSET Agents]
      BY <1>b
    <3>2. hats' = [left EXCEPT ![a] = {a}]
      BY <2>1, <1>5
    <3> HIDE DEF left
    <3> QED
      BY <3>1, <3>2, <1>b
  <2>2. CASE ~off
    BY <2>2, <1>5, <1>b
  <2> QED
    BY <2>1, <2>2
<1>8. TypeOK'
  <2>1. builtLone' \in [SeatNames -> BOOLEAN]
    BY <1>6, LoneIsBoolean DEF SeatInv, TypeOK
  <2>2. model' \in [Agents -> Models]
    BY <1>4 DEF SeatInv, TypeOK
  <2> QED
    BY <1>2, <1>7, <2>1, <2>2 DEF SeatInv, TypeOK
\* An agent that leaves its seat leaves others on it, so its own seat was free.
<1>9. off => own # a /\ hats[a] = {}
  BY <1>1, <1>b DEF off, own, Detaches, SeatInv, SeatsHold, OwnSeat
<1>10. WornByMembers'
  BY <1>1, <1>2, <1>a DEF SeatInv, SeatsHold, WornByMembers
<1>11. AllSeated'
  BY <1>1, <1>2, <1>a, <1>9 DEF SeatInv, SeatsHold, AllSeated
<1>12. OneSeat'
  BY <1>1, <1>a, <1>9 DEF SeatInv, SeatsHold, OneSeat
<1>13. OwnSeat'
  BY <1>1, <1>a, <1>b DEF SeatInv, SeatsHold, OwnSeat, SeatNames
<1>14. SameModels'
  <2>1. CASE off
    <3> SUFFICES ASSUME NEW s \in SeatNames, NEW g \in hats'[s], NEW h \in hats'[s]
                 PROVE  model'[g] = model'[h]
      BY DEF SameModels
    <3>1. CASE s = a
      BY <2>1, <3>1, <1>a
    <3>2. CASE s # a
      <4>1. g \in hats[s] \ {a} /\ h \in hats[s] \ {a}
        BY <2>1, <3>2, <1>a
      <4>2. g \in Agents /\ h \in Agents
        BY <4>1, <1>b
      <4> QED
        BY <4>1, <4>2, <1>4 DEF SeatInv, TypeOK, SeatsHold, SameModels
    <3> QED
      BY <3>1, <3>2
  <2>2. CASE ~off
    <3>1. \A h \in hats[own] \ {a} : model[h] = m
      BY <2>2 DEF off, own, Detaches
    <3> QED
      BY <3>1, <2>2, <1>1, <1>4, <1>5 DEF SeatInv, TypeOK, SeatsHold, SameModels
  <2> QED
    BY <2>1, <2>2
<1>15. Told'
  <2> SUFFICES ASSUME NEW s \in SeatNames, hats'[s] # {}
               PROVE  builtLone'[s] = LoneWith(s, hats', participants', active')
    BY DEF Told
  <2>1. CASE a \in hats[s] \union hats'[s]
    BY <2>1, <1>2, <1>6
  <2>2. CASE a \notin hats[s] \union hats'[s]
    <3>1. hats'[s] = hats[s]
      <4>1. CASE off
        <5>1. s # a
          BY <4>1, <2>2, <1>a
        <5>2. hats'[s] = hats[s] \ {a}
          BY <4>1, <5>1, <1>a
        <5> QED
          BY <5>2, <2>2
      <4>2. CASE ~off
        BY <4>2, <1>a
      <4> QED
        BY <4>1, <4>2
    <3> QED
      BY <3>1, <2>2, <1>2, <1>6 DEF SeatInv, Told, LoneWith
  <2> QED
    BY <2>1, <2>2
<1>16. EditHolds'
  <2>1. edit'.order = participants' /\ edit'.seat \in SeatNames /\ hats'[edit'.seat] # {}
    BY <1>1, <1>2, <1>3, <1>5 DEF SeatInv, TypeOK
  <2>2. edit'.cursor \in 0 .. MaxLog
    BY <1>1, <1>3 DEF SeatInv, TypeOK
  <2> QED
    BY <2>1, <2>2 DEF EditHolds
<1> QED
  BY <1>8, <1>10, <1>11, <1>12, <1>13, <1>14, <1>15, <1>16 DEF SeatInv, SeatsHold

LEMMA UpdateEndsSeats == ASSUME SeatInv, UpdateEnds PROVE SeatInv'
<1>1. edit.order = participants /\ edit.seat \in SeatNames /\ edit.cursor \in 0 .. MaxLog
  BY RosterBoundsAssumption DEF UpdateEnds, SeatInv, EditHolds, TypeOK
<1>2. participants' = participants /\ edit' = NoEdit
  BY <1>1 DEF UpdateEnds
<1>3. cursor' \in [SeatNames -> 0 .. MaxLog]
  <2>1. cursor[edit.seat] \in 0 .. MaxLog
    BY <1>1 DEF SeatInv, TypeOK
  <2>2. Larger(cursor[edit.seat], edit.cursor) \in 0 .. MaxLog /\ 0 \in 0 .. MaxLog
    <3>1. MaxLog \in Nat
      BY RosterBoundsAssumption
    <3> QED
      BY <1>1, <2>1, <3>1, LargerIn DEF Larger
  <2> QED
    BY <1>1, <2>2 DEF UpdateEnds, SeatInv, TypeOK
<1>4. TypeOK'
  BY <1>2, <1>3 DEF UpdateEnds, SeatInv, TypeOK
<1>5. SeatsHold' /\ Told'
  BY <1>2 DEF UpdateEnds, SeatInv, SeatsHold, Told, WornByMembers, AllSeated, OneSeat, OwnSeat,
              SameModels
<1>6. EditHolds'
  BY <1>2 DEF EditHolds, Idle
<1> QED
  BY <1>4, <1>5, <1>6 DEF SeatInv

\* Movers leave their seats for s, which all of them may share.
LEMMA MovesSeats ==
  ASSUME SeatInv, Idle, NEW s \in SeatNames, NEW movers \in SUBSET participants,
         SameModel(movers \union hats[s]), s \in Agents => movers = {s},
         MovesTo(movers, s)
  PROVE  SeatInv'
<1>1. hats' = [[r \in SeatNames |-> hats[r] \ movers] EXCEPT ![s] = @ \union movers]
  BY DEF MovesTo
<1>2. UNCHANGED <<participants, model, active, defused, session, edit, log>>
  BY DEF MovesTo, roster
<1>3. builtLone' = [r \in SeatNames |-> IF hats'[r] # hats[r]
                                       THEN LoneWith(r, hats', participants, active)
                                       ELSE builtLone[r]]
  BY DEF MovesTo
<1>4. cursor' = ForgetCursors(Vacated(hats, hats'), cursor)
  BY DEF MovesTo
<1>5. TypeOK'
  <2>1. hats' \in [SeatNames -> SUBSET Agents]
    BY <1>1 DEF SeatInv, TypeOK
  <2>2. builtLone' \in [SeatNames -> BOOLEAN]
    BY <1>3, LoneIsBoolean DEF SeatInv, TypeOK
  <2> QED
    BY <1>2, <1>4, <2>1, <2>2, ForgottenTyped DEF SeatInv, TypeOK
<1>6. /\ hats'[s] = hats[s] \union movers
      /\ \A r \in SeatNames \ {s} : hats'[r] = hats[r] \ movers
  BY <1>1
<1>7. WornByMembers' /\ AllSeated'
  BY <1>2, <1>6 DEF SeatInv, SeatsHold, WornByMembers, AllSeated
<1>8. OneSeat'
  BY <1>6 DEF SeatInv, SeatsHold, OneSeat
<1>9. OwnSeat'
  BY <1>6 DEF SeatInv, SeatsHold, OwnSeat, SeatNames
<1>10. SameModels'
  BY <1>2, <1>6 DEF SeatInv, SeatsHold, SameModels, SameModel
<1>11. Told'
  BY <1>2, <1>3 DEF SeatInv, Told, LoneWith
<1>12. EditHolds'
  BY <1>2 DEF EditHolds, Idle
<1> QED
  BY <1>5, <1>7, <1>8, <1>9, <1>10, <1>11, <1>12 DEF SeatInv, SeatsHold

LEMMA FuseSeats ==
  ASSUME Undivided, SeatInv, NEW movers \in SUBSET Agents, NEW s \in Shared, Fuse(movers, s)
  PROVE  SeatInv'
<1>1. s \in SeatNames /\ s \notin Agents
  BY NamesApart DEF SeatNames
<1>2. Idle /\ movers \subseteq participants
  BY DEF Fuse, Settled, Undivided
<1>3. SameModel(movers \union hats[s]) /\ MovesTo(movers, s)
  BY DEF Fuse
<1> QED
  BY <1>1, <1>2, <1>3, MovesSeats

LEMMA SoloSeats ==
  ASSUME Undivided, SeatInv, NEW a \in Agents, Solo(a) PROVE SeatInv'
<1>1. a \in SeatNames /\ Idle /\ a \in participants /\ a \notin hats[a]
  BY DEF Solo, SeatNames, Settled, Undivided
<1>2. hats[a] = {}
  BY <1>1 DEF SeatInv, SeatsHold, OwnSeat
<1>3. SameModel({a} \union hats[a])
  BY <1>2 DEF SameModel
<1>4. MovesTo({a}, a) /\ {a} \in SUBSET participants
  BY <1>1 DEF Solo
<1> QED
  BY <1>1, <1>3, <1>4, MovesSeats

LEMMA ReloadSeats == ASSUME SeatInv, Reload PROVE SeatInv'
<1> DEFINE wish == [a \in participants |-> Saved(a)]
<1>1. hats' = [s \in SeatNames |-> {a \in participants : wish[a] = s}]
  BY DEF Reload, Seated
<1>2. Idle /\ defused' = {} /\ UNCHANGED <<participants, model, active, session, edit, log>>
  BY DEF Reload
<1>3. builtLone' = Framed(hats', participants', active')
  BY <1>2 DEF Reload
<1>4. \A a \in participants :
        /\ wish[a] \in SeatNames /\ wish[a] \in {a, SeatOfHat(a)}
        /\ a \in Agents /\ SeatOfHat(a) \in SeatNames /\ a \in hats[SeatOfHat(a)]
  BY SeatOf DEF Saved, SeatNames
<1>5. TypeOK'
  <2>1. hats' \in [SeatNames -> SUBSET Agents]
    BY <1>1, <1>4
  <2>2. builtLone' \in [SeatNames -> BOOLEAN]
    BY <1>3, FramedFits
  <2>3. cursor' \in [SeatNames -> 0 .. MaxLog]
    <3>1. \A s \in SeatNames : hats'[s] # {} =>
            SeatOfHat(CHOOSE a \in hats'[s] : TRUE) \in SeatNames
      BY <1>1, <1>4
    <3> DEFINE shown(s) == IF hats'[s] # {} /\ Resumed(s, session)
                           THEN cursor[SeatOfHat(CHOOSE a \in hats'[s] : TRUE)] ELSE 0
    <3>2. \A s \in SeatNames : shown(s) \in 0 .. MaxLog
      BY <3>1, RosterBoundsAssumption DEF SeatInv, TypeOK
    <3>3. cursor' = [s \in SeatNames |-> shown(s)]
      BY DEF Reload
    <3> QED
      BY <3>2, <3>3
  <2> QED
    BY <1>2, <2>1, <2>2, <2>3 DEF SeatInv, TypeOK
<1>6. WornByMembers' /\ OneSeat' /\ AllSeated'
  BY <1>1, <1>2, <1>4 DEF WornByMembers, OneSeat, AllSeated
\* Whoever is put on an agent's seat sat on it, and it was that agent.
<1>7. OwnSeat'
  BY <1>1, <1>4 DEF SeatInv, SeatsHold, OwnSeat, SeatNames
<1>8. SameModels'
  <2> SUFFICES ASSUME NEW s \in SeatNames, NEW g \in hats'[s], NEW h \in hats'[s]
               PROVE  model'[g] = model'[h]
    BY DEF SameModels
  <2>1. g \in participants /\ h \in participants /\ wish[g] = s /\ wish[h] = s
    BY <1>1
  <2>2. CASE s \in Agents
    BY <2>2, <1>7 DEF OwnSeat
  <2>3. CASE s \notin Agents
    BY <2>1, <2>3, <1>2, <1>4 DEF SeatInv, SeatsHold, SameModels
  <2> QED
    BY <2>2, <2>3
<1>9. Told' /\ EditHolds'
  BY <1>2, <1>3, FramedFits DEF Told, EditHolds, Idle
<1> QED
  BY <1>5, <1>6, <1>7, <1>8, <1>9 DEF SeatInv, SeatsHold

LEMMA LoadSeats ==
  ASSUME SeatInv, NEW wish \in Wishes, NEW declared \in [Agents -> Models],
         LoadPreset(Agents, wish, declared)
  PROVE  SeatInv'
<1> DEFINE given == Mixed(Agents, wish, declared)
           put == [a \in Agents |-> IF wish[a] \in given THEN a ELSE wish[a]]
<1>1. hats' = [s \in SeatNames |-> {a \in Agents : put[a] = s}] /\ defused' = given
  BY DEF LoadPreset, Seated
<1>2. Idle /\ participants' = Agents /\ model' = declared /\ log' = 0 /\ edit' = edit
  BY DEF LoadPreset
<1>3. active' = [a \in Agents |-> TRUE] /\ builtLone' = Framed(hats', participants', active')
  BY <1>2 DEF LoadPreset
<1>4. \A a \in Agents : /\ put[a] \in SeatNames
                        /\ put[a] = a \/ (put[a] = wish[a] /\ put[a] \in Shared)
  <2>1. \A a \in Agents : wish[a] \in Shared \union {a}
    BY DEF Wishes
  <2> HIDE DEF given
  <2>2. \A a \in Agents : put[a] = a \/ (put[a] = wish[a] /\ wish[a] \in Shared)
    BY <2>1
  <2> QED
    BY <2>2 DEF SeatNames
<1>5. given \subseteq Shared
  BY DEF Mixed
<1>6. TypeOK'
  <2>1. hats' \in [SeatNames -> SUBSET Agents]
    BY <1>1
  <2>2. builtLone' \in [SeatNames -> BOOLEAN]
    BY <1>3, FramedFits
  <2>3. cursor' \in [SeatNames -> 0 .. MaxLog] /\ session' \in [SeatNames -> 0 .. MaxLog]
    BY RosterBoundsAssumption DEF LoadPreset
  <2>4. active' \in [Agents -> BOOLEAN] /\ log' \in 0 .. MaxLog
    BY <1>2, <1>3, RosterBoundsAssumption
  <2> QED
    BY <1>1, <1>2, <1>5, <2>1, <2>2, <2>3, <2>4 DEF TypeOK
<1>7. WornByMembers' /\ OneSeat'
  BY <1>1, <1>2 DEF WornByMembers, OneSeat
<1>8. AllSeated'
  BY <1>1, <1>2, <1>4 DEF AllSeated
<1>9. OwnSeat'
  BY <1>1, <1>4, NamesApart DEF OwnSeat, SeatNames
<1>10. SameModels'
  <2> SUFFICES ASSUME NEW s \in SeatNames, NEW g \in hats'[s], NEW h \in hats'[s]
               PROVE  model'[g] = model'[h]
    BY DEF SameModels
  <2>1. g \in Agents /\ h \in Agents /\ put[g] = s /\ put[h] = s
    BY <1>1
  <2>2. CASE s \in Agents
    BY <2>2, <1>9 DEF OwnSeat
  <2>3. CASE s \notin Agents
    <3>1. s \in Shared /\ wish[g] = s /\ wish[h] = s
      BY <2>1, <2>3, <1>4
    <3>2. s \notin given
      BY <3>1, <2>1, <2>3
    <3> QED
      BY <3>1, <3>2, <2>1, <1>2 DEF Mixed
  <2> QED
    BY <2>2, <2>3
<1>11. Told' /\ EditHolds'
  BY <1>2, <1>3, FramedFits DEF Told, EditHolds, Idle
<1> QED
  BY <1>6, <1>7, <1>8, <1>9, <1>10, <1>11 DEF SeatInv, SeatsHold

LEMMA RollBackSeats == ASSUME SeatInv, NEW keep \in 0 .. MaxLog, RollBack(keep) PROVE SeatInv'
<1>1. UNCHANGED <<roster, hats, builtLone, edit>> /\ Idle /\ log' = keep
  BY DEF RollBack
<1>2. cursor' \in [SeatNames -> 0 .. MaxLog]
  BY ForgottenTyped DEF RollBack
<1>3. session' \in [SeatNames -> 0 .. MaxLog]
  BY RosterBoundsAssumption DEF RollBack, SeatInv, TypeOK
<1>4. TypeOK'
  BY <1>1, <1>2, <1>3 DEF SeatInv, TypeOK, roster
<1>5. SeatsHold' /\ Told' /\ EditHolds'
  BY <1>1 DEF SeatInv, roster, SeatsHold, Told, EditHolds, Idle, WornByMembers, AllSeated,
              OneSeat, OwnSeat, SameModels
<1> QED
  BY <1>4, <1>5 DEF SeatInv

LEMMA StillSeats == ASSUME SeatInv, UNCHANGED vars PROVE SeatInv'
BY DEF SeatInv, vars, roster, seats, counts, TypeOK, SeatsHold, Told, EditHolds, Idle,
       WornByMembers, AllSeated, OneSeat, OwnSeat, SameModels

LEMMA StepSeats == Undivided /\ SeatInv /\ [Next]_vars => SeatInv'
<1> SUFFICES ASSUME Undivided, SeatInv, [Next]_vars PROVE SeatInv'
  OBVIOUS
<1>1. CASE UpdateEnds
  BY <1>1, UpdateEndsSeats
<1>2. CASE Reload
  BY <1>2, ReloadSeats
<1>3. ASSUME NEW a \in Agents,
             \/ Speak(a) \/ Kick(a) \/ Solo(a)
             \/ \E on \in BOOLEAN : SetActive(a, on)
             \/ \E m \in Models : Update(a, m)
             \/ \E m \in Models, wish \in Shared \union {a} : Create(a, m, wish)
      PROVE  SeatInv'
  BY <1>3, SpeakSeats, KickSeats, SoloSeats, SetActiveSeats, UpdateSeats, CreateSeats
<1>4. ASSUME NEW movers \in SUBSET Agents, NEW s \in Shared, Fuse(movers, s) PROVE SeatInv'
  BY <1>4, FuseSeats
<1>5. ASSUME NEW wish \in Wishes, NEW declared \in [Agents -> Models],
             LoadPreset(Agents, wish, declared)
      PROVE  SeatInv'
  BY <1>5, LoadSeats
<1>6. ASSUME NEW keep \in 0 .. MaxLog, RollBack(keep) PROVE SeatInv'
  BY <1>6, RollBackSeats
<1>7. CASE UNCHANGED vars
  BY <1>7, StillSeats
<1> QED
  BY <1>1, <1>2, <1>3, <1>4, <1>5, <1>6, <1>7 DEF Next

\* One model on a seat: the models of its hats are none, or the one of any.
LEMMA OneModelEach == SeatInv => OneModel
<1> SUFFICES ASSUME SeatInv, NEW s \in SeatNames
             PROVE  Cardinality({model[a] : a \in hats[s]}) <= 1
  BY DEF OneModel
<1>1. CASE hats[s] = {}
  <2>1. {model[a] : a \in hats[s]} = {}
    BY <1>1
  <2> QED
    BY <2>1, FS_EmptySet
<1>2. CASE hats[s] # {}
  <2>1. PICK h \in hats[s] : TRUE
    BY <1>2
  <2>2. {model[a] : a \in hats[s]} = {model[h]}
    BY <2>1 DEF SeatInv, SeatsHold, SameModels
  <2>3. Cardinality({model[h]}) = 1
    BY FS_Singleton, Zenon
  <2> QED
    BY <2>2, <2>3
<1> QED
  BY <1>1, <1>2

LEMMA SeatInvFits == SeatInv => SeatsFit
<1> SUFFICES ASSUME SeatInv PROVE SeatsFit
  OBVIOUS
<1>1. UNION {hats[s] : s \in SeatNames} = participants
  BY DEF SeatInv, SeatsHold, WornByMembers, AllSeated
<1>2. \A s, r \in SeatNames : s # r => hats[s] \intersect hats[r] = {}
  BY DEF SeatInv, SeatsHold, TypeOK, OneSeat
<1>3. FramingFits
  BY DEF SeatInv, Told, FramingFits
<1> QED
  BY <1>1, <1>2, <1>3, OneModelEach DEF SeatsFit, OneSeatEach

\* Whatever way agents come, change, move and go, and however the conversation
\* is cut, loaded and replaced, each has one seat, the hats of a seat are of one
\* model, and no session was built for a company it does not have.  Changes wait
\* for one another: where the roster may change while an edit rebuilds a session
\* the property fails.
THEOREM RosterSeatsFit == ASSUME Undivided PROVE Spec => []SeatsFit
<1>1. Init => SeatInv
  BY InitSeats
<1>2. SeatInv /\ [Next]_vars => SeatInv'
  BY StepSeats
<1>3. SeatInv => SeatsFit
  BY SeatInvFits
<1> QED
  BY <1>1, <1>2, <1>3, PTL DEF Spec

(* ---- what a session was shown ------------------------------------------------- *)

\* Only agents without a session of their own are fused.
FreshFuse == ~LivedFuse

\* No cursor is beyond the transcript; no seat that somebody wears was shown
\* less than its cursor says; a name without a seat has neither cursor nor, an
\* agent's, a session.
CursorSees == \A s \in SeatNames :
  /\ cursor[s] <= log
  /\ hats[s] = {} => cursor[s] = 0
  /\ hats[s] # {} => cursor[s] <= session[s]

OwnGone == \A a \in Agents : hats[a] = {} => session[a] = 0

\* The cursor that an edit puts back is one its session answers for.
EditSees == ~Idle =>
  edit.cursor <= log /\ (session[edit.seat] > 0 => edit.cursor <= session[edit.seat])

SightInv == CursorSees /\ OwnGone /\ EditSees

LEMMA CountsTyped ==
  ASSUME SeatInv
  PROVE  /\ log \in Nat /\ MaxLog \in Nat
         /\ \A s \in SeatNames : cursor[s] \in Nat /\ session[s] \in Nat
BY RosterBoundsAssumption DEF SeatInv, TypeOK

LEMMA LargerIsOne == ASSUME NEW i, NEW j PROVE Larger(i, j) \in {i, j}
BY DEF Larger

LEMMA AgentsHaveNames == ASSUME NEW a \in Agents PROVE a \in SeatNames
BY DEF SeatNames

LEMMA InitSight == Init => SightInv
BY AgentsHaveNames DEF Init, SightInv, CursorSees, OwnGone, EditSees, Idle

LEMMA SpeakSight == ASSUME SeatInv, SightInv, NEW a \in Agents, Speak(a) PROVE SightInv'
<1> DEFINE own == SeatOfHat(a)
<1>1. own \in SeatNames /\ a \in hats[own]
  BY SeatOf DEF Speak
<1>2. log \in Nat /\ log' = log + 1
  BY CountsTyped DEF Speak
<1>3. UNCHANGED <<hats, edit>>
  BY DEF Speak
<1>4. \A s \in SeatNames : /\ cursor'[s] = IF s = own THEN log + 1 ELSE cursor[s]
                           /\ session'[s] = IF s = own THEN log + 1 ELSE session[s]
  BY <1>1 DEF Speak, SeatInv, TypeOK
<1> HIDE DEF own
<1>5. CursorSees'
  <2> SUFFICES ASSUME NEW s \in SeatNames
               PROVE  /\ cursor'[s] <= log'
                      /\ hats'[s] = {} => cursor'[s] = 0
                      /\ hats'[s] # {} => cursor'[s] <= session'[s]
    BY DEF CursorSees
  <2> QED
    BY <1>1, <1>2, <1>3, <1>4, CountsTyped DEF SightInv, CursorSees
<1>6. OwnGone'
  BY <1>1, <1>3, <1>4, AgentsHaveNames DEF SightInv, OwnGone
<1>7. EditSees'
  <2> SUFFICES ASSUME ~Idle
               PROVE  /\ edit.cursor <= log'
                      /\ session'[edit.seat] > 0 => edit.cursor <= session'[edit.seat]
    BY <1>3 DEF EditSees, Idle
  <2>1. edit.seat \in SeatNames /\ edit.cursor \in Nat
    BY CountsTyped DEF SeatInv, EditHolds
  <2> QED
    BY <2>1, <1>2, <1>4, CountsTyped DEF SightInv, EditSees
<1> QED
  BY <1>5, <1>6, <1>7 DEF SightInv

LEMMA CreateSight ==
  ASSUME Undivided, SeatInv, SightInv, NEW a \in Agents, NEW m \in Models,
         NEW wish \in Shared \union {a}, Create(a, m, wish)
  PROVE  SightInv'
<1> DEFINE s == Joins(a, m, wish)
<1>1. s \in SeatNames
  BY DEF Joins, SeatNames
<1>2. /\ hats' = [hats EXCEPT ![s] = @ \union {a}]
      /\ cursor' = [cursor EXCEPT ![s] = CursorAtJoin(s, 0)]
  BY DEF Create
<1>3. Idle /\ UNCHANGED <<session, edit, log>>
  BY DEF Create, Settled, Undivided
<1>4. CursorAtJoin(s, 0) \in {cursor[s], 0} /\ (session[s] = 0 => CursorAtJoin(s, 0) = 0)
  BY LargerIsOne DEF CursorAtJoin, Resumed
<1> HIDE DEF s
<1>5. \A r \in SeatNames : /\ hats'[r] = IF r = s THEN hats[r] \union {a} ELSE hats[r]
                           /\ cursor'[r] = IF r = s THEN CursorAtJoin(r, 0) ELSE cursor[r]
  BY <1>1, <1>2 DEF SeatInv, TypeOK
<1>6. CursorSees'
  <2> SUFFICES ASSUME NEW r \in SeatNames
               PROVE  /\ cursor'[r] <= log'
                      /\ hats'[r] = {} => cursor'[r] = 0
                      /\ hats'[r] # {} => cursor'[r] <= session'[r]
    BY DEF CursorSees
  <2>1. CASE r = s
    <3>1. cursor'[r] \in {cursor[r], 0} /\ (session[r] = 0 => cursor'[r] = 0)
      BY <2>1, <1>4, <1>5
    <3>2. hats'[r] # {}
      BY <2>1, <1>5
    <3> QED
      BY <3>1, <3>2, <1>3, CountsTyped DEF SightInv, CursorSees
  <2>2. CASE r # s
    BY <2>2, <1>3, <1>5 DEF SightInv, CursorSees
  <2> QED
    BY <2>1, <2>2
<1>7. OwnGone' /\ EditSees'
  BY <1>3, <1>5, AgentsHaveNames DEF SightInv, OwnGone, EditSees, Idle
<1> QED
  BY <1>6, <1>7 DEF SightInv

\* A seat that loses its last hat loses its cursor, the others keep theirs.
LEMMA Forgets ==
  ASSUME SeatInv, hats' \in [SeatNames -> SUBSET Agents],
         cursor' = ForgetCursors(Vacated(hats, hats'), cursor)
  PROVE  \A s \in SeatNames :
           cursor'[s] = IF hats[s] # {} /\ hats'[s] = {} THEN 0 ELSE cursor[s]
BY DEF ForgetCursors, Vacated

LEMMA KickSight ==
  ASSUME Undivided, SeatInv, SightInv, NEW a \in Agents, Kick(a) PROVE SightInv'
<1>1. hats' = [s \in SeatNames |-> hats[s] \ {a}]
  BY DEF Kick, Leaves
<1>2. Idle /\ UNCHANGED <<edit, log>>
  BY DEF Kick, Settled, Undivided
<1>3. hats' \in [SeatNames -> SUBSET Agents]
  BY <1>1 DEF SeatInv, TypeOK
<1>4. \A s \in SeatNames :
        /\ cursor'[s] = IF hats[s] # {} /\ hats'[s] = {} THEN 0 ELSE cursor[s]
        /\ session'[s] = IF hats[s] # {} /\ hats'[s] = {} THEN 0 ELSE session[s]
  BY <1>3, Forgets DEF Kick, DeletesDir, Vacated
<1>5. CursorSees'
  <2> SUFFICES ASSUME NEW r \in SeatNames
               PROVE  /\ cursor'[r] <= log'
                      /\ hats'[r] = {} => cursor'[r] = 0
                      /\ hats'[r] # {} => cursor'[r] <= session'[r]
    BY DEF CursorSees
  <2> QED
    BY <1>1, <1>2, <1>4, CountsTyped DEF SightInv, CursorSees
<1>6. OwnGone' /\ EditSees'
  BY <1>2, <1>4, AgentsHaveNames DEF SightInv, OwnGone, EditSees, Idle
<1> QED
  BY <1>5, <1>6 DEF SightInv

LEMMA MovesSight ==
  ASSUME SeatInv, SightInv, Idle, NEW s \in SeatNames, NEW movers \in SUBSET participants,
         \A a \in movers : a = s \/ session[a] = 0 \/ hats[a] = {},
         movers # {}, MovesTo(movers, s)
  PROVE  SightInv'
<1>1. hats' = [[r \in SeatNames |-> hats[r] \ movers] EXCEPT ![s] = @ \union movers]
  BY DEF MovesTo
<1>2. UNCHANGED <<session, edit, log>> /\ cursor' = ForgetCursors(Vacated(hats, hats'), cursor)
  BY DEF MovesTo
<1>3. hats' \in [SeatNames -> SUBSET Agents]
  BY <1>1 DEF SeatInv, TypeOK
<1>4. \A r \in SeatNames : cursor'[r] = IF hats[r] # {} /\ hats'[r] = {} THEN 0 ELSE cursor[r]
  BY <1>2, <1>3, Forgets
<1>5. CursorSees'
  <2> SUFFICES ASSUME NEW r \in SeatNames
               PROVE  /\ cursor'[r] <= log'
                      /\ hats'[r] = {} => cursor'[r] = 0
                      /\ hats'[r] # {} => cursor'[r] <= session'[r]
    BY DEF CursorSees
  <2> QED
    BY <1>2, <1>4, CountsTyped DEF SightInv, CursorSees
<1>6. OwnGone'
  <2> SUFFICES ASSUME NEW a \in Agents, hats'[a] = {} PROVE session[a] = 0
    BY <1>2 DEF OwnGone
  <2>1. CASE hats[a] = {}
    BY <2>1 DEF SightInv, OwnGone
  <2>2. CASE hats[a] # {}
    <3>1. a \in hats[a]
      BY <2>2 DEF SeatInv, SeatsHold, OwnSeat
    <3>2. a \in movers /\ a # s
      BY <3>1, <1>1, AgentsHaveNames
    <3> QED
      BY <3>2, <2>2
  <2> QED
    BY <2>1, <2>2
<1> QED
  BY <1>2, <1>5, <1>6 DEF SightInv, EditSees, Idle

LEMMA FuseSight ==
  ASSUME Undivided, FreshFuse, SeatInv, SightInv, NEW movers \in SUBSET Agents, NEW s \in Shared,
         Fuse(movers, s)
  PROVE  SightInv'
<1>1. s \in SeatNames /\ Idle /\ movers # {} /\ movers \in SUBSET participants
  BY DEF SeatNames, Fuse, Settled, Undivided
<1>2. (\A a \in movers : session[a] = 0) /\ MovesTo(movers, s)
  BY DEF Fuse, FreshFuse
<1> QED
  BY <1>1, <1>2, MovesSight

LEMMA SoloSight ==
  ASSUME Undivided, SeatInv, SightInv, NEW a \in Agents, Solo(a) PROVE SightInv'
<1>1. a \in SeatNames /\ Idle /\ {a} \in SUBSET participants /\ MovesTo({a}, a)
  BY DEF SeatNames, Solo, Settled, Undivided
<1> QED
  BY <1>1, MovesSight

LEMMA UpdateSight ==
  ASSUME Undivided, SeatInv, SightInv, NEW a \in Agents, NEW m \in Models, Update(a, m)
  PROVE  SightInv'
<1> DEFINE own == SeatOfHat(a)
           off == Detaches(a, m)
<1>1. /\ own \in SeatNames /\ a \in hats[own] /\ a \in SeatNames
      /\ \A s \in SeatNames : a \in hats[s] => s = own
  BY SeatOf DEF Update, SeatNames
<1>2. UNCHANGED <<cursor, session, log>>
  BY DEF Update
<1>3. edit'.cursor = cursor[own] /\ edit'.seat = IF off THEN a ELSE own
  BY DEF Update
<1>4. off => hats[a] = {} /\ \E h \in hats[own] : h # a
  BY <1>1 DEF Detaches, SeatInv, SeatsHold, OwnSeat
<1>5. \A s \in SeatNames : hats'[s] = {} <=> IF off /\ s = a THEN FALSE ELSE hats[s] = {}
  <2>1. CASE off
    <3>1. hats' = [[s \in SeatNames |-> hats[s] \ {a}] EXCEPT ![a] = {a}]
      BY <2>1 DEF Update, Leaves
    <3>2. \A s \in SeatNames \ {a} : hats'[s] = hats[s] \ {a}
      BY <3>1
    <3>3. a \in hats'[a]
      BY <3>1, <1>1
    <3> SUFFICES ASSUME NEW s \in SeatNames, s # a PROVE hats'[s] = {} <=> hats[s] = {}
      BY <2>1, <3>3
    <3>4. CASE s = own
      BY <3>2, <3>4, <2>1, <1>1, <1>4
    <3>5. CASE s # own
      BY <3>2, <3>5, <1>1
    <3> QED
      BY <3>4, <3>5
  <2>2. CASE ~off
    BY <2>2 DEF Update
  <2> QED
    BY <2>1, <2>2
<1> HIDE DEF off, own
<1>6. CursorSees'
  <2> SUFFICES ASSUME NEW r \in SeatNames
               PROVE  /\ cursor'[r] <= log'
                      /\ hats'[r] = {} => cursor'[r] = 0
                      /\ hats'[r] # {} => cursor'[r] <= session'[r]
    BY DEF CursorSees
  <2> QED
    BY <1>2, <1>4, <1>5, CountsTyped DEF SightInv, CursorSees
<1>7. OwnGone'
  BY <1>2, <1>5, AgentsHaveNames DEF SightInv, OwnGone
<1>8. EditSees'
  <2>1. cursor[own] <= log /\ cursor[own] <= session[own]
    BY <1>1 DEF SightInv, CursorSees
  <2>2. off => session[a] = 0
    BY <1>4 DEF SightInv, OwnGone
  <2> QED
    BY <2>1, <2>2, <1>2, <1>3 DEF EditSees
<1> QED
  BY <1>6, <1>7, <1>8 DEF SightInv

LEMMA UpdateEndsSight == ASSUME SeatInv, SightInv, UpdateEnds PROVE SightInv'
<1>1. edit.seat \in SeatNames /\ edit.cursor \in Nat /\ hats[edit.seat] # {}
  BY CountsTyped DEF UpdateEnds, SeatInv, EditHolds
<1>2. UNCHANGED <<hats, session, log>> /\ edit' = NoEdit
  BY DEF UpdateEnds
<1>3. \A s \in SeatNames \ {edit.seat} : cursor'[s] = cursor[s]
  BY DEF UpdateEnds, SeatInv, TypeOK
<1>4. /\ cursor'[edit.seat] \in {cursor[edit.seat], edit.cursor, 0}
      /\ session[edit.seat] = 0 => cursor'[edit.seat] = 0
  BY <1>1, LargerIsOne DEF UpdateEnds, SeatInv, TypeOK, Resumed
<1>5. edit.cursor <= log /\ (session[edit.seat] > 0 => edit.cursor <= session[edit.seat])
  BY DEF SightInv, EditSees, UpdateEnds
<1>6. CursorSees'
  <2> SUFFICES ASSUME NEW r \in SeatNames
               PROVE  /\ cursor'[r] <= log'
                      /\ hats'[r] = {} => cursor'[r] = 0
                      /\ hats'[r] # {} => cursor'[r] <= session'[r]
    BY DEF CursorSees
  <2>1. CASE r = edit.seat
    BY <2>1, <1>1, <1>2, <1>4, <1>5, CountsTyped DEF SightInv, CursorSees
  <2>2. CASE r # edit.seat
    BY <2>2, <1>2, <1>3 DEF SightInv, CursorSees
  <2> QED
    BY <2>1, <2>2
<1> QED
  BY <1>2, <1>6 DEF SightInv, OwnGone, EditSees, Idle

LEMMA ReloadSight == ASSUME SeatInv, SightInv, Reload PROVE SightInv'
<1>1. hats' = [s \in SeatNames |-> {a \in participants : Saved(a) = s}]
  BY DEF Reload, Seated
<1>2. Idle /\ UNCHANGED <<session, edit, log>>
  BY DEF Reload
<1> DEFINE first(s) == CHOOSE a \in hats'[s] : TRUE
<1>3. \A s \in SeatNames : cursor'[s] = IF hats'[s] # {} /\ session[s] > 0
                                       THEN cursor[SeatOfHat(first(s))] ELSE 0
  BY DEF Reload, Resumed
<1>4. \A s \in SeatNames : hats'[s] # {} => first(s) \in participants /\ Saved(first(s)) = s
  BY <1>1
<1> HIDE DEF first
<1>5. CursorSees'
  <2> SUFFICES ASSUME NEW s \in SeatNames, hats'[s] # {}, session[s] > 0
               PROVE  cursor'[s] <= log /\ cursor'[s] <= session[s]
    BY <1>2, <1>3, CountsTyped DEF CursorSees
  <2> DEFINE a == first(s)
  <2>1. a \in participants /\ a \in Agents /\ s \in {a, SeatOfHat(a)} /\ SeatOfHat(a) \in SeatNames
    BY <1>4, SeatOf DEF Saved
  <2> HIDE DEF a
  <2>2. SeatOfHat(a) = s
    <3>1. CASE s = a
      <4>1. hats[a] # {}
        BY <3>1, <2>1 DEF SightInv, OwnGone
      <4> QED
        BY <3>1, <4>1, <2>1, SeatOf DEF SeatInv, SeatsHold, OwnSeat
    <3> QED
      BY <3>1, <2>1
  <2>3. hats[s] # {}
    BY <2>1, <2>2, SeatOf
  <2> QED
    BY <1>3, <2>2, <2>3 DEF a, SightInv, CursorSees
\* An agent on a seat of its own is saved without one, and gets it back.
<1>6. OwnGone'
  <2> SUFFICES ASSUME NEW a \in Agents, hats'[a] = {} PROVE session[a] = 0
    BY <1>2 DEF OwnGone
  <2>1. ASSUME hats[a] # {} PROVE FALSE
    <3>1. a \in hats[a] /\ a \in SeatNames
      BY <2>1, AgentsHaveNames DEF SeatInv, SeatsHold, OwnSeat
    <3>2. a \in participants
      BY <3>1 DEF SeatInv, SeatsHold, WornByMembers
    <3>3. Saved(a) = a
      BY <3>1, <3>2, SeatOf DEF Saved
    <3> QED
      BY <3>1, <3>2, <3>3, <1>1
  <2> QED
    BY <2>1 DEF SightInv, OwnGone
<1> QED
  BY <1>2, <1>5, <1>6 DEF SightInv, EditSees, Idle

LEMMA LoadSight ==
  ASSUME SeatInv, SightInv, NEW wish, NEW declared, LoadPreset(Agents, wish, declared)
  PROVE  SightInv'
<1>1. \A s \in SeatNames : cursor'[s] = 0 /\ session'[s] = 0
  BY DEF LoadPreset
<1>2. Idle /\ log' = 0 /\ edit' = edit
  BY DEF LoadPreset
<1> QED
  BY <1>1, <1>2, AgentsHaveNames DEF SightInv, CursorSees, OwnGone, EditSees, Idle

LEMMA RollBackSight ==
  ASSUME SeatInv, SightInv, NEW keep \in 0 .. MaxLog, RollBack(keep) PROVE SightInv'
<1> DEFINE wiped == {s \in SeatNames : hats[s] # {} /\ cursor[s] > keep}
<1>1. Idle /\ log' = keep /\ UNCHANGED <<hats, edit>>
  BY DEF RollBack
<1>2. \A s \in SeatNames : /\ cursor'[s] = IF s \in wiped THEN 0 ELSE cursor[s]
                           /\ session'[s] = IF s \in wiped THEN 0 ELSE session[s]
  BY DEF RollBack, ForgetCursors
<1>3. CursorSees'
  <2> SUFFICES ASSUME NEW r \in SeatNames
               PROVE  /\ cursor'[r] <= log'
                      /\ hats'[r] = {} => cursor'[r] = 0
                      /\ hats'[r] # {} => cursor'[r] <= session'[r]
    BY DEF CursorSees
  <2>1. keep \in Nat /\ cursor[r] \in Nat
    BY CountsTyped
  <2> QED
    BY <2>1, <1>1, <1>2 DEF SightInv, CursorSees
<1>4. OwnGone'
  BY <1>1, <1>2, AgentsHaveNames DEF SightInv, OwnGone
<1> QED
  BY <1>1, <1>3, <1>4 DEF SightInv, EditSees, Idle

LEMMA StepSight ==
  Undivided /\ FreshFuse /\ SeatInv /\ SightInv /\ [Next]_vars => SightInv'
<1> SUFFICES ASSUME Undivided, FreshFuse, SeatInv, SightInv, [Next]_vars PROVE SightInv'
  OBVIOUS
<1>1. CASE UpdateEnds
  BY <1>1, UpdateEndsSight
<1>2. CASE Reload
  BY <1>2, ReloadSight
<1>3. ASSUME NEW a \in Agents,
             \/ Speak(a) \/ Kick(a) \/ Solo(a)
             \/ \E m \in Models : Update(a, m)
             \/ \E m \in Models, wish \in Shared \union {a} : Create(a, m, wish)
      PROVE  SightInv'
  BY <1>3, SpeakSight, KickSight, SoloSight, UpdateSight, CreateSight
<1>4. ASSUME NEW a \in Agents, NEW on \in BOOLEAN, SetActive(a, on) PROVE SightInv'
  BY <1>4 DEF SetActive, SightInv, CursorSees, OwnGone, EditSees, Idle
<1>5. ASSUME NEW movers \in SUBSET Agents, NEW s \in Shared, Fuse(movers, s) PROVE SightInv'
  BY <1>5, FuseSight
<1>6. ASSUME NEW wish \in Wishes, NEW declared \in [Agents -> Models],
             LoadPreset(Agents, wish, declared)
      PROVE  SightInv'
  BY <1>6, LoadSight
<1>7. ASSUME NEW keep \in 0 .. MaxLog, RollBack(keep) PROVE SightInv'
  BY <1>7, RollBackSight
<1>8. CASE UNCHANGED vars
  BY <1>8 DEF vars, seats, SightInv, CursorSees, OwnGone, EditSees, Idle
<1> QED
  BY <1>1, <1>2, <1>3, <1>4, <1>5, <1>6, <1>7, <1>8 DEF Next

\* No seat has a blind spot: whatever joins, leaves, edits, reloads and rollbacks
\* did to it, its session holds all that its cursor says it was shown.  (Fusing
\* an agent that has a session, and changes during an edit, are left out: the
\* property fails there.)
THEOREM RosterSees == ASSUME Undivided, FreshFuse PROVE Spec => []Sees
<1>1. Init => SeatInv /\ SightInv
  BY InitSeats, InitSight
<1>2. SeatInv /\ SightInv /\ [Next]_vars => SeatInv' /\ SightInv'
  BY StepSeats, StepSight
<1>3. SightInv => Sees
  BY DEF SightInv, CursorSees, Sees
<1> QED
  BY <1>1, <1>2, <1>3, PTL DEF Spec

\* An agent that comes to a room sits, alone, on a seat without a past: of an
\* agent kicked before under the same name nothing is left.
THEOREM RosterWakesFresh == ASSUME Undivided, FreshFuse PROVE Spec => WakesFresh
<1> DEFINE Fresh == \A a \in Agents \ participants :
                      (hats'[a] = {a} /\ loads' = loads) => session'[a] = 0
<1>1. Init => SeatInv /\ SightInv
  BY InitSeats, InitSight
<1>2. SeatInv /\ SightInv /\ [Next]_vars => SeatInv' /\ SightInv'
  BY StepSeats, StepSight
<1>3. SeatInv /\ SightInv /\ [Next]_vars => [Fresh]_vars
  <2> SUFFICES ASSUME SeatInv, SightInv, Next, NEW a \in Agents \ participants,
                      hats'[a] = {a}, loads' = loads
               PROVE  session'[a] = 0
    OBVIOUS
  <2>1. a \in SeatNames /\ hats[a] = {} /\ session[a] = 0
    BY AgentsHaveNames DEF SeatInv, SeatsHold, WornByMembers, OwnSeat, SightInv, OwnGone
  <2>2. CASE UpdateEnds \/ Reload
    BY <2>1, <2>2 DEF UpdateEnds, Reload
  <2>3. ASSUME NEW b \in Agents, Speak(b) PROVE session'[a] = 0
    BY <2>1, <2>3, SeatOf DEF Speak, SeatInv, TypeOK
  <2>4. ASSUME NEW b \in Agents, Kick(b) PROVE session'[a] = 0
    BY <2>1, <2>4 DEF Kick, DeletesDir
  <2>5. ASSUME NEW b \in Agents,
               \/ Solo(b) \/ \E on \in BOOLEAN : SetActive(b, on)
               \/ \E m \in Models : Update(b, m)
               \/ \E m \in Models, wish \in Shared \union {b} : Create(b, m, wish)
        PROVE  session'[a] = 0
    BY <2>1, <2>5 DEF Solo, MovesTo, SetActive, Update, Create
  <2>6. ASSUME NEW movers \in SUBSET Agents, NEW s \in Shared, Fuse(movers, s)
        PROVE  session'[a] = 0
    BY <2>1, <2>6 DEF Fuse, MovesTo
  <2>7. ASSUME NEW wish, NEW declared, LoadPreset(Agents, wish, declared) PROVE session'[a] = 0
    BY <2>1, <2>7 DEF LoadPreset
  <2>8. ASSUME NEW keep \in 0 .. MaxLog, RollBack(keep) PROVE session'[a] = 0
    BY <2>1, <2>8 DEF RollBack
  <2> QED
    BY <2>2, <2>3, <2>4, <2>5, <2>6, <2>7, <2>8 DEF Next
<1> QED
  BY <1>1, <1>2, <1>3, PTL DEF Spec, WakesFresh

(* ---- forms: the rows and the focus ---------------------------------------------- *)

FormFields == {"kind", "loaded", "focus", "chip", "text", "tools", "own", "colours", "colour",
               "presets", "preset", "models", "model", "busy", "error", "picking", "touched"}

\* A form keeps its fields; a room's choices are among what it has been told there is.
IsForm(f) ==
  /\ DOMAIN f = FormFields /\ DOMAIN f.text = Texts
  /\ f.kind \in {"agent", "edit", "room"}
  /\ f.presets \in {<<>>, SavedPresets} /\ f.preset \in 0 .. Len(f.presets) + 1
  /\ f.models \in {<<>>, KnownModels} /\ f.model \in 0 .. Len(f.models)

\* The least of a set of numbers.
LEMMA LeastNumber ==
  ASSUME NEW T, T \subseteq Nat, T # {}
  PROVE  \E x \in T : \A y \in T : x <= y
<1>. DEFINE R == OpToRel(<, Nat)
<1>1. IsWellFoundedOn(R, Nat)
  BY NatLessThanWellFounded
<1>2. \A x, y \in Nat : <<y, x>> \in R <=> y < x
  BY DEF OpToRel
<1>. HIDE DEF R
<1>3. PICK x \in T : \A y \in T : ~(<<y, x>> \in R)
  BY <1>1, WFMin
<1>4. ASSUME NEW y \in T
      PROVE  x <= y
  <2>1. x \in Nat /\ y \in Nat
    OBVIOUS
  <2>2. ~(y < x)
    BY <2>1, <1>2, <1>3, Zenon
  <2>. QED  BY <2>1, <2>2
<1>. QED  BY <1>4

LEMMA LeastOf ==
  ASSUME NEW S \in SUBSET Nat, S # {}
  PROVE  Min(S) \in S
<1>1. \E x \in S : \A y \in S : x <= y
  BY LeastNumber
<1>. QED  BY <1>1 DEF Min

LEMMA GreatestOf ==
  ASSUME NEW n \in Nat, NEW S \in SUBSET (1 .. n), S # {}
  PROVE  Max(S) \in S
<1>. DEFINE T == {n - y : y \in S}
<1>1. \A y \in S : y \in Int /\ n - y \in Nat /\ n - y \in T
  OBVIOUS
<1>2. T \subseteq Nat /\ T # {}
  BY <1>1
<1>3. PICK t \in T : \A x \in T : t <= x
  <2>. HIDE DEF T
  <2>. QED  BY <1>2, LeastNumber
<1>4. PICK z \in S : t = n - z
  OBVIOUS
<1>. HIDE DEF T
<1>5. \A y \in S : z >= y
  <2>. SUFFICES ASSUME NEW y \in S
       PROVE  z >= y
    OBVIOUS
  <2>1. n - z <= n - y /\ y \in Int /\ z \in Int /\ n \in Int
    BY <1>1, <1>3, <1>4
  <2>. QED  BY ONLY <2>1
<1>. QED  BY <1>5 DEF Max

\* The focus is on a row that is no note, if there is one.
LEMMA CurrentRow ==
  ASSUME NEW rows, NEW n \in Nat, DOMAIN rows = 1 .. n, NEW focus
  PROVE  Focusable(rows) # {} => Current(rows, focus) \in Focusable(rows)
<1>. DEFINE ok == Focusable(rows)
            next == {i \in ok : i >= focus}
<1>1. ok \in SUBSET (1 .. n) /\ next \subseteq ok /\ ok \in SUBSET Nat /\ next \in SUBSET Nat
  BY DEF Focusable
<1>2. Current(rows, focus) = CASE ok = {} -> 0 [] next # {} -> Min(next) [] OTHER -> Max(ok)
  BY DEF Current
<1>3. next # {} => ok # {} /\ Min(next) \in ok
  <2>. HIDE DEF next
  <2>. QED  BY <1>1, LeastOf
<1>4. ok # {} => Max(ok) \in ok
  <2>. HIDE DEF ok
  <2>. QED  BY <1>1, GreatestOf
<1>. HIDE DEF ok, next
<1>5. ok # {} => Current(rows, focus) \in ok
  BY ONLY <1>2, <1>3, <1>4
<1>. QED  BY <1>5 DEF ok

RowsFit(rows, hasModel) ==
  /\ rows \in Seq(ToSet(rows))
  /\ \A i \in 1 .. Len(rows) :
       /\ rows[i].kind = "chips" => rows[i].label = "tools"
       /\ rows[i].kind = "text" => rows[i].label \in Texts
  /\ (\E i \in 1 .. Len(rows) : rows[i].label = "model") <=> hasModel

RowFit(r) ==
  /\ r.kind = "chips" => r.label = "tools"
  /\ r.kind = "text" => r.label \in Texts

LEMMA OneMore ==
  ASSUME NEW S, NEW s \in Seq(S), NEW a
  PROVE  s \o <<a>> = Append(s, a)
OBVIOUS

LEMMA TwoMore ==
  ASSUME NEW S, NEW s \in Seq(S), NEW a, NEW b
  PROVE  s \o <<a, b>> = Append(Append(s, a), b)
OBVIOUS

LEMMA ThreeMore ==
  ASSUME NEW S, NEW s \in Seq(S), NEW a, NEW b, NEW c
  PROVE  s \o <<a, b, c>> = Append(Append(Append(s, a), b), c)
OBVIOUS

LEMMA OneMoreRow ==
  ASSUME NEW rows, NEW m, RowsFit(rows, m), NEW r, RowFit(r), r.label # "model"
  PROVE  RowsFit(Append(rows, r), m)
<1>. DEFINE S == ToSet(rows) \cup {r}
            more == Append(rows, r)
<1>1. rows \in Seq(S) /\ r \in S
  BY DEF RowsFit, ToSet
<1>. HIDE DEF S
<1>2. /\ more \in Seq(S) /\ Len(more) = Len(rows) + 1 /\ Len(rows) \in Nat
      /\ \A i \in 1 .. Len(rows) : more[i] = rows[i]
      /\ more[Len(rows) + 1] = r
  BY <1>1, AppendProperties
<1>. HIDE DEF more
<1>3. more \in Seq(ToSet(more))
  BY <1>2 DEF ToSet
<1>4. \A i \in 1 .. Len(more) : i \in 1 .. Len(rows) \/ i = Len(rows) + 1
  BY <1>2
<1>5. \A i \in 1 .. Len(rows) : i \in 1 .. Len(more)
  BY <1>2
<1>6. \A i \in 1 .. Len(more) : RowFit(more[i])
  BY <1>2, <1>4 DEF RowsFit, RowFit
<1>7. (\E i \in 1 .. Len(more) : more[i].label = "model") <=> m
  BY <1>2, <1>4, <1>5 DEF RowsFit
<1>. QED  BY <1>3, <1>6, <1>7 DEF RowsFit, RowFit, more

LEMMA ModelRow ==
  ASSUME NEW rows, RowsFit(rows, FALSE), NEW r, RowFit(r), r.label = "model"
  PROVE  RowsFit(Append(rows, r), TRUE)
<1>. DEFINE S == ToSet(rows) \cup {r}
            more == Append(rows, r)
<1>1. rows \in Seq(S) /\ r \in S
  BY DEF RowsFit, ToSet
<1>. HIDE DEF S
<1>2. /\ more \in Seq(S) /\ Len(more) = Len(rows) + 1 /\ Len(rows) \in Nat
      /\ \A i \in 1 .. Len(rows) : more[i] = rows[i]
      /\ more[Len(rows) + 1] = r
  BY <1>1, AppendProperties
<1>. HIDE DEF more
<1>3. more \in Seq(ToSet(more))
  BY <1>2 DEF ToSet
<1>4. \A i \in 1 .. Len(more) : i \in 1 .. Len(rows) \/ i = Len(rows) + 1
  BY <1>2
<1>5. Len(rows) + 1 \in 1 .. Len(more)
  BY <1>2
<1>6. \A i \in 1 .. Len(more) : RowFit(more[i])
  BY <1>2, <1>4 DEF RowsFit, RowFit
<1>. QED  BY <1>2, <1>3, <1>5, <1>6 DEF RowsFit, RowFit, more

LEMMA RowsAre ==
  /\ \A l, k : FieldRow(l, k).label = l /\ FieldRow(l, k).kind = k
  /\ ToolRow.label = "tools" /\ ToolRow.kind = "chips"
BY DEF FieldRow, ToolRow

LEMMA OneRow ==
  ASSUME NEW r, RowFit(r), r.label # "model"
  PROVE  RowsFit(<<r>>, FALSE)
<1>1. <<r>> \in Seq({r}) /\ Len(<<r>>) = 1 /\ <<r>>[1] = r /\ DOMAIN <<r>> = 1 .. 1
  OBVIOUS
<1>. DEFINE rows == <<r>>
<1>2. {r} = ToSet(rows)
  BY <1>1 DEF ToSet
<1>. HIDE DEF rows
<1>3. RowsFit(rows, FALSE)
  BY <1>1, <1>2 DEF RowsFit, RowFit, rows
<1>. QED  BY <1>3 DEF rows

\* Only a solo room has a row for its model.
LEMMA RowsOfForm ==
  ASSUME NEW f, f.kind \in {"agent", "edit", "room"}
  PROVE  RowsFit(FormRows(f), IsSolo(f))
<1>. USE RowsAre DEF Texts
<1>1. CASE f.kind = "agent"
  <2>1. FormRows(f) = AgentRows(f) /\ ~IsSolo(f)
    BY <1>1 DEF FormRows, IsSolo
  <2>2. AgentRows(f) \in Seq(ToSet(AgentRows(f))) /\ Len(AgentRows(f)) = 5
    BY DEF AgentRows, ToSet
  <2>. QED  BY <2>1, <2>2 DEF AgentRows, RowsFit
<1>2. CASE f.kind = "edit"
  <2>1. FormRows(f) = EditRows(f) /\ ~IsSolo(f)
    BY <1>2 DEF FormRows, IsSolo
  <2>2. CASE ~f.loaded
    <3>1. EditRows(f) = <<FieldRow("", "note")>>
      BY <2>2 DEF EditRows
    <3>4. RowsFit(<<FieldRow("", "note")>>, FALSE)
      <4>1. RowFit(FieldRow("", "note")) /\ FieldRow("", "note").label # "model"
        BY DEF RowFit
      <4>. QED  BY ONLY <4>1, OneRow
    <3>. QED  BY ONLY <2>1, <3>1, <3>4 DEF RowsFit
  <2>3. CASE f.loaded
    <3>1. EditRows(f) = <<FieldRow("name", "text"), FieldRow("icon", "text"),
                          FieldRow("colour", "cycle"), ToolRow, FieldRow("save", "action")>>
      BY <2>3 DEF EditRows
    <3>2. EditRows(f) \in Seq(ToSet(EditRows(f))) /\ Len(EditRows(f)) = 5
      BY <3>1 DEF ToSet
    <3>. QED  BY <2>1, <3>1, <3>2 DEF RowsFit
  <2>. QED  BY <2>2, <2>3
<1>3. CASE f.kind = "room"
  <2>. DEFINE head == <<FieldRow("name", "text"), FieldRow("preset", "cycle")>>
              tail == <<FieldRow("workdir", "text"), FieldRow("goal", "text"),
                        FieldRow("create", "action")>>
              m == FieldRow("model", "cycle")
  <2>1. RowsFit(head, FALSE)
    <3>1. head \in Seq(ToSet(head)) /\ Len(head) = 2
      BY DEF ToSet
    <3>. QED  BY <3>1 DEF RowsFit
  <2>2. ASSUME NEW rows, NEW has \in BOOLEAN, RowsFit(rows, has)
        PROVE  RowsFit(rows \o tail, has)
    <3>1. rows \o tail = Append(Append(Append(rows, FieldRow("workdir", "text")),
                                       FieldRow("goal", "text")), FieldRow("create", "action"))
      BY <2>2, ThreeMore DEF RowsFit
    <3>2. RowsFit(Append(rows, FieldRow("workdir", "text")), has)
      BY <2>2, OneMoreRow DEF RowFit
    <3>3. RowsFit(Append(Append(rows, FieldRow("workdir", "text")), FieldRow("goal", "text")), has)
      <4>1. RowFit(FieldRow("goal", "text")) /\ FieldRow("goal", "text").label # "model"
        BY DEF RowFit
      <4>. QED  BY ONLY <3>2, <4>1, OneMoreRow
    <3>4. RowFit(FieldRow("create", "action")) /\ FieldRow("create", "action").label # "model"
      BY DEF RowFit
    <3>. QED  BY ONLY <3>1, <3>3, <3>4, OneMoreRow
  <2>3. head \o <<>> = head
    OBVIOUS
  <2>4. head \in Seq(ToSet(head))
    BY <2>1 DEF RowsFit
  <2>5. /\ RowKeys(f) = (head \o (IF IsSolo(f) THEN <<m>> ELSE <<>>)) \o tail
        /\ RoomRows(f) = (head \o PreviewRows(f)) \o tail
    BY DEF RowKeys, RoomRows
  <2>6. /\ FormRows(f) = IF frontEnd = "ink" THEN RowKeys(f) ELSE RoomRows(f)
    BY <1>3 DEF FormRows
  <2>7. RowFit(m) /\ m.label = "model"
    BY DEF RowFit
  <2>8. IsSolo(f) => PreviewRows(f) = <<FieldRow("", "note"), m>>
    BY DEF PreviewRows
  <2>. HIDE DEF head, tail, m
  <2>9. CASE IsSolo(f)
    <3>1. RowsFit(head \o <<m>>, TRUE)
      <4>1. head \o <<m>> = Append(head, m)
        BY ONLY <2>4, OneMore
      <4>. QED  BY ONLY <2>1, <2>7, <4>1, ModelRow
    <3>2. RowsFit(head \o <<FieldRow("", "note"), m>>, TRUE)
      <4>1. head \o <<FieldRow("", "note"), m>> = Append(Append(head, FieldRow("", "note")), m)
        <5>1. PICK x : x = FieldRow("", "note")
          OBVIOUS
        <5>2. PICK y : y = m
          OBVIOUS
        <5>3. head \o <<x, y>> = Append(Append(head, x), y)
          BY ONLY <2>4, TwoMore
        <5>. QED  BY ONLY <5>1, <5>2, <5>3
      <4>2. RowFit(FieldRow("", "note")) /\ FieldRow("", "note").label # "model"
        BY DEF RowFit
      <4>3. RowsFit(Append(head, FieldRow("", "note")), FALSE)
        BY ONLY <2>1, <4>2, OneMoreRow
      <4>. QED  BY ONLY <2>7, <4>1, <4>3, ModelRow
    <3>3. RowsFit((head \o <<m>>) \o tail, TRUE)
      BY ONLY <2>2, <3>1
    <3>4. RowsFit((head \o <<FieldRow("", "note"), m>>) \o tail, TRUE)
      BY ONLY <2>2, <3>2
    <3>5. \/ FormRows(f) = (head \o <<m>>) \o tail
          \/ FormRows(f) = (head \o <<FieldRow("", "note"), m>>) \o tail
      BY ONLY <2>5, <2>6, <2>8, <2>9
    <3>6. RowsFit(FormRows(f), TRUE)
      BY ONLY <3>3, <3>4, <3>5
    <3>. QED  BY ONLY <2>9, <3>6 DEF RowsFit
  <2>10. CASE ~IsSolo(f)
    <3>1. PICK x : x = [label |-> "", kind |-> "note", lines |-> PreviewLines]
      OBVIOUS
    <3>2. x.label = "" /\ x.kind = "note"
      BY ONLY <3>1
    <3>3. PreviewRows(f) = <<>> \/ PreviewRows(f) = <<x>>
      BY <2>10, <3>1 DEF PreviewRows
    <3>4. RowsFit(head \o <<x>>, FALSE)
      <4>1. head \o <<x>> = Append(head, x)
        BY ONLY <2>4, OneMore
      <4>2. RowFit(x) /\ x.label # "model"
        BY ONLY <3>2 DEF RowFit
      <4>. QED  BY ONLY <2>1, <4>1, <4>2, OneMoreRow
    <3>5. RowsFit((head \o <<x>>) \o tail, FALSE)
      BY ONLY <2>2, <3>4
    <3>6. RowsFit(head \o tail, FALSE)
      BY ONLY <2>1, <2>2
    <3>7. FormRows(f) = head \o tail \/ FormRows(f) = (head \o <<x>>) \o tail
      BY ONLY <2>3, <2>5, <2>6, <2>10, <3>3
    <3>8. RowsFit(FormRows(f), FALSE)
      BY ONLY <3>5, <3>6, <3>7
    <3>. QED  BY ONLY <2>10, <3>8 DEF RowsFit
  <2>. QED  BY <2>9, <2>10
<1>. QED  BY <1>1, <1>2, <1>3

\* What is under the keys: one of the rows, or nothing when all are notes.
LEMMA FocusedRow ==
  ASSUME NEW f, IsForm(f)
  PROVE  /\ RowFit(Focused(f))
         /\ Focused(f).kind = "action" => ~(f.kind = "edit" /\ ~f.loaded)
<1>. DEFINE rows == FormRows(f)
<1>0. RowsFit(rows, IsSolo(f))
  BY RowsOfForm DEF IsForm
<1>1. DOMAIN rows = 1 .. Len(rows) /\ Len(rows) \in Nat
  BY <1>0 DEF RowsFit
<1>2. Focusable(rows) # {} => Current(rows, f.focus) \in Focusable(rows)
  BY <1>1, CurrentRow
<1>3. \A i \in DOMAIN rows : RowFit(rows[i])
  BY <1>0, <1>1 DEF RowsFit, RowFit
<1>4. Focusable(rows) \subseteq DOMAIN rows
  BY DEF Focusable
<1>5. Focused(f) = IF Focusable(rows) = {} THEN FieldRow("", "none") ELSE rows[Current(rows, f.focus)]
  BY DEF Focused
<1>6. RowFit(FieldRow("", "none")) /\ FieldRow("", "none").kind = "none"
  BY DEF RowFit, FieldRow
<1>7. (f.kind = "edit" /\ ~f.loaded) => Focusable(rows) = {}
  <2>. SUFFICES ASSUME f.kind = "edit", ~f.loaded
       PROVE  Focusable(rows) = {}
    OBVIOUS
  <2>1. rows = <<FieldRow("", "note")>>
    BY DEF FormRows, EditRows
  <2>2. /\ DOMAIN <<FieldRow("", "note")>> = {1}
        /\ <<FieldRow("", "note")>>[1] = FieldRow("", "note")
    OBVIOUS
  <2>3. DOMAIN rows = {1} /\ rows[1].kind = "note"
    <3>1. FieldRow("", "note").kind = "note"
      BY RowsAre
    <3>. QED  BY ONLY <2>1, <2>2, <3>1
  <2>. HIDE DEF rows
  <2>. QED  BY <2>3 DEF Focusable
<1>. HIDE DEF rows
<1>. QED  BY <1>2, <1>3, <1>4, <1>5, <1>6, <1>7

(* ---- forms: what a key does, and what is sent ------------------------------------- *)

LEMMA WrapsWithin ==
  ASSUME NEW i \in Int, NEW d \in {-1, 1}, NEW n \in Nat, n > 0
  PROVE  Wrapped(i, d, n) \in 0 .. n - 1
BY DEF Wrapped

\* A key changes what is under it and remembers that it did.
Reworked(f, g) ==
  /\ IsForm(g)
  /\ g.kind = f.kind /\ g.loaded = f.loaded /\ g.own = f.own /\ g.busy = f.busy
  /\ f.touched \subseteq g.touched
  /\ \A t \in Texts : g.text[t] = f.text[t] \/ t \in g.touched
  /\ g.tools = f.tools \/ "tools" \in g.touched
  /\ g.colour = f.colour \/ "colour" \in g.touched

LEMMA WalkEffect ==
  ASSUME NEW f, IsForm(f), NEW g \in Walks(f) \cup ChipWalks(f)
  PROVE  Reworked(f, g) /\ g.text = f.text
<1>1. \E x : g = [f EXCEPT !.focus = x] \/ g = [f EXCEPT !.chip = x]
  BY DEF Walks, ChipWalks, Walked
<1>2. PICK x : g = [f EXCEPT !.focus = x] \/ g = [f EXCEPT !.chip = x]
  BY <1>1
<1>. QED  BY ONLY <1>2, IsForm(f) DEF IsForm, FormFields, Reworked

LEMMA ClearEffect ==
  ASSUME NEW f, NEW g, Reworked(f, g)
  PROVE  Reworked(f, Cleared(g)) /\ Cleared(g).text = g.text
BY DEF Reworked, IsForm, FormFields, Cleared

LEMMA ReworkedTwice ==
  ASSUME NEW f, NEW g, NEW h, Reworked(f, g), Reworked(g, h)
  PROVE  Reworked(f, h)
BY DEF Reworked

LEMMA TouchEffect ==
  ASSUME NEW f, IsForm(f)
  PROVE  Reworked(f, Touched(f)) /\ Touched(f).text = f.text
         /\ Focused(f).label \in Touched(f).touched
<1>1. PICK l : l = Focused(f).label
  OBVIOUS
<1>2. Touched(f) = [f EXCEPT !.touched = @ \cup {l}]
  BY <1>1 DEF Touched
<1>. QED  BY ONLY <1>1, <1>2, IsForm(f) DEF IsForm, FormFields, Reworked

LEMMA PairIs ==
  ASSUME NEW S, NEW a \in S, NEW b \in S
  PROVE  <<a, b>> \in Seq(S) /\ Len(<<a, b>>) = 2 /\ <<a, b>>[1] = a /\ <<a, b>>[2] = b
OBVIOUS

LEMMA LabelsAre ==
  ASSUME NEW f, IsForm(f), FormAssumption
  PROVE  /\ DOMAIN PresetLabels(f) = 1 .. Len(f.presets) + 2
         /\ Len(PresetLabels(f)) = Len(f.presets) + 2 /\ Len(f.presets) \in Nat
         /\ PresetLabels(f)[f.preset + 1] = IF f.preset = 1 THEN "solo" ELSE SelectedPreset(f)
         /\ Len(ModelLabels(f)) = Len(f.models) + 1 /\ Len(f.models) \in Nat
         /\ ModelLabels(f)[f.model + 1] = ModelRef(f)
         /\ f.preset \in Int /\ f.model \in Int
<1>1. f.presets \in Seq(STRING) /\ f.models \in Seq(STRING)
  <2>1. SavedPresets \in Seq(STRING) /\ KnownModels \in Seq(STRING)
    BY DEF FormAssumption
  <2>2. <<>> \in Seq(STRING)
    OBVIOUS
  <2>3. f.presets \in {<<>>, SavedPresets} /\ f.models \in {<<>>, KnownModels}
    BY DEF IsForm
  <2>. QED  BY ONLY <2>1, <2>2, <2>3
<1>2. Len(f.presets) \in Nat /\ Len(f.models) \in Nat
  BY <1>1
<1>3. f.preset \in 0 .. Len(f.presets) + 1 /\ f.model \in 0 .. Len(f.models)
  BY DEF IsForm
<1>4. f.preset \in Int /\ f.model \in Int
  BY <1>2, <1>3
<1>5. \A p \in Seq(STRING) :
         /\ Len(<<"default", "solo">> \o p) = Len(p) + 2
         /\ DOMAIN (<<"default", "solo">> \o p) = 1 .. Len(p) + 2
         /\ (<<"default", "solo">> \o p)[1] = "default" /\ (<<"default", "solo">> \o p)[2] = "solo"
         /\ \A i \in 1 .. Len(p) : (<<"default", "solo">> \o p)[i + 2] = p[i]
  <2>1. PICK h, a, b : h = <<a, b>> /\ a = "default" /\ b = "solo"
    OBVIOUS
  <2>2. PICK W : W = STRING \cup {a, b}
    OBVIOUS
  <2>3. h \in Seq(W) /\ Len(h) = 2 /\ h[1] = a /\ h[2] = b
    <3>1. a \in W /\ b \in W
      BY ONLY <2>2
    <3>2. <<a, b>> \in Seq(W) /\ Len(<<a, b>>) = 2 /\ <<a, b>>[1] = a /\ <<a, b>>[2] = b
      BY ONLY <3>1, PairIs
    <3>. QED  BY ONLY <2>1, <3>2
  <2>4. ASSUME NEW p \in Seq(STRING)
        PROVE  /\ Len(h \o p) = Len(p) + 2 /\ DOMAIN (h \o p) = 1 .. Len(p) + 2
               /\ (h \o p)[1] = a /\ (h \o p)[2] = b
               /\ \A i \in 1 .. Len(p) : (h \o p)[i + 2] = p[i]
    <3>1. p \in Seq(W)
      BY ONLY <2>2, <2>4
    <3>2. /\ h \o p \in Seq(W) /\ Len(h \o p) = Len(h) + Len(p)
          /\ \A i \in 1 .. Len(h) + Len(p) :
               (h \o p)[i] = IF i <= Len(h) THEN h[i] ELSE p[i - Len(h)]
      BY ONLY <2>3, <3>1, ConcatProperties
    <3>3. Len(p) \in Nat /\ DOMAIN (h \o p) = 1 .. Len(h \o p)
      BY ONLY <2>4, <3>2
    <3>. QED  BY ONLY <2>3, <3>2, <3>3
  <2>. QED  BY ONLY <2>1, <2>4
<1>6. \A p \in Seq(STRING) :
         /\ Len(<<"default">> \o p) = Len(p) + 1 /\ (<<"default">> \o p)[1] = "default"
         /\ \A i \in 1 .. Len(p) : (<<"default">> \o p)[i + 1] = p[i]
  OBVIOUS
<1>7. PICK a, i : a = f.presets /\ i = f.preset
  OBVIOUS
<1>8. PICK b, j : b = f.models /\ j = f.model
  OBVIOUS
<1>9. /\ DOMAIN PresetLabels(f) = 1 .. Len(a) + 2 /\ Len(PresetLabels(f)) = Len(a) + 2
      /\ PresetLabels(f)[i + 1] = IF i = 1 THEN "solo" ELSE IF i > 1 THEN a[i - 1] ELSE "default"
  <2>1. PICK s : s = <<"default", "solo">> \o a
    OBVIOUS
  <2>2. Len(s) = Len(a) + 2 /\ DOMAIN s = 1 .. Len(a) + 2 /\ s[1] = "default" /\ s[2] = "solo"
        /\ \A k \in 1 .. Len(a) : s[k + 2] = a[k]
    BY ONLY <1>1, <1>5, <1>7, <2>1
  <2>4. i \in 0 .. Len(a) + 1 /\ Len(a) \in Nat
    BY ONLY <1>2, <1>3, <1>7
  <2>5. i > 1 => i - 1 \in 1 .. Len(a) /\ (i - 1) + 2 = i + 1
    BY ONLY <2>4
  <2>6. i > 1 => s[i + 1] = a[i - 1]
    BY ONLY <2>2, <2>5
  <2>7. i = 0 \/ i = 1 \/ i > 1
    BY ONLY <2>4
  <2>8. s[i + 1] = IF i = 1 THEN "solo" ELSE IF i > 1 THEN a[i - 1] ELSE "default"
    BY ONLY <2>2, <2>6, <2>7
  <2>. QED  BY ONLY <1>7, <2>1, <2>2, <2>8 DEF PresetLabels
<1>10. Len(ModelLabels(f)) = Len(b) + 1
       /\ ModelLabels(f)[j + 1] = IF j > 0 THEN b[j] ELSE "default"
  <2>1. PICK s : s = <<"default">> \o b
    OBVIOUS
  <2>2. Len(s) = Len(b) + 1 /\ s[1] = "default" /\ \A k \in 1 .. Len(b) : s[k + 1] = b[k]
    BY ONLY <1>1, <1>6, <1>8, <2>1
  <2>3. j \in 0 .. Len(b) /\ Len(b) \in Nat
    BY ONLY <1>2, <1>3, <1>8
  <2>4. s[j + 1] = IF j > 0 THEN b[j] ELSE "default"
    BY ONLY <2>2, <2>3
  <2>. QED  BY ONLY <1>8, <2>1, <2>2, <2>4 DEF ModelLabels
<1>. QED  BY ONLY <1>2, <1>4, <1>7, <1>8, <1>9, <1>10 DEF SelectedPreset, ModelRef

LEMMA CycleEffect ==
  ASSUME NEW f, IsForm(f), FormAssumption, NEW g \in Cycles(f)
  PROVE  Reworked(f, g) /\ g.text = f.text
<1>1. PICK l : l = Focused(f).label
  OBVIOUS
<1>2. \/ l = "colour" /\ \E x : g = [Touched(f) EXCEPT !.colour = x]
      \/ /\ l = "preset"
         /\ \E d \in {-1, 1} : g = [f EXCEPT !.preset = Wrapped(@, d, Len(PresetLabels(f)))]
      \/ l = "model" /\ \E d \in {-1, 1} : g = [f EXCEPT !.model = Wrapped(@, d, Len(ModelLabels(f)))]
  BY <1>1 DEF Cycles
<1>3. PICK t : t = Touched(f)
  OBVIOUS
<1>4. Reworked(f, t) /\ t.text = f.text /\ l \in t.touched
  BY <1>1, <1>3, TouchEffect
<1>5. CASE l = "colour" /\ \E x : g = [Touched(f) EXCEPT !.colour = x]
  <2>1. PICK x : g = [t EXCEPT !.colour = x]
    BY <1>3, <1>5
  <2>2. "colour" \in t.touched
    BY <1>4, <1>5
  <2>. QED  BY ONLY <1>4, <2>1, <2>2 DEF Reworked, IsForm, FormFields
<1>6. CASE \E d \in {-1, 1} : g = [f EXCEPT !.preset = Wrapped(@, d, Len(PresetLabels(f)))]
  <2>1. PICK d \in {-1, 1} : g = [f EXCEPT !.preset = Wrapped(f.preset, d, Len(PresetLabels(f)))]
    BY <1>6
  <2>2. PICK v : v = Wrapped(f.preset, d, Len(PresetLabels(f)))
    OBVIOUS
  <2>3. v \in 0 .. Len(f.presets) + 1
    <3>1. Len(PresetLabels(f)) = Len(f.presets) + 2 /\ Len(f.presets) \in Nat /\ f.preset \in Int
      BY LabelsAre
    <3>2. Len(f.presets) + 2 \in Nat /\ Len(f.presets) + 2 > 0
          /\ (Len(f.presets) + 2) - 1 = Len(f.presets) + 1
      BY ONLY <3>1
    <3>3. Wrapped(f.preset, d, Len(f.presets) + 2) \in 0 .. (Len(f.presets) + 2) - 1
      BY ONLY <3>1, <3>2, WrapsWithin, d \in {-1, 1}
    <3>. QED  BY ONLY <2>2, <3>1, <3>2, <3>3
  <2>4. g = [f EXCEPT !.preset = v]
    BY <2>1, <2>2
  <2>. QED  BY ONLY IsForm(f), <2>3, <2>4 DEF Reworked, IsForm, FormFields
<1>7. CASE \E d \in {-1, 1} : g = [f EXCEPT !.model = Wrapped(@, d, Len(ModelLabels(f)))]
  <2>1. PICK d \in {-1, 1} : g = [f EXCEPT !.model = Wrapped(f.model, d, Len(ModelLabels(f)))]
    BY <1>7
  <2>2. PICK v : v = Wrapped(f.model, d, Len(ModelLabels(f)))
    OBVIOUS
  <2>3. v \in 0 .. Len(f.models)
    <3>1. Len(ModelLabels(f)) = Len(f.models) + 1 /\ Len(f.models) \in Nat /\ f.model \in Int
      BY LabelsAre
    <3>2. Len(f.models) + 1 \in Nat /\ Len(f.models) + 1 > 0
          /\ (Len(f.models) + 1) - 1 = Len(f.models)
      BY ONLY <3>1
    <3>3. Wrapped(f.model, d, Len(f.models) + 1) \in 0 .. (Len(f.models) + 1) - 1
      BY ONLY <3>1, <3>2, WrapsWithin, d \in {-1, 1}
    <3>. QED  BY ONLY <2>2, <3>1, <3>2, <3>3
  <2>4. g = [f EXCEPT !.model = v]
    BY <2>1, <2>2
  <2>. QED  BY ONLY IsForm(f), <2>3, <2>4 DEF Reworked, IsForm, FormFields
<1>. QED  BY <1>2, <1>5, <1>6, <1>7

LEMMA ToggleEffect ==
  ASSUME NEW f, IsForm(f), NEW g \in Toggles(f)
  PROVE  Reworked(f, g) /\ g.text = f.text
<1>1. PICK l : l = Focused(f).label
  OBVIOUS
<1>2. PICK t : t = Touched(f)
  OBVIOUS
<1>3. Reworked(f, t) /\ t.text = f.text /\ l \in t.touched
  BY <1>1, <1>2, TouchEffect
<1>4. PICK x : g = [t EXCEPT !.tools = x]
  BY <1>2 DEF Toggles
<1>5. Focused(f).kind = "chips"
  BY DEF Toggles
<1>6. "tools" \in t.touched
  BY <1>1, <1>3, <1>5, FocusedRow DEF RowFit
<1>. QED  BY ONLY <1>3, <1>4, <1>6 DEF Reworked, IsForm, FormFields

LEMMA RetypeEffect ==
  ASSUME NEW f, IsForm(f), NEW g \in Retypes(f)
  PROVE  Reworked(f, g) /\ (frontEnd = "pi" /\ ~Hurried => SentBy(onTop) = {})
<1>1. PICK l : l = Focused(f).label
  OBVIOUS
<1>2. PICK t : t = Touched(f)
  OBVIOUS
<1>3. Reworked(f, t) /\ t.text = f.text /\ l \in t.touched
  BY <1>1, <1>2, TouchEffect
<1>4. Focused(f).kind = "text" /\ (Hurried \/ frontEnd = "ink" \/ SentBy(onTop) = {})
  BY DEF Retypes
<1>5. l \in Texts
  BY <1>1, <1>4, FocusedRow DEF RowFit
<1>6. PICK w : g = [t EXCEPT !.text[l] = w]
  BY <1>1, <1>2 DEF Retypes
<1>7. Reworked(f, g)
  BY ONLY <1>3, <1>5, <1>6 DEF Reworked, IsForm, FormFields
<1>. QED  BY <1>4, <1>7

LEMMA KeyEffect ==
  ASSUME NEW f, IsForm(f), FormAssumption, NEW g \in KeysOf(f)
  PROVE  Reworked(f, g) /\ (frontEnd = "pi" /\ ~Hurried /\ SentBy(onTop) # {} => g.text = f.text)
<1>1. \/ g \in Walks(f) \cup ChipWalks(f) \/ g \in Cycles(f)
      \/ \E h \in Cycles(f) \cup Toggles(f) \cup Retypes(f) : g = Cleared(h)
  BY DEF KeysOf, EngineKeys, RoomFormKeys, EditFormKeys, AgentFormKeys
<1>2. ASSUME NEW h \in Cycles(f) \cup Toggles(f) \cup Retypes(f)
      PROVE  Reworked(f, h) /\ (frontEnd = "pi" /\ ~Hurried /\ SentBy(onTop) # {} => h.text = f.text)
  BY <1>2, CycleEffect, ToggleEffect, RetypeEffect
<1>3. ASSUME NEW h \in Cycles(f) \cup Toggles(f) \cup Retypes(f), g = Cleared(h)
      PROVE  Reworked(f, g) /\ (frontEnd = "pi" /\ ~Hurried /\ SentBy(onTop) # {} => g.text = f.text)
  BY <1>2, <1>3, ClearEffect
<1>. QED  BY <1>1, <1>3, WalkEffect, CycleEffect

\* The server is asked for what the form shows.
LEMMA AskedAsFilled ==
  ASSUME NEW f, IsForm(f), FormAssumption
  PROVE  Asked(f) = Filled(f) /\ Asked(f).text = f.text
<1>. DEFINE rows == FormRows(f)
            hasModel == \E r \in ToSet(FormRows(f)) : r.label = "model"
<1>1. RowsFit(rows, IsSolo(f))
  BY RowsOfForm DEF IsForm
<1>2. DOMAIN rows = 1 .. Len(rows)
  BY <1>1 DEF RowsFit
<1>3. hasModel <=> IsSolo(f)
  BY <1>1, <1>2 DEF RowsFit, ToSet
<1>. HIDE DEF rows, hasModel
<1>4. PICK p, m, c, x : p = PresetLabels(f)[f.preset + 1] /\ m = ModelLabels(f)[f.model + 1]
                        /\ c = ColourOf(f) /\ x = f.text
  OBVIOUS
<1>5. Filled(f) = [text |-> x, tools |-> f.tools, colour |-> IF f.kind = "edit" THEN c ELSE Unfilled,
                   preset |-> IF f.kind = "room" THEN p ELSE Unfilled,
                   model |-> IF IsSolo(f) THEN m ELSE Unfilled]
  BY <1>3, <1>4 DEF Filled, hasModel
<1>6. p = (IF f.preset = 1 THEN "solo" ELSE SelectedPreset(f)) /\ m = ModelRef(f)
  BY <1>4, LabelsAre
<1>7. CreatesAgent(f) = [text |-> x, tools |-> f.tools, colour |-> Unfilled,
                         preset |-> Unfilled, model |-> Unfilled]
  BY <1>4 DEF CreatesAgent
<1>8. f.kind \in {"agent", "edit", "room"}
  BY DEF IsForm
<1>9. CASE f.kind = "agent"
  BY <1>4, <1>5, <1>7, <1>9 DEF Asked, IsSolo
<1>10. CASE f.kind = "edit"
  <2>1. UpdatesAgent(f) = [text |-> x, tools |-> f.tools, colour |-> c,
                           preset |-> Unfilled, model |-> Unfilled]
    BY <1>4, <1>7 DEF UpdatesAgent
  <2>. QED  BY <1>4, <1>5, <1>10, <2>1 DEF Asked, IsSolo
<1>11. CASE f.kind = "room"
  <2>1. IsSolo(f) <=> f.preset = 1
    BY <1>11 DEF IsSolo
  <2>2. PICK q, n : q = (IF IsSolo(f) THEN "solo" ELSE SelectedPreset(f))
                    /\ n = (IF IsSolo(f) THEN ModelRef(f) ELSE Unfilled)
    OBVIOUS
  <2>3. CreatesRoom(f) = [text |-> x, tools |-> f.tools, colour |-> Unfilled,
                          preset |-> q, model |-> n]
    <3>1. PICK base : base = CreatesAgent(f)
      OBVIOUS
    <3>2. CreatesRoom(f) = [base EXCEPT !.preset = q, !.model = n]
      BY ONLY <2>2, <3>1 DEF CreatesRoom
    <3>3. base = [text |-> x, tools |-> f.tools, colour |-> Unfilled,
                  preset |-> Unfilled, model |-> Unfilled]
      BY ONLY <1>7, <3>1
    <3>. QED  BY ONLY <3>2, <3>3
  <2>4. Filled(f) = [text |-> x, tools |-> f.tools, colour |-> Unfilled, preset |-> q, model |-> n]
    BY <1>5, <1>6, <1>11, <2>1, <2>2
  <2>5. Asked(f) = CreatesRoom(f)
    BY <1>11 DEF Asked
  <2>. QED  BY ONLY <1>4, <2>3, <2>4, <2>5
<1>. QED  BY <1>8, <1>9, <1>10, <1>11

(* ---- forms: what was asked and what was made --------------------------------------- *)

RequestFields == {"form", "no", "kind", "phase", "sent", "shown", "touched"}

\* The forms are what they are; only the newest can be on screen.
FormsShape ==
  /\ forms \in Seq(ToSet(forms)) /\ \A n \in 1 .. Len(forms) : IsForm(forms[n])
  /\ makes \in Seq(ToSet(makes))
  /\ onTop \in {-1, 0} \/ (onTop \in 1 .. Len(forms) /\ onTop = Len(forms))
  /\ DOMAIN edited = {"name", "icon", "colour", "tools"}

\* What was asked of the server and has not come back: of its form, which no other
\* form has followed; not served, it has made nothing yet.
AskFits(r) ==
  /\ DOMAIN r = RequestFields
  /\ r.form \in 1 .. Len(forms) /\ onTop \in {0, r.form} /\ r.kind = forms[r.form].kind
  /\ r.phase \in {"asked", "done", "refused"} /\ r.sent = r.shown
  /\ frontEnd = "pi" /\ r.kind # "edit" => forms[r.form].text = r.sent.text
  /\ r.kind # "edit" /\ r.phase # "done" => \A i \in 1 .. Len(makes) : makes[i].form # r.form
  /\ r.kind = "room" => forms[r.form].busy
  /\ r.kind = "edit" => r.touched \subseteq forms[r.form].touched
  /\ r.kind = "edit" /\ r.phase = "asked" =>
       \A k \in DOMAIN edited \ r.touched : Patched(r)[k] = edited[k]
AsksFit == (\A r \in sentOut : AskFits(r)) /\ \A q, r \in sentOut : q = r

\* What the server made, of which form; a form that made its agent or its room, and
\* a form that says it waits, is waiting.
MakesFit ==
  /\ \A i \in 1 .. Len(makes) :
       /\ makes[i].sent = makes[i].shown
       /\ makes[i].form \in 1 .. Len(forms) /\ makes[i].kind = forms[makes[i].form].kind
       /\ makes[i].kind # "edit" /\ makes[i].form = onTop => sentOut # {}
  /\ \A i, j \in 1 .. Len(makes) : (i # j /\ makes[i].form = makes[j].form) => makes[i].kind = "edit"
  /\ onTop > 0 /\ forms[onTop].busy => sentOut # {}

\* What the user left alone of an agent is what the server has.
LeftAs(f) ==
  /\ "name" \notin f.touched => f.text["name"] = edited.name
  /\ "icon" \notin f.touched => f.text["icon"] = edited.icon
  /\ "colour" \notin f.touched => f.colour = 0 /\ f.own = edited.colour
  /\ "tools" \notin f.touched => f.tools = edited.tools
LeftFits ==
  onTop > 0 /\ forms[onTop].kind = "edit" /\ forms[onTop].loaded => LeftAs(forms[onTop])

FormInv ==
  /\ FormsShape /\ AsksFit /\ MakesFit /\ LeftFits
  /\ told.said = told.did /\ ~shut /\ ~reverted

LEMMA OneFormChanges ==
  ASSUME FormsShape, NEW n \in 1 .. Len(forms), NEW g, forms' = [forms EXCEPT ![n] = g]
  PROVE  /\ Len(forms') = Len(forms) /\ forms' \in Seq(ToSet(forms')) /\ forms'[n] = g
         /\ \A m \in 1 .. Len(forms) : m # n => forms'[m] = forms[m]
<1>. DEFINE S == ToSet(forms) \cup {g}
<1>1. forms \in Seq(S) /\ g \in S
  BY DEF FormsShape, ToSet
<1>. HIDE DEF S
<1>2. /\ forms' \in Seq(S) /\ Len(forms') = Len(forms) /\ forms'[n] = g
      /\ \A m \in 1 .. Len(forms) : m # n => forms'[m] = forms[m]
  BY <1>1
<1>3. forms' \in Seq(ToSet(forms'))
  <2>1. PICK s : s = forms'
    OBVIOUS
  <2>2. s \in Seq(S)
    BY <1>2, <2>1
  <2>3. s \in Seq(ToSet(s))
    BY ONLY <2>2 DEF ToSet
  <2>. QED  BY <2>1, <2>3
<1>. QED  BY <1>2, <1>3

\* A form that is told or typed something, nothing being asked or answered.
LEMMA FormChanges ==
  ASSUME FormInv, NEW n \in 1 .. Len(forms), NEW g, IsForm(g), forms' = [forms EXCEPT ![n] = g],
         NoneElse, UNCHANGED <<onTop, sentOut>>,
         g.kind = forms[n].kind, forms[n].touched \subseteq g.touched, g.busy = forms[n].busy,
         frontEnd = "pi" /\ g.kind # "edit" /\ SentBy(n) # {} => g.text = forms[n].text,
         n = onTop /\ g.kind = "edit" /\ g.loaded => LeftAs(g)
  PROVE  FormInv'
<1>. USE DEF FormInv, NoneElse, Kept
<1>1. /\ Len(forms') = Len(forms) /\ forms' \in Seq(ToSet(forms')) /\ forms'[n] = g
      /\ \A m \in 1 .. Len(forms) : m # n => forms'[m] = forms[m]
  BY OneFormChanges
<1>2. \A m \in 1 .. Len(forms) : forms'[m].kind = forms[m].kind /\ forms'[m].busy = forms[m].busy
  BY <1>1
<1>3. FormsShape'
  BY <1>1 DEF FormsShape, ToSet
<1>4. AsksFit'
  <2>1. ASSUME NEW r \in sentOut
        PROVE  AskFits(r)'
    <3>1. AskFits(r)
      BY DEF AsksFit
    <3>2. r.form = n => r \in SentBy(n)
      BY DEF SentBy
    <3>3. Patched(r)' = Patched(r)
      BY DEF Patched
    <3>. HIDE DEF NoneElse
    <3>4. edited' = edited /\ makes' = makes /\ onTop' = onTop /\ frontEnd' = frontEnd
      BY DEF NoneElse
    <3>5. frontEnd = "pi" /\ r.kind # "edit" => forms'[r.form].text = r.sent.text
      BY <1>1, <3>1, <3>2 DEF AskFits
    <3>6. r.kind = "edit" => r.touched \subseteq forms'[r.form].touched
      BY <1>1, <3>1 DEF AskFits
    <3>. QED  BY ONLY <1>1, <1>2, <3>1, <3>3, <3>4, <3>5, <3>6 DEF AskFits
  <2>. QED  BY <2>1 DEF AsksFit
<1>5. MakesFit'
  BY <1>1, <1>2 DEF MakesFit, FormsShape
<1>6. LeftFits'
  <2>1. LeftAs(g) => LeftAs(g)'
    BY DEF LeftAs
  <2>2. \A m \in 1 .. Len(forms) : LeftAs(forms[m]) /\ m # n => LeftAs(forms[m])'
    BY <1>1 DEF LeftAs
  <2>. QED  BY <1>1, <2>1, <2>2 DEF LeftFits, FormsShape
<1>. QED  BY <1>3, <1>4, <1>5, <1>6

LEMMA TopIsForm ==
  ASSUME FormsShape, onTop > 0
  PROVE  onTop \in 1 .. Len(forms) /\ Top = forms[onTop] /\ IsForm(Top)
BY DEF FormsShape, Top

LEMMA FormPressesKey ==
  ASSUME FormInv, FormAssumption, ~Hurried, PressesKey
  PROVE  FormInv'
<1>1. onTop \in 1 .. Len(forms) /\ Top = forms[onTop] /\ IsForm(Top)
  BY TopIsForm DEF FormInv, PressesKey
<1>2. PICK g \in KeysOf(Top) : forms' = [forms EXCEPT ![onTop] = g]
  BY DEF PressesKey
<1>3. Reworked(Top, g) /\ (frontEnd = "pi" /\ SentBy(onTop) # {} => g.text = Top.text)
  BY <1>1, KeyEffect
<1>4. NoneElse /\ UNCHANGED <<onTop, sentOut>>
  BY DEF PressesKey
<1>5. Top.kind = "edit" /\ Top.loaded => LeftAs(Top)
  BY <1>1 DEF FormInv, LeftFits
<1>6. g.kind = "edit" /\ g.loaded => LeftAs(g)
  BY <1>3, <1>5 DEF Reworked, LeftAs, Texts
<1>7. /\ IsForm(g) /\ g.kind = forms[onTop].kind /\ forms[onTop].touched \subseteq g.touched
      /\ g.busy = forms[onTop].busy
  BY <1>1, <1>3 DEF Reworked
<1>8. frontEnd = "pi" /\ g.kind # "edit" /\ SentBy(onTop) # {} => g.text = forms[onTop].text
  BY <1>1, <1>3
<1>. QED  BY ONLY FormInv, <1>1, <1>2, <1>4, <1>6, <1>7, <1>8, FormChanges

\* The pickers, and complaints: nothing of what the form sends but the choice picked.
LEMMA ChoiceChanges ==
  ASSUME FormInv, NEW n \in 1 .. Len(forms), NEW g, IsForm(g), forms' = [forms EXCEPT ![n] = g],
         NoneElse, UNCHANGED <<onTop, sentOut>>,
         \A k \in {"kind", "loaded", "text", "tools", "own", "colour", "busy", "touched"} :
           g[k] = forms[n][k]
  PROVE  FormInv'
<1>1. /\ g.kind = forms[n].kind /\ g.touched = forms[n].touched /\ g.busy = forms[n].busy
      /\ g.text = forms[n].text /\ g.loaded = forms[n].loaded /\ g.tools = forms[n].tools
      /\ g.own = forms[n].own /\ g.colour = forms[n].colour
  OBVIOUS
<1>2. n = onTop /\ g.kind = "edit" /\ g.loaded => LeftAs(g)
  <2>1. n = onTop /\ g.kind = "edit" /\ g.loaded => LeftAs(forms[n])
    BY <1>1 DEF FormInv, LeftFits
  <2>. QED  BY ONLY <1>1, <2>1 DEF LeftAs
<1>3. /\ forms[n].touched \subseteq g.touched
      /\ (frontEnd = "pi" /\ g.kind # "edit" /\ SentBy(n) # {} => g.text = forms[n].text)
  BY <1>1
<1>. QED
  BY ONLY FormInv, n \in 1 .. Len(forms), IsForm(g), forms' = [forms EXCEPT ![n] = g],
          NoneElse, UNCHANGED <<onTop, sentOut>>, <1>1, <1>2, <1>3, FormChanges

LEMMA FormOpensPicker ==
  ASSUME FormInv, OpensPicker
  PROVE  FormInv'
<1>1. onTop \in 1 .. Len(forms) /\ Top = forms[onTop] /\ IsForm(Top)
  BY TopIsForm DEF FormInv, OpensPicker
<1>2. PICK l : l = Focused(Top).label
  OBVIOUS
<1>3. PICK g : g = [Top EXCEPT !.picking = l]
  OBVIOUS
<1>4. forms' = [forms EXCEPT ![onTop] = g] /\ NoneElse /\ UNCHANGED <<onTop, sentOut>>
  BY <1>1, <1>2, <1>3 DEF OpensPicker
<1>5. IsForm(g) /\ \A k \in {"kind", "loaded", "text", "tools", "own", "colour", "busy", "touched"} :
        g[k] = forms[onTop][k]
  BY ONLY <1>1, <1>3 DEF IsForm, FormFields
<1>. QED  BY ONLY FormInv, <1>1, <1>4, <1>5, ChoiceChanges

LEMMA FormPicksPreset ==
  ASSUME FormInv, FormAssumption, PicksPreset
  PROVE  FormInv'
<1>1. onTop \in 1 .. Len(forms) /\ Top = forms[onTop] /\ IsForm(Top)
  BY TopIsForm DEF FormInv, PicksPreset
<1>2. PICK i \in DOMAIN PresetLabels(Top) :
        forms' = [forms EXCEPT ![onTop].preset = i - 1, ![onTop].picking = "no"]
  BY DEF PicksPreset
<1>3. PICK p, g : p = i - 1 /\ g = [Top EXCEPT !.preset = p, !.picking = "no"]
  OBVIOUS
<1>4. forms' = [forms EXCEPT ![onTop] = g] /\ NoneElse /\ UNCHANGED <<onTop, sentOut>>
  BY <1>1, <1>2, <1>3 DEF PicksPreset, FormsShape, FormInv
<1>5. p \in 0 .. Len(Top.presets) + 1
  <2>1. i \in 1 .. Len(Top.presets) + 2 /\ Len(Top.presets) \in Nat
    BY <1>1, LabelsAre
  <2>. QED  BY ONLY <1>3, <2>1
<1>6. IsForm(g) /\ \A k \in {"kind", "loaded", "text", "tools", "own", "colour", "busy", "touched"} :
        g[k] = forms[onTop][k]
  BY ONLY <1>1, <1>3, <1>5 DEF IsForm, FormFields
<1>. QED  BY ONLY FormInv, <1>1, <1>4, <1>6, ChoiceChanges

LEMMA FormPicksModel ==
  ASSUME FormInv, PicksModel
  PROVE  FormInv'
<1>1. onTop \in 1 .. Len(forms) /\ Top = forms[onTop] /\ IsForm(Top)
  BY TopIsForm DEF FormInv, PicksModel
<1>2. PICK i \in 0 .. Len(Top.models) :
        forms' = [forms EXCEPT ![onTop].model = i, ![onTop].picking = "no"]
  BY DEF PicksModel
<1>3. PICK g : g = [Top EXCEPT !.model = i, !.picking = "no"]
  OBVIOUS
<1>4. forms' = [forms EXCEPT ![onTop] = g] /\ NoneElse /\ UNCHANGED <<onTop, sentOut>>
  BY <1>1, <1>2, <1>3 DEF PicksModel, FormsShape, FormInv
<1>5. IsForm(g) /\ \A k \in {"kind", "loaded", "text", "tools", "own", "colour", "busy", "touched"} :
        g[k] = forms[onTop][k]
  BY ONLY <1>1, <1>2, <1>3 DEF IsForm, FormFields
<1>. QED  BY ONLY FormInv, <1>1, <1>4, <1>5, ChoiceChanges

LEMMA FormCancelsPicker ==
  ASSUME FormInv, CancelsPicker
  PROVE  FormInv'
<1>1. onTop \in 1 .. Len(forms) /\ Top = forms[onTop] /\ IsForm(Top)
  BY TopIsForm DEF FormInv, CancelsPicker
<1>2. PICK g : g = [Top EXCEPT !.picking = "no"]
  OBVIOUS
<1>3. forms' = [forms EXCEPT ![onTop] = g] /\ NoneElse /\ UNCHANGED <<onTop, sentOut>>
  BY <1>1, <1>2 DEF CancelsPicker
<1>4. IsForm(g) /\ \A k \in {"kind", "loaded", "text", "tools", "own", "colour", "busy", "touched"} :
        g[k] = forms[onTop][k]
  BY ONLY <1>1, <1>2 DEF IsForm, FormFields
<1>. QED  BY ONLY FormInv, <1>1, <1>3, <1>4, ChoiceChanges

LEMMA FormComplains ==
  ASSUME FormInv, onTop > 0, Complains, NoneElse, UNCHANGED onTop
  PROVE  FormInv'
<1>1. onTop \in 1 .. Len(forms) /\ Top = forms[onTop] /\ IsForm(Top)
  BY TopIsForm DEF FormInv
<1>2. PICK g : g = [Top EXCEPT !.error = TRUE]
  OBVIOUS
<1>3. forms' = [forms EXCEPT ![onTop] = g] /\ NoneElse /\ UNCHANGED <<onTop, sentOut>>
  BY <1>1, <1>2 DEF Complains
<1>4. IsForm(g) /\ \A k \in {"kind", "loaded", "text", "tools", "own", "colour", "busy", "touched"} :
        g[k] = forms[onTop][k]
  BY ONLY <1>1, <1>2 DEF IsForm, FormFields
<1>. QED  BY ONLY FormInv, <1>1, <1>3, <1>4, ChoiceChanges

LEMMA FormArrives ==
  ASSUME FormInv, FormAssumption, NEW n \in {onTop} \cap DOMAIN forms,
         LoadFails(n) \/ PresetsArrive(n) \/ ModelsArrive(n)
  PROVE  FormInv'
<1>1. n \in 1 .. Len(forms) /\ IsForm(forms[n])
  BY DEF FormInv, FormsShape
<1>2. PICK f : f = forms[n]
  OBVIOUS
<1>3. PICK x, y, z : x = [f EXCEPT !.error = TRUE] /\ y = [f EXCEPT !.presets = SavedPresets]
                     /\ z = [f EXCEPT !.models = KnownModels]
  OBVIOUS
<1>4. /\ NoneElse /\ UNCHANGED <<onTop, sentOut>>
      /\ \/ forms' = [forms EXCEPT ![n] = x]
         \/ forms' = [forms EXCEPT ![n] = y] /\ f.presets # SavedPresets
         \/ forms' = [forms EXCEPT ![n] = z] /\ f.models # KnownModels
  BY <1>1, <1>2, <1>3 DEF LoadFails, PresetsArrive, ModelsArrive
<1>5. Len(SavedPresets) \in Nat /\ Len(KnownModels) \in Nat /\ Len(<<>>) = 0
  BY DEF FormAssumption
<1>6. IsForm(x) /\ (f.presets # SavedPresets => IsForm(y)) /\ (f.models # KnownModels => IsForm(z))
  <2>1. IsForm(f)
    BY <1>1, <1>2
  <2>2. IsForm(x)
    BY ONLY <1>3, <2>1 DEF IsForm, FormFields
  <2>3. ASSUME f.presets # SavedPresets PROVE IsForm(y)
    <3>1. f.presets = <<>> /\ f.preset \in 0 .. Len(f.presets) + 1
      BY <2>1, <2>3 DEF IsForm
    <3>2. f.preset \in 0 .. Len(SavedPresets) + 1
      BY ONLY <1>5, <3>1
    <3>3. y.presets = SavedPresets /\ y.preset \in 0 .. Len(y.presets) + 1
      BY ONLY <1>3, <2>1, <3>2 DEF IsForm, FormFields
    <3>. QED  BY ONLY <1>3, <2>1, <3>3 DEF IsForm, FormFields
  <2>4. ASSUME f.models # KnownModels PROVE IsForm(z)
    <3>1. f.models = <<>> /\ f.model \in 0 .. Len(f.models)
      BY <2>1, <2>4 DEF IsForm
    <3>2. f.model \in 0 .. Len(KnownModels)
      BY ONLY <1>5, <3>1
    <3>3. z.models = KnownModels /\ z.model \in 0 .. Len(z.models)
      BY ONLY <1>3, <2>1, <3>2 DEF IsForm, FormFields
    <3>. QED  BY ONLY <1>3, <2>1, <3>3 DEF IsForm, FormFields
  <2>. QED  BY <2>2, <2>3, <2>4
<1>7. \A k \in {"kind", "loaded", "text", "tools", "own", "colour", "busy", "touched"} :
        x[k] = forms[n][k] /\ y[k] = forms[n][k] /\ z[k] = forms[n][k]
  BY ONLY <1>1, <1>2, <1>3 DEF IsForm, FormFields
<1>. QED  BY ONLY FormInv, <1>1, <1>4, <1>6, <1>7, ChoiceChanges

LEMMA FormLoads ==
  ASSUME FormInv, NEW n \in {onTop} \cap DOMAIN forms, LoadsAgent(n)
  PROVE  FormInv'
<1>1. n \in 1 .. Len(forms) /\ IsForm(forms[n])
  BY DEF FormInv, FormsShape
<1>2. PICK f, c, e : f = forms[n] /\ e = edited
                     /\ c = SelectSeq(Tints, LAMBDA t : t # edited.colour)
  OBVIOUS
<1>3. PICK g : g = [f EXCEPT !.loaded = TRUE,
                     !.text = [@ EXCEPT !["name"] = e.name, !["icon"] = e.icon],
                     !.own = e.colour, !.colours = c, !.colour = 0, !.tools = e.tools]
  OBVIOUS
<1>4. forms' = [forms EXCEPT ![n] = g] /\ NoneElse /\ UNCHANGED <<onTop, sentOut>>
  BY <1>1, <1>2, <1>3 DEF LoadsAgent
<1>5. /\ IsForm(g) /\ g.kind = f.kind /\ g.touched = f.touched /\ g.busy = f.busy
      /\ g.text["name"] = e.name /\ g.text["icon"] = e.icon /\ g.own = e.colour
      /\ g.colour = 0 /\ g.tools = e.tools
  BY ONLY <1>1, <1>2, <1>3 DEF IsForm, FormFields, Texts
<1>6. LeftAs(g)
  BY ONLY <1>2, <1>5 DEF LeftAs
<1>7. g.kind = "edit"
  BY <1>2, <1>5 DEF LoadsAgent
<1>8. /\ g.kind = forms[n].kind /\ forms[n].touched \subseteq g.touched /\ g.busy = forms[n].busy
      /\ (frontEnd = "pi" /\ g.kind # "edit" /\ SentBy(n) # {} => g.text = forms[n].text)
  BY ONLY <1>2, <1>5, <1>7
<1>. QED  BY ONLY FormInv, <1>1, <1>4, <1>5, <1>6, <1>8, FormChanges

\* What a form asks is what it shows; an agent's, what the user left alone as it is.
LEMMA FormSends ==
  ASSUME FormInv, FormAssumption, onTop > 0, sentOut = {}, Top.kind = "edit" => Top.loaded,
         Sends(Top), NoneElse, UNCHANGED onTop,
         NEW g, IsForm(g), forms' \in Seq(ToSet(forms')), Len(forms') = Len(forms),
         forms'[onTop] = g, \A m \in 1 .. Len(forms) : m # onTop => forms'[m] = forms[m],
         \A k \in {"kind", "loaded", "text", "tools", "own", "colour", "touched"} : g[k] = Top[k],
         Top.kind = "room" => g.busy
  PROVE  FormInv'
<1>1. onTop \in 1 .. Len(forms) /\ Top = forms[onTop] /\ IsForm(Top)
  BY TopIsForm DEF FormInv
<1>2. /\ g.kind = Top.kind /\ g.touched = Top.touched /\ g.text = Top.text /\ g.loaded = Top.loaded
      /\ g.tools = Top.tools /\ g.own = Top.own /\ g.colour = Top.colour
  OBVIOUS
<1>3. PICK f, c, a, q :
        /\ f = Top /\ c = Cardinality(SentBy(onTop)) /\ a = Asked(Top)
        /\ q = [form |-> onTop, no |-> c, kind |-> f.kind, phase |-> "asked",
                sent |-> a, shown |-> Filled(f), touched |-> f.touched]
  OBVIOUS
<1>4. sentOut' = {q}
  BY <1>3 DEF Sends
<1>5. Filled(f) = a /\ a.text = f.text
  BY <1>1, <1>3, AskedAsFilled
<1>6. /\ DOMAIN q = RequestFields /\ q.form = onTop /\ q.kind = f.kind /\ q.phase = "asked"
      /\ q.sent = a /\ q.shown = a /\ q.touched = f.touched
  BY ONLY <1>3, <1>5 DEF RequestFields
<1>7. FormsShape'
  <2>1. onTop' = onTop /\ makes' = makes /\ edited' = edited
    BY DEF NoneElse
  <2>. QED  BY <1>1, <2>1 DEF FormInv, FormsShape
<1>8. f.kind = "edit" => \A k \in DOMAIN edited \ f.touched : Patched(q)[k] = edited[k]
  <2>. SUFFICES ASSUME f.kind = "edit", NEW k \in DOMAIN edited \ f.touched
       PROVE  Patched(q)[k] = edited[k]
    OBVIOUS
  <2>1. a = [text |-> f.text, tools |-> f.tools, colour |-> ColourOf(f),
             preset |-> Unfilled, model |-> Unfilled]
    <3>1. PICK x, y : x = CreatesAgent(f) /\ y = ColourOf(f)
      OBVIOUS
    <3>2. x = [text |-> f.text, tools |-> f.tools, colour |-> Unfilled,
               preset |-> Unfilled, model |-> Unfilled]
      BY ONLY <3>1 DEF CreatesAgent
    <3>3. a = [x EXCEPT !.colour = y]
      BY <1>3, <3>1 DEF Asked, UpdatesAgent
    <3>. QED  BY ONLY <3>1, <3>2, <3>3
  <2>2. LeftAs(f)
    BY <1>1, <1>3 DEF FormInv, LeftFits
  <2>3. k \in {"name", "icon", "colour", "tools"} /\ k \notin f.touched
    BY DEF FormInv, FormsShape
  <2>4. Patched(q) =
          [name |-> f.text["name"], colour |-> ColourOf(f), tools |-> f.tools,
           icon |-> IF f.text["icon"] = Unfilled THEN edited.icon ELSE f.text["icon"]]
    BY ONLY <1>6, <2>1 DEF Patched
  <2>5. f.colour = 0 => ColourOf(f) = f.own
    BY DEF ColourOf
  <2>. QED  BY ONLY <2>2, <2>3, <2>4, <2>5 DEF LeftAs
<1>9. AskFits(q)'
  <2>1. onTop' = onTop /\ makes' = makes /\ edited' = edited /\ frontEnd' = frontEnd
    BY DEF NoneElse, Kept
  <2>2. Patched(q)' = Patched(q)
    BY <2>1 DEF Patched
  <2>3. f.kind # "edit" => \A i \in 1 .. Len(makes) : makes[i].form # onTop
    BY <1>1, <1>3 DEF FormInv, MakesFit
  <2>4. forms'[onTop].text = f.text /\ forms'[onTop].touched = f.touched /\ forms'[onTop].kind = f.kind
    BY <1>2, <1>3
  <2>5. f.kind = "room" => forms'[onTop].busy
    BY <1>3
  <2>. QED
    BY ONLY <1>1, <1>5, <1>6, <1>8, <2>1, <2>2, <2>3, <2>4, <2>5, Len(forms') = Len(forms)
    DEF AskFits
<1>10. AsksFit'
  BY <1>4, <1>9 DEF AsksFit
<1>11. MakesFit'
  <2>1. onTop' = onTop /\ makes' = makes /\ sentOut' # {}
    BY <1>4 DEF NoneElse
  <2>2. \A m \in 1 .. Len(forms) : forms'[m].kind = forms[m].kind
    BY <1>1, <1>2
  <2>. QED  BY <1>1, <2>1, <2>2 DEF FormInv, MakesFit
<1>12. LeftFits'
  <2>1. Top.kind = "edit" /\ Top.loaded => LeftAs(Top)
    BY <1>1 DEF FormInv, LeftFits
  <2>2. onTop' = onTop /\ edited' = edited /\ forms'[onTop] = g
    BY DEF NoneElse
  <2>. QED  BY ONLY <1>2, <2>1, <2>2 DEF LeftFits, LeftAs
<1>. QED  BY <1>7, <1>10, <1>11, <1>12 DEF FormInv, NoneElse

LEMMA FormSubmitsAgents ==
  ASSUME FormInv, FormAssumption, ~Hurried, SubmitsAgent \/ SubmitsEdit
  PROVE  FormInv'
<1>1. onTop \in 1 .. Len(forms) /\ Top = forms[onTop] /\ IsForm(Top) /\ onTop > 0
  BY TopIsForm DEF FormInv, SubmitsAgent, SubmitsEdit, OnAction
<1>2. NoneElse /\ UNCHANGED onTop /\ Focused(Top).kind = "action" /\ SentBy(onTop) = {}
      /\ Top.kind # "room"
  BY DEF SubmitsAgent, SubmitsEdit, OnAction
<1>3. Complains \/ (Sends(Top) /\ forms' = forms)
  BY DEF SubmitsAgent, SubmitsEdit
<1>4. Top.kind = "edit" => Top.loaded
  BY <1>1, <1>2, FocusedRow
<1>5. sentOut = {}
  BY <1>1, <1>2 DEF FormInv, AsksFit, AskFits, SentBy
<1>6. CASE Complains
  BY <1>1, <1>2, <1>6, FormComplains
<1>7. CASE Sends(Top) /\ forms' = forms
  <2>1. forms' \in Seq(ToSet(forms')) /\ Len(forms') = Len(forms) /\ forms'[onTop] = Top
        /\ \A m \in 1 .. Len(forms) : m # onTop => forms'[m] = forms[m]
    BY <1>1, <1>7 DEF FormInv, FormsShape
  <2>. QED  BY <1>1, <1>2, <1>4, <1>5, <1>7, <2>1, FormSends
<1>. QED  BY <1>3, <1>6, <1>7

LEMMA FormSubmitsRoom ==
  ASSUME FormInv, FormAssumption, SubmitsRoom
  PROVE  FormInv'
<1>1. onTop \in 1 .. Len(forms) /\ Top = forms[onTop] /\ IsForm(Top) /\ onTop > 0
  BY TopIsForm DEF FormInv, SubmitsRoom, OnAction
<1>2. NoneElse /\ UNCHANGED onTop /\ Top.kind = "room" /\ ~Top.busy
  BY DEF SubmitsRoom
<1>3. PICK f, g : f = Top /\ g = [f EXCEPT !.busy = TRUE]
  OBVIOUS
<1>4. Complains \/ (Sends(Top) /\ forms' = [forms EXCEPT ![onTop] = g])
  BY <1>1, <1>3 DEF SubmitsRoom
<1>5. sentOut = {}
  BY <1>1, <1>2 DEF FormInv, AsksFit, AskFits
<1>6. CASE Complains
  BY <1>1, <1>2, <1>6, FormComplains
<1>7. CASE Sends(Top) /\ forms' = [forms EXCEPT ![onTop] = g]
  <2>1. /\ Len(forms') = Len(forms) /\ forms' \in Seq(ToSet(forms')) /\ forms'[onTop] = g
        /\ \A m \in 1 .. Len(forms) : m # onTop => forms'[m] = forms[m]
    BY <1>1, <1>7, OneFormChanges DEF FormInv
  <2>2. IsForm(g) /\ g.busy
        /\ \A k \in {"kind", "loaded", "text", "tools", "own", "colour", "touched"} : g[k] = f[k]
    BY ONLY <1>1, <1>3 DEF IsForm, FormFields
  <2>3. \A k \in {"kind", "loaded", "text", "tools", "own", "colour", "touched"} : g[k] = Top[k]
    BY ONLY <1>3, <2>2
  <2>. QED  BY <1>1, <1>2, <1>5, <1>7, <2>1, <2>2, <2>3, FormSends
<1>. QED  BY <1>4, <1>6, <1>7

LEMMA FormRefuses ==
  ASSUME FormInv, NEW r \in sentOut, Refuses(r)
  PROVE  FormInv'
<1>1. AskFits(r) /\ sentOut = {r} /\ r.phase = "asked"
  BY DEF FormInv, AsksFit, Refuses
<1>2. PICK q : q = [r EXCEPT !.phase = "refused"]
  OBVIOUS
<1>3. sentOut' = {q}
  BY <1>1, <1>2 DEF Refuses, Answered
<1>4. /\ DOMAIN q = RequestFields /\ q.form = r.form /\ q.kind = r.kind /\ q.phase = "refused"
      /\ q.sent = r.sent /\ q.shown = r.shown /\ q.touched = r.touched
  BY ONLY <1>1, <1>2 DEF AskFits, RequestFields
<1>5. /\ forms' = forms /\ onTop' = onTop /\ edited' = edited /\ makes' = makes
      /\ frontEnd' = frontEnd /\ told' = told /\ shut' = shut /\ reverted' = reverted
  BY DEF Refuses, NoneElse, Kept
<1>6. AskFits(q)'
  BY ONLY <1>1, <1>4, <1>5 DEF AskFits
<1>7. AsksFit'
  BY <1>3, <1>6 DEF AsksFit
<1>8. FormsShape' /\ LeftFits'
  BY <1>5 DEF FormInv, FormsShape, LeftFits, LeftAs
<1>9. MakesFit'
  BY <1>3, <1>5 DEF FormInv, MakesFit
<1>. QED  BY <1>5, <1>7, <1>8, <1>9 DEF FormInv

LEMMA FormServes ==
  ASSUME FormInv, NEW r \in sentOut, Serves(r)
  PROVE  FormInv'
<1>1. AskFits(r) /\ sentOut = {r} /\ r.phase = "asked"
  BY DEF FormInv, AsksFit, Serves
<1>2. PICK q : q = [r EXCEPT !.phase = "done"]
  OBVIOUS
<1>3. sentOut' = {q}
  BY <1>1, <1>2 DEF Serves, Answered
<1>4. /\ DOMAIN q = RequestFields /\ q.form = r.form /\ q.kind = r.kind /\ q.phase = "done"
      /\ q.sent = r.sent /\ q.shown = r.shown /\ q.touched = r.touched
  BY ONLY <1>1, <1>2 DEF AskFits, RequestFields
<1>5. /\ forms' = forms /\ onTop' = onTop /\ frontEnd' = frontEnd /\ told' = told /\ shut' = shut
  BY DEF Serves, Kept
<1>6. DOMAIN edited = {"name", "icon", "colour", "tools"}
  BY DEF FormInv, FormsShape
<1>7. /\ DOMAIN edited' = DOMAIN edited
      /\ r.kind # "edit" => edited' = edited
      /\ r.kind = "edit" => \A k \in DOMAIN edited \ r.touched : edited'[k] = edited[k]
      /\ ~reverted'
  <2>1. CASE r.kind # "edit"
    BY <2>1 DEF Serves, FormInv
  <2>2. CASE r.kind = "edit"
    <3>1. edited' = Patched(r)
      BY <2>2 DEF Serves
    <3>2. DOMAIN Patched(r) = {"name", "icon", "colour", "tools"}
      BY DEF Patched
    <3>3. \A k \in DOMAIN edited \ r.touched : Patched(r)[k] = edited[k]
      BY <1>1, <2>2 DEF AskFits
    <3>4. reverted' = (reverted \/ \E k \in DOMAIN edited \ r.touched : edited'[k] # edited[k])
      BY <2>2 DEF Serves
    <3>. QED  BY <1>6, <2>2, <3>1, <3>2, <3>3, <3>4 DEF FormInv
  <2>. QED  BY <2>1, <2>2
<1>8. PICK s, mk :
        s = makes /\ mk = [form |-> r.form, kind |-> r.kind, sent |-> r.sent, shown |-> r.shown]
  OBVIOUS
<1>9. /\ Len(makes') = Len(s) + 1 /\ Len(s) \in Nat /\ makes'[Len(s) + 1] = mk
      /\ \A i \in 1 .. Len(s) : makes'[i] = s[i]
      /\ makes' \in Seq(ToSet(makes'))
  <2>1. makes' = Append(s, mk) /\ s \in Seq(ToSet(s))
    BY <1>8 DEF Serves, FormInv, FormsShape
  <2>2. PICK S, t : S = ToSet(s) \cup {mk} /\ t = makes'
    OBVIOUS
  <2>3. s \in Seq(S) /\ mk \in S
    BY ONLY <2>1, <2>2
  <2>4. /\ t \in Seq(S) /\ Len(t) = Len(s) + 1 /\ Len(s) \in Nat /\ t[Len(s) + 1] = mk
        /\ \A i \in 1 .. Len(s) : t[i] = s[i]
    <3>1. t = Append(s, mk)
      BY ONLY <2>1, <2>2
    <3>. QED  BY ONLY <2>3, <3>1, AppendProperties
  <2>5. t \in Seq(ToSet(t))
    BY ONLY <2>4 DEF ToSet
  <2>. QED  BY ONLY <2>2, <2>4, <2>5
<1>10. \A i \in 1 .. Len(makes') : i \in 1 .. Len(s) \/ i = Len(s) + 1
  BY ONLY <1>9
<1>11. FormsShape'
  BY <1>5, <1>6, <1>7, <1>9 DEF FormInv, FormsShape
<1>12. AsksFit'
  <2>1. AskFits(q)'
    BY ONLY <1>1, <1>4, <1>5 DEF AskFits
  <2>. QED  BY <1>3, <2>1 DEF AsksFit
<1>13. mk.form = r.form /\ mk.kind = r.kind /\ mk.sent = mk.shown
  BY ONLY <1>1, <1>8 DEF AskFits
<1>14. MakesFit'
  <2>1. \A i \in 1 .. Len(makes') :
          /\ makes'[i].sent = makes'[i].shown
          /\ makes'[i].form \in 1 .. Len(forms) /\ makes'[i].kind = forms[makes'[i].form].kind
    BY <1>1, <1>8, <1>9, <1>10, <1>13 DEF FormInv, MakesFit, AskFits
  <2>2. \A i \in 1 .. Len(s) : s[i].form = r.form => s[i].kind = "edit" /\ r.kind = "edit"
    BY <1>1, <1>8 DEF FormInv, MakesFit, AskFits
  <2>3. \A i, j \in 1 .. Len(s) : (i # j /\ s[i].form = s[j].form) => s[i].kind = "edit"
    BY <1>8 DEF FormInv, MakesFit
  <2>4. \A i, j \in 1 .. Len(makes') :
          (i # j /\ makes'[i].form = makes'[j].form) => makes'[i].kind = "edit"
    BY ONLY <1>9, <1>10, <1>13, <2>2, <2>3
  <2>5. sentOut' # {}
    BY <1>3
  <2>. QED  BY <1>5, <2>1, <2>4, <2>5 DEF MakesFit
<1>15. LeftFits'
  <2>. SUFFICES ASSUME onTop > 0, forms[onTop].kind = "edit", forms[onTop].loaded
       PROVE  LeftAs(forms[onTop])'
    BY <1>5 DEF LeftFits
  <2>1. onTop = r.form /\ r.kind = "edit" /\ r.touched \subseteq forms[onTop].touched
    BY <1>1 DEF AskFits
  <2>2. \A k \in {"name", "icon", "colour", "tools"} :
          k \notin forms[onTop].touched => edited'[k] = edited[k]
    BY <1>6, <1>7, <2>1
  <2>3. LeftAs(forms[onTop])
    BY DEF FormInv, LeftFits
  <2>4. forms'[onTop'] = forms[onTop]
    BY <1>5
  <2>. QED  BY ONLY <1>5, <2>2, <2>3, <2>4 DEF LeftAs
<1>. QED  BY <1>5, <1>7, <1>11, <1>12, <1>14, <1>15 DEF FormInv

LEMMA FormSucceeds ==
  ASSUME FormInv, NEW r \in sentOut, SubmitSucceeds(r)
  PROVE  FormInv'
<1>1. AskFits(r) /\ sentOut = {r}
  BY DEF FormInv, AsksFit
<1>2. sentOut' = {} /\ onTop' = 0
  BY <1>1 DEF SubmitSucceeds
<1>3. /\ forms' = forms /\ edited' = edited /\ makes' = makes /\ frontEnd' = frontEnd
      /\ reverted' = reverted
  BY DEF SubmitSucceeds, Kept
<1>4. NoticeOf(r) = WhatHappened(r)
  BY <1>1 DEF AskFits, NoticeOf, WhatHappened
<1>5. told'.said = told'.did
  <2>1. PICK a, b : a = NoticeOf(r) /\ b = WhatHappened(r)
    OBVIOUS
  <2>2. told' = [said |-> a, did |-> b]
    BY <2>1 DEF SubmitSucceeds
  <2>. QED  BY ONLY <1>4, <2>1, <2>2
<1>6. ~shut'
  BY <1>1 DEF FormInv, SubmitSucceeds, AskFits
<1>7. FormsShape' /\ LeftFits'
  BY <1>2, <1>3 DEF FormInv, FormsShape, LeftFits
<1>8. AsksFit'
  BY <1>2 DEF AsksFit
<1>9. MakesFit'
  BY <1>2, <1>3 DEF FormInv, MakesFit
<1>. QED  BY <1>3, <1>5, <1>6, <1>7, <1>8, <1>9 DEF FormInv

LEMMA FormFails ==
  ASSUME FormInv, ~Drops, NEW r \in sentOut, SubmitFails(r)
  PROVE  FormInv'
<1>1. AskFits(r) /\ sentOut = {r} /\ r.phase = "refused"
  BY DEF FormInv, AsksFit, SubmitFails
<1>2. PICK n, f : n = r.form /\ f = forms[n]
  OBVIOUS
<1>3. n \in 1 .. Len(forms) /\ IsForm(f)
  BY <1>1, <1>2 DEF FormInv, FormsShape, AskFits
<1>4. PICK g : g = [f EXCEPT !.error = TRUE, !.busy = FALSE]
  OBVIOUS
<1>5. sentOut' = {} /\ forms' = [forms EXCEPT ![n] = g]
  BY <1>1, <1>2, <1>3, <1>4 DEF SubmitFails, FormInv, FormsShape
<1>6. /\ Len(forms') = Len(forms) /\ forms' \in Seq(ToSet(forms')) /\ forms'[n] = g
      /\ \A m \in 1 .. Len(forms) : m # n => forms'[m] = forms[m]
  BY <1>3, <1>5, OneFormChanges DEF FormInv
<1>7. /\ IsForm(g) /\ ~g.busy /\ g.kind = f.kind /\ g.loaded = f.loaded /\ g.text = f.text
      /\ g.tools = f.tools /\ g.own = f.own /\ g.colour = f.colour /\ g.touched = f.touched
  BY ONLY <1>3, <1>4 DEF IsForm, FormFields
<1>8. /\ onTop' = onTop /\ edited' = edited /\ makes' = makes /\ frontEnd' = frontEnd
      /\ told' = told /\ shut' = shut /\ reverted' = reverted
  BY DEF SubmitFails, NoneElse, Kept
<1>9. \A m \in 1 .. Len(forms) : IsForm(forms'[m]) /\ forms'[m].kind = forms[m].kind
  BY <1>2, <1>6, <1>7 DEF FormInv, FormsShape
<1>10. onTop > 0 => onTop = n
  BY <1>1, <1>2 DEF AskFits
<1>11. FormsShape'
  BY <1>6, <1>8, <1>9 DEF FormInv, FormsShape
<1>12. AsksFit'
  BY <1>5 DEF AsksFit
<1>13. MakesFit'
  <2>1. \A i \in 1 .. Len(makes) : makes[i].kind # "edit" => makes[i].form # n
    BY <1>1, <1>2 DEF FormInv, MakesFit, AskFits
  <2>2. \A i \in 1 .. Len(makes) : makes[i].form \in 1 .. Len(forms)
    BY DEF FormInv, MakesFit
  <2>3. \A i \in 1 .. Len(makes) : makes[i].form = onTop => onTop = n
    BY <1>10, <2>2
  <2>4. onTop > 0 => ~forms'[onTop].busy
    BY <1>6, <1>7, <1>10
  <2>. QED  BY <1>6, <1>8, <1>9, <2>1, <2>3, <2>4 DEF FormInv, MakesFit
<1>14. LeftFits'
  <2>1. onTop > 0 /\ f.kind = "edit" /\ f.loaded => LeftAs(f)
    BY <1>2, <1>10 DEF FormInv, LeftFits
  <2>2. onTop > 0 => forms'[onTop] = g
    BY <1>6, <1>10
  <2>. QED  BY ONLY <1>7, <1>8, <2>1, <2>2 DEF LeftFits, LeftAs
<1>. QED  BY <1>8, <1>11, <1>12, <1>13, <1>14 DEF FormInv

LEMMA FormOpens ==
  ASSUME FormInv, FormAssumption, ~Hurried, OpensForm
  PROVE  FormInv'
<1>1. sentOut = {} /\ onTop = 0 /\ sentOut' = {}
  BY DEF OpensForm
<1>2. PICK kind \in {"agent", "edit", "room"} : forms' = Append(forms, NewForm(kind))
  BY DEF OpensForm
<1>3. PICK g : g = NewForm(kind)
  OBVIOUS
<1>4. IsForm(g) /\ ~g.busy /\ g.kind = kind /\ (kind = "edit" => ~g.loaded)
  <2>1. PICK h, t, x, c : h = Head(Tints) /\ t = Tail(Tints) /\ x = [n \in Texts |-> Unfilled]
                          /\ c = (IF kind = "agent" THEN {Chips[1]} ELSE {})
    OBVIOUS
  <2>2. g = [kind |-> kind, loaded |-> kind # "edit", focus |-> 1, chip |-> 1,
             text |-> x, tools |-> c, own |-> h, colours |-> t, colour |-> 0,
             presets |-> <<>>, preset |-> 0, models |-> <<>>, model |-> 0,
             busy |-> FALSE, error |-> FALSE, picking |-> "no", touched |-> {}]
    BY <1>3, <2>1 DEF NewForm
  <2>3. DOMAIN x = Texts
    BY <2>1
  <2>4. 0 \in 0 .. Len(<<>>) + 1 /\ 0 \in 0 .. Len(<<>>)
    OBVIOUS
  <2>5. DOMAIN g = FormFields
    BY ONLY <2>2 DEF FormFields
  <2>6. /\ g.kind = kind /\ g.text = x /\ g.presets = <<>> /\ g.preset = 0 /\ g.models = <<>>
        /\ g.model = 0 /\ g.busy = FALSE /\ (g.loaded <=> kind # "edit")
    BY ONLY <2>2
  <2>. QED  BY <2>3, <2>4, <2>5, <2>6 DEF IsForm
<1>5. /\ forms' \in Seq(ToSet(forms')) /\ Len(forms') = Len(forms) + 1 /\ Len(forms) \in Nat
      /\ forms'[Len(forms) + 1] = g /\ \A i \in 1 .. Len(forms) : forms'[i] = forms[i]
  <2>1. PICK s, t, S : s = forms /\ t = forms' /\ S = ToSet(forms) \cup {g}
    OBVIOUS
  <2>2. s \in Seq(S) /\ g \in S /\ t = Append(s, g)
    BY <1>2, <1>3, <2>1 DEF FormInv, FormsShape
  <2>3. /\ t \in Seq(S) /\ Len(t) = Len(s) + 1 /\ Len(s) \in Nat /\ t[Len(s) + 1] = g
        /\ \A i \in 1 .. Len(s) : t[i] = s[i]
    BY ONLY <2>2, AppendProperties
  <2>4. t \in Seq(ToSet(t))
    BY ONLY <2>3 DEF ToSet
  <2>. QED  BY ONLY <2>1, <2>3, <2>4
<1>6. \A i \in 1 .. Len(forms') : i \in 1 .. Len(forms) \/ i = Len(forms) + 1
  BY ONLY <1>5
<1>7. onTop' = Len(forms) + 1 /\ makes' = makes /\ edited' = edited
  BY <1>5 DEF OpensForm, NoneElse
<1>8. FormsShape'
  <2>1. \A i \in 1 .. Len(forms') : IsForm(forms'[i])
    BY <1>4, <1>5, <1>6 DEF FormInv, FormsShape
  <2>2. onTop' \in 1 .. Len(forms')
    BY ONLY <1>5, <1>7
  <2>. QED  BY <1>5, <1>7, <2>1, <2>2 DEF FormInv, FormsShape
<1>9. AsksFit' /\ LeftFits'
  BY <1>1, <1>4, <1>5, <1>7 DEF AsksFit, LeftFits
<1>10. MakesFit'
  <2>1. \A i \in 1 .. Len(makes) :
          /\ makes[i].form \in 1 .. Len(forms) /\ makes[i].form \in 1 .. Len(forms')
          /\ makes[i].form # onTop' /\ makes[i].kind = forms'[makes[i].form].kind
    BY <1>5, <1>7 DEF FormInv, MakesFit
  <2>2. ~forms'[onTop'].busy
    BY <1>4, <1>5, <1>7
  <2>. QED  BY <1>7, <2>1, <2>2 DEF FormInv, MakesFit
<1>. QED  BY <1>8, <1>9, <1>10 DEF FormInv, OpensForm, NoneElse

LEMMA FormLeavesScreen ==
  ASSUME FormInv, ~Hurried, Escapes \/ OpensOther \/ ClosesOther
  PROVE  FormInv'
<1>1. onTop' \in {-1, 0} /\ (onTop' = -1 => sentOut = {})
  BY DEF Escapes, OpensOther, ClosesOther
<1>2. NoneElse /\ forms' = forms /\ sentOut' = sentOut
  BY DEF Escapes, OpensOther, ClosesOther
<1>3. /\ edited' = edited /\ makes' = makes /\ frontEnd' = frontEnd
      /\ told' = told /\ shut' = shut /\ reverted' = reverted
  BY <1>2 DEF NoneElse, Kept
<1>4. FormsShape' /\ LeftFits'
  BY <1>1, <1>2, <1>3 DEF FormInv, FormsShape, LeftFits
<1>5. AsksFit'
  <2>1. ASSUME NEW r \in sentOut PROVE AskFits(r)'
    <3>1. AskFits(r) /\ onTop' = 0
      BY <1>1 DEF FormInv, AsksFit
    <3>2. Patched(r)' = Patched(r)
      BY <1>3 DEF Patched
    <3>. QED  BY ONLY <1>2, <1>3, <3>1, <3>2 DEF AskFits
  <2>. QED  BY <1>2, <2>1 DEF FormInv, AsksFit
<1>6. MakesFit'
  BY <1>1, <1>2, <1>3 DEF FormInv, MakesFit
<1>. QED  BY <1>3, <1>4, <1>5, <1>6 DEF FormInv

LEMMA FormEditedElsewhere ==
  ASSUME FormInv, ~Elsewhere, EditsElsewhere
  PROVE  FormInv'
<1>1. onTop = 0 /\ sentOut = {} /\ forms' = forms /\ onTop' = onTop /\ sentOut' = sentOut
      /\ makes' = makes /\ told' = told /\ shut' = shut /\ reverted' = reverted
  BY DEF EditsElsewhere
<1>2. DOMAIN edited' = DOMAIN edited
  BY DEF EditsElsewhere
<1>3. FormsShape' /\ AsksFit' /\ LeftFits'
  BY <1>1, <1>2 DEF FormInv, FormsShape, AsksFit, LeftFits
<1>4. MakesFit'
  BY <1>1 DEF FormInv, MakesFit
<1>. QED  BY <1>1, <1>3, <1>4 DEF FormInv

LEMMA FormStep ==
  ASSUME FormInv, FormAssumption, ~Hurried, ~Elsewhere, ~Drops, FormNext
  PROVE  FormInv'
<1>1. CASE PressesKey
  BY <1>1, FormPressesKey
<1>2. CASE OpensPicker \/ CancelsPicker
  BY <1>2, FormOpensPicker, FormCancelsPicker
<1>3. CASE PicksPreset \/ PicksModel
  BY <1>3, FormPicksPreset, FormPicksModel
<1>4. CASE SubmitsAgent \/ SubmitsEdit \/ SubmitsRoom
  BY <1>4, FormSubmitsAgents, FormSubmitsRoom
<1>5. ASSUME NEW r \in sentOut, Serves(r) \/ Refuses(r) \/ SubmitSucceeds(r) \/ SubmitFails(r)
      PROVE  FormInv'
  BY <1>5, FormServes, FormRefuses, FormSucceeds, FormFails
<1>6. CASE OpensForm
  BY <1>6, FormOpens
<1>7. CASE Escapes \/ OpensOther \/ ClosesOther
  BY <1>7, FormLeavesScreen
<1>8. ASSUME NEW n \in {onTop} \cap DOMAIN forms,
             LoadsAgent(n) \/ LoadFails(n) \/ PresetsArrive(n) \/ ModelsArrive(n)
      PROVE  FormInv'
  BY <1>8, FormLoads, FormArrives
<1>9. CASE EditsElsewhere
  BY <1>9, FormEditedElsewhere
<1>. QED  BY <1>1, <1>2, <1>3, <1>4, <1>5, <1>6, <1>7, <1>8, <1>9 DEF FormNext

LEMMA InitForm == FormInit => FormInv
<1>. SUFFICES ASSUME FormInit
     PROVE  FormInv
  OBVIOUS
<1>1. forms = <<>> /\ makes = <<>> /\ onTop = 0 /\ sentOut = {}
  BY DEF FormInit
<1>2. forms \in Seq(ToSet(forms)) /\ makes \in Seq(ToSet(makes)) /\ Len(forms) = 0 /\ Len(makes) = 0
  BY <1>1
<1>3. DOMAIN edited = {"name", "icon", "colour", "tools"}
  <2>1. PICK c, t : c = Tints[Len(Tints)] /\ t = {Chips[1]}
    OBVIOUS
  <2>2. edited = [name |-> "n0", icon |-> "i0", colour |-> c, tools |-> t]
    BY <2>1 DEF FormInit, Person
  <2>. QED  BY ONLY <2>2
<1>4. told.said = told.did /\ ~shut /\ ~reverted
  BY DEF FormInit
<1>5. FormsShape /\ AsksFit /\ MakesFit /\ LeftFits
  BY <1>1, <1>2, <1>3 DEF FormsShape, AsksFit, MakesFit, LeftFits
<1>. QED  BY <1>4, <1>5 DEF FormInv

LEMMA FormInvKept == FormInv /\ UNCHANGED formVars => FormInv'
<1>. SUFFICES ASSUME FormInv, UNCHANGED formVars
     PROVE  FormInv'
  OBVIOUS
<1>. USE DEF formVars
<1>1. FormsShape' /\ MakesFit' /\ LeftFits'
  BY DEF FormInv, FormsShape, MakesFit, LeftFits, LeftAs
<1>2. AsksFit'
  BY DEF FormInv, AsksFit, AskFits, Patched
<1>. QED  BY <1>1, <1>2 DEF FormInv

LEMMA FormDoesIt == FormInv => FormDoes
<1>. SUFFICES ASSUME FormInv
     PROVE  FormDoes
  OBVIOUS
<1>1. DOMAIN makes = 1 .. Len(makes)
  BY DEF FormInv, FormsShape
<1>2. MadeAsFilled /\ MadeOnce
  BY <1>1 DEF FormInv, MakesFit, MadeAsFilled, MadeOnce
<1>3. BusyWaits
  <2>. SUFFICES ASSUME onTop > 0, Top.busy
       PROVE  SentBy(onTop) # {}
    BY DEF BusyWaits
  <2>1. PICK r \in sentOut : AskFits(r)
    BY DEF FormInv, MakesFit, AsksFit, Top
  <2>2. onTop \in Int
    BY DEF FormInv, FormsShape
  <2>3. r.form = onTop
    BY <2>1, <2>2 DEF AskFits
  <2>. QED  BY <2>3 DEF SentBy
<1>4. NoticeTrue /\ ShutsItsOwn /\ LeftAlone
  BY DEF FormInv, NoticeTrue, ShutsItsOwn, LeftAlone
<1>. QED  BY <1>2, <1>3, <1>4 DEF FormDoes

\* While the user waits for the answer, nobody else edits the agent and no answer is
\* lost, a form makes what it showed, once, says so truly, takes down no other screen,
\* is busy only while it waits, and leaves the rest of the agent alone.
THEOREM FormDoesAsShown ==
  ASSUME ~Hurried, ~Elsewhere, ~Drops
  PROVE  FormSpec => []FormDoes
<1>1. FormInv /\ [FormNext]_formVars => FormInv'
  BY FormAssumption, FormStep, FormInvKept
<1>. QED  BY <1>1, InitForm, FormDoesIt, PTL DEF FormSpec

(* ---- forms: the rows that are drawn ------------------------------------------------ *)

\* The values from x on, each the step's of the one before.
Iterated(f, n, S, x, step) ==
  f \in [0 .. n -> S] /\ f[0] = x /\ \A i \in 1 .. n : f[i] = step[i][f[i - 1]]
Steps(n, S) == [1 .. n -> [S -> S]]

\* There are such values for every step.
LEMMA Iterates ==
  ASSUME NEW n \in Nat, NEW S, NEW x, NEW step, x \in S, step \in Steps(n, S)
  PROVE  \E f : Iterated(f, n, S, x, step)
<1>. USE DEF Steps
<1>. DEFINE Upto(m, f) == f \in [0 .. m -> S]
                          /\ f = [i \in 0 .. m |-> IF i = 0 THEN x ELSE step[i][f[i - 1]]]
            T == {m \in 0 .. n : ~ \E f : Upto(m, f)}
<1>1. T = {}
  <2>. SUFFICES ASSUME T # {} PROVE FALSE
    OBVIOUS
  <2>1. T \subseteq Nat
    <3>. HIDE DEF Upto
    <3>. QED  OBVIOUS
  <2>2. PICK m \in T : \A k \in T : m <= k
    BY <2>1, LeastNumber
  <2>3. m \in Nat /\ m <= n
    OBVIOUS
  <2>4. ASSUME m = 0 PROVE FALSE
    <3>. DEFINE g == [i \in 0 .. 0 |-> x]
    <3>1. Upto(0, g)
      OBVIOUS
    <3>. QED  BY <3>1, <2>4
  <2>5. ASSUME m # 0 PROVE FALSE
    <3>1. m - 1 \in 0 .. n /\ m - 1 < m
      BY <2>3, <2>5
    <3>2. m - 1 \notin T
      <4>. HIDE DEF T
      <4>. QED  BY <3>1, <2>2, <2>3
    <3>3. PICK f : Upto(m - 1, f)
      BY <3>1, <3>2
    <3>4. PICK y \in S : y = step[m][f[m - 1]]
      <4>1. m \in 1 .. n /\ m - 1 \in 0 .. m - 1 /\ f[m - 1] \in S
        BY <2>3, <2>5, <3>3
      <4>. QED  BY <4>1
    <3>. DEFINE g == [i \in 0 .. m |-> IF i = m THEN y ELSE f[i]]
    <3>6. \A i \in 0 .. m : i # m => i \in 0 .. (m - 1)
      BY <2>3
    <3>7. g \in [0 .. m -> S]
      BY <3>3, <3>6
    <3>8. \A i \in 0 .. m : g[i] = IF i = 0 THEN x ELSE step[i][g[i - 1]]
      <4>. SUFFICES ASSUME NEW i \in 0 .. m
           PROVE  g[i] = IF i = 0 THEN x ELSE step[i][g[i - 1]]
        OBVIOUS
      <4>1. CASE i = m
        <5>1. i - 1 \in 0 .. m /\ i - 1 # m
          BY <4>1, <2>3, <2>5
        <5>2. g[i] = y /\ g[i - 1] = f[i - 1]
          BY <4>1, <5>1
        <5>. QED  BY <4>1, <5>2, <2>5, <3>4
      <4>2. CASE i # m /\ i # 0
        <5>1. i - 1 \in 0 .. m /\ i - 1 # m /\ i \in 0 .. (m - 1)
          BY <4>2, <2>3, <2>5
        <5>2. f[i] = step[i][f[i - 1]]
          BY <5>1, <3>3, <4>2
        <5>. QED  BY <4>2, <5>1, <5>2
      <4>3. CASE i # m /\ i = 0
        <5>1. 0 \in 0 .. (m - 1)
          BY <4>3, <3>6
        <5>2. f[0] = x
          BY <5>1, <3>3
        <5>. QED  BY <4>3, <5>2
      <4>. QED  BY <4>1, <4>2, <4>3
    <3>9. Upto(m, g)
      <4>. HIDE DEF g
      <4>1. g = [i \in 0 .. m |-> g[i]]
        BY <3>7
      <4>. QED  BY <3>7, <3>8, <4>1
    <3>. QED  BY <3>9
  <2>. QED  BY <2>4, <2>5
<1>2. n \in 0 .. n
  OBVIOUS
<1>. HIDE DEF Upto
<1>3. PICK f : Upto(n, f)
  BY <1>1, <1>2
<1>4. f \in [0 .. n -> S] /\ \A i \in 0 .. n : f[i] = IF i = 0 THEN x ELSE step[i][f[i - 1]]
  BY <1>3 DEF Upto
<1>5. 0 \in 0 .. n /\ \A i \in 1 .. n : i \in 0 .. n /\ i # 0
  OBVIOUS
<1>. QED  BY <1>4, <1>5 DEF Iterated

\* What a form draws: rows of so many lines, of which a row that takes the focus has few.
Row ==
  {r \in [label : {"", "name", "prompt", "tools", "icon", "colour", "preset", "model",
                   "workdir", "goal", "create", "save"},
          kind : {"note", "text", "chips", "cycle", "action"}, lines : Nat] :
     r.kind = "note" \/ r.lines <= 3}

LEMMA RowLines ==
  ASSUME NEW r \in Row
  PROVE  r.lines \in Nat /\ (r.kind = "note" \/ r.lines <= 3)
BY DEF Row

\* The lines of neighbouring rows are a difference of sums.
LEMMA LinesSum ==
  ASSUME NEW rows \in Seq(Row)
  PROVE  \E u \in [0 .. Len(rows) -> Nat] :
           /\ \A i \in 1 .. Len(rows) : u[i] = u[i - 1] + rows[i].lines
           /\ \A a, b : LinesOf(rows, a, b) = u[b] - u[a - 1]
<1>. DEFINE n == Len(rows)
            Sum(f) == f = [i \in 0 .. n |-> IF i = 0 THEN 0 ELSE f[i - 1] + rows[i].lines]
            h == CHOOSE f : Sum(f)
            step == [i \in 1 .. n |-> [k \in Nat |-> k + rows[i].lines]]
<1>1. n \in Nat /\ \A i \in 1 .. n : rows[i].lines \in Nat
  BY RowLines
<1>2. step \in Steps(n, Nat)
  BY <1>1 DEF Steps
<1>3. PICK f \in [0 .. n -> Nat] : f[0] = 0 /\ \A i \in 1 .. n : f[i] = step[i][f[i - 1]]
  <2>. HIDE DEF step, n
  <2>1. \E f : Iterated(f, n, Nat, 0, step)
    BY <1>1, <1>2, Iterates
  <2>. QED  BY <2>1 DEF Iterated
<1>4. \A i \in 1 .. n : f[i - 1] \in Nat /\ step[i][f[i - 1]] = f[i - 1] + rows[i].lines
  <2>. SUFFICES ASSUME NEW i \in 1 .. n
       PROVE  f[i - 1] \in Nat /\ step[i][f[i - 1]] = f[i - 1] + rows[i].lines
    OBVIOUS
  <2>1. i - 1 \in 0 .. n
    BY <1>1
  <2>2. f[i - 1] \in Nat
    BY <2>1
  <2>. QED  BY <2>2
<1>. HIDE DEF step, n
<1>5. \A i \in 0 .. n : f[i] = IF i = 0 THEN 0 ELSE f[i - 1] + rows[i].lines
  <2>. SUFFICES ASSUME NEW i \in 0 .. n
       PROVE  f[i] = IF i = 0 THEN 0 ELSE f[i - 1] + rows[i].lines
    OBVIOUS
  <2>1. i # 0 => i \in 1 .. n
    BY <1>1
  <2>. QED  BY <2>1, <1>3, <1>4
<1>6. Sum(f)
  <2>1. f = [i \in 0 .. n |-> f[i]]
    OBVIOUS
  <2>. QED  BY <1>5, <2>1
<1>7. Sum(h)
  <2>. HIDE DEF Sum
  <2>. QED  BY <1>6
<1>8. \A a, b : LinesOf(rows, a, b) = h[b] - h[a - 1]
  BY DEF LinesOf, n
<1>. HIDE DEF h
<1>9. h = f
  <2>1. \A i \in 0 .. n : h[i] = IF i = 0 THEN 0 ELSE h[i - 1] + rows[i].lines
    BY <1>7
  <2>. DEFINE T == {i \in 0 .. n : h[i] # f[i]}
  <2>2. T = {}
    <3>. SUFFICES ASSUME T # {} PROVE FALSE
      OBVIOUS
    <3>1. T \subseteq Nat
      BY <1>1
    <3>2. PICK i \in T : \A j \in T : i <= j
      BY <3>1, LeastNumber
    <3>3. i \in 0 .. n /\ h[i] # f[i]
      OBVIOUS
    <3>4. i # 0
      BY <3>3, <1>5, <2>1
    <3>5. i - 1 \in 0 .. n /\ i - 1 < i
      BY <3>3, <3>4, <1>1
    <3>6. h[i - 1] = f[i - 1]
      BY <3>2, <3>3, <3>5
    <3>. QED  BY <3>3, <3>4, <3>6, <1>5, <2>1
  <2>3. h = [i \in 0 .. n |-> h[i]]
    BY <1>7
  <2>4. \A i \in 0 .. n : h[i] = f[i]
    BY <2>2
  <2>. QED  BY <2>3, <2>4
<1>10. \A i \in 1 .. n : f[i] = f[i - 1] + rows[i].lines
  <2>1. \A i \in 1 .. n : i \in 0 .. n /\ i # 0
    BY <1>1
  <2>. QED  BY <2>1, <1>5
<1>. QED  BY <1>8, <1>9, <1>10 DEF n

\* A round of the loop keeps the row with the focus, and what is drawn within its budget.
LEMMA GrownFits ==
  ASSUME NEW rows \in Seq(Row), NEW budget \in Nat, NEW focus \in 1 .. Len(rows),
         NEW a \in 1 .. focus, NEW b \in focus .. Len(rows), LinesOf(rows, a, b) <= budget
  PROVE  \E c \in 1 .. focus, d \in focus .. Len(rows) :
           Grown(rows, <<a, b>>, budget) = <<c, d>> /\ LinesOf(rows, c, d) <= budget
<1>1. PICK u \in [0 .. Len(rows) -> Nat] :
           /\ \A i \in 1 .. Len(rows) : u[i] = u[i - 1] + rows[i].lines
           /\ \A x, y : LinesOf(rows, x, y) = u[y] - u[x - 1]
  BY LinesSum
<1>2. PICK n \in Nat : n = Len(rows)
  OBVIOUS
<1>3. a \in 1 .. n /\ b \in 1 .. n /\ a - 1 \in 0 .. n /\ u[b] \in Nat /\ u[a - 1] \in Nat
  BY <1>1, <1>2
<1>4. PICK used \in Int : used = LinesOf(rows, a, b) /\ used = u[b] - u[a - 1] /\ used <= budget
  <2>1. LinesOf(rows, a, b) = u[b] - u[a - 1]
    BY <1>1
  <2>2. u[b] - u[a - 1] \in Int
    BY <1>3
  <2>. QED  BY <2>1, <2>2
<1>5. PICK down : down = IF b < n THEN rows[b + 1].lines ELSE budget + 1
  OBVIOUS
<1>6. PICK up : up = IF a > 1 THEN rows[a - 1].lines ELSE budget + 1
  OBVIOUS
<1>7. Grown(rows, <<a, b>>, budget)
        = IF used + (IF down <= up THEN down ELSE up) > budget THEN <<a, b>>
          ELSE IF down <= up THEN <<a, b + 1>> ELSE <<a - 1, b>>
  <2>1. PICK w : w = <<a, b>> /\ w[1] = a /\ w[2] = b
    OBVIOUS
  <2>. QED  BY <2>1, <1>2, <1>4, <1>5, <1>6 DEF Grown
<1>8. \A i \in 1 .. n : rows[i].lines \in Nat
  BY <1>2, RowLines
<1>8a. used >= 0
  <2>1. \A i \in 0 .. n : u[i] \in Nat
    BY <1>1, <1>2
  <2>. DEFINE T == {i \in 0 .. n : i >= a - 1 /\ u[i] < u[a - 1]}
  <2>2. T = {}
    <3>. SUFFICES ASSUME T # {} PROVE FALSE
      OBVIOUS
    <3>0. T \subseteq Nat
      BY <1>2
    <3>1. PICK i \in T : \A j \in T : i <= j
      <4>. HIDE DEF T
      <4>. QED  BY <3>0, LeastNumber
    <3>2. i \in 0 .. n /\ i >= a - 1 /\ u[i] < u[a - 1]
      OBVIOUS
    <3>3. i # a - 1
      <4>1. ~(u[a - 1] < u[a - 1])
        BY <1>3
      <4>. QED  BY <4>1, <3>2
    <3>4. i \in 1 .. n /\ i - 1 \in 0 .. n /\ i - 1 >= a - 1 /\ i - 1 < i
      BY <3>2, <3>3, <1>3
    <3>5. ~(u[i - 1] < u[a - 1])
      <4>1. i - 1 \notin T
        <5>. HIDE DEF T
        <5>. QED  BY <3>1, <3>2, <3>4
      <4>. QED  BY <4>1, <3>4
    <3>6. u[i] = u[i - 1] + rows[i].lines
      BY <3>4, <1>1, <1>2
    <3>7. PICK p \in Nat, q \in Nat, r \in Nat, l \in Nat :
            p = u[i] /\ q = u[i - 1] /\ r = u[a - 1] /\ l = rows[i].lines
      BY <3>2, <3>4, <2>1, <1>3, <1>8
    <3>8. p < r /\ ~(q < r) /\ p = q + l
      BY <3>2, <3>5, <3>6, <3>7
    <3>. QED  BY ONLY <3>8, p \in Nat, q \in Nat, r \in Nat, l \in Nat
  <2>3. b \in 0 .. n /\ b >= a - 1
    BY <1>3
  <2>4. ~(u[b] < u[a - 1])
    BY <2>2, <2>3
  <2>. QED  BY <2>4, <1>3, <1>4
<1>9. down \in Nat /\ up \in Nat
  BY <1>3, <1>5, <1>6, <1>8
<1>10. CASE used + (IF down <= up THEN down ELSE up) > budget
  BY <1>7, <1>10
<1>11. CASE ~(used + (IF down <= up THEN down ELSE up) > budget) /\ down <= up
  <2>1. used + down <= budget
    BY <1>11, <1>9
  <2>2. b < n /\ down = rows[b + 1].lines
    BY <2>1, <1>5, <1>8a
  <2>3. b + 1 \in 1 .. n /\ b + 1 \in focus .. n
    BY <2>2, <1>2, <1>3
  <2>4. u[b + 1] = u[b] + down
    <3>1. u[b + 1] = u[(b + 1) - 1] + rows[b + 1].lines
      BY <2>3, <1>1, <1>2
    <3>2. (b + 1) - 1 = b
      BY <1>3
    <3>. QED  BY <3>1, <3>2, <2>2
  <2>5. LinesOf(rows, a, b + 1) <= budget
    <3>1. LinesOf(rows, a, b + 1) = u[b + 1] - u[a - 1]
      BY <1>1
    <3>2. u[b + 1] - u[a - 1] = used + down
      BY <2>4, <1>3, <1>4, <1>9
    <3>. QED  BY <3>1, <3>2, <2>1
  <2>6. Grown(rows, <<a, b>>, budget) = <<a, b + 1>>
    BY <1>7, <1>11
  <2>. QED  BY <2>3, <2>5, <2>6, <1>2
<1>12. CASE ~(used + (IF down <= up THEN down ELSE up) > budget) /\ ~(down <= up)
  <2>1. used + up <= budget
    BY <1>12, <1>9
  <2>2. a > 1 /\ up = rows[a - 1].lines
    BY <2>1, <1>6, <1>8a
  <2>3. a - 1 \in 1 .. n /\ a - 1 \in 1 .. focus
    BY <2>2, <1>3
  <2>4. u[a - 1] = u[(a - 1) - 1] + up
    BY <2>2, <2>3, <1>1, <1>2
  <2>5. LinesOf(rows, a - 1, b) <= budget
    <3>1. LinesOf(rows, a - 1, b) = u[b] - u[(a - 1) - 1]
      BY <1>1
    <3>2. (a - 1) - 1 \in 0 .. n
      BY <2>3
    <3>3. PICK p \in Nat, q \in Nat, r \in Nat : p = u[b] /\ q = u[a - 1] /\ r = u[(a - 1) - 1]
      BY <3>2, <1>1, <1>2, <1>3
    <3>4. used = p - q /\ q = r + up
      BY <3>3, <2>4, <1>4
    <3>5. p - r = used + up
      BY ONLY <3>4, <1>9, p \in Nat, q \in Nat, r \in Nat
    <3>. QED  BY <3>1, <3>3, <3>5, <2>1
  <2>6. Grown(rows, <<a, b>>, budget) = <<a - 1, b>>
    BY <1>7, <1>12
  <2>. QED  BY <2>3, <2>5, <2>6
<1>. QED  BY <1>10, <1>11, <1>12

\* A window that fits: some rows around the focus, within the budget.
Fits(rows, focus, budget, w) ==
  \E a \in 1 .. focus, b \in focus .. Len(rows) : w = <<a, b>> /\ LinesOf(rows, a, b) <= budget

\* The window keeps the row with the focus, and what it draws within its budget, if that
\* row alone is.
LEMMA WindowFits ==
  ASSUME NEW rows \in Seq(Row), NEW budget \in Nat, NEW focus \in 1 .. Len(rows),
         rows[focus].lines <= budget
  PROVE  Fits(rows, focus, budget, Window(rows, focus, budget))
<1>. DEFINE n == Len(rows)
            After(f) == f = [i \in 0 .. n |-> IF i = 0 THEN <<focus, focus>>
                                              ELSE Grown(rows, f[i - 1], budget)]
            h == CHOOSE f : After(f)
            W == {<<a, b>> : a \in 1 .. focus, b \in focus .. n}
            Good == {w \in W : Fits(rows, focus, budget, w)}
            step == [i \in 1 .. n |-> [w \in Good |-> Grown(rows, w, budget)]]
<1>1. n \in Nat /\ focus \in 1 .. n
  OBVIOUS
<1>2. \A w \in Good : Grown(rows, w, budget) \in Good
  <2>. SUFFICES ASSUME NEW w \in Good PROVE Grown(rows, w, budget) \in Good
    OBVIOUS
  <2>1. PICK a \in 1 .. focus, b \in focus .. Len(rows) : w = <<a, b>> /\ LinesOf(rows, a, b) <= budget
    BY DEF Fits
  <2>2. PICK c \in 1 .. focus, d \in focus .. Len(rows) :
          Grown(rows, <<a, b>>, budget) = <<c, d>> /\ LinesOf(rows, c, d) <= budget
    BY <2>1, GrownFits
  <2>3. <<c, d>> \in W
    OBVIOUS
  <2>4. Fits(rows, focus, budget, <<c, d>>)
    BY <2>2 DEF Fits
  <2>. QED  BY <2>1, <2>2, <2>3, <2>4
<1>3. <<focus, focus>> \in Good
  <2>1. LinesOf(rows, focus, focus) <= budget
    <3>1. PICK u \in [0 .. Len(rows) -> Nat] :
            /\ \A i \in 1 .. Len(rows) : u[i] = u[i - 1] + rows[i].lines
            /\ \A a, b : LinesOf(rows, a, b) = u[b] - u[a - 1]
      BY LinesSum
    <3>2. /\ LinesOf(rows, focus, focus) = u[focus] - u[focus - 1]
          /\ u[focus] = u[focus - 1] + rows[focus].lines
      BY <3>1
    <3>3. u[focus - 1] \in Nat /\ rows[focus].lines \in Nat
      <4>1. focus - 1 \in 0 .. Len(rows) /\ u[focus - 1] \in Nat
        OBVIOUS
      <4>2. rows[focus] \in Row
        OBVIOUS
      <4>. QED  BY <4>1, <4>2, RowLines
    <3>. QED  BY <3>2, <3>3
  <2>2. <<focus, focus>> \in W /\ focus \in 1 .. focus /\ focus \in focus .. Len(rows)
    OBVIOUS
  <2>. QED  BY <2>1, <2>2 DEF Fits
<1>. HIDE DEF Good, W
<1>4. step \in Steps(n, Good)
  BY <1>2 DEF Steps
<1>5. \A i \in 1 .. n : \A w \in Good : step[i][w] = Grown(rows, w, budget)
  OBVIOUS
<1>6. PICK f : Iterated(f, n, Good, <<focus, focus>>, step)
  <2>. HIDE DEF step, n
  <2>. QED  BY <1>1, <1>3, <1>4, Iterates
<1>. HIDE DEF step, n
<1>7. f \in [0 .. n -> Good] /\ f[0] = <<focus, focus>> /\ \A i \in 1 .. n : f[i] = step[i][f[i - 1]]
  BY <1>6 DEF Iterated
<1>8. \A i \in 0 .. n : f[i] = IF i = 0 THEN <<focus, focus>> ELSE Grown(rows, f[i - 1], budget)
  <2>. SUFFICES ASSUME NEW i \in 0 .. n, i # 0
       PROVE  f[i] = Grown(rows, f[i - 1], budget)
    BY <1>7
  <2>1. i \in 1 .. n /\ i - 1 \in 0 .. n
    BY <1>1
  <2>2. f[i - 1] \in Good
    BY <2>1, <1>7
  <2>. QED  BY <2>1, <2>2, <1>5, <1>7
<1>9. After(f)
  <2>1. f = [i \in 0 .. n |-> f[i]]
    BY <1>7
  <2>. QED  BY <1>8, <2>1
<1>10. After(h)
  <2>. HIDE DEF After
  <2>. QED  BY <1>9
<1>11. Window(rows, focus, budget) = IF LinesOf(rows, 1, n) <= budget THEN <<1, n>> ELSE h[n]
  BY DEF Window, n
<1>. HIDE DEF h
<1>12. h = f
  <2>1. \A i \in 0 .. n : h[i] = IF i = 0 THEN <<focus, focus>> ELSE Grown(rows, h[i - 1], budget)
    BY <1>10
  <2>. DEFINE T == {i \in 0 .. n : h[i] # f[i]}
  <2>2. T = {}
    <3>. SUFFICES ASSUME T # {} PROVE FALSE
      OBVIOUS
    <3>1. T \subseteq Nat
      BY <1>1
    <3>2. PICK i \in T : \A j \in T : i <= j
      BY <3>1, LeastNumber
    <3>3. i \in 0 .. n /\ h[i] # f[i]
      OBVIOUS
    <3>4. i # 0
      BY <3>3, <1>8, <2>1
    <3>5. i - 1 \in 0 .. n /\ i - 1 < i
      BY <3>3, <3>4, <1>1
    <3>6. h[i - 1] = f[i - 1]
      BY <3>2, <3>3, <3>5
    <3>. QED  BY <3>3, <3>4, <3>6, <1>8, <2>1
  <2>3. h = [i \in 0 .. n |-> h[i]]
    BY <1>10
  <2>4. \A i \in 0 .. n : h[i] = f[i]
    BY <2>2
  <2>. QED  BY <2>3, <2>4, <1>7
<1>13. f[n] \in Good
  BY <1>1, <1>7
<1>14. CASE LinesOf(rows, 1, n) <= budget
  <2>1. 1 \in 1 .. focus /\ n \in focus .. n
    BY <1>1
  <2>. QED  BY <1>11, <1>14, <2>1 DEF Fits, n
<1>15. CASE ~(LinesOf(rows, 1, n) <= budget)
  BY <1>11, <1>12, <1>13, <1>15 DEF Good
<1>. QED  BY <1>14, <1>15

\* The rows of a form are rows, the first a low one.
LEMMA RowsHeight ==
  ASSUME NEW f, f.kind \in {"agent", "edit", "room"}, height \in Nat, FormAssumption, ChipLines <= 3
  PROVE  /\ FormRows(f) \in Seq(Row) /\ 1 \in 1 .. Len(FormRows(f))
         /\ FormRows(f)[1].lines <= 3
<1>2. ToolRow \in Row
  BY DEF ToolRow, Row, FormAssumption
<1>3. PreviewLines \in Nat
  BY DEF PreviewLines, FormAssumption
<1>4. [label |-> "", kind |-> "note", lines |-> PreviewLines] \in Row
  BY <1>3 DEF Row
<1>. DEFINE Short(rows) == rows \in Seq(Row) /\ 1 \in 1 .. Len(rows) /\ rows[1].lines <= 3
<1>5. ASSUME NEW s, Short(s), NEW t \in Seq(Row) PROVE Short(s \o t)
  <2>1. s \in Seq(Row) /\ Len(s) \in Nat /\ Len(t) \in Nat /\ 1 <= Len(s)
    BY <1>5
  <2>2. s \o t \in Seq(Row) /\ Len(s \o t) = Len(s) + Len(t) /\ (s \o t)[1] = s[1]
    BY <2>1, ConcatProperties
  <2>. QED  BY <2>1, <2>2, <1>5
<1>5a. ASSUME NEW a \in Row, NEW b \in Row, NEW c \in Row, NEW d \in Row, NEW e \in Row,
              a.lines = 1
       PROVE  Short(<<a, b, c, d, e>>)
  <2>1. <<a, b, c, d, e>> \in Seq(Row) /\ Len(<<a, b, c, d, e>>) = 5 /\ <<a, b, c, d, e>>[1] = a
    OBVIOUS
  <2>. QED  BY <2>1, <1>5a
<1>5b. ASSUME NEW a \in Row, a.lines = 1 PROVE Short(<<a>>)
  <2>1. <<a>> \in Seq(Row) /\ Len(<<a>>) = 1 /\ <<a>>[1] = a
    OBVIOUS
  <2>. QED  BY <2>1, <1>5b
<1>5c. ASSUME NEW a \in Row, NEW b \in Row, a.lines = 1 PROVE Short(<<a, b>>)
  <2>1. <<a, b>> \in Seq(Row) /\ Len(<<a, b>>) = 2 /\ <<a, b>>[1] = a
    OBVIOUS
  <2>. QED  BY <2>1, <1>5c
<1>. HIDE DEF Short
<1>5d. FieldRow("name", "text") \in Row /\ FieldRow("name", "text").lines = 1
       /\ FieldRow("prompt", "text") \in Row /\ FieldRow("icon", "text") \in Row
       /\ FieldRow("colour", "cycle") \in Row /\ FieldRow("save", "action") \in Row
       /\ FieldRow("create", "action") \in Row
  BY DEF FieldRow, Row
<1>5e. FieldRow("", "note") \in Row /\ FieldRow("", "note").lines = 1
       /\ FieldRow("preset", "cycle") \in Row /\ FieldRow("model", "cycle") \in Row
       /\ FieldRow("workdir", "text") \in Row /\ FieldRow("goal", "text") \in Row
  <2>1. FieldRow("", "note") \in Row /\ FieldRow("", "note").lines = 1
    BY DEF FieldRow, Row
  <2>2. FieldRow("preset", "cycle") \in Row /\ FieldRow("model", "cycle") \in Row
    BY DEF FieldRow, Row
  <2>3. FieldRow("workdir", "text") \in Row /\ FieldRow("goal", "text") \in Row
    BY DEF FieldRow, Row
  <2>. QED  BY <2>1, <2>2, <2>3
<1>6. CASE f.kind = "agent"
  <2>1. FormRows(f) = <<FieldRow("name", "text"), FieldRow("prompt", "text"), ToolRow,
                        FieldRow("icon", "text"), FieldRow("create", "action")>>
    BY <1>6 DEF FormRows, AgentRows
  <2>2. Short(FormRows(f))
    BY <2>1, <1>2, <1>5a, <1>5d
  <2>. QED  BY <2>2 DEF Short
<1>7. CASE f.kind = "edit" /\ ~f.loaded
  <2>1. FormRows(f) = <<FieldRow("", "note")>>
    BY <1>7 DEF FormRows, EditRows
  <2>2. Short(FormRows(f))
    BY <2>1, <1>5b, <1>5e
  <2>. QED  BY <2>2 DEF Short
<1>8. CASE f.kind = "edit" /\ f.loaded
  <2>1. FormRows(f) = <<FieldRow("name", "text"), FieldRow("icon", "text"), FieldRow("colour", "cycle"),
                        ToolRow, FieldRow("save", "action")>>
    BY <1>8 DEF FormRows, EditRows
  <2>2. Short(FormRows(f))
    BY <2>1, <1>2, <1>5a, <1>5d
  <2>. QED  BY <2>2 DEF Short
<1>9. CASE f.kind = "room"
  <2>1. PICK a \in Row : a = FieldRow("name", "text") /\ a.lines = 1
    BY <1>5d
  <2>2. PICK b \in Row : b = FieldRow("preset", "cycle")
    BY <1>5e
  <2>3. PICK m \in Row : m = FieldRow("model", "cycle")
    BY <1>5e
  <2>4. PICK note \in Row : note = FieldRow("", "note")
    BY <1>5e
  <2>5. PICK x \in Row : x = [label |-> "", kind |-> "note", lines |-> PreviewLines]
    BY <1>4
  <2>6. PICK c \in Row, d \in Row, e \in Row :
          /\ c = FieldRow("workdir", "text") /\ d = FieldRow("goal", "text")
          /\ e = FieldRow("create", "action")
    BY <1>5d, <1>5e
  <2>7. <<c, d, e>> \in Seq(Row) /\ <<>> \in Seq(Row) /\ <<m>> \in Seq(Row)
        /\ <<note, m>> \in Seq(Row) /\ <<x>> \in Seq(Row)
    OBVIOUS
  <2>8. PICK q \in Seq(Row) : q = PreviewRows(f)
    <3>1. PreviewRows(f) = IF IsSolo(f) THEN <<note, m>>
                           ELSE IF SelectedPreset(f) = "default" \/ PreviewLines = 0 THEN <<>>
                           ELSE <<x>>
      BY <2>3, <2>4, <2>5 DEF PreviewRows
    <3>2. PreviewRows(f) \in Seq(Row)
      BY <3>1, <2>7
    <3>. QED  BY <3>2
  <2>9. PICK k \in Seq(Row) : k = IF IsSolo(f) THEN <<m>> ELSE <<>>
    BY <2>7
  <2>10. RoomRows(f) = (<<a, b>> \o q) \o <<c, d, e>>
    BY <2>1, <2>2, <2>6, <2>8 DEF RoomRows
  <2>11. RowKeys(f) = (<<a, b>> \o k) \o <<c, d, e>>
    BY <2>1, <2>2, <2>3, <2>6, <2>9 DEF RowKeys
  <2>12. FormRows(f) = IF frontEnd = "ink" THEN RowKeys(f) ELSE RoomRows(f)
    BY <1>9 DEF FormRows
  <2>13. Short(<<a, b>>)
    BY <2>1, <1>5c
  <2>14. Short((<<a, b>> \o q) \o <<c, d, e>>)
    <3>1. Short(<<a, b>> \o q)
      BY <2>13, <1>5
    <3>. QED  BY <2>7, <3>1, <1>5
  <2>15. Short((<<a, b>> \o k) \o <<c, d, e>>)
    <3>1. Short(<<a, b>> \o k)
      BY <2>13, <1>5
    <3>. QED  BY <2>7, <3>1, <1>5
  <2>16. Short(FormRows(f))
    BY <2>10, <2>11, <2>12, <2>14, <2>15
  <2>. QED  BY <2>16 DEF Short
<1>. QED  BY <1>6, <1>7, <1>8, <1>9

\* The terminal keeps its height.
LEMMA HeightKept ==
  ASSUME FormNext \/ UNCHANGED formVars
  PROVE  height' = height
<1>. USE DEF NoneElse, Kept
<1>1. CASE PressesKey \/ OpensPicker \/ CancelsPicker \/ PicksPreset \/ PicksModel
  BY <1>1 DEF PressesKey, OpensPicker, CancelsPicker, PicksPreset, PicksModel
<1>2. CASE SubmitsAgent \/ SubmitsEdit \/ SubmitsRoom
  BY <1>2 DEF SubmitsAgent, SubmitsEdit, SubmitsRoom
<1>3. ASSUME NEW r \in sentOut, Serves(r) \/ Refuses(r) \/ SubmitSucceeds(r) \/ SubmitFails(r)
      PROVE  height' = height
  BY <1>3 DEF Serves, Refuses, SubmitSucceeds, SubmitFails
<1>4. CASE OpensForm \/ Escapes \/ OpensOther \/ ClosesOther
  BY <1>4 DEF OpensForm, Escapes, OpensOther, ClosesOther
<1>5. ASSUME NEW n \in DOMAIN forms,
             LoadsAgent(n) \/ LoadFails(n) \/ PresetsArrive(n) \/ ModelsArrive(n)
      PROVE  height' = height
  BY <1>5 DEF LoadsAgent, LoadFails, PresetsArrive, ModelsArrive
<1>6. CASE EditsElsewhere
  BY <1>6 DEF EditsElsewhere
<1>7. CASE UNCHANGED formVars
  BY <1>7 DEF formVars
<1>. QED  BY <1>1, <1>2, <1>3, <1>4, <1>5, <1>6, <1>7 DEF FormNext

\* What is drawn of a form fits, whatever the form.
LEMMA DrawnFits ==
  ASSUME NEW f, f.kind \in {"agent", "edit", "room"}, height \in Nat, FormAssumption, ChipLines <= 3
  PROVE  LET d == Drawn(f)  at == Current(FormRows(f), f.focus) IN
         /\ height >= 13 => d.lines <= (height * 8) \div 10
         /\ at > 0 => FormRows(f)[at].kind # "note" /\ d.from <= at /\ at <= d.to
<1>1. PICK rows : rows = FormRows(f)
  OBVIOUS
<1>2. rows \in Seq(Row) /\ 1 \in 1 .. Len(rows) /\ rows[1].lines <= 3
  BY <1>1, RowsHeight
<1>3. Len(rows) \in Nat /\ DOMAIN rows = 1 .. Len(rows)
  BY <1>2
<1>4. PICK at : at = Current(rows, f.focus)
  OBVIOUS
<1>5. PICK focus : focus = IF at = 0 THEN 1 ELSE at
  OBVIOUS
<1>6. focus \in 1 .. Len(rows) /\ rows[focus].lines <= 3
      /\ (at # 0 => at = focus /\ rows[at].kind # "note")
  <2>1. CASE Focusable(rows) = {}
    <3>1. at = 0
      BY <2>1, <1>4, <1>1 DEF Current
    <3>. QED  BY <3>1, <1>2, <1>5
  <2>2. CASE Focusable(rows) # {}
    <3>1. at \in Focusable(rows)
      BY <2>2, <1>1, <1>3, <1>4, CurrentRow
    <3>2. at \in 1 .. Len(rows) /\ rows[at].kind # "note"
      BY <3>1, <1>3 DEF Focusable
    <3>3. rows[at] \in Row
      BY <3>2, <1>2
    <3>4. rows[at].lines <= 3
      BY <3>2, <3>3, RowLines
    <3>5. at # 0 /\ focus = at
      BY <3>2, <1>3, <1>5
    <3>. QED  BY <3>2, <3>4, <3>5
  <2>. QED  BY <2>1, <2>2
<1>7. PICK e \in {0, 1} : e = IF f.error THEN 1 ELSE 0
  OBVIOUS
<1>8. PICK share \in Nat : share = (height * 8) \div 10 /\ (height >= 13 => share >= 10)
  <2>1. (height * 8) \div 10 \in Nat /\ (height >= 13 => (height * 8) \div 10 >= 10)
    OBVIOUS
  <2>. QED  BY <2>1
<1>9. PICK budget \in Nat : budget = FormBudget(f.error)
                            /\ budget = IF share - 6 - e < 3 THEN 3 ELSE share - 6 - e
  <2>1. FormBudget(f.error) = IF share - 6 - e < 3 THEN 3 ELSE share - 6 - e
    <3>1. CASE f.error
      BY <1>7, <1>8, <3>1 DEF FormBudget
    <3>2. CASE ~f.error
      BY <1>7, <1>8, <3>2 DEF FormBudget
    <3>. QED  BY <3>1, <3>2
  <2>2. (IF share - 6 - e < 3 THEN 3 ELSE share - 6 - e) \in Nat
    BY <1>7, <1>8
  <2>. QED  BY <2>1, <2>2
<1>10. rows[focus].lines <= budget
  <2>1. rows[focus] \in Row
    BY <1>2, <1>6
  <2>2. rows[focus].lines \in Nat
    BY <2>1, RowLines
  <2>. QED  BY <2>2, <1>6, <1>9
<1>11. Fits(rows, focus, budget, Window(rows, focus, budget))
  BY <1>2, <1>6, <1>10, WindowFits
<1>12. PICK a \in 1 .. focus, b \in focus .. Len(rows) :
         Window(rows, focus, budget) = <<a, b>> /\ LinesOf(rows, a, b) <= budget
  BY <1>11 DEF Fits
<1>13. PICK lines \in Int : lines = LinesOf(rows, a, b) /\ lines <= budget
  <2>1. PICK u \in [0 .. Len(rows) -> Nat] :
           \A x, y : LinesOf(rows, x, y) = u[y] - u[x - 1]
    BY <1>2, LinesSum
  <2>2. b \in 0 .. Len(rows) /\ a - 1 \in 0 .. Len(rows)
    BY <1>3, <1>6
  <2>3. u[b] \in Nat /\ u[a - 1] \in Nat
    BY <2>2
  <2>4. LinesOf(rows, a, b) = u[b] - u[a - 1]
    BY <2>1
  <2>5. LinesOf(rows, a, b) \in Int
    BY <2>3, <2>4
  <2>. QED  BY <2>5, <1>12
<1>14. PICK more \in {0, 2} : more = IF a > 1 \/ b < Len(rows) THEN 2 ELSE 0
  OBVIOUS
<1>15. PICK w : w = Window(rows, focus, budget) /\ w[1] = a /\ w[2] = b
  BY <1>12
<1>16. PICK n \in Int : n = lines + 4 + e + more
  OBVIOUS
<1>17. Drawn(f) = [from |-> a, to |-> b, lines |-> n]
  <2>1. w = Window(FormRows(f), IF Current(FormRows(f), f.focus) = 0 THEN 1
                                ELSE Current(FormRows(f), f.focus), FormBudget(f.error))
    BY <1>1, <1>4, <1>5, <1>9, <1>15
  <2>2. Drawn(f) = [from |-> w[1], to |-> w[2],
                    lines |-> LinesOf(rows, w[1], w[2]) + 4 + (IF f.error THEN 1 ELSE 0)
                              + (IF w[1] > 1 \/ w[2] < Len(rows) THEN 2 ELSE 0)]
    BY <1>1, <2>1 DEF Drawn
  <2>3. LinesOf(rows, w[1], w[2]) + 4 + (IF f.error THEN 1 ELSE 0)
          + (IF w[1] > 1 \/ w[2] < Len(rows) THEN 2 ELSE 0) = n
    BY <1>7, <1>13, <1>14, <1>15, <1>16
  <2>. QED  BY <1>15, <2>2, <2>3
<1>18. height >= 13 => n <= share
  <2>. SUFFICES ASSUME height >= 13 PROVE n <= share
    OBVIOUS
  <2>1. share >= 10 /\ e <= 1 /\ e >= 0 /\ more <= 2
    BY <1>8
  <2>2. budget = share - 6 - e
    BY <2>1, <1>9
  <2>. QED  BY <2>1, <2>2, <1>13, <1>16
<1>19. PICK d : d = Drawn(f) /\ d.from = a /\ d.to = b /\ d.lines = n
  BY <1>17
<1>20. at > 0 => rows[at].kind # "note" /\ a <= at /\ at <= b
  BY <1>3, <1>6
<1>. QED  BY <1>1, <1>4, <1>8, <1>18, <1>19, <1>20

LEMMA FormFitsIt ==
  ASSUME FormInv, height \in Nat, FormAssumption, ChipLines <= 3
  PROVE  FormFits
<1>. SUFFICES ASSUME onTop > 0
     PROVE  LET d == Drawn(Top)  at == Current(FormRows(Top), Top.focus) IN
            /\ height >= 13 => d.lines <= (height * 8) \div 10
            /\ at > 0 => FormRows(Top)[at].kind # "note" /\ d.from <= at /\ at <= d.to
  BY DEF FormFits
<1>1. Top.kind \in {"agent", "edit", "room"}
  BY TopIsForm DEF FormInv, IsForm
<1>. QED  BY <1>1, DrawnFits

\* While the user waits for the answer, nobody else edits the agent and no answer is
\* lost, a form makes what it showed, once, says so truly, takes down no other screen,
\* is busy only while it waits, and leaves the rest of the agent alone; and if the chips
\* of the tools wrap to three lines at most, it fits the screen, the row with the focus
\* drawn.
THEOREM FormTellsWhatItDoes ==
  ASSUME ~Hurried, ~Elsewhere, ~Drops, ChipLines <= 3
  PROVE  FormSpec => []FormTells
<1>. DEFINE Inv == FormInv /\ height \in Nat
<1>1. FormInit => Inv
  BY FormAssumption, InitForm DEF FormInit, FormAssumption
<1>2. Inv /\ [FormNext]_formVars => Inv'
  BY FormAssumption, FormStep, FormInvKept, HeightKept
<1>3. Inv => FormTells
  BY FormAssumption, FormDoesIt, FormFitsIt DEF FormTells
<1>. QED  BY <1>1, <1>2, <1>3, PTL DEF FormSpec
=============================================================================
