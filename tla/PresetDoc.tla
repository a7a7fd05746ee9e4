----------------------------- MODULE PresetDoc -----------------------------
(* A preset as a document: composed member by member in a terminal, written  *)
(* whole by PUT or snapshot from a live roster, read back into a roster.  A  *)
(* role the program ships owns its prompt and its skills: a document leaves  *)
(* them out and a load fills them in, from the build that runs by then.      *)
(* One document name, one composer and one room that loads it.               *)
EXTENDS Naturals, Sequences, SequencesExt, FiniteSets, FiniteSetsExt

CONSTANTS
  Roles,             \* ids of SEED_PERSONAS
  Customs,           \* ids that are nobody's role
  ShippedSkills,     \* per role, its `skills` in the older and the newer build
  NoDoc,             \* no file, no composer, no card, no preset behind a room
  Promptless,        \* a member without a role may be left without a prompt
  Emptied,           \* the last agent of a room may be kicked
  UpgradesLive       \* a room is kept over the restart into a newer build

CONSTANTS MaxMembers, MaxChanges   \* bounds of the model

\* An id is a sequence of words; an id of one word can be numbered.
ASSUME PresetIdsAssumption ==
  /\ Roles \intersect Customs = {} /\ Roles # {} /\ IsFiniteSet(Roles)
  /\ \A id \in Roles \union Customs : id \in Seq(ToSet(id))
  /\ \E c \in Customs : Len(c) = 1
\* "[]" and "own" are no list that a build ships.
ASSUME ShippedSkillsAssumption ==
  ShippedSkills \in [Roles -> [1..2 -> STRING \ {"[]", "own"}]]
ASSUME PresetSwitchesAssumption ==
  {Promptless, Emptied, UpgradesLive} \subseteq BOOLEAN

VARIABLES
  build,             \* the build that runs: 1, then 2
  file,              \* presets/<name>.json
  composer,          \* the composer's `personas`, its source's gates, its name
  card,              \* the member card on top of it
  live,              \* a room's personas and gates, and the preset behind them
  changes

presetVars == <<build, file, composer, card, live, changes>>

\* Absent: the key is not in the document.  "[]" is a list without a skill.
Prompts == {"absent", "shipped in 1", "shipped in 2", "own"}
SkillLists == (UNION {Range(ShippedSkills[r]) : r \in Roles}) \union {"absent", "[]", "own"}

IdsOf(list) == {list[i].id : i \in DOMAIN list}
Distinct(list) == Cardinality(IdsOf(list)) = Len(list)

-----------------------------------------------------------------------------
(* What a build owns *)

ShippedPrompt == <<"shipped in 1", "shipped in 2">>[build]

SEED_PERSONAS ==
  [r \in Roles |-> [id |-> r, prompt |-> ShippedPrompt, skills |-> ShippedSkills[r][build]]]

\* stripSeedFields() drops a role's prompt whatever it says, and its skills when
\* they are what the build ships.
Strip(p) ==
  IF p.id \notin Roles THEN p
  ELSE [p EXCEPT !.prompt = "absent",
                 !.skills = IF @ = SEED_PERSONAS[p.id].skills THEN "absent" ELSE @]

stripSeedFields(list) == [i \in DOMAIN list |-> Strip(list[i])]

\* Mutant: an empty list is taken for one that is missing.
RehydrateEmpty(p) ==
  IF p.id \notin Roles THEN p
  ELSE [p EXCEPT !.prompt = IF @ = "absent" THEN ShippedPrompt ELSE @,
                 !.skills = IF @ \in {"absent", "[]"} THEN SEED_PERSONAS[p.id].skills ELSE @]

\* rehydrateSeedFields() fills in what a role's member leaves out.
Rehydrate(p) ==
  IF p.id \notin Roles THEN p
  ELSE [p EXCEPT !.prompt = IF @ = "absent" THEN ShippedPrompt ELSE @,
                 !.skills = IF @ = "absent" THEN SEED_PERSONAS[p.id].skills ELSE @]

rehydrateSeedFields(list) == [i \in DOMAIN list |-> Rehydrate(list[i])]

\* rosterDeviatesFromPreset() compares by id, whatever the order.
Deviates(current, preset) ==
  ToSet(stripSeedFields(current)) # ToSet(stripSeedFields(preset))

\* seedDefaultPresets() writes a default that is missing.
DefaultDoc ==
  [members |-> stripSeedFields(SetToSeq(Range(SEED_PERSONAS))), gates |-> FALSE]

-----------------------------------------------------------------------------

PresetInit ==
  /\ build = 1
  /\ file = DefaultDoc
  /\ composer = NoDoc /\ card = NoDoc /\ live = NoDoc
  /\ changes = 0

Spends == changes < MaxChanges /\ changes' = changes + 1

Prompted(list) ==
  \A i \in DOMAIN list : list[i].id \in Roles \/ list[i].prompt # "absent"

-----------------------------------------------------------------------------
(* The composer *)

members == composer.members

Composing == composer # NoDoc /\ card = NoDoc
Roomy == Len(members) < MaxMembers
Keeps(list) == composer' = [composer EXCEPT !.members = list]

\* The same id with the first number that is free.
uniqueId(id, taken) ==
  IF id \notin taken THEN id
  ELSE Append(id, Min({n \in 2..(2 + Cardinality(taken)) : Append(id, n) \notin taken}))

blankMember ==
  [id |-> uniqueId(CHOOSE c \in Customs : Len(c) = 1, IdsOf(members)),
   prompt |-> "absent", skills |-> "absent"]

\* A template carries neither a prompt nor skills.
memberFromTemplate(r) ==
  [id |-> uniqueId(r, IdsOf(members)), prompt |-> "absent", skills |-> "absent"]

duplicateMember(i) ==
  InsertAt(members, i + 1,
           [members[i] EXCEPT !.id = uniqueId(members[i].id, IdsOf(members))])

moveMember(i, j) ==
  LET rest == RemoveAt(members, i) IN InsertAt(rest, j, members[i])

\* A new preset, a document as it is, or a copy of it that waits for a name.
OpensComposer ==
  /\ composer = NoDoc
  /\ composer' \in {[members |-> <<>>, gates |-> FALSE, named |-> FALSE]}
                   \union (IF file = NoDoc THEN {}
                           ELSE {[members |-> file.members, gates |-> file.gates, named |-> n]
                                   : n \in BOOLEAN})
  /\ UNCHANGED <<build, file, card, live, changes>>

\* The card holds the ids of the others as they are when it opens.
CardFor(list, i) ==
  [at |-> i, was |-> list[i], taken |-> IdsOf(RemoveAt(list, i))]

editMember(i) ==
  /\ Composing /\ card' = CardFor(members, i)
  /\ Spends /\ UNCHANGED <<build, file, composer, live>>

addMember(p) ==
  /\ Composing /\ Roomy /\ Spends
  /\ Keeps(Append(members, p))
  /\ card' = CardFor(Append(members, p), Len(members) + 1)
  /\ UNCHANGED <<build, file, live>>

\* What the card's rows can make of a member: another id, a prompt or none, a
\* list of skills, an empty one (a lone comma) or none (inherit).
Edited(p) ==
  [id : {p.id} \union Roles \union Customs, prompt : {p.prompt, "own", "absent"},
   skills : {p.skills, "own", "[]", "absent"}]

\* finish(), by esc as by Done, keeps the card open over an id that is taken.
CardDone ==
  /\ card # NoDoc
  /\ \E p \in Edited(card.was) :
       /\ p.id \notin card.taken
       /\ Keeps(ReplaceAt(members, card.at, p))
  /\ card' = NoDoc
  /\ UNCHANGED <<build, file, live, changes>>

\* d, x, K and J.
Rearranges ==
  /\ Composing /\ Spends
  /\ \E i \in DOMAIN members :
       \/ Roomy /\ Keeps(duplicateMember(i))
       \/ Keeps(RemoveAt(members, i))
       \/ \E j \in {i - 1, i + 1} \intersect DOMAIN members : Keeps(moveMember(i, j))
  /\ UNCHANGED <<build, file, card, live>>

NamesIt ==
  /\ Composing /\ ~composer.named
  /\ composer' = [composer EXCEPT !.named = TRUE]
  /\ UNCHANGED <<build, file, card, live, changes>>

Discards ==
  /\ Composing /\ composer' = NoDoc
  /\ UNCHANGED <<build, file, card, live, changes>>

-----------------------------------------------------------------------------
(* Writing it *)

\* parsePresetFile() refuses an empty document and one with an id twice.
parsePresetFile(list) == list # <<>> /\ Distinct(list)

Stored(list, gates) == [members |-> stripSeedFields(list), gates |-> gates]

\* s in the composer: it refuses a preset without a name or a member, and the
\* gates of the document it was opened on are kept.
Saves ==
  /\ Composing /\ composer.named /\ members # <<>>
  /\ Promptless \/ Prompted(members)
  /\ parsePresetFile(members)
  /\ file' = Stored(members, composer.gates)
  /\ composer' = NoDoc
  /\ UNCHANGED <<build, card, live, changes>>

\* A document another program wrote, with gates.
Authored ==
  LET list == [id : Roles \union Customs, prompt : {"absent", "own"},
               skills : {"absent", "[]", "own"}]
  IN  BoundedSeq(list, 2)

AuthorsDoc ==
  /\ Spends
  /\ \E list \in Authored :
       /\ Promptless \/ Prompted(list)
       /\ IF parsePresetFile(list) THEN file' = Stored(list, TRUE) ELSE file' = file
  /\ UNCHANGED <<build, composer, card, live>>

\* POST /presets snapshots a roster; push does so over the room's own preset
\* and makes that what the room is compared with.
doSavePreset ==
  /\ live # NoDoc
  /\ file' = Stored(live.members, live.gates)
  /\ UNCHANGED <<build, composer, card, live, changes>>

doPushPreset ==
  /\ live # NoDoc /\ live.from # NoDoc
  /\ file' = Stored(live.members, live.gates)
  /\ live' = [live EXCEPT !.from = file', !.clean = TRUE, !.loaded = FALSE]
  /\ UNCHANGED <<build, composer, card, changes>>

deletePreset ==
  /\ file # NoDoc /\ file' = NoDoc /\ Spends
  /\ UNCHANGED <<build, composer, card, live>>

-----------------------------------------------------------------------------
(* Reading it *)

\* Load and apply: a document without a member would leave a room without one.
doLoadPreset ==
  /\ file # NoDoc /\ file.members # <<>>
  /\ live' = [members |-> rehydrateSeedFields(file.members), gates |-> file.gates,
              from |-> file, clean |-> TRUE, loaded |-> TRUE]
  /\ UNCHANGED <<build, file, composer, card, changes>>

\* PATCH, POST and DELETE of a participant: the prompt of one, one more (which
\* must have a prompt), one less.
EditsRoster ==
  /\ live # NoDoc /\ Spends
  /\ \/ \E i \in DOMAIN live.members :
          \/ live' = [live EXCEPT !.members[i].prompt = "own", !.clean = FALSE, !.loaded = FALSE]
          \/ /\ Emptied \/ Len(live.members) > 1
             /\ live' = [live EXCEPT !.members = RemoveAt(@, i), !.clean = FALSE, !.loaded = FALSE]
     \/ \E id \in (Roles \union Customs) \ IdsOf(live.members) :
          /\ Len(live.members) < MaxMembers
          /\ live' = [live EXCEPT !.clean = FALSE, !.loaded = FALSE,
                        !.members = Append(@, [id |-> id, prompt |-> "own", skills |-> "absent"])]
  /\ UNCHANGED <<build, file, composer, card>>

\* The server is stopped and started again as a newer build: a default that was
\* deleted is written again, a room comes back with the personas it was saved
\* with and is compared with the document as it is now.
Upgrades ==
  /\ build = 1 /\ build' = 2
  /\ file' = IF file = NoDoc THEN DefaultDoc' ELSE file
  /\ live' = IF ~UpgradesLive \/ live = NoDoc THEN NoDoc
             ELSE LET same == live.from = file
                  IN  [live EXCEPT !.clean = @ /\ same, !.loaded = @ /\ same]
  /\ UNCHANGED <<composer, card, changes>>

PresetNext ==
  \/ OpensComposer \/ CardDone \/ Rearranges \/ NamesIt \/ Discards \/ Saves
  \/ AuthorsDoc \/ doSavePreset \/ doPushPreset \/ deletePreset
  \/ doLoadPreset \/ EditsRoster \/ Upgrades
  \/ Composing /\ addMember(blankMember)
  \/ \E r \in Roles : Composing /\ addMember(memberFromTemplate(r))
  \/ Composing /\ \E i \in DOMAIN members : editMember(i)

PresetSpec == PresetInit /\ [][PresetNext]_presetVars

-----------------------------------------------------------------------------

Member == [id : Seq((UNION {ToSet(r) : r \in Roles \union Customs}) \union Nat),
           prompt : Prompts, skills : SkillLists]

PresetTypeOK ==
  /\ build \in {1, 2} /\ changes \in 0..MaxChanges
  /\ file # NoDoc => file.members \in Seq(Member) /\ file.gates \in BOOLEAN
  /\ composer # NoDoc => members \in Seq(Member) /\ composer.named \in BOOLEAN
  /\ live # NoDoc => live.members \in Seq(Member) /\ live.loaded \in BOOLEAN
  /\ card # NoDoc => composer # NoDoc

\* A document on disk can be loaded: it has members, no two of one id.
DocSound == file # NoDoc => file.members # <<>> /\ Distinct(file.members)

\* It carries no copy of what a role owns: no prompt, and no list of skills
\* that some build shipped ("a preset never carries a stale copy").
NoStaleCopy ==
  file # NoDoc =>
    \A i \in DOMAIN file.members :
      LET p == file.members[i] IN
      p.id \in Roles =>
        p.prompt = "absent" /\ p.skills \notin Range(ShippedSkills[p.id]) \ {"absent"}

\* Every agent of a room knows its role.
RolesKnown == live # NoDoc => \A i \in DOMAIN live.members : live.members[i].prompt # "absent"

\* A roster nobody edited since it was loaded or pushed does not read as
\* drifted.  Loaded, it has what the running build ships and keeps what its
\* document overrides.
LoadedTrue ==
  live # NoDoc =>
    /\ live.clean => ~Deviates(live.members, live.from.members)
    /\ live.loaded => \A i \in DOMAIN live.members :
         LET p == live.members[i]  doc == live.from.members[i] IN
         /\ p.id \in Roles => p.prompt = ShippedPrompt
         /\ p.skills = (IF doc.skills = "absent" /\ p.id \in Roles
                        THEN ShippedSkills[p.id][build] ELSE doc.skills)
         /\ live.gates = live.from.gates

\* What is written, upgraded, renamed and read back is what a preset promises.
PresetTrue == DocSound /\ NoStaleCopy /\ RolesKnown /\ LoadedTrue
=============================================================================
