----------------------------- MODULE PresetDrift -----------------------------
(***************************************************************************)
(* A preset is a line-up kept in a file; a room born from it watches how   *)
(* its live roster drifts away: a badge, one notice per deviation, pull    *)
(* (apply) to go back and push to save the live roster as the preset.      *)
(* A line-up is a value: two rosters are equal when their personas, with   *)
(* seed fields stripped, are the same.  A model that is not available is   *)
(* replaced when a preset is loaded, which makes it another line-up.       *)
(***************************************************************************)
EXTENDS Naturals

CONSTANTS
  Lineups, Seed,      \* line-ups, and the one a room is seeded with
  Downgraded(_),      \* what a line-up is once its unavailable models are replaced
  DriftOverlaps,      \* the roster may change while a preset is written or applied
  Authored            \* the file may be written or deleted from elsewhere

\* Bounds of the model: edits of the roster, reboots.
CONSTANTS MaxDriftEdits, MaxReboots

ASSUME LineupsAssumption ==
  Seed \in Lineups /\ \A l \in Lineups : Downgraded(l) \in Lineups
ASSUME DriftSwitchesAssumption == DriftOverlaps \in BOOLEAN /\ Authored \in BOOLEAN
ASSUME DriftBoundsAssumption == MaxDriftEdits \in Nat /\ MaxReboots \in Nat

VARIABLES
  file,            \* the preset on disk, or Nothing
  current,         \* the roster of the room
  born,            \* convSourcePreset is set: the room is from the preset
  baseline,        \* presetBaseline, or Nothing
  latched,         \* driftLatched
  saved,           \* the conversation on disk: its roster and its provenance
  presetOp,        \* a load, pull or push that waits
  driftEdits, reboots

\* What only the properties read.
VARIABLES
  changed,         \* the roster or the file changed since they were made one
  announced,       \* the deviation the room is in was announced
  repeated         \* a deviation was announced twice

room == <<current, born, baseline, latched>>
driftGhosts == <<changed, announced, repeated>>
driftVars == <<file, room, saved, presetOp, driftEdits, reboots, driftGhosts>>

Nothing == "nothing"
NoPresetOp == [at |-> "free"]
Undisturbed == presetOp = NoPresetOp \/ DriftOverlaps

Dormant == ~born \/ baseline = Nothing
Deviates == ~Dormant /\ current # baseline

DriftInit ==
  /\ file \in Lineups \union {Nothing}
  /\ current = Seed /\ born = FALSE /\ baseline = Nothing /\ latched = FALSE
  /\ saved = [roster |-> Seed, born |-> FALSE]
  /\ presetOp = NoPresetOp /\ driftEdits = 0 /\ reboots = 0
  /\ changed = FALSE /\ announced = FALSE /\ repeated = FALSE

SaveCurrent == saved' = [roster |-> current', born |-> born']

(* ---- the roster changes --------------------------------------------------- *)

\* evaluateDrift(), on every change of the roster: the notice is posted when
\* the room leaves the preset, and armed again when it is back.
LatchNever(deviates) == FALSE
Latch(deviates) == deviates

Notices == Deviates' /\ ~latched

Edit(l) ==
  /\ Undisturbed
  /\ driftEdits < MaxDriftEdits
  /\ l # current
  /\ driftEdits' = driftEdits + 1
  /\ current' = l
  /\ UNCHANGED <<born, baseline>>
  /\ latched' = Latch(Deviates')
  /\ SaveCurrent
  /\ changed' = TRUE
  /\ repeated' = (repeated \/ (Notices /\ announced))
  /\ announced' = (Deviates' /\ (announced \/ Notices))
  /\ UNCHANGED <<file, presetOp, reboots>>

(* ---- load, pull, push ------------------------------------------------------ *)

\* doLoadPreset(), doApplyPreset(): the file is read, a missing one is refused;
\* then the room is emptied, which waits.
LoadsPreset ==
  /\ presetOp = NoPresetOp
  /\ file # Nothing
  /\ presetOp' = [at |-> "load", lineup |-> Downgraded(file), read |-> file]
  /\ UNCHANGED <<file, room, saved, driftEdits, reboots, driftGhosts>>

\* applyPreset() stamps the room before it replaces its roster.
ApplyPreset ==
  /\ presetOp = NoPresetOp
  /\ file # Nothing
  /\ presetOp' = [at |-> "apply", lineup |-> Downgraded(file), read |-> file]
  /\ born' = TRUE /\ baseline' = Downgraded(file) /\ latched' = FALSE
  /\ announced' = FALSE
  /\ UNCHANGED <<file, current, saved, driftEdits, reboots, changed, repeated>>

\* The roster is replaced; a load stamps the room only now, and both save it.
PresetLandsUnsaved ==
  /\ presetOp.at \in {"load", "apply"}
  /\ current' = presetOp.lineup /\ born' = TRUE /\ baseline' = presetOp.lineup
  /\ latched' = (presetOp.at = "apply" /\ latched)
  /\ saved' = [roster |-> current', born |-> FALSE]
  /\ changed' = (file # presetOp.read) /\ announced' = FALSE
  /\ presetOp' = NoPresetOp
  /\ UNCHANGED <<file, driftEdits, reboots, repeated>>

PresetLands ==
  /\ presetOp.at \in {"load", "apply"}
  /\ current' = presetOp.lineup /\ born' = TRUE /\ baseline' = presetOp.lineup
  /\ latched' = (presetOp.at = "apply" /\ latched)
  /\ SaveCurrent
  /\ changed' = (file # presetOp.read) /\ announced' = FALSE
  /\ presetOp' = NoPresetOp
  /\ UNCHANGED <<file, driftEdits, reboots, repeated>>

\* doPushPreset() only accepts the preset the room is from; the roster is
\* snapshot, and written.
Push ==
  /\ presetOp = NoPresetOp
  /\ born
  /\ presetOp' = [at |-> "push", lineup |-> current, read |-> file]
  /\ UNCHANGED <<file, room, saved, driftEdits, reboots, driftGhosts>>

\* rebaselineToCurrentRoster(), once the file is written.
KeptBaseline(written) == IF baseline = Nothing THEN written ELSE baseline
NewBaseline(written) == current

PushLands ==
  /\ presetOp.at = "push"
  /\ file' = presetOp.lineup
  /\ baseline' = NewBaseline(presetOp.lineup) /\ latched' = FALSE
  /\ UNCHANGED <<current, born>>
  /\ SaveCurrent
  /\ changed' = FALSE /\ announced' = FALSE
  /\ presetOp' = NoPresetOp
  /\ UNCHANGED <<driftEdits, reboots, repeated>>

\* A discussion started with the same roster is from no preset.
NewConversation ==
  /\ presetOp = NoPresetOp
  /\ born' = FALSE /\ baseline' = Nothing /\ latched' = FALSE
  /\ UNCHANGED current
  /\ SaveCurrent
  /\ announced' = FALSE
  /\ UNCHANGED <<file, presetOp, driftEdits, reboots, changed, repeated>>

\* The file is composed, saved over from another room, or deleted.
Author(l) ==
  /\ Authored
  /\ l # file
  /\ file' = l
  /\ changed' = TRUE
  /\ UNCHANGED <<room, saved, presetOp, driftEdits, reboots, announced, repeated>>

(* ---- reboot ---------------------------------------------------------------- *)

\* The room is opened again from the saved conversation; the baseline is read
\* from the file, and a deviation that is there already is not announced.
LatchDisarmed(deviates) == FALSE
LatchAtReboot(deviates) == deviates

Reboot ==
  /\ reboots < MaxReboots
  /\ reboots' = reboots + 1
  /\ current' = saved.roster /\ born' = saved.born
  /\ baseline' = IF saved.born THEN file ELSE Nothing
  /\ latched' = LatchAtReboot(Deviates')
  /\ announced' = Deviates'
  /\ presetOp' = NoPresetOp
  /\ UNCHANGED <<file, saved, driftEdits, changed, repeated>>

(* ---- specification ---------------------------------------------------------- *)

DriftNext ==
  \/ \E l \in Lineups : Edit(l)
  \/ \E l \in Lineups \union {Nothing} : Author(l)
  \/ LoadsPreset \/ ApplyPreset \/ PresetLands \/ Push \/ PushLands
  \/ NewConversation
  \/ Reboot

DriftSpec == DriftInit /\ [][DriftNext]_driftVars

(* ---- properties -------------------------------------------------------------- *)

\* The state has the types of the fields it models.
DriftTypeOK ==
  /\ file \in Lineups \union {Nothing} /\ current \in Lineups
  /\ born \in BOOLEAN /\ baseline \in Lineups \union {Nothing}
  /\ latched \in BOOLEAN
  /\ saved \in [roster : Lineups, born : BOOLEAN]
  /\ presetOp = NoPresetOp \/ presetOp \in [at : {"load", "apply", "push"}, lineup : Lineups,
                            read : Lineups \union {Nothing}]

\* One notice per deviation: the room is back on the preset before it is told
\* again that it left, reboots included.
NoticeOnce == ~repeated

\* No phantom drift: with nobody having edited the roster or the file since a
\* load, a pull or a push, the badge is off, after a reboot too.
NoPhantomDrift == (born /\ ~changed /\ presetOp = NoPresetOp) => ~Deviates

\* Provenance lasts: a room that shows the badge of a preset is a room that
\* shows it after a reboot, as long as the file is there.
ProvenanceLasts == (presetOp = NoPresetOp /\ file # Nothing) => saved = [roster |-> current, born |-> born]

\* What the room says of its preset is true, told once, and survives a reboot.
DriftTold == NoPhantomDrift /\ ProvenanceLasts /\ NoticeOnce
=============================================================================
