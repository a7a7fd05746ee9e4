-------------------------------- MODULE Form --------------------------------
(* The wizards of the terminal clients: a new agent, an agent's identity, a    *)
(* new room.  The pi-tui client has one engine for the three and cuts what it    *)
(* draws to the height of the terminal; the Ink client has one component each.   *)
(* What a form sends is answered later, when the user may have moved on.       *)
EXTENDS Integers, Sequences, FiniteSets, SequencesExt

CONSTANTS
  \* @type: Set(Str);   what a field may hold, but for nothing
  Words,
  \* @type: Seq(Str);   ALL_TOOLS
  Chips,
  \* @type: Seq(Str);   PALETTE
  Tints,
  \* @type: Seq(Str);   the presets the server has saved
  SavedPresets,
  \* @type: Seq(Str);   the models the server knows
  KnownModels,
  \* @type: Int;        the agents of a preset
  RosterSize,
  \* @type: Int;        the lines the tools' chips wrap to
  ChipLines,
  \* @type: Set(Int);   heights of terminals
  Heights,
  \* @type: Bool;       TRUE: the user goes on before what was sent is answered
  Hurried,
  \* @type: Bool;       TRUE: somebody else edits the agent while a form of it is open
  Elsewhere,
  \* @type: Bool;       TRUE: an answer may be lost after the server did what was asked
  Drops,
  \* @type: Int;        bound: forms opened
  MaxForms,
  \* @type: Int;        bound: changes of fields, and edits elsewhere
  MaxEdits,
  \* @type: Int;        bound: requests sent
  MaxRequests

ASSUME FormAssumption ==
  /\ RosterSize \in Nat /\ ChipLines \in Nat \ {0} /\ Heights \subseteq Nat
  /\ MaxForms \in Nat /\ MaxEdits \in Nat /\ MaxRequests \in Nat
  /\ Hurried \in BOOLEAN /\ Elsewhere \in BOOLEAN /\ Drops \in BOOLEAN
  /\ {Chips, Tints, SavedPresets, KnownModels} \subseteq Seq(STRING)
  /\ Chips # <<>> /\ Tints # <<>>

VARIABLES
  frontEnd,   \* "pi" or "ink"
  height,     \* the rows of the terminal
  forms,      \* the forms opened so far, with what their closures hold
  onTop,      \* the form on screen; 0: none, -1: some other overlay
  sentOut,    \* requests not answered yet
  edited,     \* the agent that is edited, as the server has it
  makes,      \* what the server did, with what the form showed when it was asked (history)
  told,       \* what the last notice says, and of what (history)
  shut,       \* an answer took down what was not its form (history)
  reverted,   \* a save changed what the user had left alone (history)
  edits       \* counter of the bound

formVars == <<frontEnd, height, forms, onTop, sentOut, edited, makes, told, shut, reverted, edits>>

Unfilled == ""
Texts == {"name", "prompt", "icon", "workdir", "goal"}
Person == [name |-> "n0", icon |-> "i0", colour |-> Tints[Len(Tints)], tools |-> {Chips[1]}]

NewForm(kind) ==
  [kind |-> kind, loaded |-> kind # "edit", focus |-> 1, chip |-> 1,
   text |-> [t \in Texts |-> Unfilled], tools |-> IF kind = "agent" THEN {Chips[1]} ELSE {},
   own |-> Head(Tints), colours |-> Tail(Tints), colour |-> 0,
   presets |-> <<>>, preset |-> 0, models |-> <<>>, model |-> 0,
   busy |-> FALSE, error |-> FALSE, picking |-> "no", touched |-> {}]

FormInit ==
  /\ frontEnd \in {"pi", "ink"} /\ height \in (IF frontEnd = "pi" THEN Heights ELSE {0})
  /\ forms = <<>> /\ onTop = 0 /\ sentOut = {} /\ edited = Person
  /\ makes = <<>> /\ told = [said |-> <<>>, did |-> <<>>] /\ shut = FALSE /\ reverted = FALSE
  /\ edits = 0

\* ---- What a form shows and what it sends --------------------------------------

\* The preset the form shows, the two choices ahead of the saved ones left out.
SelectedPresetAhead(f) ==
  IF f.preset > 1 /\ f.preset < Len(f.presets) + 1 THEN f.presets[f.preset] ELSE "default"

PresetLabels(f) == <<"default", "solo">> \o f.presets
ModelLabels(f) == <<"default">> \o f.models
IsSolo(f) == f.kind = "room" /\ f.preset = 1
SelectedPreset(f) == IF f.preset > 1 THEN f.presets[f.preset - 1] ELSE "default"
\* The palette's first place is the colour the agent has.
ColourOf(f) == IF f.colour = 0 THEN f.own ELSE f.colours[f.colour]
ModelRef(f) == IF f.model > 0 THEN f.models[f.model] ELSE "default"

\* previewPersonas: the agents of the chosen preset, cut to what fits.
PreviewLines ==
  LET most == IF height < 15 THEN 2 ELSE IF height > 21 THEN 8 ELSE height - 13
  IN IF RosterSize > most THEN most + 1 ELSE RosterSize

FieldRow(label, kind) == [label |-> label, kind |-> kind, lines |-> 1]
PreviewRows(f) ==
  IF IsSolo(f) THEN <<FieldRow("", "note"), FieldRow("model", "cycle")>>
  ELSE IF SelectedPreset(f) = "default" \/ PreviewLines = 0 THEN <<>>
  ELSE <<[label |-> "", kind |-> "note", lines |-> PreviewLines]>>

ToolRow == [label |-> "tools", kind |-> "chips", lines |-> ChipLines]
AgentRows(f) == <<FieldRow("name", "text"), FieldRow("prompt", "text"), ToolRow,
                  FieldRow("icon", "text"), FieldRow("create", "action")>>
EditRows(f) ==
  IF ~f.loaded THEN <<FieldRow("", "note")>>
  ELSE <<FieldRow("name", "text"), FieldRow("icon", "text"), FieldRow("colour", "cycle"), ToolRow,
         FieldRow("save", "action")>>
RoomRows(f) ==
  <<FieldRow("name", "text"), FieldRow("preset", "cycle")>> \o PreviewRows(f)
  \o <<FieldRow("workdir", "text"), FieldRow("goal", "text"), FieldRow("create", "action")>>
\* RoomForm.tsx: its previews are no rows.
RowKeys(f) ==
  <<FieldRow("name", "text"), FieldRow("preset", "cycle")>>
  \o (IF IsSolo(f) THEN <<FieldRow("model", "cycle")>> ELSE <<>>)
  \o <<FieldRow("workdir", "text"), FieldRow("goal", "text"), FieldRow("create", "action")>>

FormRows(f) ==
  CASE f.kind = "agent" -> AgentRows(f)
    [] f.kind = "edit" -> EditRows(f)
    [] OTHER -> IF frontEnd = "ink" THEN RowKeys(f) ELSE RoomRows(f)

\* What the user reads on the form.
Filled(f) ==
  [text |-> f.text, tools |-> f.tools,
   colour |-> IF f.kind = "edit" THEN ColourOf(f) ELSE Unfilled,
   preset |-> IF f.kind = "room" THEN PresetLabels(f)[f.preset + 1] ELSE Unfilled,
   model |-> IF \E r \in ToSet(FormRows(f)) : r.label = "model"
             THEN ModelLabels(f)[f.model + 1] ELSE Unfilled]

\* What is sent of it.
CreatesAgent(f) ==
  [text |-> f.text, tools |-> f.tools, colour |-> Unfilled, preset |-> Unfilled, model |-> Unfilled]
UpdatesAgent(f) == [CreatesAgent(f) EXCEPT !.colour = ColourOf(f)]
CreatesRoom(f) ==
  [CreatesAgent(f) EXCEPT !.preset = IF IsSolo(f) THEN "solo" ELSE SelectedPreset(f),
                          !.model = IF IsSolo(f) THEN ModelRef(f) ELSE Unfilled]
Asked(f) ==
  CASE f.kind = "agent" -> CreatesAgent(f)
    [] f.kind = "edit" -> UpdatesAgent(f)
    [] OTHER -> CreatesRoom(f)

\* ---- The engine: the row with the focus, and what of the rows is drawn ---------

Focusable(rows) == {i \in DOMAIN rows : rows[i].kind # "note"}
\* FormComponent.current: the first row from the focus on that is no note; 0: none.
Current(rows, focus) ==
  LET ok == Focusable(rows)
      next == {i \in ok : i >= focus}
  IN CASE ok = {} -> 0 [] next # {} -> Min(next) [] OTHER -> Max(ok)
Walked(f, d) ==
  LET rows == FormRows(f)
      at == Current(rows, f.focus)
      beyond == {i \in Focusable(rows) : IF d > 0 THEN i > at ELSE i < at}
  IN [f EXCEPT !.focus = IF beyond = {} THEN at
                         ELSE IF d > 0 THEN Min(beyond) ELSE Max(beyond)]
Focused(f) ==
  LET rows == FormRows(f) IN
  IF Focusable(rows) = {} THEN FieldRow("", "none") ELSE rows[Current(rows, f.focus)]

FormBudget(hasError) ==
  LET room == (height * 8) \div 10 - 6 - (IF hasError THEN 1 ELSE 0) IN IF room < 3 THEN 3 ELSE room

\* The lines of some neighbouring rows: those down to the last without those above the first.
LinesOf(rows, from, to) ==
  LET upto[i \in 0..Len(rows)] == IF i = 0 THEN 0 ELSE upto[i - 1] + rows[i].lines
  IN upto[to] - upto[from - 1]
\* windowRows: outward from the focus, a row at a time, downwards when the row below is
\* no taller, and no further when it has no room.
Grown(rows, w, budget) ==
  LET never == budget + 1
      used == LinesOf(rows, w[1], w[2])
      down == IF w[2] < Len(rows) THEN rows[w[2] + 1].lines ELSE never
      up == IF w[1] > 1 THEN rows[w[1] - 1].lines ELSE never
  IN IF used + (IF down <= up THEN down ELSE up) > budget THEN w
     ELSE IF down <= up THEN <<w[1], w[2] + 1>> ELSE <<w[1] - 1, w[2]>>
Window(rows, focus, budget) ==
  LET n == Len(rows)
      after[i \in 0..n] == IF i = 0 THEN <<focus, focus>> ELSE Grown(rows, after[i - 1], budget)
  IN IF LinesOf(rows, 1, n) <= budget THEN <<1, n>> ELSE after[n]

\* FormComponent.render: the rows it draws, and its lines: border, title and legend too.
Drawn(f) ==
  LET rows == FormRows(f)
      at == Current(rows, f.focus)
      w == Window(rows, IF at = 0 THEN 1 ELSE at, FormBudget(f.error))
  IN [from |-> w[1], to |-> w[2],
      lines |-> LinesOf(rows, w[1], w[2]) + 4 + (IF f.error THEN 1 ELSE 0)
                + (IF w[1] > 1 \/ w[2] < Len(rows) THEN 2 ELSE 0)]

\* ---- Keys ---------------------------------------------------------------------

Top == forms[onTop]
SentBy(n) == {r \in sentOut : r.form = n}
Cleared(f) == [f EXCEPT !.error = FALSE]
Wrapped(i, d, n) == (i + d + n) % n
Touched(f) == [f EXCEPT !.touched = @ \cup {Focused(f).label}]

Walks(f) == {Walked(f, d) : d \in {-1, 1}}
Cycles(f) ==
  CASE Focused(f).label = "colour" ->
         {[Touched(f) EXCEPT !.colour = Wrapped(@, d, Len(f.colours) + 1)] : d \in {-1, 1}}
    [] Focused(f).label = "preset" ->
         {[f EXCEPT !.preset = Wrapped(@, d, Len(PresetLabels(f)))] : d \in {-1, 1}}
    [] Focused(f).label = "model" ->
         {[f EXCEPT !.model = Wrapped(@, d, Len(ModelLabels(f)))] : d \in {-1, 1}}
    [] OTHER -> {}
ChipWalks(f) ==
  IF Focused(f).kind = "chips"
  THEN {[f EXCEPT !.chip = Wrapped(@ - 1, d, Len(Chips)) + 1] : d \in {-1, 1}} ELSE {}
Toggles(f) ==
  IF Focused(f).kind = "chips"
  THEN {[Touched(f) EXCEPT !.tools = SymDiff(@, {Chips[f.chip]})]}
  ELSE {}
\* What pi reads again when the answer comes is not touched before, unless in a hurry.
Retypes(f) ==
  LET l == Focused(f).label IN
  IF Focused(f).kind = "text" /\ (Hurried \/ frontEnd = "ink" \/ SentBy(onTop) = {})
  THEN {[Touched(f) EXCEPT !.text[l] = w] : w \in (Words \cup {Unfilled}) \ {f.text[l]}} ELSE {}

\* FormComponent.handleInput, ⏎ on an action or a picker left out.
EngineKeys(f) ==
  IF Focused(f).kind = "none" THEN {}
  ELSE Walks(f) \cup Cycles(f) \cup ChipWalks(f) \cup {Cleared(g) : g \in Toggles(f) \cup Retypes(f)}
\* The Ink components' useInput: a wizard each.
RoomFormKeys(f) == Walks(f) \cup {Cleared(g) : g \in Cycles(f) \cup Retypes(f)}
EditFormKeys(f) ==
  IF ~f.loaded THEN {}
  ELSE Walks(f) \cup Cycles(f) \cup ChipWalks(f) \cup {Cleared(g) : g \in Toggles(f) \cup Retypes(f)}
AgentFormKeys(f) == Walks(f) \cup ChipWalks(f) \cup {Cleared(g) : g \in Toggles(f) \cup Retypes(f)}

KeysOf(f) ==
  CASE frontEnd = "pi" -> EngineKeys(f)
    [] f.kind = "room" -> RoomFormKeys(f)
    [] f.kind = "edit" -> EditFormKeys(f)
    [] OTHER -> AgentFormKeys(f)

Kept == UNCHANGED <<frontEnd, height>>
NoneElse == Kept /\ UNCHANGED <<edited, makes, told, shut, reverted>>

PressesKey ==
  /\ onTop > 0 /\ Top.picking = "no"
  /\ \E g \in KeysOf(Top) :
       /\ forms' = [forms EXCEPT ![onTop] = g]
       /\ IF g.text = Top.text /\ g.tools = Top.tools THEN edits' = edits
          ELSE edits < MaxEdits /\ edits' = edits + 1
  /\ NoneElse /\ UNCHANGED <<onTop, sentOut>>

\* ⏎ on the preset or the model: the whole list.
OpensPicker ==
  /\ onTop > 0 /\ Top.picking = "no" /\ Focused(Top).label \in {"preset", "model"}
  /\ forms' = [forms EXCEPT ![onTop].picking = Focused(Top).label]
  /\ NoneElse /\ UNCHANGED <<onTop, sentOut, edits>>
\* A preset by its place among the labels, a model by its reference.
PicksPreset ==
  /\ onTop > 0 /\ Top.picking = "preset"
  /\ \E i \in DOMAIN PresetLabels(Top) :
       forms' = [forms EXCEPT ![onTop].preset = i - 1, ![onTop].picking = "no"]
  /\ NoneElse /\ UNCHANGED <<onTop, sentOut, edits>>
PicksModel ==
  /\ onTop > 0 /\ Top.picking = "model"
  /\ \E i \in 0..Len(Top.models) :
       forms' = [forms EXCEPT ![onTop].model = i, ![onTop].picking = "no"]
  /\ NoneElse /\ UNCHANGED <<onTop, sentOut, edits>>
CancelsPicker ==
  /\ onTop > 0 /\ Top.picking # "no"
  /\ forms' = [forms EXCEPT ![onTop].picking = "no"]
  /\ NoneElse /\ UNCHANGED <<onTop, sentOut, edits>>

\* ---- Submitting -----------------------------------------------------------------

Sends(f) ==
  /\ Len(makes) + Cardinality({r \in sentOut : r.phase = "asked"}) < MaxRequests
  /\ sentOut' = sentOut \cup
       {[form |-> onTop, no |-> Cardinality(SentBy(onTop)), kind |-> f.kind, phase |-> "asked",
         sent |-> Asked(f), shown |-> Filled(f), touched |-> f.touched]}
OnAction == onTop > 0 /\ Top.picking = "no" /\ Focused(Top).kind = "action"
Complains == forms' = [forms EXCEPT ![onTop].error = TRUE] /\ UNCHANGED sentOut

\* Neither of the agents' forms looks whether it is already waiting.
SubmitsAgent ==
  /\ OnAction /\ Top.kind = "agent" /\ (Hurried \/ SentBy(onTop) = {})
  /\ IF Top.text["name"] = Unfilled \/ Top.text["prompt"] = Unfilled THEN Complains
     ELSE Sends(Top) /\ UNCHANGED forms
  /\ NoneElse /\ UNCHANGED <<onTop, edits>>
SubmitsEdit ==
  /\ OnAction /\ Top.kind = "edit" /\ (Hurried \/ SentBy(onTop) = {})
  /\ IF Top.text["name"] = Unfilled THEN Complains ELSE Sends(Top) /\ UNCHANGED forms
  /\ NoneElse /\ UNCHANGED <<onTop, edits>>
SubmitsRoom ==
  /\ OnAction /\ Top.kind = "room" /\ ~Top.busy
  /\ IF Top.text["name"] = Unfilled /\ ~IsSolo(Top) THEN Complains
     ELSE Sends(Top) /\ forms' = [forms EXCEPT ![onTop].busy = TRUE]
  /\ NoneElse /\ UNCHANGED <<onTop, edits>>

\* The server: an icon that is not sent is left as it was.
Patched(r) ==
  [name |-> r.sent.text["name"], colour |-> r.sent.colour, tools |-> r.sent.tools,
   icon |-> IF r.sent.text["icon"] = Unfilled THEN edited.icon ELSE r.sent.text["icon"]]
Answered(r, phase) == sentOut' = (sentOut \ {r}) \cup {[r EXCEPT !.phase = phase]}
Serves(r) ==
  /\ r.phase = "asked" /\ Answered(r, "done")
  /\ makes' = Append(makes, [form |-> r.form, kind |-> r.kind, sent |-> r.sent, shown |-> r.shown])
  /\ IF r.kind # "edit" THEN UNCHANGED <<edited, reverted>>
     ELSE /\ edited' = Patched(r)
          /\ reverted' = (reverted \/ \E k \in DOMAIN edited \ r.touched : edited'[k] # edited[k])
  /\ Kept /\ UNCHANGED <<forms, onTop, told, shut, edits>>
Refuses(r) ==
  /\ r.phase = "asked" /\ Answered(r, "refused")
  /\ NoneElse /\ UNCHANGED <<forms, onTop, edits>>

\* What its notice says: pi reads the fields again, ink what it had when it asked.
NoticeOf(r) ==
  LET f == forms[r.form]
      read == IF frontEnd = "pi" THEN f.text ELSE r.shown.text
  IN CASE r.kind = "agent" -> <<"created", read["name"]>>
       [] r.kind = "edit" -> <<"updated", Unfilled>>
       [] OTHER -> <<"room", IF read["goal"] = Unfilled THEN "quiet" ELSE "started">>
WhatHappened(r) ==
  CASE r.kind = "agent" -> <<"created", r.sent.text["name"]>>
    [] r.kind = "edit" -> <<"updated", Unfilled>>
    [] OTHER -> <<"room", IF r.sent.text["goal"] = Unfilled THEN "quiet" ELSE "started">>

\* Whatever is at the form's place of the screen is taken down.
SubmitSucceeds(r) ==
  /\ r.phase = "done" /\ sentOut' = sentOut \ {r}
  /\ told' = [said |-> NoticeOf(r), did |-> WhatHappened(r)]
  /\ onTop' = 0 /\ shut' = (shut \/ onTop \notin {0, r.form})
  /\ Kept /\ UNCHANGED <<forms, edited, makes, reverted, edits>>
SubmitFails(r) ==
  /\ r.phase = "refused" \/ (Drops /\ r.phase = "done")
  /\ sentOut' = sentOut \ {r}
  /\ forms' = [forms EXCEPT ![r.form].error = TRUE, ![r.form].busy = FALSE]
  /\ NoneElse /\ UNCHANGED <<onTop, edits>>

\* ---- The screen, and what is loaded ------------------------------------------------

OpensForm ==
  /\ onTop = 0 /\ Len(forms) < MaxForms /\ (Hurried \/ sentOut = {})
  /\ \E kind \in {"agent", "edit", "room"} : forms' = Append(forms, NewForm(kind))
  /\ onTop' = Len(forms')
  /\ NoneElse /\ UNCHANGED <<sentOut, edits>>
Escapes ==
  /\ onTop > 0 /\ Top.picking = "no" /\ onTop' = 0
  /\ NoneElse /\ UNCHANGED <<forms, sentOut, edits>>
OpensOther ==
  /\ onTop = 0 /\ (Hurried \/ sentOut = {}) /\ onTop' = -1
  /\ NoneElse /\ UNCHANGED <<forms, sentOut, edits>>
ClosesOther ==
  /\ onTop = -1 /\ onTop' = 0
  /\ NoneElse /\ UNCHANGED <<forms, sentOut, edits>>

\* The palette behind the colour the agent has: the first place leaves it alone.
LoadsAgent(n) ==
  /\ forms[n].kind = "edit" /\ ~forms[n].loaded /\ ~forms[n].error
  /\ forms' = [forms EXCEPT ![n].loaded = TRUE,
        ![n].text = [@ EXCEPT !["name"] = edited.name, !["icon"] = edited.icon],
        ![n].own = edited.colour, ![n].colours = SelectSeq(Tints, LAMBDA c : c # edited.colour),
        ![n].colour = 0, ![n].tools = edited.tools]
  /\ NoneElse /\ UNCHANGED <<onTop, sentOut, edits>>
LoadFails(n) ==
  /\ forms[n].kind = "edit" /\ ~forms[n].loaded /\ ~forms[n].error
  /\ forms' = [forms EXCEPT ![n].error = TRUE]
  /\ NoneElse /\ UNCHANGED <<onTop, sentOut, edits>>
\* Garnish: a list that does not come is not missed.
PresetsArrive(n) ==
  /\ forms[n].kind = "room" /\ forms[n].presets # SavedPresets
  /\ forms' = [forms EXCEPT ![n].presets = SavedPresets]
  /\ NoneElse /\ UNCHANGED <<onTop, sentOut, edits>>
ModelsArrive(n) ==
  /\ forms[n].kind = "room" /\ forms[n].models # KnownModels
  /\ forms' = [forms EXCEPT ![n].models = KnownModels]
  /\ NoneElse /\ UNCHANGED <<onTop, sentOut, edits>>

EditsElsewhere ==
  /\ Elsewhere \/ (onTop = 0 /\ sentOut = {})
  /\ edits < MaxEdits /\ edits' = edits + 1
  /\ \E c \in ToSet(Tints) \ {edited.colour} : edited' = [edited EXCEPT !.colour = c]
  /\ Kept /\ UNCHANGED <<forms, onTop, sentOut, makes, told, shut, reverted>>

FormNext ==
  \/ PressesKey \/ OpensPicker \/ PicksPreset \/ PicksModel \/ CancelsPicker
  \/ SubmitsAgent \/ SubmitsEdit \/ SubmitsRoom
  \/ \E r \in sentOut : Serves(r) \/ Refuses(r) \/ SubmitSucceeds(r) \/ SubmitFails(r)
  \/ OpensForm \/ Escapes \/ OpensOther \/ ClosesOther
  \/ \E n \in {onTop} \cap DOMAIN forms :
       LoadsAgent(n) \/ LoadFails(n) \/ PresetsArrive(n) \/ ModelsArrive(n)
  \/ EditsElsewhere

FormSpec == FormInit /\ [][FormNext]_formVars

-----------------------------------------------------------------------------

\* What the server makes is what the form showed when it was asked: the preset and
\* the model by their names, and no model of a team's room.
MadeAsFilled == \A i \in DOMAIN makes : makes[i].sent = makes[i].shown

\* A form makes one agent or one room, however often ⏎ is pressed, or its request
\* refused.
MadeOnce ==
  \A i, j \in DOMAIN makes : (i # j /\ makes[i].form = makes[j].form) => makes[i].kind = "edit"

\* The notice names what was made, and says of a goal that it started when one was sent.
NoticeTrue == told.said = told.did

\* An answer takes down no screen but its form's.
ShutsItsOwn == ~shut

\* A form that says "Creating…" waits for an answer: it never refuses ⏎ for good.
BusyWaits == onTop > 0 /\ Top.busy => SentBy(onTop) # {}

\* A save changes nothing the user left alone: the first colour is the agent's own.
LeftAlone == ~reverted

\* On a terminal of 13 rows or more a form fits the share of the screen it is given,
\* so that its last lines are not cut; the row with the focus is drawn, and is no note.
FormFits ==
  onTop > 0 /\ frontEnd = "pi" =>
    LET d == Drawn(Top)  at == Current(FormRows(Top), Top.focus) IN
    /\ height >= 13 => d.lines <= (height * 8) \div 10
    /\ at > 0 => FormRows(Top)[at].kind # "note" /\ d.from <= at /\ at <= d.to

\* "Down first": while a row above the focus is drawn, the row below it is too, if the
\* rows from the focus down to it have room.
DownFirst ==
  onTop > 0 /\ frontEnd = "pi" =>
    LET rows == FormRows(Top)  d == Drawn(Top)  at == Current(rows, Top.focus) IN
    at > 0 /\ d.from < at /\ d.to < Len(rows)
      => LinesOf(rows, at, d.to + 1) > FormBudget(Top.error)

\* A form makes what it showed, once, says so truly, and leaves the rest alone.
FormDoes ==
  /\ MadeAsFilled /\ MadeOnce /\ NoticeTrue /\ ShutsItsOwn
  /\ BusyWaits /\ LeftAlone

\* And what it draws of itself fits.
FormTells == FormDoes /\ FormFits
=============================================================================
