------------------------------ MODULE InputLine ------------------------------
(* The command line of the Ink client.  Its handler is made anew by each       *)
(* render and reads part of the state through references, which every key      *)
(* updates, and part through the values of the last render: a burst of keys    *)
(* is handled before the next render.                                          *)
EXTENDS Draft

CONSTANTS
  \* @type: Bool;   FALSE: every key is rendered before the next
  Bursts,
  \* @type: Bool;   TRUE: a blank, or a paste, may hide a leading / or !
  Hidden,
  \* @type: Int;    bound: symbols typed into a draft
  MaxLine,
  \* @type: Int;    bound: lines sent
  MaxSent,
  \* @type: Int;    bound: reads of the clipboard, questions and changes of the roster
  MaxNews

ASSUME LineAssumption == /\ MaxLine \in Nat /\ MaxSent \in Nat /\ MaxNews \in Nat
                         /\ Bursts \in BOOLEAN /\ Hidden \in BOOLEAN

VARIABLES
  draft,      \* valueRef and cursorRef
  past,       \* hist: the lines sent, and where ↑ and ↓ are among them
  typed,      \* the draft as it was last edited (history)
  accum,      \* pasteAccum: what has come of a paste that has not ended
  pIndex,     \* the highlight of the palette
  picker,     \* the question's choices: asked, highlighted, dismissed
  images,     \* pendingImages: how many are staged
  reading,    \* a read of the clipboard is on its way
  active,     \* the agents that are active, as the state has them
  drawn,      \* what the last render saw of all this
  lastDid,    \* what the last key sent (history)
  lastMeant,  \* what the screen said it would, every key drawn (history)
  lines, news  \* counters of the bounds

lineVars == <<draft, past, typed, accum, pIndex, picker, images, reading, active, drawn,
              lastDid, lastMeant, lines, news>>

Empty == [text |-> <<>>, cur |-> 0]
NoPaste == [on |-> FALSE, text |-> <<>>]
NothingDone == [kind |-> "nothing", what |-> <<>>, preview |-> NoPreview, images |-> 0]

\* What a render shows, and what its handler keeps.
View(d, p, k, i, a) == [text |-> d.text, cur |-> d.cur, pIndex |-> p, picker |-> k, images |-> i, active |-> a]
Now == View(draft, pIndex, picker, images, active)

LineInit ==
  /\ draft = Empty /\ past = NewHistory /\ typed = <<>> /\ accum = NoPaste
  /\ pIndex = 1 /\ picker = [asked |-> FALSE, at |-> 1, dismissed |-> FALSE]
  /\ images = 0 /\ reading = FALSE /\ active = Handles
  /\ drawn = Now /\ lastDid = NothingDone /\ lastMeant = NothingDone
  /\ lines = 0 /\ news = 0

\* ---- What the screen says ---------------------------------------------------

PickerOpen(v) == PickerVisible(v.picker.asked, v.text, v.picker.dismissed)
Highlighted(v) ==
  LET matches == MatchCommands(v.text) IN
  matches[IF v.pIndex < Len(matches) THEN v.pIndex ELSE Len(matches)]
PaletteOpen(v) == MatchCommands(v.text) # <<>>

\* The preview of the text as it is shown, markers and all.
PreviewUnexpanded(v) ==
  IF InputMode(v.text) = "message" /\ Trimmed(v.text) # <<>>
  THEN PreviewRouting(v.text, v.active)
  ELSE NoPreview

\* The routing preview of the status bar: of a text that is no command and no shell line.
Preview(v) ==
  IF InputMode(v.text) = "message" /\ Trimmed(v.text) # <<>>
  THEN PreviewRouting(ExpandPastes(v.text), v.active)
  ELSE NoPreview

\* An answer takes along what is staged, as any message does.
Answering(v, choice) ==
  [NothingDone EXCEPT !.kind = "answer", !.what = <<choice>>, !.images = v.images]

Completed(v) == [NothingDone EXCEPT !.kind = "command", !.what = Highlighted(v)]

\* What ⏎ means by the border and the preview, and by the box over them.
Bordered(v) ==
  CASE InputMode(v.text) = "command" ->
         [NothingDone EXCEPT !.kind = "command", !.what = Tail(Trimmed(ExpandPastes(v.text)))]
    [] InputMode(v.text) = "shell" ->
         [NothingDone EXCEPT !.kind = "shell", !.what = Trimmed(ExpandPastes(Tail(v.text)))]
    [] OTHER -> [kind |-> "message", what |-> Trimmed(ExpandPastes(v.text)),
                 preview |-> Preview(v), images |-> v.images]
Meaning(v) ==
  CASE PickerOpen(v) -> Answering(v, v.picker.at)
    [] ~PickerOpen(v) /\ PaletteOpen(v) -> Completed(v)
    [] OTHER -> Bordered(v)

\* ---- Keys -------------------------------------------------------------------

Silent == lastDid' = NothingDone /\ lastMeant' = NothingDone /\ UNCHANGED lines

\* A key is rendered at once, or with those that follow it.
Draws == drawn' = IF Bursts THEN drawn ELSE Now'
Renders == Bursts /\ drawn # Now /\ drawn' = Now
           /\ UNCHANGED <<draft, past, typed, accum, pIndex, picker, images, reading, active, news>>
           /\ Silent

SetDraft(text, cur) == draft' = [text |-> text, cur |-> cur]
\* The text says itself what it is sent as.
Plain(text) == InputMode(Trimmed(ExpandPastes(text))) = InputMode(text)

\* An edit by the user's hand: it ends the walk through the lines sent.
Edits(text, cur) ==
  /\ ~Hidden => Plain(text)
  /\ SetDraft(text, cur) /\ past' = ExitHistory(past) /\ typed' = text
Reset == SetDraft(<<>>, 0) /\ pIndex' = 1 /\ typed' = <<>>

Before == SubSeq(draft.text, 1, draft.cur)
After == SubSeq(draft.text, draft.cur + 1, Len(draft.text))

\* insertAtCursor: what is typed, or a small paste, as it is; a large one as its marker.
InsertAtCursor(text) ==
  /\ Len(draft.text) + Len(text) <= MaxLine
  /\ Edits(Before \o text \o After, draft.cur + Len(text))

Free == ~accum.on
Rest == UNCHANGED <<accum, images, reading, active, news>>
Did(done) == lastDid' = done /\ lastMeant' = Meaning(Now) /\ lines' = lines + 1

\* A character; the digit of a choice is the choice while the picker is open.
TypesIn(symbol) ==
  /\ Free /\ InsertAtCursor(<<symbol>>)
  /\ UNCHANGED <<pIndex, picker>> /\ Rest /\ Silent /\ Draws

Picks(choice, meant) ==
  /\ Free /\ PickerOpen(drawn) /\ lines < MaxSent
  /\ lastDid' = Answering(drawn, choice) /\ lastMeant' = meant /\ lines' = lines + 1
  /\ Reset /\ images' = 0
  /\ UNCHANGED <<past, accum, picker, reading, active, news>> /\ Draws
PicksByDigit(choice) ==
  Picks(choice, IF PickerOpen(Now) THEN Answering(Now, choice) ELSE NothingDone)
PicksHighlighted == Picks(drawn.picker.at, Meaning(Now))

PickerMoves(step) ==
  /\ Free /\ PickerOpen(drawn)
  /\ picker' = [picker EXCEPT !.at = Moved(@, step)]
  /\ UNCHANGED <<draft, past, typed, pIndex>> /\ Rest /\ Silent /\ Draws

Dismisses ==
  /\ Free /\ PickerOpen(drawn)
  /\ picker' = [picker EXCEPT !.dismissed = TRUE]
  /\ UNCHANGED <<draft, past, typed, pIndex>> /\ Rest /\ Silent /\ Draws

\* Alt and ⏎, or a backslash before it: a line break.
BreaksLine ==
  /\ Free /\ ~PickerOpen(drawn) /\ Len(draft.text) < MaxLine
  /\ Edits(Before \o <<"nl">> \o After, draft.cur + 1)
  /\ UNCHANGED <<pIndex, picker>> /\ Rest /\ Silent /\ Draws

\* What ⏎ runs of a line that has something in it, or of an empty one with an image.
RunsLine(text) ==
  CASE StartsWith(text, "/") -> [NothingDone EXCEPT !.kind = "command", !.what = Tail(text)]
    [] StartsWith(text, "!") -> [NothingDone EXCEPT !.kind = "shell", !.what = Trimmed(Tail(text))]
    [] OTHER -> [kind |-> "message", what |-> text, images |-> drawn.images,
                 preview |-> Routed(text, active)]
Runs(text) == IF PaletteOpen(drawn) THEN Completed(drawn) ELSE RunsLine(text)

Enters ==
  LET text == Trimmed(ExpandPastes(draft.text)) IN
  /\ Free /\ ~PickerOpen(drawn)
  /\ IF text # <<>> \/ drawn.images > 0
     THEN /\ lines < MaxSent /\ Did(Runs(text))
          /\ past' = PushPrompt(past, Trimmed(draft.text))
          /\ images' = IF Runs(text).kind = "message" THEN 0 ELSE images
     ELSE Silent /\ UNCHANGED <<past, images>>
  /\ Reset
  /\ UNCHANGED <<accum, picker, reading, active, news>> /\ Draws

\* Esc clears the line and what is staged; where a render saw nothing to clear and a
\* turn at work, it stops that and leaves the line alone.
Escapes ==
  /\ Free /\ ~PickerOpen(drawn)
  /\ images' = 0 /\ Reset
  /\ UNCHANGED <<past, accum, picker, reading, active, news>> /\ Silent /\ Draws

\* A completion of a recalled line is no edit: ↓ goes on from the line it was.
Completes ==
  /\ Free /\ ~PickerOpen(drawn) /\ PaletteOpen(drawn)
  /\ LET next == <<"/">> \o Highlighted(drawn) \o <<" ">> IN
     /\ SetDraft(next, Len(next))
     /\ typed' = IF past.index = 0 THEN next ELSE typed
  /\ pIndex' = 1
  /\ UNCHANGED <<past, picker>> /\ Rest /\ Silent /\ Draws

PaletteMoves(step) ==
  /\ Free /\ PaletteOpen(drawn)
  /\ LET n == Len(MatchCommands(drawn.text)) IN pIndex' = ((pIndex - 1 + step + n) % n) + 1
  /\ UNCHANGED <<draft, past, typed, picker>> /\ Rest /\ Silent /\ Draws

\* ↑ and ↓ move between the lines of a draft, then through the lines sent.
Ups ==
  /\ Free /\ ~PickerOpen(drawn) /\ ~PaletteOpen(drawn) /\ drawn.text # <<>>
  /\ LET to == AboveOf(drawn.text, drawn.cur)
         back == RecallPrev(past, drawn.text, draft.text)
     IN IF LineStart(drawn.text, drawn.cur) # 0
        THEN draft' = [draft EXCEPT !.cur = to] /\ past' = past
        ELSE /\ past' = back.past
             /\ draft' = IF back.past = past THEN draft ELSE [text |-> back.line, cur |-> Len(back.line)]
  /\ UNCHANGED <<typed, pIndex, picker>> /\ Rest /\ Silent /\ Draws

Downs ==
  /\ Free /\ ~PickerOpen(drawn) /\ ~PaletteOpen(drawn) /\ drawn.text # <<>>
  /\ LET to == BelowOf(drawn.text, drawn.cur)
         on == RecallNext(past, draft.text)
     IN IF LineEnd(drawn.text, drawn.cur) # Len(drawn.text)
        THEN draft' = [draft EXCEPT !.cur = to] /\ past' = past
        ELSE /\ past' = on.past
             /\ draft' = IF on.past = past THEN draft ELSE [text |-> on.line, cur |-> Len(on.line)]
  /\ UNCHANGED <<typed, pIndex, picker>> /\ Rest /\ Silent /\ Draws

\* ← and →, ⌃A and ⌃E. (On an empty line ← and → go to another room.)
Goes ==
  /\ Free /\ drawn.text # <<>>
  /\ \E cur \in {IF draft.cur = 0 THEN 0 ELSE draft.cur - 1,
                 IF draft.cur = Len(draft.text) THEN draft.cur ELSE draft.cur + 1,
                 LineStart(drawn.text, drawn.cur), LineEnd(drawn.text, drawn.cur)} :
       draft' = [draft EXCEPT !.cur = cur]
  /\ UNCHANGED <<past, typed, pIndex, picker>> /\ Rest /\ Silent /\ Draws

\* Backspace and Delete take a marker whole; Delete at the end is a Backspace.
Erases(at) ==
  /\ Free /\ at \in DOMAIN draft.text /\ at \in {draft.cur, draft.cur + 1}
  /\ Edits(RemoveAt(draft.text, at), at - 1)
  /\ UNCHANGED <<pIndex, picker>> /\ Rest /\ Silent /\ Draws

\* ---- Pastes -----------------------------------------------------------------

\* A bracketed paste, in one chunk or in several; a ⏎ inside it is its content.
PasteBegins(part) ==
  /\ Free /\ accum' = [on |-> TRUE, text |-> part]
  /\ UNCHANGED <<draft, past, typed, pIndex, picker, images, reading, active, news>>
  /\ Silent /\ Draws
PasteEnds(part) ==
  /\ accum.on /\ accum' = NoPaste
  /\ InsertAtCursor(accum.text \o part)
  /\ UNCHANGED <<pIndex, picker, images, reading, active, news>> /\ Silent /\ Draws

\* ⌃V: what the clipboard holds is known later, an image to stage or a text to insert.
Reads ==
  /\ Free /\ ~reading /\ news < MaxNews
  /\ reading' = TRUE /\ news' = news + 1
  /\ UNCHANGED <<draft, past, typed, accum, pIndex, picker, images, active>> /\ Silent /\ Draws
ReadImage ==
  /\ reading /\ reading' = FALSE /\ images' = images + 1
  /\ UNCHANGED <<draft, past, typed, accum, pIndex, picker, active, news>> /\ Silent /\ Draws
ReadText(text) ==
  /\ reading /\ reading' = FALSE /\ InsertAtCursor(text)
  /\ UNCHANGED <<accum, pIndex, picker, images, active, news>> /\ Silent /\ Draws
ReadNothing ==
  /\ reading /\ reading' = FALSE
  /\ UNCHANGED <<draft, past, typed, accum, pIndex, picker, images, active, news>> /\ Silent /\ Draws

\* ---- What the server says ---------------------------------------------------

\* A question with choices comes, or goes: the picker starts afresh.
Asks ==
  /\ news < MaxNews /\ news' = news + 1
  /\ picker' = [asked |-> ~picker.asked, at |-> 1, dismissed |-> FALSE]
  /\ UNCHANGED <<draft, past, typed, accum, pIndex, images, reading, active>> /\ Silent /\ Draws
Flips(agent) ==
  /\ news < MaxNews /\ news' = news + 1
  /\ active' = IF agent \in active THEN active \ {agent} ELSE active \cup {agent}
  /\ UNCHANGED <<draft, past, typed, accum, pIndex, picker, images, reading>> /\ Silent /\ Draws

-----------------------------------------------------------------------------

Symbols == Letters \cup {"@", "/", "!", " "}

LineNext ==
  \/ Renders
  \/ \E symbol \in Symbols : TypesIn(symbol)
  \/ \E choice \in 1..Options : PicksByDigit(choice)
  \/ PicksHighlighted
  \/ \E step \in {1, -1} : PickerMoves(step) \/ PaletteMoves(step)
  \/ Dismisses \/ BreaksLine \/ Enters \/ Escapes \/ Completes \/ Ups \/ Downs \/ Goes
  \/ \E at \in DOMAIN draft.text : Erases(at)
  \/ \E marker \in Markers : PasteBegins(<<>>) \/ PasteEnds(<<marker>>)
  \/ Reads \/ ReadImage \/ ReadNothing
  \/ \E symbol \in Markers \cup Letters : ReadText(<<symbol>>)
  \/ Asks
  \/ \E agent \in Handles : Flips(agent)

LineSpec == LineInit /\ [][LineNext]_lineVars

-----------------------------------------------------------------------------

\* What ⏎ did is what the screen said it would: the kind its border has, the agents
\* of its preview, the command or the answer highlighted, the images it counts.
SentAsShown == lastDid = lastMeant

\* A draft left for the lines sent before it comes back as it was left.
DraftKept == past.index = 0 => draft.text = typed

LineTells == SentAsShown /\ DraftKept
=============================================================================
