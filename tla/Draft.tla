-------------------------------- MODULE Draft --------------------------------
(* What a draft is to the clients that take one: its text, of which a large    *)
(* paste is one marker, what it is sent as, whom it names, the lines typed     *)
(* before it, and the closed question it may answer.                           *)
EXTENDS Naturals, Sequences, FiniteSets, SequencesExt, Joins

CONSTANTS
  \* @type: Set(Str);              the letters a name is made of
  Letters,
  \* @type: Set(Seq(Str));         the agents a draft may name
  Handles,
  \* @type: Seq(Str);              the handle that names everyone active
  All,
  \* @type: Seq(Seq(Str));         the commands, as the palette lists them
  Palette,
  \* @type: Str -> Seq(Str);       what a marker stands for
  Content,
  \* @type: Int;                   the answers a question offers
  Options

Markers == DOMAIN Content
Spaces == {" ", "nl"}
\* The hyphen stands for whatever else a name or a paste has in it.
Signs == {"@", "/", "!", "-"} \cup Spaces
Characters == Letters \cup Markers \cup Signs

\* \w has none of the signs, and is what names are made of.
ASSUME DraftAssumption == /\ Options \in Nat \ {0}
                          /\ Letters \cap Signs = {} /\ Markers \cap (Letters \cup Signs) = {}
                          /\ Handles \subseteq Seq(Letters) /\ All \in Seq(Letters) \ {<<>>}
                          /\ Palette \in Seq(Seq(Characters))
                          /\ \A marker \in Markers : Content[marker] \in Seq(Characters)

\* ---- Text -------------------------------------------------------------------

StartsWith(text, symbol) == text # <<>> /\ Head(text) = symbol

\* String.trim(): without the blanks at its ends.
Trimmed(text) ==
  LET ink == {i \in DOMAIN text : text[i] \notin Spaces} IN
  IF ink = {} THEN <<>>
  ELSE SubSeq(text, CHOOSE i \in ink : \A j \in ink : i <= j, CHOOSE i \in ink : \A j \in ink : j <= i)

\* expandPastes: the text with each marker's content in its place.
ExpandPastes(text) ==
  Joined([i \in DOMAIN text |-> IF text[i] \in Markers THEN Content[text[i]] ELSE <<text[i]>>])

\* inputMode: what the border says of a draft.
InputMode(text) ==
  CASE StartsWith(text, "/") -> "command"
    [] StartsWith(text, "!") -> "shell"
    [] OTHER -> "message"

\* The line the cursor is on starts after, and ends at, these places.
LineStart(text, cur) ==
  LET breaks == {i \in 1..cur : text[i] = "nl"} \cup {0} IN CHOOSE i \in breaks : \A j \in breaks : j <= i
LineEnd(text, cur) ==
  LET breaks == {i \in (cur + 1)..Len(text) : text[i] = "nl"} \cup {Len(text) + 1} IN
  (CHOOSE i \in breaks : \A j \in breaks : i <= j) - 1

\* moveVertical: where the cursor goes one line up or down; itself when there is none.
AboveOf(text, cur) ==
  LET from == LineStart(text, cur)
      above == LineStart(text, from - 1)
      column == above + (cur - from)
  IN IF from = 0 THEN cur ELSE IF column < from THEN column ELSE from - 1
BelowOf(text, cur) ==
  LET end == LineEnd(text, cur)
      below == LineEnd(text, end + 1)
      column == end + 1 + (cur - LineStart(text, cur))
  IN IF end = Len(text) THEN cur ELSE IF column < below THEN column ELSE below

\* ---- Routing ----------------------------------------------------------------

\* /@(\w+)/g: the runs of letters that follow an @.
WordAt(text, i) ==
  LET others == {j \in i..Len(text) : text[j] \notin Letters} \cup {Len(text) + 1} IN
  SubSeq(text, i, (CHOOSE j \in others : \A k \in others : j <= k) - 1)
Mentioned(text) == {WordAt(text, i + 1) : i \in {j \in DOMAIN text : text[j] = "@"}} \ {<<>>}

\* resolveTargets (server): whom a message runs; nobody named is the default agent's.
ResolveTargets(text, active) ==
  LET named == Mentioned(text) IN
  IF All \in named THEN active ELSE named \cap active
Unnamed(text) == Mentioned(text) = {}

NoPreview == [to |-> {}, dropped |-> {}]
\* What a message comes to: whom it runs, and the names skipped with a notice.
Routed(text, active) ==
  IF Unnamed(text) THEN NoPreview
  ELSE [to |-> ResolveTargets(text, active),
        dropped |-> IF All \in Mentioned(text) THEN {} ELSE Mentioned(text) \ active]

\* previewRouting: what a client shows of it, and the names that will not run.
PreviewRouting(text, active) ==
  LET named == Mentioned(text) IN
  IF All \in named THEN [to |-> active, dropped |-> {}]
  ELSE [to |-> named \cap active, dropped |-> named \ active]

\* ---- The palette ------------------------------------------------------------

\* matchCommands, while the head is one token: the commands it begins.
MatchCommands(text) ==
  IF ~StartsWith(text, "/") \/ \E i \in DOMAIN text : text[i] \in Spaces THEN <<>>
  ELSE Joined([i \in DOMAIN Palette |->
                IF IsPrefix(Tail(text), Palette[i]) THEN <<Palette[i]>> ELSE <<>>])

\* ---- The lines typed before -------------------------------------------------

\* index 0 is the live draft.
NewHistory == [entries |-> <<>>, index |-> 0, parked |-> <<>>]
ExitHistory(h) == [h EXCEPT !.index = 0, !.parked = <<>>]

\* pushPrompt: not an empty line, nor the last one again.
PushPrompt(h, text) ==
  ExitHistory([h EXCEPT !.entries =
    IF text = <<>> \/ (@ # <<>> /\ Last(@) = text) THEN @ ELSE Append(@, text)])

\* recallPrev and recallNext: the history and the line shown, which is `text` where
\* there is nothing further.
RecallPrev(h, text, here) ==
  IF h.entries = <<>> \/ h.index = 1 THEN [past |-> h, line |-> here]
  ELSE LET at == IF h.index = 0 THEN Len(h.entries) ELSE h.index - 1 IN
       [past |-> [h EXCEPT !.index = at, !.parked = IF h.index = 0 THEN text ELSE @],
        line |-> h.entries[at]]
RecallNext(h, here) ==
  CASE h.index = 0 -> [past |-> h, line |-> here]
    [] h.index \in 1..(Len(h.entries) - 1) ->
         [past |-> [h EXCEPT !.index = @ + 1], line |-> h.entries[h.index + 1]]
    [] OTHER -> [past |-> [h EXCEPT !.index = 0], line |-> h.parked]

\* ---- The picker of a closed question ----------------------------------------

\* pickerVisible: over an empty line, unless it was sent away.
PickerVisible(asked, text, dismissed) == asked /\ text = <<>> /\ ~dismissed
Moved(at, step) == ((at - 1 + step + Options) % Options) + 1
=============================================================================
