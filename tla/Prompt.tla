-------------------------------- MODULE Prompt --------------------------------
(* The input of the pi-tui client.  The editor is a library's; the program      *)
(* keeps the preview of the routing, which it computes at each change of the    *)
(* text, the staged images, the picker of a closed question and the prompt that *)
(* asks, after a shell line, whether its output is shared.                      *)
EXTENDS Draft

CONSTANTS
  \* @type: Set(ROOM);   the rooms of the strip
  Strip,
  \* @type: ROOM;        the room shown first
  HomeRoom,
  \* @type: Bool;        TRUE: a blank, or a paste, may hide a leading / or !
  Veiled,
  \* @type: Bool;        TRUE: nothing changes under a draft, and nothing else is on screen with the prompt to share
  Undisturbed,
  \* @type: Int;         bound: symbols in a draft
  MaxText,
  \* @type: Int;         bound: lines submitted
  MaxSubmits,
  \* @type: Int;         bound: reads of the clipboard, questions, changes of a roster, switches
  MaxHappens

ASSUME PromptAssumption == /\ HomeRoom \in Strip /\ MaxText \in Nat
                           /\ MaxSubmits \in Nat /\ MaxHappens \in Nat
                           /\ Veiled \in BOOLEAN /\ Undisturbed \in BOOLEAN

VARIABLES
  text,          \* the editor's text, markers not expanded
  draftTargets,  \* chrome.draftTargets: the preview on screen
  staged,        \* pending.images: how many are staged
  clip,          \* a read of the clipboard is on its way
  roomId,        \* the room whose store the client is bound to
  swapTo,        \* rooms whose state is being preloaded; the newest request is the last
  here,          \* the agents active in each room
  options,       \* the picker: asked, highlighted, dismissed
  share,         \* the prompt to share a capture, and the room whose workspace it is of
  posted,        \* captures posted: the room each is of, and the room it went to (history)
  promptDid,     \* what the last key sent (history)
  promptMeant,   \* what the screen said it would (history)
  submits, happens

promptVars == <<text, draftTargets, staged, clip, roomId, swapTo, here, options, share,
                posted, promptDid, promptMeant, submits, happens>>

Unsent == [kind |-> "nothing", what |-> <<>>, preview |-> NoPreview, images |-> 0]
NoShare == [open |-> FALSE, of |-> HomeRoom]

PromptInit ==
  /\ text = <<>> /\ draftTargets = NoPreview /\ staged = 0 /\ clip = FALSE
  /\ roomId = HomeRoom /\ swapTo = <<>> /\ here = [room \in Strip |-> Handles]
  /\ options = [asked |-> FALSE, at |-> 1, dismissed |-> FALSE]
  /\ share = NoShare /\ posted = {}
  /\ promptDid = Unsent /\ promptMeant = Unsent /\ submits = 0 /\ happens = 0

\* ---- What the screen says ---------------------------------------------------

PickerShown == PickerVisible(options.asked, text, options.dismissed)

\* What ⏎ means by what is on top: the prompt to share, the picker, or the border with
\* the preview under it.
Promise ==
  CASE share.open -> [Unsent EXCEPT !.kind = "share"]
    [] ~share.open /\ PickerShown -> [Unsent EXCEPT !.kind = "answer", !.what = <<options.at>>]
    [] ~share.open /\ ~PickerShown /\ InputMode(text) = "command" ->
         [Unsent EXCEPT !.kind = "command", !.what = Tail(Trimmed(ExpandPastes(text)))]
    [] ~share.open /\ ~PickerShown /\ InputMode(text) = "shell" ->
         [Unsent EXCEPT !.kind = "shell", !.what = Trimmed(ExpandPastes(Tail(text)))]
    [] OTHER -> [kind |-> "message", what |-> Trimmed(ExpandPastes(text)),
                 preview |-> draftTargets, images |-> staged]

\* ---- The editor -------------------------------------------------------------

Quietly == promptDid' = Unsent /\ promptMeant' = Unsent /\ UNCHANGED submits
Does(done) == promptDid' = done /\ promptMeant' = Promise /\ submits' = submits + 1
Said(t) == InputMode(Trimmed(ExpandPastes(t))) = InputMode(t)

\* Whoever is named, active or not.
OnChangeAnyone(t) ==
  LET expanded == ExpandPastes(t) IN
  IF InputMode(expanded) = "message" /\ Trimmed(t) # <<>>
  THEN PreviewRouting(expanded, Handles)
  ELSE NoPreview

\* onChange: whom the text would run, unless it is a command or a shell line.
OnChange(t) ==
  LET expanded == ExpandPastes(t) IN
  IF InputMode(expanded) = "message" /\ Trimmed(t) # <<>>
  THEN PreviewRouting(expanded, here[roomId])
  ELSE NoPreview

Changes(t) ==
  /\ ~share.open /\ Len(t) <= MaxText /\ (~Veiled => Said(t))
  /\ text' = t /\ draftTargets' = OnChange(t)
  /\ UNCHANGED <<staged, clip, roomId, swapTo, here, options, share, posted, happens>> /\ Quietly

Writes(symbol) == Changes(Append(text, symbol))
Unwrites(symbol) == text # <<>> /\ Last(text) = symbol /\ Changes(Front(text))

\* slashPrefix and mentionPrefix: what is being completed at the end of the text.
SlashPrefix == StartsWith(text, "/") /\ \A i \in DOMAIN text : text[i] \notin Spaces
MentionStarts == {i \in DOMAIN text : /\ text[i] = "@" /\ (i > 1 => text[i - 1] \in Spaces)
                                      /\ \A j \in (i + 1)..Len(text) : text[j] \in Letters}
MentionItems(prefix) == {name \in here[roomId] \cup {All} : IsPrefix(prefix, name)}

\* applyCompletion: a mention is followed by a space, a command is run.
CompletesMention ==
  \E i \in MentionStarts :
    \E name \in MentionItems(SubSeq(text, i + 1, Len(text))) :
      ~PickerShown /\ Changes(SubSeq(text, 1, i) \o name \o <<" ">>)

\* ---- Submitting -------------------------------------------------------------

\* classifySubmit, of the expanded text.
ClassifySubmit(expanded) ==
  LET line == Trimmed(expanded) IN
  CASE line = <<>> -> [Unsent EXCEPT !.kind = "empty"]
    [] StartsWith(line, "/") -> [Unsent EXCEPT !.kind = "command", !.what = Tail(line)]
    [] StartsWith(line, "!") -> [Unsent EXCEPT !.kind = "shell", !.what = Trimmed(Tail(line))]
    [] OTHER -> [Unsent EXCEPT !.kind = "message", !.what = line]

Sent(line) ==
  [kind |-> "message", what |-> line, images |-> staged, preview |-> Routed(line, here[roomId])]

\* A shell line runs in the room's workspace, where it is on this machine, and its output
\* is offered to the room; elsewhere the server runs it.
RunShell(sub) ==
  \/ share' = share
  \/ /\ sub.kind = "shell" /\ sub.what # <<>> /\ (Undisturbed => ~options.asked)
     /\ share' = [open |-> TRUE, of |-> roomId]

OnSubmit ==
  LET sub == ClassifySubmit(ExpandPastes(text)) IN
  /\ ~share.open /\ ~PickerShown /\ submits < MaxSubmits
  /\ sub.kind = "empty" => staged > 0
  /\ text' = <<>> /\ draftTargets' = NoPreview
  /\ IF sub.kind \in {"empty", "message"}
     THEN Does(Sent(sub.what)) /\ staged' = 0
     ELSE Does(sub) /\ UNCHANGED staged
  /\ RunShell(sub)
  /\ UNCHANGED <<clip, roomId, swapTo, here, options, posted, happens>>

\* ---- The keys that come before the editor's ---------------------------------

\* The picker takes ↑ ↓ ⏎, its digits and Esc whenever it is on screen.
PicksOption ==
  /\ PickerShown /\ submits < MaxSubmits
  /\ Does([Unsent EXCEPT !.kind = "answer", !.what = <<options.at>>])
  /\ UNCHANGED <<text, draftTargets, staged, clip, roomId, swapTo, here, options, share,
                 posted, happens>>
MovesOption(step) ==
  /\ PickerShown /\ options' = [options EXCEPT !.at = Moved(@, step)]
  /\ UNCHANGED <<text, draftTargets, staged, clip, roomId, swapTo, here, share, posted, happens>>
  /\ Quietly
HidesOptions ==
  /\ PickerShown /\ options' = [options EXCEPT !.dismissed = TRUE]
  /\ UNCHANGED <<text, draftTargets, staged, clip, roomId, swapTo, here, share, posted, happens>>
  /\ Quietly

\* Esc: the staged images, then the draft. (With neither it stops a turn.)
ClearsStaged ==
  /\ ~share.open /\ ~PickerShown /\ staged > 0 /\ staged' = 0
  /\ UNCHANGED <<text, draftTargets, clip, roomId, swapTo, here, options, share, posted, happens>>
  /\ Quietly
ClearsDraft ==
  /\ ~share.open /\ ~PickerShown /\ staged = 0 /\ text # <<>>
  /\ text' = <<>> /\ draftTargets' = NoPreview
  /\ UNCHANGED <<staged, clip, roomId, swapTo, here, options, share, posted, happens>>
  /\ Quietly

\* The prompt to share: what is under it takes the keys it wants first. The capture is
\* posted to the room that is shown when it is answered.
AnswersShare(sends) ==
  /\ share.open /\ ~PickerShown /\ share' = NoShare
  /\ posted' = IF sends THEN posted \cup {[of |-> share.of, to |-> roomId]} ELSE posted
  /\ promptDid' = [Unsent EXCEPT !.kind = "share"] /\ promptMeant' = Promise
  /\ UNCHANGED <<text, draftTargets, staged, clip, roomId, swapTo, here, options, submits, happens>>

\* ---- What comes late --------------------------------------------------------

Still == Undisturbed => text = <<>> /\ ~share.open
Happens == happens < MaxHappens /\ happens' = happens + 1

\* ← and → on an empty line, with the prompt to share over it or not.
SwitchRoom(room) ==
  /\ text = <<>> /\ room # roomId /\ Still /\ Happens
  /\ swapTo' = Append(swapTo, room)
  /\ UNCHANGED <<text, draftTargets, staged, clip, roomId, here, options, share, posted>> /\ Quietly
Swaps ==
  /\ swapTo # <<>> /\ Still
  /\ roomId' = Last(swapTo) /\ swapTo' = <<>>
  /\ options' = [asked |-> FALSE, at |-> 1, dismissed |-> FALSE]
  /\ UNCHANGED <<text, draftTargets, staged, clip, here, share, posted, happens>> /\ Quietly

PasteClipboard ==
  /\ ~clip /\ ~share.open /\ Happens /\ clip' = TRUE
  /\ UNCHANGED <<text, draftTargets, staged, roomId, swapTo, here, options, share, posted>>
  /\ Quietly
ClipboardRead ==
  /\ clip /\ clip' = FALSE
  /\ \/ /\ staged' = staged + 1 /\ UNCHANGED <<text, draftTargets>>
     \/ /\ \E marker \in Markers :
             /\ Len(text) < MaxText /\ (~Veiled => Said(Append(text, marker)))
             /\ text' = Append(text, marker) /\ draftTargets' = OnChange(Append(text, marker))
        /\ UNCHANGED staged
  /\ UNCHANGED <<roomId, swapTo, here, options, share, posted, happens>> /\ Quietly

Question ==
  /\ Still /\ Happens
  /\ options' = [asked |-> ~options.asked, at |-> 1, dismissed |-> FALSE]
  /\ UNCHANGED <<text, draftTargets, staged, clip, roomId, swapTo, here, share, posted>> /\ Quietly
SetActive(agent, room) ==
  /\ Still /\ Happens
  /\ here' = [here EXCEPT ![room] = IF agent \in @ THEN @ \ {agent} ELSE @ \cup {agent}]
  /\ UNCHANGED <<text, draftTargets, staged, clip, roomId, swapTo, options, share, posted>>
  /\ Quietly

-----------------------------------------------------------------------------

PromptNext ==
  \/ \E symbol \in Letters \cup Markers \cup {"@", "/", "!", " ", "nl"} :
       Writes(symbol) \/ Unwrites(symbol)
  \/ CompletesMention \/ OnSubmit \/ PicksOption
  \/ \E step \in {1, -1} : MovesOption(step)
  \/ HidesOptions \/ ClearsStaged \/ ClearsDraft
  \/ \E sends \in BOOLEAN : AnswersShare(sends)
  \/ \E room \in Strip : SwitchRoom(room)
  \/ Swaps \/ PasteClipboard \/ ClipboardRead \/ Question
  \/ \E agent \in Handles, room \in Strip : SetActive(agent, room)

PromptSpec == PromptInit /\ [][PromptNext]_promptVars

-----------------------------------------------------------------------------

\* What a key sent is what the screen said: the border's kind, the preview's agents, the
\* images staged, and the prompt that is on top.
DoesAsShown == promptDid = promptMeant

\* A capture is shared with the room in whose workspace it was made.
CaptureHome == \A p \in posted : p.of = p.to

PromptTells == DoesAsShown /\ CaptureHome
=============================================================================
