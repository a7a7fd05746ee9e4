------------------------------- MODULE Screen -------------------------------
(* The terminal client's screen: the overlays stacked over the conversation,   *)
(* the commands and menus that raise them, the requests whose answers raise or  *)
(* close one, the room that is shown and the panel of a login, which the        *)
(* server raises when it likes.                                                 *)
EXTENDS Naturals, Sequences, FiniteSets, SequencesExt

CONSTANTS
  \* @type: Set(ROOM);    the rooms of the strip
  Tabs,
  \* @type: ROOM;         the room the client starts in
  FirstRoom,
  \* @type: Int;          bound: overlays on screen at once
  MaxLayers,
  \* @type: Int;          bound: requests in flight
  MaxWaits,
  \* @type: Int;          bound: switches asked for
  MaxJumps,
  \* @type: Bool;         TRUE: nothing is raised while an answer is awaited that raises or closes
  Patient,
  \* @type: Bool;         TRUE: nobody asks for the room on screen while another is on its way
  StaysPut

ASSUME ScreenAssumption == /\ FirstRoom \in Tabs
                           /\ MaxLayers \in Nat /\ MaxWaits \in Nat /\ MaxJumps \in Nat
                           /\ Patient \in BOOLEAN /\ StaysPut \in BOOLEAN

VARIABLES
  shown,          \* roomId: the room whose store the screen is bound to
  life,           \* which store of the session that is: a swap makes a new one
  layers,         \* OverlayHost.stack, the top last
  inflight,          \* requests in flight, with what their answers will do
  switchSeq,      \* the token of the newest switch
  wanted,         \* the room last asked for (history)
  plusSelected,   \* the cursor is on the + tab
  oauthLayer,     \* the layer of the login's panel, as main.ts remembers it; 0: none
  oauthProgress,  \* a login is in progress, as the shown room's store knows
  takenDown       \* what was taken down by another's completion (history)

screenVars == <<shown, life, layers, inflight, switchSeq, wanted, plusSelected,
                oauthLayer, oauthProgress, takenDown>>

Nowhere == "none"

\* Overlays that close when something is chosen from them, before they act on it.
Menus == {"agents", "add", "models", "levels", "thinkers", "edits", "prompts", "providers",
          "manage", "roster", "actions", "kick", "seats", "moves", "text", "lineup", "presets",
          "rooms", "solo", "entry", "list", "picker"}
\* Overlays that close by a callback made when they were built.
Forms == {"agentForm", "editForm", "room", "composer"}
Overlays == Menus \cup Forms \cup {"board", "prompt", "card", "panel"}
\* What it hurts to lose: something typed, or the only view of a login that waits.
Held == Forms \cup {"card", "text", "panel"}
\* Overlays of the registry keep the store of the command that raised them; the host
\* builds the others against the store of the moment.
Bound == Menus \ {"lineup", "presets", "entry"}

LayerIds == 1..(MaxLayers + MaxWaits + 1)
FreshId == CHOOSE n \in LayerIds : /\ \A i \in DOMAIN layers : layers[i].n # n
                                   /\ \A w \in inflight : w.n # n
                                   /\ oauthLayer # n

\* ---- The host ---------------------------------------------------------------

\* OverlayHost.mount: a layer on top. `under` is the depth a form's onClose cuts to.
Mount(ls, kind, back, of) ==
  Append(ls, [kind |-> kind, n |-> FreshId, under |-> Len(ls), back |-> back,
              of |-> IF kind \in Bound THEN of ELSE life])

\* OverlayHost.open: whatever is on top gives way.
Open(ls, kind, back, of) == Mount(IF ls = <<>> THEN ls ELSE Front(ls), kind, back, of)
Replaced(ls) == IF ls = <<>> THEN {} ELSE {Last(ls).kind} \cap Held

\* The formDeps' onClose: every layer above the depth of the form when it was built.
CutTo(ls, depth) == SubSeq(ls, 1, IF Len(ls) < depth THEN Len(ls) ELSE depth)

\* What pushComponent gave to take its layer down: that one, wherever it is by then.
Pop(ls, n) == IF \E i \in DOMAIN ls : ls[i].n = n
              THEN RemoveAt(ls, CHOOSE i \in DOMAIN ls : ls[i].n = n)
              ELSE ls

TopLayer == Last(layers)
Pending(does) == {w \in inflight : w.does = does}
Switching == Pending("switch") # {}
\* What a patient user (and a patient server, for a login) waits for.
Quiet == Patient => inflight = {}
MayAsk(id) == /\ switchSeq < MaxJumps
              /\ StaysPut => ~(Switching /\ id = shown)

WaitIds == 1..(MaxWaits + 1)
Wait(does, step, of) ==
  [does |-> does, kind |-> step.kind, back |-> step.back, otherwise |-> step.otherwise,
   to |-> step.to, of |-> of, under |-> 0, n |-> 0,
   no |-> CHOOSE i \in WaitIds : \A w \in inflight : w.no # i]
CanSend == Cardinality(inflight) < MaxWaits

\* What a command or a choice does to the screen: nothing, an overlay at once, one when
\* an answer comes (or another when it fails), or a room to switch to when it comes.
Step(act, kind, back, otherwise, to) ==
  [act |-> act, kind |-> kind, back |-> back, otherwise |-> otherwise, to |-> to]

\* The menu that a cancelled overlay of this kind reopens.
Parent(kind) == CASE kind = "add" -> "agents"
                  [] kind = "actions" -> "roster"
                  [] kind = "kick" -> "actions"
                  [] kind = "moves" -> "seats"
                  [] OTHER -> Nowhere

Nothing == Step("none", Nowhere, Nowhere, Nowhere, shown)
Shows(kind) == Step("show", kind, Parent(kind), Nowhere, shown)
Fetches(kind, back, otherwise) == Step("open", kind, back, otherwise, shown)
Leads == {Step("lead", Nowhere, Nowhere, Nowhere, to) : to \in Tabs \ {shown}}

Takes(step, base, of) ==
  /\ layers' = IF step.act = "show" THEN Open(base, step.kind, step.back, of) ELSE base
  /\ takenDown' = takenDown \cup (IF step.act = "show" THEN Replaced(base) ELSE {})
  /\ IF step.act \in {"open", "lead"}
     THEN CanSend /\ inflight' = inflight \cup {Wait(step.act, step, of)}
     ELSE UNCHANGED inflight

\* ---- The commands -----------------------------------------------------------

TalkCommands == {Shows("list"), Nothing}
AgentCommands == {Nothing}
SeatsCommand == {Shows("seats"), Nothing}
RoomsCommand == {Fetches("rooms", Nowhere, Nowhere)}
CloseCommand == Leads
NewRoomCommand == {Shows("room")} \cup Leads
SoloCommand == {Fetches("solo", Nowhere, Nowhere)} \cup Leads
PanelCommands == {Shows("lineup"), Shows("roster"), Shows("board"), Shows("agentForm")}
BrainCommands == {Shows("agents"), Fetches("models", Nowhere, Nowhere),
                  Shows("thinkers"), Fetches("levels", Nowhere, Nowhere)}
RollbackCommand == {Shows("list"), Nothing}
ForkCommand == Leads
PiUpdateCommand == {Fetches("list", Nowhere, Nowhere)}
PersonaCommands == {Shows("prompts"), Shows("prompt"), Shows("edits"), Shows("editForm")}
ProvidersCommand == {Shows("providers")}
TemplateCommand == {Fetches("list", Nowhere, Nowhere)}
PresetCommand == {Nothing, Shows("composer"), Fetches("composer", Nowhere, Nowhere),
                  Fetches("presets", Nowhere, Nowhere)}

COMMANDS == UNION {TalkCommands, AgentCommands, SeatsCommand, RoomsCommand, CloseCommand,
                   NewRoomCommand, SoloCommand, PanelCommands, BrainCommands,
                   RollbackCommand, ForkCommand, PiUpdateCommand, PersonaCommands,
                   ProvidersCommand, TemplateCommand, PresetCommand}

\* ---- What choosing from a menu does -----------------------------------------

AgentModelPicker == {Fetches("models", "agents", Nowhere), Fetches("add", "agents", Nowhere)}
AddAgentPicker == {Shows("agentForm"), Fetches("agents", Nowhere, "agents")}
\* The level follows the model: the two are one decision.
ModelPicker(back) == {Fetches("levels", back, back)}
AgentThinkingPicker == {Fetches("levels", "thinkers", "thinkers")}
ThinkingPicker(back) ==
  IF back = Nowhere THEN {Nothing} ELSE {Fetches(back, Nowhere, back)}
EditChoice == {Shows("editForm")}
PromptChoice == {Shows("prompt")}
LineupChoice == {Shows("agentForm")}
ProviderChoice == {Shows("manage"), Shows("text"), Nothing}
ManageChoice == {Shows("text"), Nothing}
PresetChoice == {Shows("composer"), Nothing}
RoomChoice == {Nothing} \cup Leads
RosterChoice == {Shows("actions"), Nothing}
AgentAction == {Shows("editForm"), Shows("prompt"), Fetches("models", Nowhere, Nowhere),
                Shows("text"), Nothing, Shows("kick")}
KickChoice == {Shows("actions"), Nothing}
SeatChoice == {Shows("moves"), Nothing}
SeatAction == {Shows("text"), Nothing}
SoloChoice == Leads
EntryChoice == {Shows("room")} \cup Leads

Choice(l) ==
  CASE l.kind = "agents" -> AgentModelPicker
    [] l.kind = "add" -> AddAgentPicker
    [] l.kind = "models" -> ModelPicker(l.back)
    [] l.kind = "levels" -> ThinkingPicker(l.back)
    [] l.kind = "thinkers" -> AgentThinkingPicker
    [] l.kind = "edits" -> EditChoice
    [] l.kind = "prompts" -> PromptChoice
    [] l.kind = "providers" -> ProviderChoice
    [] l.kind = "manage" -> ManageChoice
    [] l.kind = "roster" -> RosterChoice
    [] l.kind = "actions" -> AgentAction
    [] l.kind = "kick" -> KickChoice
    [] l.kind = "seats" -> SeatChoice
    [] l.kind = "moves" -> SeatAction
    [] l.kind = "lineup" -> LineupChoice
    [] l.kind = "presets" -> PresetChoice
    [] l.kind = "rooms" -> RoomChoice
    [] l.kind = "solo" -> SoloChoice
    [] l.kind = "entry" -> EntryChoice
    [] OTHER -> {Nothing}

\* ---- The actions ------------------------------------------------------------

ScreenInit ==
  /\ shown = FirstRoom /\ life = 0
  /\ layers = <<>> /\ inflight = {}
  /\ switchSeq = 0 /\ wanted = FirstRoom
  /\ plusSelected = FALSE
  /\ oauthLayer = 0 /\ oauthProgress = FALSE
  /\ takenDown = {}

RoomStays == UNCHANGED <<shown, life, switchSeq, wanted, plusSelected, oauthLayer, oauthProgress>>

\* A slash command, or the chord that stands for one, with no overlay open.
RunsCommand ==
  /\ layers = <<>> /\ Quiet
  /\ \E step \in COMMANDS : Takes(step, layers, life)
  /\ RoomStays

\* The host takes a menu down, then lets it act: the action may raise the next overlay.
\* The preset picker leaves it to the composer to take its place.
Chooses ==
  /\ layers # <<>> /\ TopLayer.kind \in Menus
  /\ \E step \in Choice(TopLayer) :
       Takes(step, IF TopLayer.kind = "presets" /\ step.act = "show" THEN layers
                   ELSE Front(layers), TopLayer.of)
  /\ RoomStays

\* Esc: down it goes, and the menu that raised it comes back.
Cancels ==
  /\ layers # <<>> /\ TopLayer.kind \in Menus \cup Forms \cup {"board", "prompt"}
  /\ LET under == IF TopLayer.kind \in Forms THEN CutTo(layers, TopLayer.under)
                  ELSE Front(layers)
         back == TopLayer.back
     IN  Takes(IF back = Nowhere THEN Nothing ELSE Shows(back), under, TopLayer.of)
  /\ RoomStays

\* An answer that raises an overlay, whatever is on top by then; or its failure.
FetchEnds(w) ==
  /\ w.does = "open"
  /\ inflight' = inflight \ {w}
  /\ \E kind \in {w.kind, w.otherwise} :
       LET back == IF kind = w.kind /\ w.back # Nowhere THEN w.back ELSE Parent(kind)
       IN  IF kind = Nowhere THEN UNCHANGED <<layers, takenDown>>
           ELSE /\ layers' = Open(layers, kind, back, w.of)
                /\ takenDown' = takenDown \cup Replaced(layers)
  /\ RoomStays

\* ---- The forms --------------------------------------------------------------

\* An overlay of kind `from` pushes another over itself, and stays underneath.
Pushes(from, kind) ==
  /\ layers # <<>> /\ TopLayer.kind = from /\ Quiet /\ Len(layers) < MaxLayers
  /\ layers' = Mount(layers, kind, Nowhere, life)
  /\ RoomStays /\ UNCHANGED <<inflight, takenDown>>

RoomFormPicks == Pushes("room", "picker")
EditsMember == Pushes("composer", "card")
MemberPicks == Pushes("card", "picker")
AddsMember == Pushes("composer", "picker")

\* Choosing a template pushes the new member's card in the picker's place.
PicksTemplate ==
  /\ Len(layers) > 1 /\ TopLayer.kind = "picker" /\ layers[Len(layers) - 1].kind = "composer"
  /\ layers' = Mount(Front(layers), "card", Nowhere, life)
  /\ RoomStays /\ UNCHANGED <<inflight, takenDown>>

\* Done by the composer's own onClose: the composer goes with the card.
CardDoneByDepth ==
  /\ layers # <<>> /\ TopLayer.kind = "card"
  /\ layers' = CutTo(layers, layers[Len(layers) - 1].under)
  /\ takenDown' = takenDown \cup {layers[Len(layers) - 1].kind}
  /\ RoomStays /\ UNCHANGED inflight

\* Done or Esc hands the member back to the composer; the card takes itself down.
CardDone ==
  /\ layers # <<>> /\ TopLayer.kind = "card"
  /\ layers' = Pop(layers, TopLayer.n)
  /\ RoomStays /\ UNCHANGED <<inflight, takenDown>>

\* Its save, with the depth its onClose cuts to; a prompt's closes whatever is on top.
Saving(l) == [Wait("save", Nothing, life) EXCEPT !.kind = l.kind, !.under = l.under, !.n = l.n]

\* The form stays until it is answered, and ⏎ saves again; only the room form knows
\* that it is already saving.
Submits(kind) ==
  /\ layers # <<>> /\ TopLayer.kind = kind /\ CanSend
  /\ inflight' = inflight \cup {Saving(TopLayer)}
  /\ RoomStays /\ UNCHANGED <<layers, takenDown>>

AgentFormSubmits == Submits("agentForm")
EditFormSubmits == Submits("editForm")
RoomFormSubmits == Submits("room") /\ \A w \in Pending("save") : w.n # TopLayer.n
ComposerSaves == Submits("composer")
PromptSaves == Submits("prompt")

\* switchRoom: the room on screen is not fetched again.
SwitchTo(id, others) ==
  /\ plusSelected' = FALSE
  /\ wanted' = id
  /\ IF id = shown THEN UNCHANGED switchSeq /\ inflight' = others
     ELSE /\ switchSeq' = switchSeq + 1
          /\ inflight' = others \cup {[Wait("switch", Nothing, life)
                                      EXCEPT !.to = id, !.under = switchSeq + 1]}
  /\ UNCHANGED <<shown, life, oauthLayer, oauthProgress>>

\* A save is answered: the form goes, and what is above it; or it fails, and stays.
SaveEnds(w) ==
  /\ w.does = "save"
  /\ LET depth == IF w.kind # "prompt" THEN w.under
                  ELSE IF layers = <<>> THEN 0 ELSE Len(layers) - 1
         others == {i \in DOMAIN layers : i > depth /\ layers[i].n # w.n}
     IN  /\ layers' = CutTo(layers, depth)
         /\ takenDown' = takenDown \cup ({layers[i].kind : i \in others} \cap Held)
  /\ IF w.kind = "room"
     THEN \E to \in Tabs \ {shown} : MayAsk(to) /\ SwitchTo(to, inflight \ {w})
     ELSE inflight' = inflight \ {w} /\ RoomStays

SaveFails(w) ==
  /\ w.does = "save" /\ inflight' = inflight \ {w}
  /\ RoomStays /\ UNCHANGED <<layers, takenDown>>

\* ---- The room on screen -----------------------------------------------------

\* Left and right over the rooms and the + tab, with no overlay open.
Navigates ==
  /\ layers = <<>> /\ (Patient => inflight = Pending("switch"))
  /\ \/ plusSelected' = TRUE /\ UNCHANGED <<shown, life, inflight, switchSeq, wanted, oauthLayer,
                                            oauthProgress>>
     \/ CanSend /\ \E to \in Tabs : MayAsk(to) /\ SwitchTo(to, inflight)
  /\ UNCHANGED <<layers, takenDown>>

\* Enter on the + tab: the rooms that can be resumed, or the form when there are none.
EntersPlus ==
  /\ layers = <<>> /\ plusSelected /\ Quiet
  /\ Takes(Fetches("entry", Nowhere, "room"), layers, life)
  /\ RoomStays

\* A room was resumed, created, forked or closed: its request switches; or fails.
LeadEnds(w) ==
  /\ w.does = "lead"
  /\ \/ MayAsk(w.to) /\ SwitchTo(w.to, inflight \ {w})
     \/ inflight' = inflight \ {w} /\ RoomStays
  /\ UNCHANGED <<layers, takenDown>>

\* swap: the overlays belong to the room that is left, and so does its login.
Swap(w) ==
  /\ shown' = w.to /\ life' = life + 1
  /\ layers' = <<>>
  /\ oauthLayer' = 0 /\ oauthProgress' = FALSE

\* Whatever arrives is swapped in.
PreloadEndsUnchecked(w) ==
  /\ w.does = "switch"
  /\ inflight' = inflight \ {w}
  /\ Swap(w)
  /\ UNCHANGED <<switchSeq, wanted, plusSelected, takenDown>>

\* The next room's state is there, or failed to come: only the newest switch swaps.
PreloadEnds(w) ==
  /\ w.does = "switch"
  /\ inflight' = inflight \ {w}
  /\ IF w.under = switchSeq THEN Swap(w)
     ELSE UNCHANGED <<shown, life, layers, oauthLayer, oauthProgress>>
  /\ UNCHANGED <<switchSeq, wanted, plusSelected, takenDown>>

\* ---- The login's panel ------------------------------------------------------

\* syncOAuth: the panel comes with the server's first progress, over whatever is open.
LoginBegins ==
  /\ ~oauthProgress /\ oauthLayer = 0 /\ Quiet /\ Len(layers) < MaxLayers
  /\ oauthProgress' = TRUE
  /\ layers' = Mount(layers, "panel", Nowhere, life)
  /\ oauthLayer' = FreshId
  /\ UNCHANGED <<shown, life, inflight, switchSeq, wanted, plusSelected, takenDown>>

\* The login succeeded, failed or was dismissed: the panel takes itself down.
LoginOver ==
  /\ oauthProgress
  /\ oauthProgress' = FALSE
  /\ layers' = Pop(layers, oauthLayer)
  /\ oauthLayer' = 0
  /\ UNCHANGED <<shown, life, inflight, switchSeq, wanted, plusSelected, takenDown>>

ScreenNext ==
  \/ RunsCommand \/ Chooses \/ Cancels
  \/ RoomFormPicks \/ AddsMember \/ PicksTemplate \/ EditsMember \/ MemberPicks \/ CardDone
  \/ AgentFormSubmits \/ EditFormSubmits \/ RoomFormSubmits \/ ComposerSaves \/ PromptSaves
  \/ Navigates \/ EntersPlus
  \/ LoginBegins \/ LoginOver
  \/ \E w \in inflight : \/ FetchEnds(w) \/ SaveEnds(w) \/ SaveFails(w)
                         \/ LeadEnds(w) \/ PreloadEnds(w)

ScreenSpec == ScreenInit /\ [][ScreenNext]_screenVars

\* ---- What must hold ---------------------------------------------------------

\* The types: rooms, overlays and requests within their bounds (types of main.ts and
\* overlay-host.ts).
ScreenTypeOK ==
  /\ shown \in Tabs /\ wanted \in Tabs /\ life \in 0..MaxJumps
  /\ Len(layers) <= MaxLayers
  /\ \A i \in DOMAIN layers : layers[i].kind \in Overlays /\ layers[i].n \in LayerIds
  /\ \A w \in inflight : w.no \in WaitIds
  /\ switchSeq \in 0..MaxJumps /\ plusSelected \in BOOLEAN
  /\ oauthLayer \in LayerIds \cup {0} /\ oauthProgress \in BOOLEAN
  /\ takenDown \subseteq Held

\* Nothing typed, and no panel of a login, is taken down by the completion of something
\* else: a form closes itself and its pickers, a card itself, whatever was raised since
\* (overlay-host.ts: onClose pops the layer the form is on, "not the top").
LayersKept == takenDown = {}

\* When no switch is on its way, the room on screen is the one that was asked for last
\* (main.ts: "only the NEWEST may land").
NewestLands == ~Switching => shown = wanted

\* Whatever is answered late, the user keeps the screen and the room he asked for.
ScreenKept == LayersKept /\ NewestLands

\* An overlay acts on the room it is shown over (main.ts: "Overlays belong to the room
\* they were opened from").
OwnRoom == \A i \in DOMAIN layers : layers[i].of = life

\* A login that waits for the user has its panel on screen.
PanelUp == oauthProgress => \E i \in DOMAIN layers : layers[i].n = oauthLayer

=============================================================================
