# pipeline-moe in TLA+

pipeline-moe runs *rooms*: rosters of LLM agents that talk in one transcript, hand work to
each other, pause for a human, and share one local inference server. This directory holds a
TLA+ model of what in it is concurrent, stateful and hard to test, the TLC runs that check it
on small instances, and TLAPS proofs for every value of the constants.

    tlc -workers 2 -config RoomTurnOpen.cfg MCRoomTurn     # a run
    tlapm RoomTurnProofs.tla                               # the proofs of a component

Paths below are relative to the repository; PROJECT.json maps every definition to its lines.

1. The system  2. The modules  3. The runs  4. Variants: where the code does less than it says
5. The proofs  6. What is not modelled, and the plan

## 1. The system

One Node.js process serves the rooms, terminal and web clients show them. Nothing runs in
parallel inside the process, but every `await` lets HTTP handlers, agent sessions and timers
interleave; that is where the concurrency comes from. Between server and client it comes from
the network, in a client from answers that arrive late.

| part | source | state | operations |
|---|---|---|---|
| turn engine | `src/room/room-core.ts` | task `chain`, `queue`, `running`, `aborted`, `pendingQuestion`, `pendingRoute`, `transcript`, cursors | `submit`, `process`, `drainQueue`, `runWave`, `executeAgent`, `abortCurrent`, `rollbackTo`, `runShell`, `steer` |
| routing | `src/room/room-routing.ts`, `src/route-supervisor.ts` | `chainBudget`, `refusedRoutes`, route card, the supervisor's session | `proposeChain`, `resolveRoute`, `processRouteDecision`, `superviseProposals`, `runSupervisorDecision` |
| goals | `src/room/room-goals.ts` | `goalText`, `goalStatus`, `goalCancelled`, iteration | `submitGoal`, `runGoalEval`, `resolveGoal` |
| local-model lock | `src/local-model-lock.ts` | `holders`, `queue` | `acquire`, `release` |
| seat, hat | `src/seat-runtime.ts`, `src/participant.ts`, `src/reasoning-budget.ts` | `turnLock`, `currentHatId`, `externallyAborted`, the session | `acquireTurn`, `run`, `followUp`, `abort`, `rebuild` |
| registry | `src/registry.ts`, `src/seats.ts` | roster, seats, cursors, pending handoffs | create, update, kick, reseat, `setActive`, reset |
| handoffs | `src/custom-tools/handoff.ts`, `src/handoff-gates.ts`, `src/batch-terminate-guard.ts` | the registered handoff, paths touched | `handoff`, `checkHandoffGates` |
| conversations, store | `src/room/room-conversations.ts`, `src/store.ts` | snapshot, save timer, write chain, `sealed` | load, save, delete, flush |
| task board, plans | `src/task-board.ts`, `src/plan-routing.ts` | tasks, `activePlanId` | the task tools, adoption of a plan |
| presets | `src/preset-hydration.ts`, `src/room/room-settings.ts`, `src/personas.ts` | documents, the drift baseline and its latch | load, pull, push, compose, hydrate |
| room tree | `src/room-manager.ts`, `src/server.ts` | rooms, parent links, manifest | provision, report, destroy, restore |
| providers | `src/server.ts`, `src/model.ts` | credentials, pending OAuth inputs | login, cancel, keys, model resolution |
| client core | `packages/client-core` | the room's state, from events and snapshots | `reduce`, `loadSnapshot` |
| terminal clients | `packages/tui` | overlays, command line, forms | keys, and the answers of requests |

How they interact. A message, a sub-room's report, a click on a route card and the supervisor's
answer each become a *task* on the room's promise chain; tasks run one after the other. A task
that starts work fills `queue` and drains it: the queue's head, with the parallel agents right
behind it, is a *wave*. The agents of a wave run at once, except that the local lane runs one
at a time; each takes a workspace snapshot, waits for a slot of the process-wide lock if its
model is local, borrows its seat (several *hats* may share one session), and is prompted, again
and again if the reasoning watchdog cuts it. When the wave is over its results are posted in
order; each may hand off, which extends the queue or proposes a hop for a *card* that a human
or a supervisor agent decides. A question or a card pauses the task: what is left of the queue
is *held* and put back by the answer or the decision. `abortCurrent` (Stop) is not a task: it
acts at once, on whatever it finds. What happens is broadcast to the clients, saved as snapshots
that a chain writes, and told to a parent room when a goal ends.

What makes it hard: Stop between any two awaits; an answer that outlives its question; work held
by a pause; one session used by several agents; a lock released by room label; what an operation
read before an await and writes after it; snapshots and events on unrelated channels; an answer
that comes when the screen is another. PROJECT.json lists these hazards line by line, with the
properties that cover them.

What makes each part correct. *Lock*: no slot lost or handed out twice, first come first served.
*Seat*: one voice at a time, in its own name, level and tools; Stop never loses the race. *Room*: no
work lost over a pause, chains bounded, every task ends, Stop final, cards settled by their own
verdict. *Goals*: end once, judged by their own words. *Transcript*: every agent reads every entry
once. *Roster*: every agent on one seat, none blind to what was said. *Persistence*: what was saved
is what is loaded. *Tree*: no orphans, a parent hears from a child. *Clients*: at rest they show the
room; a key does what the screen says.

## 2. The modules

Core of a room:

| module | models | state and actions |
|---|---|---|
| `SlotPool` | the abstract promise of lock and seat: slots, first come first served | `Enter`, `Wait`, `Leave` |
| `LocalModelLock` | `LocalModelLock` | `holders` (labels) and `queue` as in the code, `state` of each caller; `AcquireAtOnce`, `AcquireQueued`, `Release` |
| `RoomTurn` | the turn engine and routing of one room | see below |
| `SeatTurn` | `executeAgent` around `Participant.run`, `SeatRuntime.acquireTurn`, the reasoning budget | `phase` of each agent, `flag` (`externallyAborted`), `line` (`turnLock`), `worn` (`currentHatId`), `breached`/`issued`/`prompts`; `Launch`, `Stop`, `Snapped`, `GetsSlot`, `TakesSeat`, `Breaches`, `RoundEnds`, `Finishes` |
| `GoalRun` | `RoomGoals` over an abstract drain | `goalStatus`, `goalCancelled`, ...; see below |
| `RoomContext` | `buildContext`, posts, cursors, `rollbackTo` | `transcript` of numbered lines, per seat `cursor` and `memory` (what its session holds); `Ask`, `Answer`, `PostAside` (shell), `Steer`, `InjectReport`, `StartWave`, `Prompts`, `Replies`, `PostReply`, `Rollback` |
| `HandoffGate` | the handoff tool, its gates, the batch guard | `touched` paths, `to` (registered handoff), `batch` under way; `Answers`, `Result`, `Ends`, `SwitchMember` |
| `RouteSession` | `runSupervisorDecision` and its handle | per run `stage`, `decision`, `session`, and `abortHandle`; `OpensCard`, `Prepared`, `CallsDecision`, `SupervisorTimesOut`, `PromptReturns`, `Settles`, `StopRoute` |

Who is in a room, and what is kept of it:

| module | models | state and actions |
|---|---|---|
| `Roster` | `Registry` and `SeatRuntime`: hats on seats, cursors, session directories | `hats`, `cursor`, `session`, `builtLone`; `Create`, `Update`/`UpdateEnds`, `Fuse`, `Solo`, `Kick`, `SetActive`, `Reload`, `LoadPreset`, `RollBack` |
| `SeatSession` | one seat's session, rebuilt and worn | `onSeat`, `persona`, `applied`, `wearing`, `sess`; `TakesTurn`, `CallsTool`, `SetThinking`, `AddHat`, `RemoveHat`, `ReplaceHat`, `OthersChange`, `SessionBuilt` |
| `RosterEdits` | the requests that edit the roster, across their awaits | `order` and `entry` (the map), `edits` under way with what they read; `CreateBegins`/`CreateEnds`, `EditBegins`/`EditEnds`, `KickNow`, `SetFlag`, `LoadBegins`/`LoadAdds`/`LoadEnds` |
| `Board` | `TaskBoard`, `plan-routing` | `tasks`, `board` (shown), `kept` (in files), `activePlanId`; the task tools, `PlanCall`, `TurnRouted`, `Switch`, `StartFresh`, `Reboot` |
| `Persistence` | conversations, save timer, write chain, shutdown | `convId`, `text`, `roster`, `chain`, `disk`, `op` (what an operation awaits), `down`; `Lands`, `WriteFails`, `TimerFires`, `SwitchConversation`, `DeleteConversation`, `RollbackTo`, `Seals`, `Restart` |
| `PresetDrift` | baseline, badge, notice, pull and push | `file`, `current`, `baseline`, `latched`; `Edit`, `Author`, `ApplyPreset`, `Push`, `Reboot` |
| `PresetDoc` | composing, stripping, storing and hydrating a preset's document | `file`, `composer`, `card`, `live`, `build` |
| `RoomTree` | provisioning, reports, cascading destruction, manifest, boot | `live`, `parent`, `linked`, `inbox`, `op`, `manifest`, `boot`; `Provision`, `DestroySubtree` and their steps (`Proceeds`), `Runs`, `AskOrchestrator`, `Restart`, `RestoreRoom` |
| `Providers` | keys, OAuth logins and their pending input, model assignment | `flow`, `pending`, `credential`, `assigned`, `runsOn`; `Login`, `Relogin`, `Input`, `Cancel`, `TimesOut`, `AddKey`, `Assign` |

Clients:

| module | models | state and actions |
|---|---|---|
| `LiveTurn` | `TurnSegmenter`, and the reducer that assembles the same reply | `parts` on the server, `liveParts` in the client, `wire` between; `Delta`, `ToolStarts`, `TurnEnds`, `Deliver`, `Break`, `Reopen` |
| `ClientSync` | the store's snapshots and the room's events | `entries` (the transcript), `phase` of the server; `messages`, `pendingRoute`, `turnActive`, `paused` of the client; `sent`, `requests`, `replies` between; `PostEntry`, `Truncate`, `Turn`, `Serve`, `Receives`, `StreamBreaks`, `StreamOpens`, `StoreStarts`, `Click` |
| `Screen` | overlays, room switches, the login panel (pi-tui client) | `layers` with the room and depth each was opened over, `inflight` requests, `shown`/`wanted` rooms |
| `Draft`, `Joins` | what both command lines share: pastes, modes, mentions, history, the picker; a sequence of pieces as one | operators |
| `InputLine` | the Ink client's command line | what the handler reads through references (`draft`), what it reads of the last render (`drawn`) |
| `Prompt` | the pi-tui client's editor, with the prompt that asks to share a capture | |
| `Form` | the wizards of both clients, and the rows they draw | `forms`, `sentOut` requests, `makes` on the server |

`MC*` modules give the constants their values. `MCViews` (RoomContext, LiveTurn, ClientSync, Screen,
Prompt), `MCTeam` (Roster, PresetDrift, HandoffGate, Form), `MCServer` (Providers, Persistence,
RouteSession) and `MCEdits` (SeatSession, RosterEdits, Board, PresetDoc, InputLine) are sums: a
variable `part` is fixed in the initial state and names the module that is explored, the
others stay in their initial states. These modules share no state in the code that a property
relates, so the sum explores each one in full and mixes none. `*Proofs` modules hold the theorems.

### RoomTurn

`chain`, `mode`, `active`, `queue`, `aborted`, `budget`, `pq`, `pr`, `refused` and `handoff` are the
room's fields (`pendingQuestion` and `pendingRoute` are `pq` and `pr`). The locals of the task at
work are variables too (`wave`, `stage`, `out`, `idx`, `asks`, `proposed`, `resume`, `kept`), and `pc`
says at which `await` it stands: `idle`, `drain`, `wave`, `post`, `lookup` (the plan is being read)
or `close`. A step goes from one await to the next; where the code runs on synchronously over
several steps, `JsBusy` keeps the outside away.

| code | actions |
|---|---|
| `submit`, `injectOrchestratorReport`, `resolveRoute`, `abortCurrent`, `setActive`, `setRoutingMode` | `Submit`, `Click`, `Stop`, `SetActive`, `SetMode` |
| `process`, `processOrchestratorReport` | `TakeMessage`, `TakeUnroutable`, `TakeAnswer`, `TakeCancel`, `TakeReport` |
| `processRouteDecision`, `applySupervisorOutcome`, `processRouteRefusal` | `TakeDecision`, `TakeOutcome`, with `Decide` and `Refuse` |
| `drainQueue`, `nextGroup`, `runWave` | `StartWave`, `Collect`, `EndDrain` |
| `executeAgent` | `Snapshot`, `Begin`, `HandsOff`, `Speak`, `Throw`, `Finish` |
| the posting loop with `proposeChain` | `PostSkipped`, `PostUnchained`, `PostAskedAgain`, `PostCoalesced`, `PostHandedOff`, `PostProposed`, `PostEnding`, `LookedUp` |
| the end of a wave, `superviseProposals` | `TailAsk`, `TailOn`, `TailCard`, `TailSupervise` |
| `startSupervisorDecision` | `SupervisorDone`, with `deciding` |
| `endTurn` | `Close` |

Abstracted: texts, the transcript, images, receipts and notices; a redirect may go to any set of
active agents; the order in which hops decided together are queued is left open (`Orders`); a
snapshot is an await that succeeds, also in remote rooms, which take none; `sendCustomMessage` is
taken as synchronous; the plan's next owner is a constant, and reading the plan an await; a
supervisor's verdict may be any its tool allows. The parameter of a decision names no card,
as in the code. `stopped` is a history variable: whether Stop has hit the task at work.

`SeatTurn` refines the stages lock to after of `RoomTurn` and leaves the room around them out
(`Launch` starts any wave). Hats of one seat in one wave, which `RoomTurn` lets speak at once, are
serialized there. What a hat wears while it speaks is `SeatSession`'s.

### GoalRun

A goal is submitted once, on the fresh room `provisionRoom` made for it. What `RoomTurn` models of
a drain is here a row of single turns (`turn` is the evaluator or a worker) that goes on, is over,
or pauses; `pc` says whose drain it is: the task's own, an evaluation pass, or the retry of one.
`routing` is the set of automatic routings that are on, for `fallbackAgentId` and
`planAwareRoutingEnabled`, which the code saves and restores together.

| code | definitions |
|---|---|
| `submitGoal`, `abortCurrent`, `setFallbackAgent`, `setPlanAwareRouting`, `setActive`, `steer`, `postShellRecord` | `SubmitGoal`, `Stop`, `SetRouting`, `SetActive`, `Remark` |
| `process` with a goal | `TakeMessage`, `DrainEnds`, `Stopped` |
| answer, `/cancel`, route decision, report | `TakeResume`, then `DrainEnds` without the check for Stop (`checks`) |
| `drainQueue` | `Speaks`, `Fails`, with `GoesOn`, `Over`, `Pauses` |
| `goal_verdict` | `CallsVerdict` |
| `endTurn`, `runGoalEval`, `evalOutcome`, `resolveGoal` | `EndTurn`, `RunGoalEval`, `Loop`, `Pass`, `PassEnds`, `Retry`, `RetryEnds`, `Judge`, `Outcome`, `Resolve` |

Abstracted: waves (one turn at a time); a pause that opens after Stop, which `RoomTurn` has; a
`sendCustomMessage` that throws. `resolveGoal("failed", "aborted")` is in the model but cannot
happen, in it as in the code: whatever raises `aborted` while a goal runs raises `goalCancelled`.

### What the others abstract

- `RoomContext`: a line is a number; a reply may hand the turn to anybody. Sessions are persisted
  (the default), so a session that is rebuilt keeps its context.
- `Persistence`: a text is the last edit of a transcript and the conversation it was written in, a
  roster the edit that made it; a write is one step (tmp file and rename), after which it is there.
- `Roster`: a session is how much of the transcript it was shown. `RosterEdits` has the awaits that
  `Roster` takes as one step (but for an edit's), and no seats.
- `RoomTree`: a room's turns are abstracted to spawning, asking and ending; within a room the tasks
  run one after the other.
- `LiveTurn`: a delta is one word or one blank; trimming is all that is done to a segment.
- `ClientSync`: of the snapshot, the transcript and the card; the other fields are treated as they are.
- `PresetDoc`: a prompt and a skill list are shipped (of one build or the other), own, or missing.
- `Draft`: the code's trimming, markers and modes on symbols. Not modelled: a cursor inside a paste
  marker or a marker mangled by hand, a trailing backslash before ⏎, wrapping.
- `Form`: a field holds a word or nothing, and is not trimmed; ⇧⇥ cycles backwards and is left out.

## 3. The runs

| run | instance | what it shows | states |
|---|---|---|---|
| `local_lock` | two slots, three rooms, five turns | `ImplementsPool`: a lock that releases by room label works as a FIFO pool of slots. `WaiterServed`: who waits is served. | 294 |
| `room_open` | three agents, auto and manual mode, parallel workers, two inputs, one Stop, plan routing | `ChainBounded`, `WorkKept` (only Stop, or a second pause opened over the first, drops work), `StopSticks`, `TurnEnds` | 454 171 |
| `room_supervised` | two agents, supervised and semi mode, two cards, two clicks, a Stop, a change of mode or roster | `JudgeAtWork`: no card without its judge. `RefusedRests`: a refused hop is not put again in the turn. `VerdictFitsCard`, `CardSettled` | 422 113 |
| `seat_turn` | three hats on two seats, two waves, two Stops, two checkpoints | `OneVoice`, `StopHonoured` (a stopped room prompts nobody), `TurnOver` | 112 542 |
| `goal_run` | both modes, two passes with retries, two later tasks, a Stop, a change of roster or settings | `ToldOnce`, `StopEndsEvaluation`, `OwnToolVerdict`, `TaskEnds` | 551 568 |
| `views` | the sum `MCViews` | `ReadsTheRoom`: a session holds the room's lines in order, none twice, missing or taken back. `LiveIsPersisted`: the live reply is the one that is kept. `ClientMatches`: a client at rest shows the room. `ScreenKept`: a late answer takes down nothing else. `PromptTells`: a key does what the screen says. | 2 227 008 |
| `team` | the sum `MCTeam` | `SeatsFit`, `Sees` (no cursor ahead of its session), `WakesFresh`, `DriftTold`, `NeverTrapped` (the gates leave somebody to hand to), `FormTells` (what is made is what was shown, once) | 1 136 822 |
| `server` | the sum `MCServer` | `NoGhost`, `QuestionReached`, `FilesKept`, `NoOlder` (no file goes back to an older state), `WhatBeginsEnds` (logins, supervisor sessions and saves end) | 365 227 |
| `room_tree` | three rooms, two provisions, a message, a restart | `TreeKept`: no orphans, the manifest fits, all rooms come back. `ParentTold` | 169 409 |
| `edits` | the sum `MCEdits` | `HatFits` (a turn wears its own hat), `RosterKept`, `BoardTrue`, `PresetTrue`, `LineTells` | 2 012 544 |
| `stop_pause` | one input, one Stop | refutes `NoPauseAfterStop`: a room pauses after Stop | |
| `goal_cancelled` | one pass, one later task, a Stop | refutes `CancelWins`: a stopped goal is reported completed, when Stop hits the work an answer resumed | |

The refuted statements are quoted from the repository in PROJECT.json ("findings"), with the line
of code that decides.

Bounds. Each constant named `Max...` bounds what the outside does, or a number that grows; the
smallest at which the interesting case happens were taken.
- Rooms: three agents are the fewest with a planner, a pair of parallel workers, a third party to a
  handoff and a cycle of hops. `MaxHops` = 2: a chain goes on once and is cut once. Two inputs make an
  answer, or a message over a pause, possible; one Stop reaches every interleaving with one task, since the
  next task clears its effect. Two cards are the fewest for a verdict that comes late.
- Seat: two waves for what one leaves behind for the next, two Stops to hit both.
- Goal: two iterations for a pass after a pass, two turns per drain for a handoff, two later
  tasks for a pause in a resumed pass. Lock: five callers over two slots make a line of three.
- `RoomContext`: three hats, two of a seat, a parallel one on each seat; two messages or answers, two
  things beside them (a rollback after a handoff, a steering beside a report).
- `Persistence`: three conversations: the live one that is deleted, one to fall back to, one to start;
  three edits, two operations, a failing write, a restart, two snapshots on the chain.
- `Providers`: two logins and three questions: the newer login asks while the older one ends.
  `RouteSession`: two runs, the second of which may overlap the end of the first.
- `RoomTree`: a room, its child and another; two provisions, for a room spawned by a room that was
  provisioned; one restart.
- `Roster`: three agents and a shared seat, one entry said, a reload, a preset. `RosterEdits`: two requests
  at work beside kicks and flags. `Board`: two plans, two conversations.
- `LiveTurn`: three deltas or calls, then two in a second turn: runs that alternate, and a chained turn.
  `ClientSync`: two entries, two turns, one break, one failed click; both kinds of channels.
- `Screen`: four overlays (a form, its picker, one raised over it, the login's panel), two requests.
  `Prompt`: drafts of three symbols, two of them submitted; `InputLine`: two symbols, typed twice over with
  history. `Form`: one form of each kind in each behaviour (`MaxForms` = 1: forms opened in turn
  share nothing but the answers still out, which `Hurried` is about); `FormFits` speaks of terminals of
  13 rows and more, 13 being the one that is checked.

Symmetry is not used: agents differ in what they are configured as. Deadlock is checked in
`local_lock`; elsewhere, with the outside's budget spent, an idle room really stops, and the cfg says so.

Fairness. The event loop runs whatever is ready, timers fire, and what is awaited returns:
- `LocalModelLock`: `Release`; `RoomTurn`: the steps of the room and its agents, as one (`Room`), and a supervisor's
  (`SupervisorDone` of some card); `SeatTurn`: each hat's `Turn`; `GoalRun`: the steps of the task at work (`Task`). This includes that a prompt ends, by an
  answer or an error: the code relies on its providers for it. Fairness of the local slot in
  `RoomTurn` and `SeatTurn` is what `WaiterServed` shows of the lock.
- `RouteSession`: preparing ends one way or the other, the runner's timer fires, and a prompt that is
  aborted returns. `Providers`: a login the library runs comes to its next event, timeouts fire.
- `Persistence`: a write lands (or fails), timers fire, turns end, awaits come back.
- `RoomTree`: a room's tasks run, an operation goes on. `LiveTurn` and `ClientSync`: what is sent is delivered
  unless the stream breaks.
Users, clicks, Stops, breaks, failures, restarts and the watchdog are under no fairness.

Switches. Some modules have a Boolean constant that admits an interleaving in which the code is
known to go wrong; the runs leave it off and so show that *only* there it goes wrong, and section 4
turns it on. The assumption a switch stands for is not one the code makes true; the table there
says what it takes to meet it.

## 4. Variants: where the code does less than it says

Each row is a run of the same modules with a constant changed (and one property): TLC finds
the property violated. The quotations they contradict and the lines are in PROJECT.json.

| property | cfg | change | what happens |
|---|---|---|---|
| `HeldResumes` | `RoomTurnOpen.cfg` | `PlanOwner = None`, `MaxHops = 1`, `Modes <- MCSemi`, `MaxStops = 0`, `MaxCards = 2` | work a card holds is lost when a later message opens another card |
| `ChainBounded` | `RoomTurnSupervised.cfg` | three agents (`MCAgents`, `MCSeats`), `Fallback = None`, `MaxHops = 1`, `Modes <- MCSupervised`, no clicks, Stops or flips, `MaxCards = 3` | a supervisor that keeps approving runs a chain of any length |
| `NoStaleSkip` | `SeatTurn.cfg` | `MaxContinues = 1`, `MaxStops = 1` | a turn is skipped in a room that is not stopped, by a flag left over |
| `OwnVerdict` | `GoalRun.cfg` | `MaxIterations = 1`, `MaxTasks = 1`, `MaxFlips = 0` | a pass is judged by the token of an older message |
| `ReadsInOrder` | `MCViews.cfg` | `Parallel = {h1, h2, h3}` | two parallel hats of one seat are both given the same lines |
| `ReviewKept` | `MCTeam.cfg` | | files written after the handoff was checked pass the reviewer by |
| `Sees` | `MCTeam.cfg` | `LivedFuse = TRUE`, `MaxLog = 2` | an agent fused back onto a seat it lived on never sees what was said since |
| `AssignedRuns` | `MCServer.cfg` | | an agent is shown with a model it does not run on |
| `NoGhost` | `MCServer.cfg` | `Overtakes = TRUE` | a Stop while a supervisor's session is made finds nothing to abort |
| `OwnFile` | `MCServer.cfg` | `Overlaps = TRUE` | a save during a switch writes one conversation under the other's id |
| `OwnRollback` | `MCRoomTree.cfg` | `Workers <- TwoWorkers` | the provision that lost a race destroys the room of the winner |
| `NoOrphan` | `MCRoomTree.cfg` | `Zombies = TRUE` | a task queued on a room being destroyed spawns an orphan |
| `SpeaksAlive` | `MCEdits.cfg` | `RebuildsInTurns = TRUE` | a turn is prompted on a session that was disposed of |
| `EntriesExist`, `NoneLost`, `FlagsKept`, `Watched` | `MCEdits.cfg` | `EditsOverlap = TRUE` | two edits at once lose an agent, bring one back, or stop saving |
| `RefusedChangesNothing` | `MCEdits.cfg` | | a refused PATCH has changed part of what it asked for |
| `OwnPlan` | `MCEdits.cfg` | `FreshStarts = TRUE` | a new conversation is routed by the plan of the last |
| `BoardShown` | `MCEdits.cfg` | `Blanks = TRUE` | an update that fails changed the board, and nobody was told |
| `RolesKnown` | `MCEdits.cfg` | `Promptless = TRUE` | a role without a prompt is saved as one the server ships |
| `DocSound` | `MCEdits.cfg` | `Emptied = TRUE` | a room without agents is saved as a preset that cannot be loaded |
| `LoadedTrue`, `NoStaleCopy` | `MCEdits.cfg` | `UpgradesLive = TRUE` | a preset keeps the text of a role the newer build has changed |
| `SentAsShown` | `MCEdits.cfg` | `Hidden = TRUE` | a line shown as a message runs as a shell line |
| `SentAsShown` | `MCEdits.cfg` | `Bursts = TRUE` | of two keys in one chunk the second acts on the palette of the text before |
| `DoesAsShown` | `MCViews.cfg` | `Veiled = TRUE` | the same of the pi-tui client |
| `DoesAsShown` | `MCViews.cfg` | `Undisturbed = FALSE` | other layers take the keys of the prompt that asks to share |
| `CaptureHome` | `MCViews.cfg` | `Undisturbed = FALSE` | a capture goes to the room switched to: so meant, says `shell.ts:41-42` |
| `LayersKept`, `OwnRoom`, `PanelUp` | `MCViews.cfg` | `Patient = FALSE` | a late answer takes down what was opened since, or acts on the room that was left |
| `NewestLands` | `MCViews.cfg` | `StaysPut = FALSE` | asking for the room on screen leaves a switch on its way in force |
| `BlankInvisible` | `MCViews.cfg` | | a blank run between two calls splits a group live, not when kept |
| `ReopenKeepsView` | `MCViews.cfg` | | after a reconnect in a reply its two live views differ |
| `TranscriptHeals` | `MCViews.cfg` | `MaxEventsSent = 2` | a late answer takes an entry off the screen |
| `MadeOnce`, `NoticeTrue`, `ShutsItsOwn` | `MCTeam.cfg` | `Hurried = TRUE` | two ⏎ make two agents; the notice tells of fields typed since; an answer closes another form |
| `MadeOnce` | `MCTeam.cfg` | `Drops = TRUE` | an answer that is lost makes the user send again |
| `LeftAlone` | `MCTeam.cfg` | `Elsewhere = TRUE` | a save puts back what somebody else had changed |
| `DownFirst` | `MCTeam.cfg` | | a form draws rows above the focus before the one below it |

## 5. The proofs

All modules prove from nothing with TLAPS. The lock, the two input lines and the reply, which stand by
themselves, are proved about in `PartsProofs`, the rest beside what it is composed with. A theorem holds for any set of agents, seats, rooms,
conversations or members that its module's named assumptions admit (`PresetDoc` assumes finitely
many roles); of the bounds only `\in Nat` is assumed. TLC evaluates these assumptions in every run.

| theorem | property | argument |
|---|---|---|
| `LockTyped`, `LockLine`, `LockSlots`, `LockNoIdleSlot` | the lock's bookkeeping | one invariant, `LockInv`: the slots are counted twice, as labels and as callers, and the head of the line is a waiting caller |
| `LockRefinesPool` | `ImplementsPool` | under `LockInv` each action is one of the pool's |
| `RoomTypeOK`, `RoomNoAgentTwice` | types; no line names an agent twice | `LinesInv`: types and the injectivity of every line, with helper lemmas on lines (`JoinedLine`, `OrdersLine`) |
| `RoomStopSticks` | `StopSticks` | `StopInv`: `stopped` implies `aborted`, and is lowered when the task is over |
| `RoomJudgeAtWork` | `JudgeAtWork` | cards are numbered; the open one is the newest |
| `RoomRefusedRests` | `RefusedRests` | what changes `refused` clears it or closes the card, and a new card holds unrefused hops only |
| `RoomVerdictFitsCard` | `VerdictFitsCard` | the identity guard |
| `RoomChainBounded` (A) | `ChainBounded` | `ChainInv`: every agent in line, held or at work has its hop charged |
| `RoomWorkKept` | `WorkKept` | `WorkInv`: between tasks nobody is in line; while a task follows an answer, whom it held is in line or still to be put there, never both; cards are numbered, and `None` is no card and no question |
| `SeatOneVoice` | `OneVoice` | `InLine`: a seat's line holds exactly the hats that wait or speak, once each, and who speaks is its head |
| `SeatStopHonoured` | `StopHonoured` | `Flagged`: in a stopped room every agent past the lock carries the flag |
| `SeatRoundsBounded`, `SeatImplementsPool` | `MaxContinues + 2` prompts; a seat is a pool of one | a prompt per checkpoint, and one; under `InLine` |
| `GoalTypeCorrect`, `GoalToldOnce`, `GoalRoutingSuspended` | types, `ToldOnce`, routing restored | every way a drain ends is one of three (`Ended`, `Reopened`, `Rested`), and what was saved is what the user had chosen |
| `GoalNoPassAfterStop`, `GoalStopEndsEvaluation`, `GoalOwnToolVerdict` | Stop ends the loop; the tool's verdict is the pass's own | `PassInv`: in a pass, `goalCancelled` implies `aborted`, so nothing pauses or goes on |
| `RosterSeatsFit` (B) | `SeatsFit` | `SeatInv`: hats are participants, each on one seat, of one model, framed as they are lone or not |
| `RosterSees`, `RosterWakesFresh` (B, C) | `Sees`, `WakesFresh` | `SightInv`: a worn seat's session holds what its cursor says; a name without a seat has neither |
| `PresetDriftTold` (D) | `DriftTold` | `DriftInv`: what is on disk is the room as it is, but for a pull under way; a deviation announced is latched |
| `GateNeverTrapped`, `GateOneMoreStep` | `NeverTrapped`; one more step | any armed gate lets its own reviewer pass; `GateInv`: a step that comes after a handoff has fired the guard, and ends the batch |
| `RouteNoGhost` (E), `RouteFirstStands` | `NoGhost`; the first decision stands | `RouteInv`: one run is at work; one that prompts holds the handle, or was told to abort; one nobody wants is prompting or over |
| `LoginQuestionReached` | `QuestionReached` | `LoginInv`: logins are numbered as they start, and no question is newer than the last one asked |
| `FilesAreKept` (F) | `FilesKept` | `FilesInv`: every text on the chain and on disk is its own conversation's, and so is what an operation waits with; snapshots are in the order they were taken; what a shutdown found pending is on its way or written |
| `FilesNeverOlder` | `NoOlder` | `OrderInv`: the chain is in the order of its stamps, none older than the file; needs no assumption |
| `SeatHatFits` (G) | `HatFits` | `SessionInv`: who stands in line is on the seat; unless it is being rebuilt, the session is built of the seat's hats, at the level of the last turn or of the lone hat |
| `BoardStaysTrue` (H) | `BoardTrue` | `BoardInv`: what the turn's calls changed is among what the room worked on |
| `RosterStaysKept` (I) | `RosterKept` | `EditsInv`: each id once, edits and loads exclude each other, and what the one at work has read still is |
| `PresetStaysTrue` (J) | `PresetTrue` | `PresetInv`: documents are sound and hold no role's prompt; a room holds what its document says, filled in from the build that runs |
| `RoomTreeKept` (K) | `TreeKept` | `TreeInv`: a destruction under way has whole subtrees to do, children before parents; the newest manifest, written or waiting, names the rooms there are |
| `RoomReadsTheRoom` (L) | `ReadsTheRoom` | `ContextInv`: ids are unique; a session is the lines up to its cursor and those given to the hats at work (`CoverInv`), of which only one of a seat has any |
| `ClientShowsTheRoom` | `ClientMatches` | `ViewInv`: read to its end, the stream makes the transcript, the card and the turn that are shown the room's: by the last of its elements that says something of each (`EndsAs`, `Leads`). The card may wait for an answer or a click instead, and of a turn that was missed the event of its end makes good the rest |
| `ScreenLayersKept`, `ScreenIsKept` (M) | `LayersKept`; `ScreenKept` | `LayersInv`: only pickers, cards and the login's panel stand over another overlay; while answers are awaited the screen is empty, or shows the one form whose saves they are. `SwitchInv`: the newest switch goes to the room asked for last, which is on screen or on its way |
| `FormDoesAsShown`, `FormTellsWhatItDoes` (N) | `FormDoes`; `FormTells` | `FormInv`: one request at most is out, of the form on screen or of the last one left, and says what that form showed; a form that made its agent or room, or says it waits, has it out; of a loaded agent, what was not touched is what the server has. `RowsOfForm`: the model's row is there exactly when the model is sent. `DrawnFits`, of any form: lines of neighbouring rows are differences of sums (`LinesSum`), a round of the window's loop keeps the focus and the budget (`GrownFits`), so the window does (`WindowFits`), whose budget is the share less what is drawn around it |
| `ThePromptTells` (O) | `PromptTells` | `PromptInv`: the targets shown are those of the text; a text says itself what it is sent as, and the prompt to share stands over its own room. `RoutingShown`: trimming and expanding a text changes nobody it names, and no sign it begins with |
| `TheLineTells` (P) | `LineTells` | `LineInv`: what is drawn is what is; the draft, the one parked and every line in the history say themselves what they are sent as; on the way through the history the line parked is the one last edited. `PlainTrimmed`: the trimmed line the history keeps is sent as the line was |
| `TheEntryShowsTheReply` | `LiveIsPersisted` | `LiveInv`: there are views the client has as it reads what is on the wire, one per event; the last of them, if nothing was lost, has the turn's calls and shows the segmenter's parts, and of the open run has every character (`Follows`). What is shown of a sequence of parts is a line per part, groups or not (`LinesAre`), so closing the open run changes nothing of it (`ClosedSame`), and no new part has the number of an old one (`Begins`); needs no assumption |

Assumptions, and why each: they exclude what section 4 shows to go wrong, and nothing else.
(A) `Unreviewed`: no supervised or semi mode (`ChainBounded` there). (B) `Undivided` (`~Overlaps`): no
change of the roster while an edit rebuilds a session (`RosterEdits` has those). (C) `FreshFuse` (`~LivedFuse`).
(D) `Alone`, `AllAvailable`: nobody edits the roster while a preset is written or applied, and a load
replaces no model; with a replaced one the room deviates from its preset by the load itself.
(E) `InOrder` (`~Overtakes`). (F) `OneAtATime` (`~Overlaps`). (G) `BetweenTurns` (`~RebuildsInTurns`).
(H) `WholeUpdates`, `PlanLetGo` (`~Blanks`, `~FreshStarts`). (I) `EditsAlone` (`~EditsOverlap`).
(J) `~Promptless`, `~Emptied`, `~UpgradesLive`. (K) `OneOperation`, `~Zombies`: one operation on the tree at
a time. (L) `OneParallelHat`, `~Overlaps`: a seat has at most one parallel hat, and no rollback comes while a
task awaits. (M) `Patient`: nothing is raised while an answer that raises or closes something is awaited;
for `ScreenIsKept` also `StaysPut`: nobody asks for the room on screen while another is on its way.
(N) `~Hurried`, `~Elsewhere`, `~Drops`: the user waits for an answer, nobody else edits the agent meanwhile,
and no answer is lost; for `FormTells` also `ChipLines <= 3`: the smallest budget is three lines, and a row
with the focus is drawn however tall. (O) `~Veiled`, `Undisturbed`. (P) `~Bursts`, `~Hidden`: a key is drawn before the
next, and no blank or paste hides a leading `/` or `!`.

Only model-checked, and why:
- everything under fairness (`TurnEnds`, `CardSettled`, `WaiterServed`, `TurnOver`, `TaskEnds`,
  `WhatBeginsEnds`, `ParentTold`): TLAPS handles neither liveness under fairness nor ENABLED.
No module declares a recursive operator. What a text expands to and what a form
draws are recursive functions (`Joined`, `Window`, `LinesOf`, `Segments`), proved about by the least
place they could fail at; a fold of the community modules, or an operator under `RECURSIVE`, is beyond the provers.

## 6. What is not modelled, and the plan

Left out: slash commands (they call the operations modelled here), workspace snapshots and receipts
(file system I/O; an await in the models), web, arXiv, YouTube and sandbox tools (I/O), prompt texts,
configuration, drawing, the web front end, and of the terminal clients what section 2 names. Three
known hazards have no property: a human's decision that names no card, which no statement of the
repository forbids; a fallback that is read as never saved, since no document field is modelled; and
what `GoalRoutingSuspended` and `GateOneMoreStep` prove without being checked by a run.

What would come next: the fields of the preset composer and the web front end's input line, as models;
`ViewsAgree`, that the two live views of a reply have the same text, with its fold as a recursive
function, and `PartsInOrder`, that a turn's parts are what happened, both as runs and as theorems.
