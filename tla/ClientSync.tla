----------------------------- MODULE ClientSync -----------------------------
(***************************************************************************)
(* How a client keeps the room's state: the store of client-core (store.ts) *)
(* loads a snapshot over REST when it starts and whenever its event stream  *)
(* opens (loadSnapshot), and applies the room's events in between (reduce,  *)
(* state.ts).  Nothing relates the two: a snapshot is whatever the server   *)
(* had when it served the request, and it overwrites what the events built. *)
(*                                                                          *)
(* The state kept is the transcript, the routing card, and the phase of the *)
(* turn.  The transcript and the card are in the snapshot; the phase is     *)
(* told by events only.  When `ordered`, answers and events arrive in the   *)
(* order the server made them, as over one connection; the code has a       *)
(* connection for the stream and others for the requests.                   *)
(***************************************************************************)
EXTENDS Naturals, Sequences, FiniteSets, SequencesExt

CONSTANTS
  Orders,         \* whether answers and events share one ordered channel
  MaxPosts,       \* entries posted
  MaxBegun,       \* turns started
  MaxFailures,    \* times the stream breaks or the client starts over
  MaxLost,        \* decisions that fail on the way to the server
  MaxLoads,       \* snapshots asked for
  MaxReplies,     \* answers that wait to be overtaken at once
  MaxEventsSent   \* events under way at once

ASSUME OrdersAssumption == Orders \subseteq BOOLEAN

VARIABLES
  ordered,        \* the member of Orders of this behaviour
  entries,        \* Room.transcript
  phase,          \* of the turn: "idle", "running", "queued", "asking", "routing"
  posts, begun, failures, lost, loads,  \* counters
  sent,           \* events, and answers too when ordered
  requests,       \* snapshot requests the server has not served yet
  replies,        \* answers that may overtake events and one another
  decision,       \* a route decision on its way to the server
  online,         \* whether the hub has the client
  messages, pendingRoute, turnActive, paused,  \* RoomState
  missed          \* history: the client did not hear the whole of this turn

roomVars == <<entries, phase, posts, begun>>
shownVars == <<messages, pendingRoute, turnActive, paused>>
wayVars == <<ordered, sent, requests, replies>>
syncVars == <<roomVars, shownVars, wayVars, failures, lost, loads, decision, online, missed>>

Phases == {"idle", "running", "queued", "asking", "routing"}

-----------------------------------------------------------------------------
(* The server *)

\* SseHub.broadcast reaches the clients it has; the others never hear of it.
Broadcast(evs) ==
  /\ sent' = IF online THEN sent \o evs ELSE sent
  /\ missed' = (missed \/ ~online)

CanBroadcast == Len(sent) < MaxEventsSent

\* What the stream carried is lost with it (of an event its place is left); answers
\* to requests go their own way.
Cut == [i \in DOMAIN sent |-> IF sent[i].name = "reply" THEN sent[i] ELSE [name |-> "lost"]]

\* post(): an entry is appended and sent.
PostEntry ==
  /\ phase = "running" /\ posts < MaxPosts /\ CanBroadcast
  /\ posts' = posts + 1
  /\ entries' = Append(entries, posts)
  /\ Broadcast(<<[name |-> "message", entry |-> posts]>>)
  /\ UNCHANGED <<ordered, phase, begun, shownVars, requests, replies, failures, lost,
                 loads, decision, online>>

\* rollbackTo() and a switch of conversation send the whole new transcript.
Truncate(keep) ==
  /\ phase = "idle" /\ CanBroadcast /\ keep < Len(entries)
  /\ entries' = SubSeq(entries, 1, keep)
  /\ Broadcast(<<[name |-> "transcript", entries |-> entries']>>)
  /\ UNCHANGED <<ordered, phase, posts, begun, shownVars, requests, replies, failures,
                 lost, loads, decision, online>>

\* The phases of a turn and the events that tell of them: process(),
\* executeAgent(), drainQueue(), processRouteDecision(), endTurn(),
\* abortCurrent().
Tells(from, to) ==
  CASE from = "idle" /\ to = "running" -> <<[name |-> "turn", phase |-> "start"]>>
    [] from = "queued" /\ to = "running" -> <<[name |-> "turn", phase |-> "agent"]>>
    [] from = "asking" /\ to = "running" -> <<[name |-> "turn", phase |-> "resume"]>>
    [] to = "asking" -> <<[name |-> "turn", phase |-> "pause"]>>
    [] to = "routing" -> <<[name |-> "routing", type |-> "proposed"]>>
    [] from = "routing" /\ to = "queued" -> <<[name |-> "routing", type |-> "resolved"]>>
    [] to = "idle" -> <<[name |-> "turn", phase |-> "end"]>>
    [] OTHER -> <<>>

Steps ==
  {<<"idle", "running">>, <<"running", "idle">>, <<"running", "asking">>,
   <<"running", "routing">>, <<"asking", "running">>, <<"asking", "idle">>,
   <<"routing", "idle">>, <<"queued", "running">>, <<"queued", "idle">>}

Turn(from, to) ==
  /\ phase = from /\ CanBroadcast
  /\ from = "idle" => begun < MaxBegun
  /\ begun' = IF from = "idle" THEN begun + 1 ELSE begun
  /\ phase' = to
  /\ Broadcast(Tells(from, to))
  /\ UNCHANGED <<ordered, entries, posts, shownVars, requests, replies, failures, lost,
                 loads, decision, online>>

\* processRouteDecision(): a decision about nothing pending is dropped.
Decides ==
  /\ decision /\ CanBroadcast
  /\ decision' = FALSE
  /\ IF phase = "routing"
     THEN phase' = "queued" /\ Broadcast(Tells("routing", "queued"))
     ELSE UNCHANGED <<phase, sent, missed>>
  /\ UNCHANGED <<ordered, entries, posts, begun, shownVars, requests, replies, failures,
                 lost, loads, online>>

\* A GET is answered with what the server has at that moment; the two GETs of
\* one load are answered one by one.
AnswerTo(kind) ==
  [name |-> "reply", kind |-> kind, entries |-> IF kind = "transcript" THEN entries ELSE <<>>,
   route |-> kind = "settings" /\ phase = "routing"]

Serve(kind) ==
  /\ requests[kind] > 0 /\ CanBroadcast /\ Len(replies) < MaxReplies
  /\ requests' = [requests EXCEPT ![kind] = @ - 1]
  /\ IF ordered THEN sent' = Append(sent, AnswerTo(kind)) /\ UNCHANGED replies
                ELSE replies' = Append(replies, AnswerTo(kind)) /\ UNCHANGED sent
  /\ UNCHANGED <<ordered, roomVars, shownVars, failures, lost, loads, decision, online,
                 missed>>

-----------------------------------------------------------------------------
(* The client *)

\* loadSnapshot() asks for everything again; a bounded number is under way.
Asks == [k \in {"transcript", "settings"} |-> requests[k] + 1]
MayLoad == loads < MaxLoads

Patch(answer) ==
  /\ messages' = IF answer.kind = "transcript" THEN answer.entries ELSE messages
  /\ pendingRoute' = IF answer.kind = "settings" THEN answer.route ELSE pendingRoute
  /\ UNCHANGED <<turnActive, paused>>

\* An answer overtakes whatever was sent before it.
Overtakes(i) ==
  /\ replies' = RemoveAt(replies, i)
  /\ Patch(replies[i])
  /\ UNCHANGED <<ordered, roomVars, sent, requests, failures, lost, loads, decision,
                 online, missed>>

ReducePhase(p) ==
  /\ turnActive' = (p \in {"start", "agent", "resume"})
  /\ paused' = IF p = "pause" THEN TRUE ELSE IF p \in {"resume", "end"} THEN FALSE ELSE paused
  /\ pendingRoute' = IF p = "end" THEN FALSE ELSE pendingRoute
  /\ UNCHANGED messages

ReduceRouting(type) ==
  /\ pendingRoute' = (type = "proposed")
  /\ turnActive' = IF type = "proposed" THEN FALSE ELSE turnActive
  /\ UNCHANGED <<messages, paused>>

Receives ==
  /\ sent # <<>>
  /\ sent' = Tail(sent)
  /\ LET ev == Head(sent)
     IN  /\ ev.name = "message" =>
              messages' = Append(messages, ev.entry)
                /\ UNCHANGED <<pendingRoute, turnActive, paused>>
         /\ ev.name = "transcript" =>
              messages' = ev.entries /\ UNCHANGED <<pendingRoute, turnActive, paused>>
         /\ ev.name = "turn" => ReducePhase(ev.phase)
         /\ ev.name = "routing" => ReduceRouting(ev.type)
         /\ ev.name = "reply" => Patch(ev)
         /\ ev.name = "lost" => UNCHANGED shownVars
         /\ missed' = (missed /\ ~(ev.name = "turn" /\ ev.phase = "end"))
  /\ UNCHANGED <<ordered, roomVars, requests, replies, failures, lost, loads, decision,
                 online>>

StreamBreaks ==
  /\ online /\ failures < MaxFailures
  /\ failures' = failures + 1 /\ online' = FALSE
  /\ sent' = Cut
  /\ missed' = (missed \/ sent' # sent)
  /\ UNCHANGED <<ordered, roomVars, shownVars, requests, replies, lost, loads,
                 decision>>

\* GET /events: the server begins a stream with the transcript it has.
Connects ==
  /\ ~online /\ MayLoad
  /\ online' = TRUE
  /\ sent' = Append(sent, [name |-> "transcript", entries |-> entries])

\* The bug of a stream that reopens without a new snapshot.
StreamOpensSilently ==
  /\ Connects
  /\ UNCHANGED <<ordered, roomVars, shownVars, requests, replies, failures, lost, loads,
                 decision, missed>>

\* onOpen: the snapshot is loaded again, the phase of the turn is not touched.
StreamOpens ==
  /\ Connects
  /\ requests' = Asks /\ loads' = loads + 1
  /\ UNCHANGED <<ordered, roomVars, shownVars, replies, failures, lost, decision,
                 missed>>

\* start(): the transient fields are cleared and a snapshot is asked for; the
\* stream is opened, and its opening asks for another.
StoreStarts ==
  /\ online /\ failures < MaxFailures /\ MayLoad
  /\ failures' = failures + 1 /\ online' = FALSE
  /\ requests' = Asks /\ loads' = loads + 1
  /\ sent' = Cut
  /\ turnActive' = FALSE /\ paused' = FALSE /\ pendingRoute' = FALSE
  /\ missed' = (phase # "idle" \/ sent' # sent)
  /\ UNCHANGED <<ordered, roomVars, messages, replies, lost, decision>>

\* resolveRoute(): the card disappears before the server has heard of it.
Click ==
  /\ pendingRoute /\ ~decision
  /\ pendingRoute' = FALSE /\ decision' = TRUE
  /\ UNCHANGED <<roomVars, messages, turnActive, paused, wayVars, failures, lost, loads,
                 online, missed>>

\* The request fails: the user is told, and the card stays away.
ClickFails ==
  /\ decision /\ lost < MaxLost
  /\ decision' = FALSE /\ lost' = lost + 1
  /\ UNCHANGED <<roomVars, shownVars, wayVars, failures, loads, online, missed>>

-----------------------------------------------------------------------------

SyncInit ==
  /\ ordered \in Orders
  /\ entries = <<>> /\ phase = "idle" /\ posts = 0 /\ begun = 0
  /\ failures = 0 /\ lost = 0 /\ loads = 1 /\ sent = <<>>
  /\ requests = [k \in {"transcript", "settings"} |-> 1]
  /\ replies = <<>> /\ decision = FALSE /\ online = FALSE
  /\ messages = <<>> /\ pendingRoute = FALSE /\ turnActive = FALSE /\ paused = FALSE
  /\ missed = FALSE

SyncNext ==
  \/ PostEntry
  \/ \E keep \in 0 .. Len(entries) : Truncate(keep)
  \/ \E s \in Steps : Turn(s[1], s[2])
  \/ Decides
  \/ \E kind \in DOMAIN requests : Serve(kind)
  \/ \E i \in DOMAIN replies : Overtakes(i)
  \/ Receives \/ StreamBreaks \/ StreamOpens \/ StoreStarts \/ Click \/ ClickFails

\* The transport delivers, the server answers, and EventSource reconnects.
SyncFairness ==
  /\ WF_syncVars(Receives) /\ WF_syncVars(StreamOpens) /\ WF_syncVars(Decides)
  /\ \A kind \in {"transcript", "settings"} : WF_syncVars(Serve(kind))
  /\ WF_syncVars(\E i \in DOMAIN replies : Overtakes(i))

SyncSpec == SyncInit /\ [][SyncNext]_syncVars /\ SyncFairness

-----------------------------------------------------------------------------
(* What is claimed of it *)

\* Nothing is on its way in either direction.
Settled == /\ online /\ sent = <<>> /\ replies = <<>> /\ ~decision
           /\ \A k \in DOMAIN requests : requests[k] = 0

\* A client to which nothing is on its way shows the room's transcript, entry
\* by entry, whatever connections broke before, if answers and events kept
\* their order (store.ts: loads at start "so stale preloads self-correct", and
\* on every reconnect to "self-heal").
TranscriptMatches == (Settled /\ ordered) => messages = entries

\* Likewise for the card that asks for a route: a client shows it exactly when
\* the room waits for a decision, unless a click of the user failed.
CardMatches == (Settled /\ ordered /\ lost = 0) => pendingRoute = (phase = "routing")

\* The phase of the turn is told by events alone: a client that heard every
\* event of the turn shows it running, and asking, exactly when it is.
PhaseMatches ==
  (Settled /\ ~missed) =>
     turnActive = (phase = "running") /\ paused = (phase = "asking")

\* A client at rest shows the room: its transcript, its card, its turn.
ClientMatches == TranscriptMatches /\ CardMatches /\ PhaseMatches

\* The transcript again, without the premise.
TranscriptHeals == Settled => messages = entries
=============================================================================
