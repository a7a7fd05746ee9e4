------------------------------- MODULE LiveTurn -------------------------------
(***************************************************************************)
(* One agent's turn as it streams: TurnSegmenter (src/turn-parts.ts) orders *)
(* the deltas and the tool calls that Participant.onEvent receives, every   *)
(* event goes to the client with the number of the segment it fell into,    *)
(* and the reducer of client-core (state.ts, parts.ts) assembles the same   *)
(* sequence from those numbers.  The finished entry carries the server's    *)
(* parts and replaces what the client assembled.                            *)
(*                                                                          *)
(* A delta is one word or one blank: trimming is all that is ever done to a *)
(* segment's content, so no other character matters.  The stream is a FIFO  *)
(* that can break: what is sent while it is broken is lost.                  *)
(***************************************************************************)
EXTENDS Naturals, Sequences, SequencesExt, Joins

CONSTANTS
  MaxEvents,      \* deltas and tool calls in the first turn; one less in each later one
  MaxTurns,       \* turns of the agent
  MaxBreaks,      \* times the stream breaks, or the client starts over
  MaxWire         \* events sent and not yet delivered

Types == {"text", "reasoning"}
Chars == {"word", "blank"}

VARIABLES
  parts,          \* TurnSegmenter.parts
  open,           \* whether the last of them is an open text/reasoning run
  nextSeq, openSeq,
  activity,       \* Participant.activity: the turn's tool calls, in order
  running,        \* a turn of the agent is under way
  turns, breaks,  \* counters
  wire,           \* events between SseHub.broadcast and the client
  connected,      \* whether the hub has the client
  streaming,      \* RoomState.streaming of the agent, a sequence of characters
  liveParts,      \* RoomState.liveParts
  liveActivity,   \* RoomState.liveActivity
  heard,          \* history: what happened in this turn, in order
  gap             \* history of the reply shown: its events were "lost", or the
                  \* stream was "reopened" under it, or "none" of these

server == <<parts, open, nextSeq, openSeq, activity, running, turns, heard>>
client == <<streaming, liveParts, liveActivity>>
replyVars == <<server, client, wire, connected, breaks, gap>>

-----------------------------------------------------------------------------
(* Contents *)

AllBlank(s) == \A i \in DOMAIN s : s[i] = "blank"

Trim(s) ==
  IF AllBlank(s) THEN <<>>
  ELSE LET words == {i \in DOMAIN s : s[i] # "blank"}
           first == CHOOSE i \in words : \A j \in words : i <= j
           last == CHOOSE i \in words : \A j \in words : j <= i
       IN  SubSeq(s, first, last)

Run(type, seq, content) == [type |-> type, seq |-> seq, content |-> content]
Tool(seq, id) == [type |-> "tool", seq |-> seq, id |-> id]
WithContent(run, content) == Run(run.type, run.seq, content)

-----------------------------------------------------------------------------
(* TurnSegmenter *)

\* The bug of a segmenter that leaves a blank run in place.
ClosedKeepingBlanks ==
  IF ~open THEN parts
  ELSE Append(Front(parts), WithContent(Last(parts), Trim(Last(parts).content)))

\* close(): the open run is trimmed, and dropped when nothing is left of it.
Closed ==
  IF ~open THEN parts
  ELSE LET content == Trim(Last(parts).content)
       IN  IF content = <<>> THEN Front(parts)
           ELSE Append(Front(parts), WithContent(Last(parts), content))

\* The delta extends the open run, unless its type flips.
Continues(type) == open /\ Last(parts).type = type

\* The segment a delta falls into.
DeltaSeq(type) == IF Continues(type) THEN openSeq ELSE nextSeq

AddDelta(type, c) ==
  /\ parts' = IF Continues(type)
              THEN Append(Front(parts), WithContent(Last(parts), Append(Last(parts).content, c)))
              ELSE Append(Closed, Run(type, nextSeq, <<c>>))
  /\ openSeq' = DeltaSeq(type)
  /\ nextSeq' = IF Continues(type) THEN nextSeq ELSE nextSeq + 1
  /\ open' = TRUE

\* The bug of a number that a call gives to what comes next.
AddToolReusing(id) ==
  parts' = Append(Closed, Tool(nextSeq, id)) /\ open' = FALSE /\ UNCHANGED <<nextSeq, openSeq>>

AddTool(id) ==
  /\ parts' = Append(Closed, Tool(nextSeq, id))
  /\ nextSeq' = nextSeq + 1
  /\ open' = FALSE
  /\ UNCHANGED openSeq

ResetSegments == parts' = <<>> /\ open' = FALSE /\ nextSeq' = 0 /\ openSeq' = 0

LastText(ps) ==
  LET texts == {i \in DOMAIN ps : ps[i].type = "text"} IN
  IF texts = {} THEN 0 ELSE CHOOSE i \in texts : \A j \in texts : j <= i

\* appendBodyMarker: a cut-off turn says so at the end of its last text part.
Marked(ps, marker) ==
  LET i == LastText(ps)
  IN  IF marker = <<>> \/ i = 0 THEN ps
      ELSE [ps EXCEPT ![i] = WithContent(ps[i], ps[i].content \o marker)]

-----------------------------------------------------------------------------
(* The display (parts.ts) *)

\* The places of a call among a turn's calls: one, as ids differ.
ItemsOf(act, id) == {i \in DOMAIN act : act[i].id = id}
WentWell(act, id) == act[Max(ItemsOf(act, id))].status = "ok"

\* groupActivity: calls of one tool that went well and follow one another are
\* one group; every call here is of the same tool.
Group(acc, id, ok) ==
  IF acc.run /\ Last(acc.segs).ok /\ ok
  THEN Append(Front(acc.segs), [kind |-> "tools", ids |-> Append(Last(acc.segs).ids, id), ok |-> ok])
  ELSE Append(acc.segs, [kind |-> "tools", ids |-> <<id>>, ok |-> ok])

\* toSegments: tool pointers are resolved (or dropped), blank runs disappear.
\* A run, blank or not, ends the group of calls before it.
Grouped(acc, p, act) ==
  IF p.type # "tool"
  THEN [run |-> FALSE,
        segs |-> IF Trim(p.content) = <<>> THEN acc.segs
                 ELSE Append(acc.segs, [kind |-> p.type, content |-> Trim(p.content)])]
  ELSE IF ItemsOf(act, p.id) = {} THEN acc
  ELSE [run |-> TRUE, segs |-> Group(acc, p.id, WentWell(act, p.id))]
Segments(ps, act) ==
  LET upto[i \in 0 .. Len(ps)] ==
        IF i = 0 THEN [run |-> FALSE, segs |-> <<>>] ELSE Grouped(upto[i - 1], ps[i], act)
  IN  upto[Len(ps)].segs

-----------------------------------------------------------------------------
(* The wire *)

\* SseHub.broadcast: a client the hub does not have gets nothing.
Send(ev) == /\ wire' = IF connected THEN Append(wire, ev) ELSE wire
            /\ gap' = IF connected THEN gap ELSE "lost"

Room == Len(wire) < MaxWire
UsedUp == Len(heard) + turns > MaxEvents

-----------------------------------------------------------------------------
(* The agent's turn (Participant.run and onEvent) *)

\* The room starts a turn, or chains to the same agent within one: only the
\* first is announced by a phase that clears the client's buffers.
TurnStarts(phase) ==
  /\ ~running /\ turns < MaxTurns /\ Room
  /\ running' = TRUE /\ turns' = turns + 1
  /\ ResetSegments
  /\ activity' = <<>> /\ heard' = <<>>
  /\ Send([name |-> "turn", phase |-> phase])
  /\ UNCHANGED <<client, connected, breaks>>

Delta(type, c) ==
  /\ running /\ ~UsedUp /\ Room
  /\ AddDelta(type, c)
  /\ heard' = Append(heard, [type |-> type, char |-> c])
  /\ Send([name |-> type, seq |-> DeltaSeq(type), char |-> c])
  /\ UNCHANGED <<activity, running, turns, client, connected, breaks>>

ToolStarts ==
  /\ running /\ ~UsedUp /\ Room
  /\ LET item == [id |-> <<turns, Len(activity)>>, status |-> "running"]
     IN  /\ activity' = Append(activity, item)
         /\ AddTool(item.id)
         /\ heard' = Append(heard, [type |-> "tool", id |-> item.id])
         /\ Send([name |-> "activity", placed |-> TRUE, seq |-> nextSeq, item |-> item])
  /\ UNCHANGED <<running, turns, client, connected, breaks>>

\* The end of a call carries no segment: it only changes the call's status.
ToolEnds(i, status) ==
  /\ running /\ Room /\ activity[i].status = "running"
  /\ activity' = [activity EXCEPT ![i] = [id |-> @.id, status |-> status]]
  /\ Send([name |-> "activity", placed |-> FALSE, seq |-> 0, item |-> activity'[i]])
  /\ UNCHANGED <<parts, open, nextSeq, openSeq, running, turns, heard, client, connected, breaks>>

\* finish(), and the room posts the entry, cut off by a stop or not.
TurnEnds(marker) ==
  /\ running /\ Room
  /\ running' = FALSE
  /\ parts' = Closed /\ open' = FALSE
  /\ Send([name |-> "message", parts |-> Marked(Closed, marker), marker |-> marker,
           activity |-> activity])
  /\ UNCHANGED <<nextSeq, openSeq, activity, turns, heard, client, connected, breaks>>

-----------------------------------------------------------------------------
(* The client (state.ts reduce) *)

\* appendLivePart: the same number is the same segment.
AppendLive(ps, seq, type, c) ==
  IF ps # <<>> /\ Last(ps).seq = seq /\ Last(ps).type # "tool"
  THEN Append(Front(ps), WithContent(Last(ps), Append(Last(ps).content, c)))
  ELSE Append(ps, Run(type, seq, <<c>>))

ReduceDelta(ev) ==
  /\ streaming' = IF ev.name = "text" THEN Append(streaming, ev.char) ELSE streaming
  /\ liveParts' = AppendLive(liveParts, ev.seq, ev.name, ev.char)
  /\ UNCHANGED liveActivity

\* The first frame of a call places it, a later one replaces its item.
ReduceActivity(ev) ==
  /\ liveActivity' =
       IF ItemsOf(liveActivity, ev.item.id) # {}
       THEN [i \in DOMAIN liveActivity |->
               IF liveActivity[i].id = ev.item.id THEN ev.item ELSE liveActivity[i]]
       ELSE Append(liveActivity, ev.item)
  /\ liveParts' =
       IF ev.placed /\ \A i \in DOMAIN liveParts : liveParts[i].seq # ev.seq
       THEN Append(liveParts, Tool(ev.seq, ev.item.id)) ELSE liveParts
  /\ UNCHANGED streaming

\* The bug of a message that leaves the assembled parts behind.
ReduceMessageKeeping ==
  streaming' = <<>> /\ liveActivity' = <<>> /\ UNCHANGED liveParts

ReduceMessage == streaming' = <<>> /\ liveParts' = <<>> /\ liveActivity' = <<>>

\* "start" clears every live buffer but the parts; "agent" clears none.
ReduceTurn(phase) ==
  IF phase = "start"
  THEN streaming' = <<>> /\ liveActivity' = <<>> /\ UNCHANGED liveParts
  ELSE UNCHANGED client

\* The transcript a stream begins with clears every buffer but the parts.
ReduceTranscript == streaming' = <<>> /\ liveActivity' = <<>> /\ UNCHANGED liveParts

\* What is lost stays lost until the entry replaces the live view.
GapAfter(ev) ==
  IF ev.name = "message" THEN "none"
  ELSE IF ev.name = "transcript" /\ gap = "none" /\ liveParts # <<>> THEN "reopened"
  ELSE gap

Deliver ==
  /\ wire # <<>>
  /\ wire' = Tail(wire)
  /\ LET ev == Head(wire)
     IN  /\ ev.name \in Types => ReduceDelta(ev)
         /\ ev.name = "activity" => ReduceActivity(ev)
         /\ ev.name = "message" => ReduceMessage
         /\ ev.name = "turn" => ReduceTurn(ev.phase)
         /\ ev.name = "transcript" => ReduceTranscript
         /\ gap' = GapAfter(ev)
  /\ UNCHANGED <<server, connected, breaks>>

\* The connection breaks: what was on it is lost.
Break ==
  /\ connected /\ breaks < MaxBreaks
  /\ connected' = FALSE /\ breaks' = breaks + 1
  /\ gap' = (IF wire # <<>> THEN "lost" ELSE gap) /\ wire' = <<>>
  /\ UNCHANGED <<server, client>>

\* The stream is opened again: the server begins it with the transcript.
Snapshot == <<[name |-> "transcript"]>>

Reopen ==
  /\ ~connected
  /\ connected' = TRUE /\ wire' = Snapshot
  /\ UNCHANGED <<server, client, breaks, gap>>

\* start(): a store that is used again has resetTransient clear every buffer.
StartsOver ==
  /\ breaks < MaxBreaks
  /\ breaks' = breaks + 1 /\ connected' = TRUE /\ wire' = Snapshot
  /\ ReduceMessage
  /\ gap' = IF running THEN "lost" ELSE "none"
  /\ UNCHANGED server

-----------------------------------------------------------------------------

ReplyInit ==
  /\ parts = <<>> /\ open = FALSE /\ nextSeq = 0 /\ openSeq = 0 /\ activity = <<>>
  /\ running = FALSE /\ turns = 0 /\ heard = <<>> /\ breaks = 0
  /\ wire = <<>> /\ connected = TRUE /\ gap = "none"
  /\ streaming = <<>> /\ liveParts = <<>> /\ liveActivity = <<>>

ReplyNext ==
  \/ \E phase \in {"start", "agent"} : TurnStarts(phase)
  \/ \E type \in Types, c \in Chars : Delta(type, c)
  \/ ToolStarts
  \/ \E i \in DOMAIN activity, status \in {"ok", "error"} : ToolEnds(i, status)
  \/ \E marker \in {<<>>, <<"cut">>} : TurnEnds(marker)
  \/ Deliver \/ Break \/ Reopen \/ StartsOver

ReplySpec == ReplyInit /\ [][ReplyNext]_replyVars /\ WF_replyVars(Deliver)

-----------------------------------------------------------------------------
(* What is claimed of it *)

\* The order of a turn, said without a segmenter: a part per call and per
\* longest run of deltas of one type that is not all blank.
Opens(i) == i = 1 \/ heard[i].type = "tool" \/ heard[i - 1].type # heard[i].type

RunEnd(i) == CHOOSE j \in i .. Len(heard) :
               /\ \A k \in i + 1 .. j : ~Opens(k)
               /\ j = Len(heard) \/ Opens(j + 1)

PartAt(i) ==
  IF heard[i].type = "tool" THEN [type |-> "tool", id |-> heard[i].id]
  ELSE [type |-> heard[i].type,
        content |-> Trim([k \in 1 .. RunEnd(i) - i + 1 |-> heard[i + k - 1].char])]

InOrder ==
  LET starts == SelectSeq([i \in DOMAIN heard |-> i],
                          LAMBDA i : Opens(i) /\ (heard[i].type = "tool" \/ PartAt(i).content # <<>>))
  IN  [k \in DOMAIN starts |-> PartAt(starts[k])]

Shape(ps) == [i \in DOMAIN ps |-> IF ps[i].type = "tool"
                                  THEN [type |-> "tool", id |-> ps[i].id]
                                  ELSE [type |-> ps[i].type, content |-> ps[i].content]]

\* A finished turn's parts are what happened, in the order it happened: the
\* segmenter's incremental closing loses, merges and reorders nothing
\* (turn-parts.ts: "one part per contiguous run of same-type deltas, one part
\* per tool call, in arrival order").
PartsInOrder == (~running /\ turns > 0) => Shape(parts) = InOrder

\* The parts of an entry, without the mark of a cut-off turn.
Unmarked(ev) ==
  LET i == LastText(ev.parts)
  IN  IF ev.marker = <<>> \/ i = 0 THEN ev.parts
      ELSE [ev.parts EXCEPT ![i] =
              WithContent(@, SubSeq(@.content, 1, Len(@.content) - Len(ev.marker)))]

Replaces == wire # <<>> /\ wire' = Tail(wire) /\ Head(wire).name = "message" /\ gap = "none"

\* The segments with every call on a line of its own.
LinesOf(seg) ==
  IF seg.kind = "tools" THEN [k \in DOMAIN seg.ids |-> [id |-> seg.ids[k], ok |-> seg.ok]] ELSE <<seg>>
Lines(ps, act) ==
  LET segs == Segments(ps, act) IN Joined([k \in DOMAIN segs |-> LinesOf(segs[k])])

\* The entry that replaces the live view shows the thoughts, the prose and the
\* calls that the live view showed, in its order, whenever no event was lost on
\* the way (participant.ts: "the live sequence cannot drift from the persisted
\* one").
LiveIsPersisted ==
  [][ Replaces => Lines(liveParts, liveActivity)
                    = Lines(Unmarked(Head(wire)), Head(wire).activity) ]_replyVars

\* The same of what is drawn, groups of calls included: the test of the live
\* view calls a blank run that the server drops "real but invisible".
BlankInvisible ==
  [][ Replaces => Segments(liveParts, liveActivity)
                    = Segments(Unmarked(Head(wire)), Head(wire).activity) ]_replyVars

\* The two live views of one reply agree: the streamed text is the text of the
\* assembled parts (state.ts keeps both from the same events).
TextOf(ps) == FoldLeft(LAMBDA acc, p : acc \o p.content, <<>>,
                       SelectSeq(ps, LAMBDA p : p.type = "text"))
ViewsAgree == gap = "none" => TextOf(liveParts) = streaming

\* They agree as well when the stream was opened again without losing anything
\* (state.ts: liveParts is "cleared when the message lands", with the others).
ReopenKeepsView == gap # "lost" => TextOf(liveParts) = streaming

\* Neither the server's parts nor the client's views of a reply reorder it.
ReplyInOrder == PartsInOrder /\ ViewsAgree
=============================================================================
