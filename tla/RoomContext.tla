---------------------------- MODULE RoomContext ----------------------------
(***************************************************************************)
(* What the agents of a room have read.  The room keeps one transcript;    *)
(* every seat (one pi session, worn by one or several hats) keeps a cursor *)
(* into it and a private context.  A hat that takes its turn is given the  *)
(* entries from the cursor on, less its own; when its reply is posted the  *)
(* cursor jumps to the end.  Waves of parallel hats, lines posted beside   *)
(* the turn (shell, steering, reports of sub-rooms), questions answered by *)
(* followUp() and rollbacks all move the two against each other.           *)
(*                                                                         *)
(* Routing is abstracted to what it does to the queue: a reply may hand    *)
(* the turn to another hat.  Sessions are persisted (the default), so a    *)
(* session that is rebuilt keeps its context.                              *)
(***************************************************************************)
EXTENDS Naturals, Sequences, SequencesExt, FiniteSets

CONSTANTS
  Hats, Seats, SeatOf,  \* SeatOf[h]: the session hat h shares
  Parallel,             \* hats with persona.parallel
  Mentions,             \* lines of hats a message may name
  Overlaps              \* a rollback may be asked for while a task awaits

\* Bounds of the model: messages and answers of the user; and whatever else
\* happens (lines posted beside a turn, handoffs, rollbacks, Stops).
CONSTANTS MaxAsks, MaxOthers

ASSUME SeatsAssumption == SeatOf \in [Hats -> Seats] /\ Parallel \subseteq Hats
ASSUME MentionsAssumption == \A t \in Mentions : t \in Seq(Hats) /\ IsInjective(t)
ASSUME OverlapAssumption == Overlaps \in BOOLEAN
ASSUME ContextBoundsAssumption == MaxAsks \in Nat /\ MaxOthers \in Nat

VARIABLES
  transcript,  \* entries [id, author]: an id stands for what the entry says
  cursor,      \* per seat: entries the seat is taken to have seen
  memory,      \* per seat: ids in its session, in the order they got there
  queue, group, \* hats waiting, hats of the wave at work
  stage,       \* per hat: where its turn in the wave is
  ctx,         \* per hat: the entries its prompt will carry
  reply,       \* per hat: the id of the answer it gave
  asker,       \* the first hat of the wave whose posted answer is a question
  pause, held, \* pendingQuestion: who asked, the work frozen meanwhile
  resuming,    \* the wave at work is the followUp() of an answered question
  aborted

\* What only the properties read, and how often the outside acted.
VARIABLES
  fresh,       \* the next id
  removed,     \* ids a rollback took out
  crossed,     \* per seat: ids posted while its session had a turn in hand
  reportFor,   \* the report of a sub-room: its id and whom it was for
  asks, others

room == <<transcript, cursor>>
wave == <<group, stage, ctx, reply, asker, resuming>>
waits == <<queue, pause, held, aborted>>
used == <<asks, others>>
ghosts == <<fresh, removed, crossed, reportFor>>
vars == <<room, memory, wave, waits, ghosts, used>>

NoHat == "none"
ASSUME NoHatAssumption == NoHat \notin Hats

Outsiders == {"user", "shell", "orchestrator"}
Replied == {"done", "asks", "cut"}  \* "cut": interrupted, it neither asks nor chains
Stages == {"off", "launched", "streaming", "skipped"} \union Replied

Init ==
  /\ transcript = <<>>
  /\ cursor = [s \in Seats |-> 0]
  /\ memory = [s \in Seats |-> <<>>]
  /\ queue = <<>> /\ group = <<>> /\ pause = NoHat /\ held = <<>>
  /\ stage = [h \in Hats |-> "off"]
  /\ ctx = [h \in Hats |-> <<>>]
  /\ reply = [h \in Hats |-> 0]
  /\ asker = NoHat /\ resuming = FALSE /\ aborted = FALSE
  /\ fresh = 1 /\ removed = {} /\ reportFor = <<0, NoHat>>
  /\ crossed = [s \in Seats |-> {}]
  /\ asks = 0 /\ others = 0

CountsAsk ==
  /\ asks < MaxAsks
  /\ asks' = asks + 1
  /\ UNCHANGED others

CountsOther ==
  /\ others < MaxOthers
  /\ others' = others + 1
  /\ UNCHANGED asks

\* A task is at work: messages and reports queue behind it (this.chain).
AtWork == group # <<>> \/ queue # <<>>

\* A seat has a turn in hand from the moment its context is read until its
\* reply is posted and, when that reply asks, until the answer to it is.
InHand(s) ==
  \/ \E i \in 1 .. Len(group) : SeatOf[group[i]] = s
  \/ \E h \in {asker, pause} \ {NoHat} : SeatOf[h] = s

Entry(id, author) == [id |-> id, author |-> author]

\* Append entry `id`, which every seat with a turn in hand crosses.
Post(id, author) ==
  /\ transcript' = Append(transcript, Entry(id, author))
  /\ crossed' = [s \in Seats |-> crossed[s] \union (IF InHand(s) THEN {id} ELSE {})]

\* The ids of the entries at the places `at`, in the order of the transcript.
IdsAt(at) ==
  [k \in 1 .. Cardinality(at) |->
     transcript[CHOOSE i \in at : Cardinality({j \in at : j <= i}) = k].id]

\* buildContext(): what the hat has not seen, less what it said itself.
BuildContextOffByOne(h) ==
  IdsAt({i \in cursor[SeatOf[h]] + 2 .. Len(transcript) : transcript[i].author # h})

BuildContext(h) ==
  IdsAt({i \in cursor[SeatOf[h]] + 1 .. Len(transcript) : transcript[i].author # h})

(* ---- the outside ------------------------------------------------------- *)

\* A message of the user starts a drain of the agents it names.
Ask(targets) ==
  /\ ~AtWork /\ pause = NoHat
  /\ CountsAsk
  /\ Post(fresh, "user")
  /\ fresh' = fresh + 1
  /\ queue' = targets
  /\ aborted' = FALSE
  /\ UNCHANGED <<cursor, memory, wave, pause, held, removed, reportFor>>

\* `!cmd`, or the note of a steer refused because its target is not streaming:
\* posted at once, whatever the room is doing.
PostAside ==
  /\ CountsOther
  /\ Post(fresh, "shell")
  /\ fresh' = fresh + 1
  /\ UNCHANGED <<cursor, memory, wave, waits, removed, reportFor>>

\* Steering reaches the session of the streaming hat and is posted as well.
Steer(h) ==
  /\ stage[h] = "streaming"
  /\ CountsOther
  /\ Post(fresh, "user")
  /\ fresh' = fresh + 1
  /\ memory' = [memory EXCEPT ![SeatOf[h]] = Append(@, fresh)]
  /\ UNCHANGED <<cursor, wave, waits, removed, reportFor>>

\* The report of a sub-room: a turn of its target, or, while a question is
\* pending, an entry that waits for the target's next turn.
InjectReport(h) ==
  /\ ~AtWork
  /\ CountsOther
  /\ Post(fresh, "orchestrator")
  /\ fresh' = fresh + 1
  /\ reportFor' = <<fresh, h>>
  /\ IF pause # NoHat
     THEN UNCHANGED <<queue, aborted>>
     ELSE queue' = <<h>> /\ aborted' = FALSE
  /\ UNCHANGED <<cursor, memory, wave, pause, held, removed>>

\* Stop: nothing waits any more; what streams is cut and still replies.
Stop ==
  /\ AtWork \/ pause # NoHat
  /\ CountsOther
  /\ aborted' = TRUE
  /\ queue' = <<>> /\ pause' = NoHat /\ held' = <<>>
  /\ UNCHANGED <<room, memory, wave, ghosts>>

(* ---- a wave ------------------------------------------------------------ *)

\* nextGroup(): the first hat, and the parallel ones behind a parallel one.
GroupLength ==
  IF queue[1] \notin Parallel THEN 1
  ELSE CHOOSE n \in 1 .. Len(queue) :
         /\ \A i \in 1 .. n : queue[i] \in Parallel
         /\ n < Len(queue) => queue[n + 1] \notin Parallel

\* The hats of `g` are launched, each with the context it was built.
Launch(g, contexts) ==
  /\ group' = g
  /\ ctx' = contexts
  /\ stage' = [h \in Hats |-> IF h \in ToSet(g) THEN "launched" ELSE "off"]
  /\ reply' = [h \in Hats |-> 0]

StartWave ==
  /\ group = <<>> /\ queue # <<>> /\ ~aborted
  /\ Launch(SubSeq(queue, 1, GroupLength),
            [h \in Hats |-> IF h \in ToSet(SubSeq(queue, 1, GroupLength))
                            THEN BuildContext(h) ELSE <<>>])
  /\ queue' = SubSeq(queue, GroupLength + 1, Len(queue))
  /\ UNCHANGED <<room, memory, asker, resuming, pause, held, aborted, ghosts, used>>

\* The user answers: followUp() carries the answer alone to who asked.
Answer ==
  /\ pause # NoHat /\ ~AtWork
  /\ CountsAsk
  /\ Post(fresh, "user")
  /\ fresh' = fresh + 1
  /\ Launch(<<pause>>, [h \in Hats |-> IF h = pause THEN <<fresh>> ELSE <<>>])
  /\ resuming' = TRUE
  /\ pause' = NoHat /\ aborted' = FALSE
  /\ UNCHANGED <<cursor, memory, asker, queue, held, removed, reportFor>>

\* Stop came before the prompt was sent: the turn is skipped.
SkipsRun(h) ==
  /\ stage[h] = "launched" /\ aborted
  /\ stage' = [stage EXCEPT ![h] = "skipped"]
  /\ ctx' = [ctx EXCEPT ![h] = <<>>]
  /\ UNCHANGED <<room, memory, group, reply, asker, resuming, waits, ghosts, used>>

\* The hat takes its seat and its prompt enters the session.
Prompts(h) ==
  /\ stage[h] = "launched" /\ ~aborted
  /\ \A g \in Hats : SeatOf[g] = SeatOf[h] => stage[g] # "streaming"
  /\ stage' = [stage EXCEPT ![h] = "streaming"]
  /\ memory' = [memory EXCEPT ![SeatOf[h]] = @ \o ctx[h]]
  /\ ctx' = [ctx EXCEPT ![h] = <<>>]
  /\ UNCHANGED <<room, group, reply, asker, resuming, waits, ghosts, used>>

\* It replies, perhaps with a question; an interrupted reply is not one.
Replies(h) ==
  /\ stage[h] = "streaming"
  /\ \E end \in IF aborted THEN {"cut"} ELSE {"done", "asks"} :
       stage' = [stage EXCEPT ![h] = end]
  /\ reply' = [reply EXCEPT ![h] = fresh]
  /\ memory' = [memory EXCEPT ![SeatOf[h]] = Append(@, fresh)]
  /\ fresh' = fresh + 1
  /\ UNCHANGED <<room, group, ctx, asker, resuming, waits, removed, crossed, reportFor,
                 used>>

\* It throws: no reply, and its cursor jumps to the end.
Fails(h) ==
  /\ stage[h] = "streaming"
  /\ stage' = [stage EXCEPT ![h] = "skipped"]
  /\ cursor' = [cursor EXCEPT ![SeatOf[h]] = Len(transcript)]
  /\ UNCHANGED <<transcript, memory, group, ctx, reply, asker, resuming, waits, ghosts,
                 used>>

WaveOver == \A h \in Hats : stage[h] \in {"off", "skipped"} \union Replied

\* Lines of hats after the reply of `h`, when `line` was waiting: it hands the
\* turn on, behind the line, or, after an answered question, ahead of it.
LinesAfter(h, line) ==
  {line} \union
  (IF stage[h] = "cut" \/ (resuming /\ stage[h] = "asks") THEN {}
   ELSE {IF resuming THEN <<to>> \o line ELSE Append(line, to) :
           to \in Hats \ (ToSet(line) \union {h})})

\* What happens when the wave has posted its replies and `line` waits: it
\* pauses on the first question, and otherwise the line is drained, unless a
\* Stop ended the drain.
WaveEnds(line, who) ==
  /\ asker' = NoHat /\ resuming' = FALSE
  /\ pause' = who
  /\ held' = IF who # NoHat THEN line ELSE <<>>
  /\ queue' = IF who # NoHat \/ aborted THEN <<>> ELSE line

WaveGoesOn(line, who) ==
  /\ asker' = who
  /\ queue' = line
  /\ UNCHANGED <<resuming, pause, held>>

\* The hat at the head of the wave is dealt with.
Advances(line, who) ==
  /\ group' = Tail(group)
  /\ stage' = [stage EXCEPT ![group[1]] = "off"]
  /\ IF Len(group) = 1 THEN WaveEnds(line, who) ELSE WaveGoesOn(line, who)

Line == IF resuming THEN held ELSE queue

\* The reply of the first hat not yet dealt with is posted and the cursor of
\* its seat set behind it.
CursorBehindOffByOne(h, n) == cursor' = [cursor EXCEPT ![SeatOf[h]] = n - 1]
CursorBehind(h, n) == cursor' = [cursor EXCEPT ![SeatOf[h]] = n]

PostReply ==
  /\ group # <<>> /\ WaveOver
  /\ LET h == group[1]
         who == IF asker = NoHat /\ stage[h] = "asks" THEN h ELSE asker
     IN
       /\ stage[h] \in Replied
       /\ Post(reply[h], h)
       /\ CursorBehind(h, Len(transcript) + 1)
       /\ \E line \in LinesAfter(h, Line) :
            /\ Advances(line, who)
            /\ IF line = Line THEN UNCHANGED used ELSE CountsOther
       /\ reply' = [reply EXCEPT ![h] = 0]
  /\ UNCHANGED <<memory, ctx, aborted, fresh, removed, reportFor>>

\* It gave none.
SkipReply ==
  /\ group # <<>> /\ WaveOver
  /\ stage[group[1]] = "skipped"
  /\ Advances(Line, asker)
  /\ UNCHANGED <<room, memory, ctx, reply, aborted, ghosts, used>>

(* ---- rollback ---------------------------------------------------------- *)

\* ensureIdle(): nobody is in this.running, nothing waits.  An agent that has
\* left the queue and joins this.running only after its snapshot, or whose
\* reply is being posted, is seen by nobody: Overlaps says whether a rollback
\* is asked for just then.
Idle ==
  /\ \A h \in Hats : stage[h] # "streaming"
  /\ queue = <<>> /\ pause = NoHat
  /\ Overlaps \/ group = <<>>

\* The seats whose sessions hold what is cut: those whose cursor is past it.
PastCutOffByOne(keep) == {s \in Seats : cursor[s] > keep + 1}

PastCut(keep) == {s \in Seats : cursor[s] > keep}

Rollback(keep) ==
  /\ Idle
  /\ keep < Len(transcript)
  /\ CountsOther
  /\ removed' = removed \union {transcript[i].id : i \in keep + 1 .. Len(transcript)}
  /\ transcript' = SubSeq(transcript, 1, keep)
  /\ memory' = [s \in Seats |-> IF s \in PastCut(keep) THEN <<>> ELSE memory[s]]
  /\ cursor' = [s \in Seats |-> IF s \in PastCut(keep) THEN 0 ELSE cursor[s]]
  /\ crossed' = [s \in Seats |-> IF s \in PastCut(keep) THEN {} ELSE crossed[s]]
  /\ UNCHANGED <<wave, waits, fresh, reportFor>>

(* ---- specification ----------------------------------------------------- *)

Next ==
  \/ \E t \in Mentions : Ask(t)
  \/ PostAside
  \/ Answer
  \/ Stop
  \/ StartWave
  \/ PostReply
  \/ SkipReply
  \/ \E keep \in 0 .. Len(transcript) : Rollback(keep)
  \/ \E h \in Hats :
       \/ Steer(h) \/ InjectReport(h)
       \/ SkipsRun(h) \/ Prompts(h) \/ Replies(h) \/ Fails(h)

Spec == Init /\ [][Next]_vars

(* ---- properties -------------------------------------------------------- *)

\* The state has the types of the fields it models.
TypeOK ==
  /\ transcript \in Seq([id : Nat, author : Hats \union Outsiders])
  /\ cursor \in [Seats -> 0 .. Len(transcript)]
  /\ memory \in [Seats -> Seq(Nat)]
  /\ queue \in Seq(Hats) /\ group \in Seq(Hats) /\ held \in Seq(Hats)
  /\ stage \in [Hats -> Stages]
  /\ ctx \in [Hats -> Seq(Nat)]
  /\ reply \in [Hats -> Nat]
  /\ asker \in Hats \union {NoHat} /\ pause \in Hats \union {NoHat}
  /\ resuming \in BOOLEAN /\ aborted \in BOOLEAN
  /\ fresh \in Nat /\ removed \in SUBSET Nat
  /\ crossed \in [Seats -> SUBSET Nat]
  /\ reportFor \in Nat \X (Hats \union {NoHat})
  /\ asks \in 0 .. MaxAsks /\ others \in 0 .. MaxOthers

\* Where an entry stands in the transcript; a reply not posted yet comes last.
Position(id) ==
  IF \E i \in DOMAIN transcript : transcript[i].id = id
  THEN CHOOSE i \in DOMAIN transcript : transcript[i].id = id
  ELSE Len(transcript) + 1

\* A session reads the room in the order it was written, and no line of it
\* twice: cursors never go back under a session that keeps its context, and a
\* line delivered by steering or followUp() is not delivered again.
ReadsInOrder ==
  \A s \in Seats : \A i \in 1 .. Len(memory[s]) - 1 :
    Position(memory[s][i]) < Position(memory[s][i + 1])

\* What a seat is taken to have seen is in its session, but for the lines
\* posted while the seat itself had a turn in hand, and for what its own hats
\* said: a seat whose session was wiped reads everything else that was kept.
NoGap ==
  \A s \in Seats : \A i \in 1 .. cursor[s] :
    \/ transcript[i].id \in ToSet(memory[s]) \union crossed[s]
    \/ \E h \in Hats : SeatOf[h] = s /\ transcript[i].author = h

\* "those sessions are rebuilt from scratch (they replay the kept transcript
\* on their next turn)": as NoGap, without the exception for its own words.
KeptReplayed ==
  \A s \in Seats : \A i \in 1 .. cursor[s] :
    transcript[i].id \in ToSet(memory[s]) \union crossed[s]

\* No session remembers what a rollback took out of the transcript.
RemovedForgotten == \A s \in Seats : ToSet(memory[s]) \cap removed = {}

\* What a session holds of the room is the room, in its order, nothing missing
\* and nothing that was taken back.
ReadsTheRoom == ReadsInOrder /\ NoGap /\ RemovedForgotten

\* "posted passively ... the target reads it on its next turn": a report its
\* target is taken to have seen is in the target's session.
ReportRead ==
  LET s == SeatOf[reportFor[2]] IN
  (reportFor[2] # NoHat /\ Position(reportFor[1]) <= cursor[s])
    => reportFor[1] \in ToSet(memory[s])
=============================================================================
