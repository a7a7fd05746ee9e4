---------------------------- MODULE Persistence ----------------------------
(***************************************************************************)
(* The discussions of a room and their files.  One conversation is live;   *)
(* every other is a file only.  What the live one becomes is saved as      *)
(* snapshots that a chain writes one after the other (tmp file, rename).   *)
(* A roster change only sets a timer; a message or a command saves at      *)
(* once; a turn saves when it ends.  Switching to a conversation, starting *)
(* one, deleting one and rolling one back are sequences of awaits, in      *)
(* which the id, the roster and the transcript change at different times.  *)
(*                                                                         *)
(* Edits are numbered; a text is the last edit of a transcript and the     *)
(* conversation it was written in, a roster the edit that made it.         *)
(***************************************************************************)
EXTENDS Naturals, Sequences, SequencesExt, FiniteSetsExt

CONSTANTS
  Convs,        \* conversation ids
  Overlaps      \* other requests may come while a conversation operation
                \* awaits, and a deletion over a save not landed yet

\* Bounds of the model: edits, conversation operations, failing writes,
\* restarts, snapshots waiting on the chain.
CONSTANTS MaxEdits, MaxOps, MaxFailures, MaxRestarts, MaxChain

ASSUME ConvsAssumption == Convs # {} /\ Overlaps \in BOOLEAN
ASSUME PersistenceBoundsAssumption ==
  /\ MaxEdits \in Nat /\ MaxOps \in Nat /\ MaxFailures \in Nat
  /\ MaxRestarts \in Nat /\ MaxChain \in Nat

VARIABLES
  convId, text, roster,  \* the live conversation
  turn,                  \* an agent is at work
  timer,                 \* saveTimer is set
  chain,                 \* store.writeChain: snapshots not written yet
  disk,                  \* conversation files
  op,                    \* what a conversation operation is awaiting
  down                   \* how far the shutdown has come; "sealed" is `sealed`

\* Clocks and counts, and what only the properties read.
VARIABLES
  clock,                 \* Date.now(): stamps snapshots in the order taken
  edits, ops, failures, restarts,
  deleted,               \* conversations the user deleted
  owed                   \* what was to be saved when the shutdown began

live == <<convId, text, roster>>
counts == <<edits, ops, failures, restarts>>
ghosts == <<deleted, owed>>
vars == <<live, turn, timer, chain, disk, op, down, clock, counts, ghosts>>

NoDoc == [missing |-> TRUE]
Cleared == 0   \* the roster while registry.reset() rebuilds it
NoSnapshot == [at |-> 0]
NoOp == [at |-> "none"]
Live == [now |-> TRUE] \* a snapshot's text: the transcript array itself, not a copy

Text(c, n) == [of |-> c, n |-> n]
Doc(t, r, at) == [text |-> t, roster |-> r, at |-> at]

Init ==
  LET c == CHOOSE c \in Convs : TRUE IN
    /\ convId = c /\ text = Text(c, 0) /\ roster = 1
    /\ disk = [d \in Convs |-> IF d = c THEN Doc(Text(c, 0), 1, 0) ELSE NoDoc]
    /\ turn = FALSE /\ timer = FALSE /\ chain = <<>> /\ op = NoOp /\ down = "up"
    /\ clock = 1 /\ edits = 1 /\ ops = 0 /\ failures = 0 /\ restarts = 0
    /\ deleted = {} /\ owed = NoSnapshot

Saved(c) == disk[c] # NoDoc

(* ---- saving ------------------------------------------------------------ *)

\* buildConversation(), handed to the store.
Snapshot == [conv |-> convId, text |-> Live, roster |-> roster, at |-> clock]

Enqueue(snapshot) ==
  /\ Len(chain) < MaxChain
  /\ chain' = Append(chain, snapshot)
  /\ clock' = clock + 1

\* saveCurrent(), up to the await: refused once the room is sealed.
SaveCurrentUnsealed == Enqueue(Snapshot) /\ timer' = FALSE
SaveCurrent ==
  IF down = "sealed" THEN UNCHANGED <<chain, clock, timer>>
  ELSE Enqueue(Snapshot) /\ timer' = FALSE

\* The live transcript is replaced: what the chain refers to is its last state.
Frozen == [i \in DOMAIN chain |->
             IF chain[i].text = Live THEN [chain[i] EXCEPT !.text = text] ELSE chain[i]]

Resolved(s) == Doc(IF s.text = Live THEN text ELSE s.text, s.roster, s.at)

\* The head of the chain is renamed into place,
LandsNewest ==
  /\ chain # <<>>
  /\ disk' = [disk EXCEPT ![Last(chain).conv] = Resolved(Last(chain))]
  /\ chain' = Front(chain)
  /\ UNCHANGED <<live, turn, timer, op, down, clock, counts, ghosts>>

Lands ==
  /\ chain # <<>>
  /\ disk' = [disk EXCEPT ![Head(chain).conv] = Resolved(Head(chain))]
  /\ chain' = Tail(chain)
  /\ UNCHANGED <<live, turn, timer, op, down, clock, counts, ghosts>>

\* or cannot be: the snapshot is lost, with a notice, and the chain goes on.
WriteFails ==
  /\ chain # <<>> /\ failures < MaxFailures
  /\ chain' = Tail(chain)
  /\ failures' = failures + 1
  /\ UNCHANGED <<live, turn, timer, disk, op, down, clock, edits, ops, restarts, ghosts>>

TimerFires ==
  /\ timer
  /\ SaveCurrent
  /\ UNCHANGED <<live, turn, disk, op, down, counts, ghosts>>

(* ---- what changes the live conversation --------------------------------- *)

\* Requests keep clear of a conversation operation, unless Overlaps.
Quiet == op = NoOp \/ Overlaps

Edits == edits < MaxEdits /\ edits' = edits + 1

Begins ==
  /\ ~turn /\ Quiet /\ Edits
  /\ turn' = TRUE
  /\ text' = [text EXCEPT !.n = edits']
  /\ UNCHANGED <<convId, roster, timer, chain, disk, op, down, clock, ops, failures,
                 restarts, ghosts>>

\* A reply is posted; a task_* tool sets the timer.
Posts ==
  /\ turn /\ Edits
  /\ text' = [text EXCEPT !.n = edits']
  /\ timer' \in {timer, timer \/ down # "sealed"}
  /\ UNCHANGED <<convId, roster, turn, chain, disk, op, down, clock, ops, failures,
                 restarts, ghosts>>

\* The turn ends and saves what its agents said.
TurnEndsUnsaved ==
  /\ turn
  /\ turn' = FALSE
  /\ UNCHANGED <<live, chain, clock, timer, disk, op, down, counts, ghosts>>

TurnEnds ==
  /\ turn
  /\ turn' = FALSE
  /\ SaveCurrent
  /\ UNCHANGED <<live, disk, op, down, counts, ghosts>>

\* A shell command: posted and saved, the turn at work or not.
PostShellRecord ==
  /\ Quiet /\ Edits
  /\ text' = [text EXCEPT !.n = edits']
  /\ SaveCurrent
  /\ UNCHANGED <<convId, roster, turn, disk, op, down, ops, failures, restarts, ghosts>>

\* A change of the roster: registry.onChange, which a reset suspends.
ChangeRoster ==
  /\ ~turn /\ Quiet /\ Edits
  /\ op.at # "resetting"
  /\ roster' = edits'
  /\ timer' = (timer \/ down # "sealed")
  /\ UNCHANGED <<convId, text, turn, chain, disk, op, down, clock, ops, failures, restarts,
                 ghosts>>

(* ---- conversation operations -------------------------------------------- *)

\* ensureIdle().
MayOperate ==
  /\ ~turn
  /\ op = NoOp /\ ops < MaxOps
  /\ down = "up"

Begin(o) ==
  /\ MayOperate
  /\ ops' = ops + 1
  /\ op' = o
  /\ UNCHANGED <<edits, failures, restarts>>

Fresh(c) == ~Saved(c) /\ c \notin deleted /\ c # convId

\* switchConversation() has read the file it will show; newConversation() and
\* loadPreset() take the roster they will start with.
SwitchConversation(c) ==
  /\ c # convId /\ Saved(c)
  /\ Begin([at |-> "leaving", conv |-> c, doc |-> disk[c], new |-> FALSE])
  /\ UNCHANGED <<live, turn, timer, chain, disk, down, clock, ghosts>>

NewConversation(c) ==
  /\ Fresh(c)
  /\ Begin([at |-> "leaving", conv |-> c, doc |-> Doc(Text(c, 0), roster, 0), new |-> TRUE])
  /\ UNCHANGED <<live, turn, timer, chain, disk, down, clock, ghosts>>

\* Both save what they leave and wait for it to land.
LeavesUnsaved ==
  /\ op.at = "leaving"
  /\ op' = [at |-> "left", conv |-> op.conv, doc |-> op.doc, new |-> op.new,
             save |-> clock]
  /\ UNCHANGED <<live, turn, timer, chain, clock, disk, down, counts, ghosts>>

Leaves ==
  /\ op.at = "leaving"
  /\ SaveCurrent
  /\ op' = [at |-> "left", conv |-> op.conv, doc |-> op.doc, new |-> op.new,
             save |-> clock]
  /\ UNCHANGED <<live, turn, disk, down, counts, ghosts>>

Landed(at) == \A i \in DOMAIN chain : chain[i].at # at

\* applyConversation() and startFresh() set the id and clear the roster; a
\* fresh transcript is there at once, a loaded one after the reset.
AppliesKeepingText(c, doc, new) ==
  /\ convId' = c
  /\ roster' = Cleared
  /\ op' = [at |-> "resetting", conv |-> c, doc |-> doc, new |-> new]
  /\ UNCHANGED <<text, chain>>

Applies(c, doc, new) ==
  /\ convId' = c
  /\ roster' = Cleared
  /\ op' = [at |-> "resetting", conv |-> c, doc |-> doc, new |-> new]
  /\ IF new THEN text' = doc.text /\ chain' = Frozen
            ELSE UNCHANGED <<text, chain>>

Enters ==
  /\ op.at = "left" /\ Landed(op.save)
  /\ Applies(op.conv, op.doc, op.new)
  /\ UNCHANGED <<turn, timer, disk, down, clock, counts, ghosts>>

\* The roster is rebuilt.  A loaded transcript takes its place; what is new is
\* saved, and so is the seed roster given to a file that had none.
Restored(r) == IF r = Cleared THEN 1 ELSE r

IsReset ==
  /\ op.at = "resetting"
  /\ roster' = Restored(op.doc.roster)
  /\ op' = NoOp
  /\ IF op.new THEN UNCHANGED text ELSE text' = op.doc.text
  /\ LET settled == IF op.new THEN chain ELSE Frozen
         saves == (op.new \/ op.doc.roster = Cleared) /\ down # "sealed"
     IN IF saves
        THEN /\ chain' = Append(settled, [Snapshot EXCEPT !.roster = roster'])
             /\ clock' = clock + 1
             /\ timer' = FALSE
        ELSE chain' = settled /\ UNCHANGED <<clock, timer>>
  /\ UNCHANGED <<convId, turn, disk, down, counts, ghosts>>

\* applyPreset(): the same discussion under another roster.
ApplyPreset ==
  /\ Edits
  /\ MayOperate /\ ops' = ops + 1
  /\ roster' = Cleared
  /\ op' = [at |-> "resetting", conv |-> convId, doc |-> Doc(text, edits', 0), new |-> TRUE]
  /\ UNCHANGED <<convId, text, turn, timer, chain, disk, down, clock, failures, restarts,
                 ghosts>>

\* deleteConversation(): the file goes first; of the live one, its sessions are
\* removed next, and the most recent one left is read.
DeleteConversation(c) ==
  /\ Saved(c)
  /\ Overlaps \/ (~timer /\ chain = <<>>)
  /\ Begin(IF c = convId THEN [at |-> "deleting"] ELSE NoOp)
  /\ disk' = [disk EXCEPT ![c] = NoDoc]
  /\ deleted' = deleted \union {c}
  /\ UNCHANGED <<live, turn, timer, chain, down, clock, owed>>

Recent(c) == Saved(c) /\ \A d \in Convs : Saved(d) => disk[d].at <= disk[c].at

FallsBackSaved ==
  /\ op.at = "deleting"
  /\ \E c \in Convs :
       Recent(c) /\ op' = [at |-> "leaving", conv |-> c, doc |-> disk[c], new |-> FALSE]
  /\ UNCHANGED <<live, turn, timer, chain, disk, down, clock, counts, ghosts>>

FallsBack ==
  /\ op.at = "deleting"
  /\ \/ \E c \in Convs : Recent(c) /\ Applies(c, disk[c], FALSE)
     \/ /\ ~\E c \in Convs : Saved(c)
        /\ \E c \in Convs : Fresh(c) /\ Applies(c, Doc(Text(c, 0), 1, 0), TRUE)
  /\ UNCHANGED <<turn, timer, disk, down, clock, counts, ghosts>>

\* renameConversation() of one that is not live: its file is read, given the
\* title and written.
RenameConversation(c) ==
  /\ c # convId /\ Saved(c)
  /\ Begin([at |-> "renaming", conv |-> c, doc |-> disk[c]])
  /\ UNCHANGED <<live, turn, timer, chain, disk, down, clock, ghosts>>

Renames ==
  /\ op.at = "renaming"
  /\ Enqueue([conv |-> op.conv, text |-> op.doc.text, roster |-> op.doc.roster,
              at |-> clock])
  /\ op' = NoOp
  /\ UNCHANGED <<live, turn, timer, disk, down, counts, ghosts>>

\* rollbackTo(): a shorter transcript takes the place of the live one; it is
\* saved once the sessions that knew more are rebuilt.
RollbackTo ==
  /\ Begin([at |-> "wiping"])
  /\ text.n > 0
  /\ text' = [text EXCEPT !.n = 0]
  /\ chain' = Frozen
  /\ UNCHANGED <<convId, roster, turn, timer, disk, down, clock, ghosts>>

RolledBack ==
  /\ op.at = "wiping"
  /\ SaveCurrent
  /\ op' = NoOp
  /\ UNCHANGED <<live, turn, disk, down, counts, ghosts>>

(* ---- shutdown, restart --------------------------------------------------- *)

Queued(at) == \E i \in DOMAIN chain : chain[i].at <= at

\* flushWrites(): a pending timer is fired now,
ShutsDown ==
  /\ down = "up"
  /\ op = NoOp \/ Overlaps
  /\ down' = "saving"
  /\ IF timer
     THEN /\ owed' = [Snapshot EXCEPT !.text = text]
          /\ SaveCurrent
     ELSE /\ owed' = IF chain = <<>> THEN NoSnapshot ELSE Last(chain)
          /\ UNCHANGED <<chain, clock, timer>>
  /\ UNCHANGED <<live, turn, disk, op, counts, deleted>>

\* the chain is waited for, and the room sealed.
Seals ==
  /\ down = "saving"
  /\ ~Queued(owed.at)
  /\ down' = "sealed"
  /\ UNCHANGED <<live, turn, timer, chain, disk, op, clock, counts, ghosts>>

\* The teardown empties the roster.
DisposeAllEarly ==
  /\ down # "up" /\ roster # Cleared
  /\ roster' = Cleared
  /\ UNCHANGED <<convId, text, turn, timer, chain, disk, op, down, clock, counts, ghosts>>

DisposeAll ==
  /\ down = "sealed" /\ roster # Cleared
  /\ roster' = Cleared
  /\ UNCHANGED <<convId, text, turn, timer, chain, disk, op, down, clock, counts, ghosts>>

FirstSave(c) == <<[conv |-> c, text |-> Live, roster |-> 1, at |-> clock]>>

\* The process ends, here or anywhere, and is started again: init() shows the
\* most recent conversation, or a fresh one.
Restart ==
  /\ restarts < MaxRestarts
  /\ restarts' = restarts + 1
  /\ \/ \E c \in Convs :
          /\ Recent(c)
          /\ convId' = c /\ text' = disk[c].text /\ roster' = Restored(disk[c].roster)
          /\ chain' = IF disk[c].roster = Cleared THEN FirstSave(c) ELSE <<>>
     \/ \E c \in Convs :
          /\ ~\E d \in Convs : Saved(d)
          /\ Fresh(c)
          /\ convId' = c /\ text' = Text(c, 0) /\ roster' = 1
          /\ chain' = FirstSave(c)
  /\ clock' = clock + 1
  /\ turn' = FALSE /\ timer' = FALSE /\ op' = NoOp /\ down' = "up"
  /\ owed' = NoSnapshot
  /\ UNCHANGED <<disk, edits, ops, failures, deleted>>

(* ---- specification ------------------------------------------------------- *)

Operations(c) ==
  \/ SwitchConversation(c) \/ NewConversation(c)
  \/ DeleteConversation(c) \/ RenameConversation(c)

Proceeds == Leaves \/ Enters \/ IsReset \/ FallsBack \/ Renames \/ RolledBack

Next ==
  \/ Lands \/ WriteFails \/ TimerFires
  \/ Begins \/ Posts \/ TurnEnds \/ PostShellRecord \/ ChangeRoster
  \/ \E c \in Convs : Operations(c)
  \/ ApplyPreset \/ RollbackTo
  \/ Proceeds
  \/ ShutsDown \/ Seals \/ DisposeAll \/ Restart

\* The chain writes, timers fire, turns end and awaits come back.
Fairness ==
  /\ WF_vars(Lands) /\ WF_vars(TimerFires) /\ WF_vars(TurnEnds) /\ WF_vars(Proceeds)

Spec == Init /\ [][Next]_vars /\ Fairness

(* ---- properties ---------------------------------------------------------- *)

\* The state has the types of the fields it models.
TypeOK ==
  LET Texts == [of : Convs, n : Nat]
      Docs == [text : Texts, roster : Nat, at : Nat]
      Snapshots == [conv : Convs, text : Texts \union {Live}, roster : Nat, at : Nat]
  IN
  /\ convId \in Convs /\ text \in Texts /\ roster \in Nat
  /\ turn \in BOOLEAN /\ timer \in BOOLEAN
  /\ roster = Cleared => op.at = "resetting" \/ down = "sealed"
  /\ chain \in Seq(Snapshots)
  /\ disk \in [Convs -> Docs \union {NoDoc}]
  /\ down \in {"up", "saving", "sealed"}
  /\ owed \in Snapshots \union {NoSnapshot}
  /\ deleted \subseteq Convs

\* "one JSON file per group discussion": a file holds the discussion it is
\* named for, never that of a conversation which was live before.
OwnFile == \A c \in Convs : Saved(c) => disk[c].text.of = c

\* A deleted conversation does not come back with a write that was pending.
DeletedGone == \A c \in deleted : ~Saved(c)

\* No file holds what another discussion, or a deleted one, said.
FilesFit == OwnFile /\ DeletedGone

\* "the last-invoked write wins": no file goes back to an older snapshot.
NoOlder ==
  [][\A c \in Convs : Saved(c) /\ disk'[c] # NoDoc => disk[c].at <= disk'[c].at]_vars

\* The conversation that is left is on disk as it was, unless it was deleted
\* or a write failed.
LeftIsSaved ==
  [][(convId' # convId /\ restarts' = restarts /\ failures = 0 /\ convId \notin deleted)
       => Saved(convId) /\ disk[convId].text = text /\ disk[convId].roster = roster]_vars

\* What a shutdown found pending is on disk when the room is sealed, and
\* nothing the teardown does afterwards takes its place.
FlushKeeps ==
  (down = "sealed" /\ owed # NoSnapshot /\ failures = 0)
    => /\ Saved(owed.conv)
       /\ disk[owed.conv].at >= owed.at
       /\ disk[owed.conv].roster # Cleared

\* Every file is its own discussion's, through deletions, restarts and a shutdown.
FilesKept == FilesFit /\ FlushKeeps

Unsaved ==
  ~ (Saved(convId) /\ disk[convId].text = text /\ disk[convId].roster = roster)

\* Whatever changes the live conversation gets to its file.
SaveLands == Unsaved ~> (~Unsaved \/ failures > 0 \/ down = "sealed")
=============================================================================
