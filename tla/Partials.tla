------------------------------- MODULE Partials -------------------------------
(***************************************************************************)
(* The baseline's partial decodes (stt.py, _partial_loop) and the records  *)
(* TurnManager keeps of them (turns.py).  While the user speaks, a task    *)
(* decodes the audio up to each offset in turn.  The endpoint cancels the  *)
(* task, which gives the lock back, but the thread decodes on; it reports  *)
(* its boundaries itself, into the record its turn still buffers or, once  *)
(* that turn is written, as a record of its own.  A turn may be closed     *)
(* while its user still speaks: by the reply to the first half of a split  *)
(* file, or by the watchdog.  The event loop's code runs between awaits; a *)
(* thread's steps fall anywhere, inside the writing of a closing turn too. *)
(***************************************************************************)
EXTENDS Integers, Sequences, SequencesExt, FiniteSets

CONSTANTS MaxTurns,   \* turns the VAD may open
          MaxSplits,  \* those it may open without the gate, in a split file
          NOffsets    \* len(partial_offsets_s)

ASSUME MaxTurnsAssumption == MaxTurns \in Nat
ASSUME MaxSplitsAssumption == MaxSplits \in Nat
ASSUME NOffsetsAssumption == NOffsets \in Nat \ {0}

Turn == 1 .. MaxTurns
Offset == 1 .. NOffsets

VARIABLES engines,   \* 2 with a partial_model and its own lock, else 1
          turn,      \* TurnManager._turn
          open,      \* TurnManager._clock is not None
          talking,   \* the user is speaking (VAD)
          splits,    \* turns that were opened without the gate
          reply,     \* none, its text being generated, or to be spoken and played
          llmDone,   \* llm_done is marked in the open turn
          inbox,     \* VAD frames the service has not handled yet
          utt,       \* the utterance the service is handling, or handled last
          speaking,  \* _speaking
          heard,     \* the offsets _audio has reached
          task,      \* _partial_task: where it is, and the offset it waits for
          unwinding, \* cancelled tasks that still hold their lock
          decodes,   \* the decodes threads have
          recs,      \* _partials, the open turn's records not yet written
          flush,     \* _flush_partials: how many it has written, and why
          final,     \* the final decode: "none", "locking" or "decoding"
          log        \* the partial records of the file

userVars == <<turn, open, talking, splits>>
replyVars == <<reply, llmDone>>
sttVars == <<inbox, utt, speaking, heard, task, unwinding, final>>
vars == <<engines, userVars, replyVars, sttVars, decodes, recs, flush, log>>

NoTask == [pc |-> "none", next |-> 1]
NoFlush == [why |-> "none", wrote |-> 0]

-----------------------------------------------------------------------------
\* The loop's code is not inside _flush_partials.
LoopFree == flush.why = "none"

\* The decode of an utterance's offset, for the turn opened last when it was
\* issued; noted (history) if that turn was open still.
Decode(o) ==
    [utt |-> utt, turn |-> turn, noted |-> open, offset |-> o, pc |-> "queued", rec |-> 0]

\* A decode a thread is computing.
InThread(d) == d.pc = "decoding"

Same(d, r) == d.utt = r.utt /\ d.offset = r.offset

\* Mistakes a change could make; the mutants put them in place.
AnyTurn(d) == {i \in 1 .. Len(recs) : recs[i].offset = d.offset /\ ~recs[i].filled}
ForgottenFirst(why) == [why |-> why, wrote |-> Len(recs)]

\* The record a report finds: its turn's, open still, of its offset, the last
\* whose boundaries are missing.
Matching(d) ==
    IF d.turn = turn /\ open
    THEN {i \in 1 .. Len(recs) : recs[i].offset = d.offset /\ ~recs[i].filled}
    ELSE {}
Latest(is) == CHOOSE i \in is : \A j \in is : j <= i

\* A record as it is written.
Written(t, r) ==
    [turn |-> t, utt |-> r.utt, offset |-> r.offset, filled |-> r.filled, of |-> r.of,
     alone |-> FALSE]
Standalone(d) ==
    [turn |-> d.turn, utt |-> d.utt, offset |-> d.offset, filled |-> TRUE, of |-> d.utt,
     alone |-> TRUE]

\* The partials' engine is the final's, and so is its lock.
FinalLockTaken == engines = 1 /\ (unwinding > 0 \/ task.pc = "awaiting")

Init ==
    /\ engines \in 1 .. 2
    /\ turn = 0 /\ open = FALSE /\ talking = FALSE /\ splits = 0
    /\ reply = "none" /\ llmDone = FALSE
    /\ inbox = <<>> /\ utt = 0 /\ speaking = FALSE /\ heard = 0
    /\ task = NoTask /\ unwinding = 0 /\ decodes = {}
    /\ recs = <<>> /\ flush = NoFlush
    /\ final = "none" /\ log = {}

-----------------------------------------------------------------------------
(* The turns.                                                              *)

\* Where the writing of a turn's records begins.
FlushFrom(why) == [why |-> why, wrote |-> 0]

OpenTurn == turn' = turn + 1 /\ open' = TRUE /\ recs' = <<>> /\ llmDone' = FALSE

\* The VAD hears 200 ms of speech before it opens a turn: by then the service
\* has handled every frame it could, unless a final holds it.
CaughtUp == unwinding = 0 /\ (inbox = <<>> \/ final # "none")

\* turn_gate(): the turn is closed, and the recognizer and the model are idle.
GateOpens ==
    /\ ~open /\ ~\E d \in decodes : InThread(d)
    /\ final = "none" /\ inbox = <<>>
    /\ reply # "generating"

\* turn_started(): a turn that is still open is written first.  The next file
\* waits for the gate; the second half of a split file does not, whether the
\* first half's turn is open or has been closed.
UserStarts ==
    /\ LoopFree /\ CaughtUp
    /\ ~talking /\ turn < MaxTurns
    /\ talking' = TRUE
    /\ inbox' = Append(inbox, "started")
    /\ \/ GateOpens /\ UNCHANGED splits
       \/ splits < MaxSplits /\ splits' = splits + 1
    /\ IF open THEN flush' = FlushFrom("split") /\ UNCHANGED <<turn, open, recs, llmDone>>
               ELSE OpenTurn /\ UNCHANGED flush
    /\ UNCHANGED <<engines, reply, utt, speaking, heard, task, unwinding, final, decodes, log>>

\* The endpoint, whether its turn is open or not.
UserStops ==
    /\ LoopFree
    /\ talking
    /\ talking' = FALSE
    /\ inbox' = Append(inbox, "stopped")
    /\ UNCHANGED <<engines, turn, open, splits, replyVars, utt, speaking, heard, task, unwinding,
                   final, decodes, recs, flush, log>>

-----------------------------------------------------------------------------
(* The reply, and what closes a turn.                                      *)

\* llm_done is marked in the turn that is open, if one is and the request has
\* not failed.
LlmEnds ==
    /\ LoopFree
    /\ reply = "generating"
    /\ reply' = "spoken"
    /\ \E ok \in BOOLEAN : llmDone' = (llmDone \/ (ok /\ open))
    /\ UNCHANGED <<engines, userVars, sttVars, decodes, recs, flush, log>>

\* BotStoppedSpeaking, or the watchdog's SETTLE_MS after it, closes the turn
\* that is open if llm_done is marked there, though the reply may be to the
\* half before, the user be speaking and the next reply on its way.
ReplyEnds ==
    /\ LoopFree
    /\ reply = "spoken" \/ (open /\ llmDone)
    /\ reply' = IF reply = "spoken" THEN "none" ELSE reply
    /\ flush' = IF open /\ llmDone THEN FlushFrom("close") ELSE flush
    /\ UNCHANGED <<engines, userVars, llmDone, sttVars, decodes, recs, log>>

\* The watchdog's STUCK_MS without a mark, a decode or a reply: nothing is
\* under way, but the user may be speaking.
Stuck ==
    /\ open
    /\ final = "none" /\ reply = "none" /\ decodes = {}
    /\ task.pc = "polling" => heard < task.next

\* Its DECODE_HANG_MS.
Hung == open /\ (final = "decoding" \/ \E d \in decodes : InThread(d))

ForceClose ==
    /\ LoopFree /\ CaughtUp
    /\ Stuck \/ Hung
    /\ flush' = FlushFrom("close")
    /\ UNCHANGED <<engines, userVars, replyVars, sttVars, decodes, recs, log>>

-----------------------------------------------------------------------------
(* The writing of a turn's records.                                        *)

\* _flush_partials() writes the records one by one ...
WriteNext ==
    /\ flush.why # "none" /\ flush.wrote < Len(recs)
    /\ log' = log \cup {Written(turn, recs[flush.wrote + 1])}
    /\ flush' = [flush EXCEPT !.wrote = @ + 1]
    /\ UNCHANGED <<engines, userVars, replyVars, sttVars, decodes, recs>>

\* ... and forgets them; the clock is gone, and the turn that split this one
\* opens.
FlushEnds ==
    /\ flush.why # "none" /\ flush.wrote = Len(recs)
    /\ flush' = NoFlush
    /\ IF flush.why = "split" THEN OpenTurn
       ELSE open' = FALSE /\ recs' = <<>> /\ llmDone' = FALSE /\ UNCHANGED turn
    /\ UNCHANGED <<engines, talking, splits, reply, sttVars, decodes, log>>

-----------------------------------------------------------------------------
(* The service's frame handler.                                            *)

\* A task starts with the turn; the buffer starts with the pre-roll, which is
\* shorter than the first offset.
HandleStarted ==
    /\ LoopFree
    /\ final = "none" /\ unwinding = 0
    /\ inbox # <<>> /\ Head(inbox) = "started"
    /\ inbox' = Tail(inbox)
    /\ utt' = utt + 1
    /\ speaking' = TRUE /\ heard' = 0
    /\ task' = [pc |-> "polling", next |-> 1]
    /\ UNCHANGED <<engines, userVars, replyVars, unwinding, final, decodes, recs, flush, log>>

Hear ==
    /\ LoopFree
    /\ speaking /\ heard < NOffsets
    /\ heard' = heard + 1
    /\ UNCHANGED <<engines, userVars, replyVars, inbox, utt, speaking, task, unwinding, final,
                   decodes, recs, flush, log>>

\* The endpoint: the task is cancelled; one that awaits a decode unwinds, and
\* releases its lock, when the loop next runs it.  Too short an utterance
\* gets no final.
HandleStopped ==
    /\ LoopFree
    /\ final = "none"
    /\ inbox # <<>> /\ Head(inbox) = "stopped"
    /\ inbox' = Tail(inbox)
    /\ speaking' = FALSE /\ heard' = 0
    /\ task' = NoTask
    /\ unwinding' = unwinding + (IF task.pc = "awaiting" THEN 1 ELSE 0)
    /\ final' \in {"none", "locking"}
    /\ UNCHANGED <<engines, userVars, replyVars, utt, decodes, recs, flush, log>>

\* The cancelled task: its lock is released, and a decode no thread has
\* taken yet is dropped.
Unwind ==
    /\ LoopFree
    /\ unwinding > 0
    /\ unwinding' = 0
    /\ decodes' = {d \in decodes : d.pc # "queued"}
    /\ UNCHANGED <<engines, userVars, replyVars, inbox, utt, speaking, heard, task, final, recs,
                   flush, log>>

FinalStarts ==
    /\ LoopFree
    /\ final = "locking" /\ ~FinalLockTaken
    /\ final' = "decoding"
    /\ UNCHANGED <<engines, userVars, replyVars, inbox, utt, speaking, heard, task, unwinding,
                   decodes, recs, flush, log>>

\* Its text, if any, goes to the model, which drops it while it generates.
FinalLands ==
    /\ LoopFree
    /\ final = "decoding"
    /\ final' = "none"
    /\ \E text \in BOOLEAN : reply' = IF text THEN "generating" ELSE reply
    /\ UNCHANGED <<engines, userVars, llmDone, inbox, utt, speaking, heard, task, unwinding,
                   decodes, recs, flush, log>>

-----------------------------------------------------------------------------
(* The partial task.                                                       *)

\* The buffer has reached the next offset: the decode is noted in the turn
\* that is open, if one is, and handed to a thread under the lock.
Issue ==
    /\ LoopFree
    /\ task.pc = "polling" /\ speaking
    /\ task.next <= heard
    /\ decodes' = decodes \cup {Decode(task.next)}
    /\ recs' = IF open
               THEN Append(recs, [utt |-> utt, offset |-> task.next, filled |-> FALSE,
                                  of |-> 0, done |-> FALSE])
               ELSE recs
    /\ task' = [task EXCEPT !.pc = "awaiting"]
    /\ UNCHANGED <<engines, userVars, replyVars, inbox, utt, speaking, heard, unwinding, final,
                   flush, log>>

\* note_partial_done(): the last record of the offset that has no result.
NoteDone(o) ==
    LET is == {i \in 1 .. Len(recs) : recs[i].offset = o /\ ~recs[i].done}
    IN  IF open /\ is # {} THEN [recs EXCEPT ![Latest(is)].done = TRUE] ELSE recs

\* The loop goes on to the next offset while there is one.
NextTask == IF task.next = NOffsets THEN [task EXCEPT !.pc = "over"]
            ELSE [pc |-> "polling", next |-> task.next + 1]

\* What the task waits for: the thread has reported and returned.
Returned(d) == d.pc = "reported"

Resume ==
    /\ LoopFree
    /\ task.pc = "awaiting"
    /\ \E d \in decodes :
          /\ d.utt = utt /\ d.offset = task.next /\ Returned(d)
          /\ decodes' = IF d.pc = "reported" THEN decodes \ {d} ELSE decodes
          /\ recs' = NoteDone(task.next)
    /\ task' = NextTask
    /\ UNCHANGED <<engines, userVars, replyVars, inbox, utt, speaking, heard, unwinding, final,
                   flush, log>>

-----------------------------------------------------------------------------
(* The threads.                                                            *)

threadVars == <<engines, userVars, replyVars, sttVars, flush>>

Take(d) ==
    /\ d.pc = "queued"
    /\ decodes' = (decodes \ {d}) \cup {[d EXCEPT !.pc = "decoding"]}
    /\ UNCHANGED <<threadVars, recs, log>>

DecodeEnds(d) ==
    /\ d.pc = "decoding"
    /\ decodes' = (decodes \ {d}) \cup {[d EXCEPT !.pc = "ended"]}
    /\ UNCHANGED <<threadVars, recs, log>>

\* note_partial_boundaries(): the turn's record is looked up ...
LookUp(d) ==
    /\ d.pc = "ended"
    /\ Matching(d) # {}
    /\ decodes' = (decodes \ {d})
                  \cup {[d EXCEPT !.pc = "found", !.rec = recs[Latest(Matching(d))].utt]}
    /\ UNCHANGED <<threadVars, recs, log>>

\* ... and filled; one that has been written meanwhile shows nothing of it.
Filled(d) ==
    [i \in 1 .. Len(recs) |->
        IF recs[i].utt = d.rec /\ recs[i].offset = d.offset
        THEN [recs[i] EXCEPT !.filled = TRUE, !.of = d.utt] ELSE recs[i]]
Fill(d) ==
    /\ d.pc = "found"
    /\ decodes' = (decodes \ {d}) \cup {[d EXCEPT !.pc = "reported"]}
    /\ recs' = Filled(d)
    /\ UNCHANGED <<threadVars, log>>

\* The turn is gone: a record of its own.
WriteLate(d) ==
    /\ d.pc = "ended"
    /\ Matching(d) = {}
    /\ log' = log \cup {Standalone(d)}
    /\ decodes' = (decodes \ {d}) \cup {[d EXCEPT !.pc = "reported"]}
    /\ UNCHANGED <<threadVars, recs>>

\* A thread no task waits for any more.
ThreadLeaves(d) ==
    /\ d.pc = "reported"
    /\ ~(task.pc = "awaiting" /\ d.utt = utt /\ d.offset = task.next)
    /\ decodes' = decodes \ {d}
    /\ UNCHANGED <<threadVars, recs, log>>

Thread == \E d \in decodes :
    Take(d) \/ DecodeEnds(d) \/ LookUp(d) \/ Fill(d) \/ WriteLate(d) \/ ThreadLeaves(d)

Next ==
    \/ UserStarts \/ UserStops \/ LlmEnds \/ ReplyEnds \/ ForceClose \/ WriteNext \/ FlushEnds
    \/ HandleStarted \/ Hear \/ HandleStopped \/ Unwind \/ FinalStarts \/ FinalLands
    \/ Issue \/ Resume
    \/ Thread

Spec == Init /\ [][Next]_vars

-----------------------------------------------------------------------------
DecodeState == [utt : Turn, turn : Turn, noted : BOOLEAN, offset : Offset, rec : 0 .. MaxTurns,
                pc : {"queued", "decoding", "ended", "found", "reported"}]
RecState == [utt : Turn, offset : Offset, filled : BOOLEAN, of : 0 .. MaxTurns,
             done : BOOLEAN]

\* The state is one the code can be in: a task that awaits a decode has one,
\* and the records follow the order of the offsets they were issued at.
TypeOK ==
    /\ engines \in 1 .. 2 /\ turn \in 0 .. MaxTurns /\ utt \in 0 .. turn
    /\ open \in BOOLEAN /\ reply \in {"none", "generating", "spoken"} /\ llmDone \in BOOLEAN
    /\ talking \in BOOLEAN /\ speaking \in BOOLEAN
    /\ splits \in 0 .. MaxSplits /\ unwinding \in 0 .. 1 /\ heard \in 0 .. NOffsets
    /\ task.pc \in {"none", "polling", "awaiting", "over"} /\ task.next \in Offset
    /\ final \in {"none", "locking", "decoding"}
    /\ decodes \subseteq DecodeState /\ recs \in Seq(RecState)
    /\ task.pc = "awaiting" => \E d \in decodes : d.utt = utt /\ d.offset = task.next
    /\ \A i, j \in 1 .. Len(recs) :
          i < j /\ recs[i].utt = recs[j].utt => recs[i].offset < recs[j].offset

\* The boundaries on a record are those of its own decode, and its turn is
\* the turn of the utterance it decoded, however late the report came and
\* whichever turn was open by then (turns.py, note_partial_boundaries: "It
\* carries the turn it belonged to, not the turn that happens to be open"), as
\* long as one turn at most was split: behind the finals of two splits an
\* utterance is handled after the next turn opened, and filed under that.
OwnRecord ==
    \A l \in log : l.turn = l.utt /\ (l.filled => l.of = l.utt)

\* Every partial issued in an open turn is on file once the turn has closed,
\* even if its user was still speaking: none is forgotten by the flush or by
\* the turn that opens next.  One issued after the close has no such record.
IssuedWritten ==
    \A d \in decodes :
        d.noted /\ (d.turn < turn \/ ~open) => \E l \in log : ~l.alone /\ Same(l, d)

\* Not so in the code: stt.py:740-741 and the docstring of _partial_loop say that
\* a partial the endpoint cancelled finishes holding the lock the final is waiting
\* on, so that the final never decodes beside it on the same engine.
FinalAlone ==
    engines = 1 /\ final = "decoding" => ~\E d \in decodes : InThread(d)

\* Not so in the code: note_partial_boundaries says that a late report is written
\* rather than being dropped; one that lands while its turn is flushed is lost.
NoneDropped ==
    \A d \in decodes : d.pc = "reported" =>
        \/ \E l \in log : l.filled /\ Same(l, d)
        \/ \E i \in 1 .. Len(recs) : recs[i].filled /\ Same(recs[i], d)
=============================================================================
