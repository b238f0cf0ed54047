-------------------------------- MODULE Energy --------------------------------
(***************************************************************************)
(* What a turn and a frozen decode are charged: the idle baseline read as  *)
(* a turn opens, and the window of a decode that was frozen at an endpoint *)
(* and continued after a reply (turns.py, hypothesis_worker.py, the one    *)
(* worker of stt.py's SIGSTOP design, and the gate of run_reactive.py).    *)
(* Speech goes its own way: an onset interrupts no final and no reply, and *)
(* a reply may end, or sound, in another turn than its own or in none.     *)
(* The loop's thread and the decode's thread each release the worker's     *)
(* lock before they tell the turn manager what they did.                   *)
(* The service handles a frame as the observer sees it, every final has a  *)
(* text, the model answers each text it takes, and no turn lasts until it  *)
(* is given up: Listener, Reply and Turns have the rest.                   *)
(***************************************************************************)
EXTENDS Power

CONSTANTS MaxTime,     \* samples in a session
          MaxTurns,    \* turns in a session
          MaxSplits,   \* of them, those that open without the gate
          MaxDecodes,  \* hypotheses in a session
          LongestDecode,   \* in samples
          IdleWindow,  \* window_s of idle_mw()
          IdleSettle,  \* IDLE_SETTLE_NS
          GateQuiet,   \* gate_quiet_ms
          OnsetDelay   \* start_secs, the speech the VAD hears before it says so

ASSUME BoundsAssumption ==
    {MaxTime, MaxTurns, MaxSplits, MaxDecodes, LongestDecode} \subseteq Nat
\* The gate and the onset outlast half of the baseline's window: by default
\* 1000 ms and 200 ms, of 2 s.
ASSUME GateAssumption ==
    /\ {IdleWindow, IdleSettle, GateQuiet, OnsetDelay} \subseteq Nat
    /\ IdleWindow < 2 * (GateQuiet + OnsetDelay)

Turn == 1 .. MaxTurns
Seq1 == 1 .. MaxDecodes   \* the numbers of the requests
Quiet == 1
Loud == 2
None == 0

VARIABLES now, rows,   \* the clock and the samples so far
          idleFor,     \* how long the gate has found everything idle
          strayAt,     \* history: the last sample in which a reply sounded with no turn open
          open,        \* a turn is open (_clock)
          turn, splits,
          llmDone,     \* llm_done is in the open turn's _marked_once
          lastDone,    \* _last_playback_done_ns
          idle,        \* _idle_mw of each turn
          gated,       \* history: turns the gate let in
          beside,      \* history: of them, those with such a reply in the baseline's window
          talking,     \* the user speaks (_speaking, speech_in_progress)
          finals,      \* endpoints whose final has not landed (_final_pending)
          played,      \* _playback_since_stop
          generating,  \* the model's task
          sounding,    \* a reply is being synthesized or played
          seq,         \* _seq: the last request
          inPipe,      \* _busy, and what its child still has to compute
          stopped,     \* _stopped
          stale,       \* _stale_seqs
          telling,     \* what the loop's thread has yet to report
          discarding,  \* the reply the decode's thread has yet to report, or None
          owner,       \* _stale_owner
          contNs,      \* _cont_ns, and the request it continued
          frozeIn,     \* history: the turn whose endpoint froze each request
          charges      \* the records of discarded decodes

clockVars == <<now, rows, idleFor, strayAt>>
turnVars == <<open, turn, splits, llmDone, lastDone, idle, gated, beside>>
speechVars == <<talking, finals, played, generating, sounding>>
workerVars == <<seq, inPipe, stopped, stale>>
recordVars == <<owner, contNs, frozeIn, charges>>
vars == <<clockVars, turnVars, speechVars, workerVars, telling, discarding, recordVars>>

-----------------------------------------------------------------------------
NoCont == [at |-> None, of |-> None]
Free == [busy |-> FALSE, left |-> 0]
Silent == [event |-> "none", of |-> None]
NoOwner == [turn |-> None, idle |-> Unmeasured]

(* Mistakes a change could make; the mutants put them in place.            *)
FrozenOnly == finals > 0 \/ generating
OwnerAtEnd(n) == [turn |-> turn, idle |-> idle[turn]]

Computing == inPipe.busy /\ inPipe.left > 0 /\ ~stopped
\* decoding of the recognizer, without a frozen decode, and the model.
Busy == (inPipe.busy /\ ~stopped) \/ finals > 0 \/ generating

\* What the board is sampled at: work of any kind, and the speech of a reply.
Loaded == Computing \/ finals > 0 \/ generating \/ sounding

-----------------------------------------------------------------------------
Init ==
    /\ now = 0 /\ rows = <<>> /\ idleFor = 0 /\ strayAt = None
    /\ open = FALSE /\ turn = 0 /\ splits = 0 /\ llmDone = FALSE /\ lastDone = None
    /\ idle = [t \in Turn |-> Unmeasured] /\ gated = {} /\ beside = {}
    /\ talking = FALSE /\ finals = 0 /\ played = TRUE /\ generating = FALSE /\ sounding = FALSE
    /\ seq = 0 /\ inPipe = Free /\ stopped = FALSE /\ stale = {}
    /\ telling = Silent /\ discarding = None
    /\ owner = [n \in Seq1 |-> NoOwner] /\ contNs = NoCont
    /\ frozeIn = [n \in Seq1 |-> None] /\ charges = {}

\* A tenth of a second.  Threads that have something to report or to read are
\* scheduled within it.  The gate is asked when a file is over.
Tick ==
    /\ now < MaxTime
    /\ telling = Silent /\ discarding = None /\ (inPipe.busy => inPipe.left > 0)
    /\ now' = now + 1
    /\ rows' = Append(rows, [at |-> now', mw |-> IF Loaded THEN Loud ELSE Quiet])
    /\ inPipe' = IF Computing THEN [inPipe EXCEPT !.left = @ - 1] ELSE inPipe
    /\ idleFor' = IF open \/ talking \/ Busy THEN 0 ELSE idleFor + 1
    /\ strayAt' = IF sounding /\ ~open THEN now' ELSE strayAt
    /\ UNCHANGED <<turnVars, speechVars, seq, stopped, stale, telling, discarding, recordVars>>

-----------------------------------------------------------------------------
(* The turn manager and the gate.                                          *)

\* _quiet_since_ns(): nothing has played before the first reply.
QuietSince == IF lastDone = None THEN 0 ELSE lastDone + IdleSettle

\* Where the window of idle_mw() begins.
WindowStart == (now + 1) - IdleWindow

\* The gate lets the next file play.  It reads the turn, the recognizer and the
\* model, and not the playback.
GateOpens ==
    turn > 0 => ~open /\ ~Busy /\ idleFor >= GateQuiet + OnsetDelay

\* turn_started(): of the next file when the gate has let it play, or of more
\* speech in the same file, which splits the turn if it is still open.
TurnStarts ==
    /\ telling = Silent /\ ~talking /\ turn < MaxTurns
    /\ \/ /\ GateOpens
          /\ gated' = gated \cup {turn + 1}
          /\ beside' = beside \cup
                 (IF strayAt # None /\ strayAt >= WindowStart THEN {turn + 1} ELSE {})
          /\ UNCHANGED splits
       \/ /\ turn > 0 /\ splits < MaxSplits
          /\ splits' = splits + 1 /\ UNCHANGED <<gated, beside>>
    /\ turn' = turn + 1 /\ open' = TRUE /\ llmDone' = FALSE
    /\ talking' = TRUE /\ idleFor' = 0
    /\ idle' = [idle EXCEPT ![turn + 1] = IdleMw(rows, now + 1, IdleWindow, QuietSince)]
    /\ UNCHANGED <<now, rows, strayAt, lastDone, finals, played, generating, sounding, workerVars,
                   telling, discarding, recordVars>>

\* A hypothesis while the user speaks: decode() of a worker that is free.  The
\* service has handled the onset, so no final is ahead of it.  A turn that opens
\* with the worker frozen has none.
Ask ==
    /\ telling = Silent /\ discarding = None
    /\ talking /\ finals = 0 /\ ~inPipe.busy /\ ~stopped /\ seq < MaxDecodes
    /\ seq' = seq + 1
    /\ \E n \in 1 .. LongestDecode : inPipe' = [busy |-> TRUE, left |-> n]
    /\ UNCHANGED <<clockVars, turnVars, speechVars, stopped, stale, telling, discarding,
                   recordVars>>

\* The endpoint: stop_if_busy(), under the worker's lock.  The final follows.
\* The turn may have been closed by then.
Endpoint ==
    /\ telling = Silent /\ talking
    /\ talking' = FALSE
    /\ finals' = finals + 1
    /\ IF inPipe.busy /\ ~stopped /\ seq \notin stale
       THEN /\ stopped' = TRUE /\ stale' = stale \cup {seq} /\ played' = FALSE
            /\ telling' = [event |-> "stop", of |-> seq]
            /\ frozeIn' = [frozeIn EXCEPT ![seq] = turn]
       ELSE UNCHANGED <<stopped, stale, played, telling, frozeIn>>
    /\ UNCHANGED <<clockVars, turnVars, generating, sounding, seq, inPipe, discarding, owner,
                   contNs, charges>>

\* The event of the freeze, after the lock is released: to the newest turn, open
\* or not.
NoteStop ==
    /\ telling.event = "stop"
    /\ owner' = [owner EXCEPT ![telling.of] = [turn |-> turn, idle |-> idle[turn]]]
    /\ telling' = Silent
    /\ UNCHANGED <<clockVars, turnVars, speechVars, workerVars, discarding, contNs, frozeIn,
                   charges>>

\* _maybe_cont(), where idle is what is asked besides the freeze itself.
MaybeCont(recognizerIdle) ==
    LET conts == stopped /\ recognizerIdle
    IN  /\ stopped' = (stopped /\ ~conts)
        /\ telling' = IF conts THEN [event |-> "cont", of |-> seq] ELSE Silent

\* A final lands.  Its text is dropped if the model is still at another.
FinalLands ==
    /\ telling = Silent /\ finals > 0
    /\ finals' = finals - 1
    /\ MaybeCont(~talking /\ played)
    /\ generating' = TRUE
    /\ UNCHANGED <<clockVars, turnVars, talking, played, sounding, seq, inPipe, stale, discarding,
                   recordVars>>

\* The first sentence sounds while the model goes on.
ReplySounds ==
    /\ telling = Silent /\ generating /\ ~sounding
    /\ sounding' = TRUE
    /\ UNCHANGED <<clockVars, turnVars, talking, finals, played, generating, workerVars, telling,
                   discarding, recordVars>>

\* llm_done is marked in whatever turn is open; there may be more to say.
LlmEnds ==
    /\ telling = Silent /\ generating
    /\ generating' = FALSE
    /\ llmDone' = (llmDone \/ open)
    /\ \E more \in BOOLEAN : sounding' = (sounding \/ more)
    /\ UNCHANGED <<clockVars, open, turn, splits, lastDone, idle, gated, beside, talking, finals,
                   played, workerVars, telling, discarding, recordVars>>

\* BotStopped, or the watchdog that finds the speech settled.  With llm_done it
\* closes the turn that is open, whoever's reply it was: playback_done is marked,
\* at its own instant or, by a deferred close, at an earlier one, and its
\* listener is _maybe_cont().  With no turn open nothing is marked.
ReplyEnds ==
    /\ telling = Silent /\ (sounding \/ (open /\ llmDone))
    /\ sounding' = FALSE
    /\ IF open /\ llmDone
       THEN /\ open' = FALSE /\ llmDone' = FALSE /\ played' = TRUE
            /\ lastDone' \in {now - back : back \in {0, 1} \cap 0 .. now}
            /\ MaybeCont(~talking /\ finals = 0)
       ELSE UNCHANGED <<open, llmDone, played, lastDone, stopped, telling>>
    /\ UNCHANGED <<clockVars, turn, splits, idle, gated, beside, talking, finals, generating, seq,
                   inPipe, stale, discarding, recordVars>>

\* The event of the continuation, after the lock is released.
NoteCont ==
    /\ telling.event = "cont"
    /\ contNs' = [at |-> now, of |-> telling.of]
    /\ telling' = Silent
    /\ UNCHANGED <<clockVars, turnVars, speechVars, workerVars, discarding, owner, frozeIn,
                   charges>>

-----------------------------------------------------------------------------
(* The decode's thread.                                                    *)

\* The reply is read: it may have been in the pipe before its child was frozen.
Receive ==
    /\ inPipe.busy /\ inPipe.left = 0 /\ discarding = None
    /\ inPipe' = Free
    /\ stale' = stale \ {seq}
    /\ discarding' = IF seq \in stale THEN seq ELSE None
    /\ UNCHANGED <<clockVars, turnVars, speechVars, seq, stopped, telling, recordVars>>

\* _stale_owner.pop()
OwnerOf(n) == owner[n]

\* stale_discarded: the owner and the continuation are taken, and the energy of
\* the window between is charged, if there was a continuation.
NoteDiscarded ==
    /\ discarding # None
    /\ charges' = charges \cup
           {[of |-> discarding, turn |-> OwnerOf(discarding).turn, from |-> contNs, to |-> now]}
    /\ owner' = [owner EXCEPT ![discarding] = NoOwner]
    /\ contNs' = NoCont
    /\ discarding' = None
    /\ UNCHANGED <<clockVars, turnVars, speechVars, workerVars, telling, frozeIn>>

Next ==
    \/ Tick
    \/ TurnStarts
    \/ Ask
    \/ Endpoint
    \/ NoteStop
    \/ FinalLands
    \/ ReplySounds
    \/ LlmEnds
    \/ ReplyEnds
    \/ NoteCont
    \/ Receive
    \/ NoteDiscarded

Spec == Init /\ [][Next]_vars

-----------------------------------------------------------------------------
(* Properties.                                                             *)

\* The worker, and what is on record of its decodes.
WorkerTypeOK ==
    /\ turn \in 0 .. MaxTurns
    /\ seq \in 0 .. MaxDecodes /\ stopped \in BOOLEAN /\ stale \subseteq Seq1
    /\ inPipe \in [busy : BOOLEAN, left : 0 .. LongestDecode]
    /\ telling \in [event : {"none", "stop", "cont"}, of : 0 .. MaxDecodes]
    /\ discarding \in 0 .. MaxDecodes
    /\ DOMAIN owner = Seq1 /\ \A n \in Seq1 : owner[n].turn \in 0 .. MaxTurns
    /\ DOMAIN frozeIn = Seq1
    /\ \A c \in charges : c.of \in Seq1

TypeOK ==
    /\ WorkerTypeOK
    /\ now \in 0 .. MaxTime /\ rows \in Seq([at : 1 .. MaxTime, mw : {Quiet, Loud}])
    /\ idleFor \in 0 .. MaxTime /\ strayAt \in 0 .. MaxTime /\ lastDone \in 0 .. MaxTime
    /\ {open, llmDone, talking, played, generating, sounding} \subseteq BOOLEAN
    /\ splits \in 0 .. MaxSplits /\ finals \in 0 .. (MaxSplits + 1)
    /\ idle \in [Turn -> {Unmeasured, Quiet, Loud}]
    /\ beside \subseteq gated /\ gated \subseteq Turn
    /\ \A n \in Seq1 : owner[n].idle \in {Unmeasured, Quiet, Loud}

\* The baseline of a turn the gate let in is that of a quiet board, neither the
\* reply before it nor a frozen decode that ran on after that reply being in it,
\* but for one case: the gate does not wait for a reply that sounds with no turn
\* open, and the baseline's window has one.  Without a split no reply does.
QuietBaseline == \A t \in gated : idle[t] = Loud => t \in beside /\ splits > 0

\* turns.py: "Everything after it, plus a settling allowance, is the idle
\* baseline's window."  Not so in the code (see QuietBaseline).
AlwaysQuietBaseline == \A t \in gated : idle[t] # Loud

\* A discarded decode is charged to the turn whose endpoint froze it, though
\* another half of a split file may be open by then.
ChargedToFreezer == \A c \in charges : c.turn # None => c.turn = frozeIn[c.of]

\* turns.py: the cost is taken over [SIGCONT, result received].  A reply that
\* was in the pipe when its child was frozen is discarded before the child is
\* continued, and the continuation noted for it opens the window of the next.
OwnWindow == \A c \in charges : c.from = NoCont \/ c.from.of = c.of
=============================================================================
