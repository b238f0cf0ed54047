--------------------------------- MODULE Turns ---------------------------------
(***************************************************************************)
(* A recorded session: the file source plays utterances through a gate     *)
(* (transport.py, run_reactive.py), the VAD opens and ends turns, finals   *)
(* and replies come back one after the other, and the TurnManager          *)
(* (turns.py) marks them on whichever turn is open, closes turns as the    *)
(* observer (observer.py) tells it, and decides which records are valid    *)
(* and whether the run is void.  A turn is named by its number; the        *)
(* utterance, final and reply of the n-th VAD start are named n too.       *)
(***************************************************************************)
EXTENDS Naturals, Sequences

CONSTANTS Files,      \* files on the playlist
          MaxSplits,  \* VAD starts beyond the first of a file
          MaxHangs    \* final decodes that run past DECODE_HANG_MS

ASSUME FilesAssumption == Files \in Nat \ {0}
ASSUME MaxSplitsAssumption == MaxSplits \in Nat
ASSUME MaxHangsAssumption == MaxHangs \in Nat

MaxTurns == Files + MaxSplits
Turn == 1 .. MaxTurns

VARIABLES pump,        \* the file source: playing, in the gap, at the gate, or done
          file,        \* files_started
          drains,      \* abnormal, as the gate read it when it was reached
          talking,     \* the user is speaking (VAD)
          turn,        \* _turn
          open,        \* a turn is open: _clock is not None
          heardIn,     \* per turn: _utterance, the file playing when it opened
          marks,       \* the stages marked on the newest turn's clock
          splitTurns,  \* _split_turns
          doubted,     \* _force_invalid
          lastClose,   \* last_close_reason
          void,        \* invariant_error
          log,         \* the turn records written
          closed,      \* the log is complete: run_complete is written
          noted,       \* its notes say that the run is invalid
          finals,      \* endpoints whose final is decoding or waits to
          hung,        \* the final at the head has run past DECODE_HANG_MS
          hangs,       \* how many did
          llm,         \* whose reply is being generated, or 0
          tts,         \* whose replies are being synthesized
          playing,     \* audio is in the output queue
          sounded,     \* last_audio_out_ns > 0
          plain        \* history: no split, no stray endpoint and no hang so far

sourceVars == <<pump, file, drains>>
turnVars == <<turn, open, heardIn, marks, splitTurns, doubted, lastClose, void, log>>
logVars == <<closed, noted>>
sttVars == <<finals, hung, hangs>>
replyVars == <<llm, tts, playing, sounded>>
vars == <<sourceVars, talking, turnVars, logVars, sttVars, replyVars, plain>>

\* The clock of a turn: where its endpoint fell against its file's, the first
\* final on it and whether that came before the endpoint, llm_done, and whose
\* audio came first.
NoMarks == [endpoint |-> "none", final |-> 0, early |-> FALSE, done |-> FALSE, audio |-> 0]

Abnormal == {"timeout", "stt_hung"}

-----------------------------------------------------------------------------
(* Mistakes a change could make; the mutants put them in place.            *)
IdleModel == ~open /\ llm = 0
OnlyItself(new) == IF open THEN {turn} ELSE {}
DoneIsOver == marks.done
FlushedIsOver == tts = <<>>
SilentAfterSound == sounded /\ finals = <<>> /\ llm = 0 /\ ~talking /\ tts = <<>>

-----------------------------------------------------------------------------
\* observer.busy: the recognizer is decoding or the model generating.
busy == finals # <<>> \/ llm # 0

\* speech_end_ns holds the ends of the files played to their end.
EndKnown(f) == f < file \/ (f = file /\ pump # "playing")

\* endpoint_after_final(): the final on this clock is of other speech.
EndpointAfterFinal == marks.final # 0 /\ marks.early /\ marks.endpoint # "none"

\* _endpoint_drift_ms() beyond ENDPOINT_DRIFT_MS: the file the endpoint is
\* held against is the one with the turn's number.
Drifted(flagged) ==
    /\ turn \notin flagged
    /\ EndKnown(turn)
    /\ marks.endpoint # "none"
    /\ marks.endpoint = "far" \/ heardIn[turn] # turn

\* A turn with no final of its own is a cascade, unless it is the first half
\* of a split.
Cascade(forced, flagged) == marks.final = 0 /\ ~(forced /\ turn \in flagged)

Scorable(forced, reason, flagged) ==
    /\ ~forced
    /\ reason \notin Abnormal
    /\ turn \notin doubted
    /\ turn \notin flagged
    /\ ~EndpointAfterFinal
    /\ ~Drifted(flagged)

\* finish_turn(): the open turn's record is written, and the run is void from
\* its first cascade or drift on.
Finish(forced, reason, flagged) ==
    /\ lastClose' = reason
    /\ log' = Append(log, [turn |-> turn, valid |-> Scorable(forced, reason, flagged),
                           cut |-> forced, final |-> marks.final, audio |-> marks.audio])
    /\ void' = IF void # "no" THEN void
               ELSE IF Cascade(forced, flagged) THEN "cascade"
               ELSE IF Drifted(flagged) THEN "drift" ELSE "no"
    /\ doubted' = (doubted \ {turn}) \cup (IF Drifted(flagged) THEN {turn + 1} ELSE {})

\* close_if_current() for the open turn, which is the one its callers pass.
CloseTurn(reason) ==
    /\ open
    /\ Finish(FALSE, reason, splitTurns)
    /\ open' = FALSE
    /\ UNCHANGED <<turn, heardIn, marks, splitTurns>>

\* mark(): a stage lands on the open turn, whichever that is.
Mark(m) == marks' = IF open THEN m ELSE marks

Init ==
    /\ pump = "playing" /\ file = 1 /\ drains = FALSE
    /\ talking = FALSE
    /\ turn = 0 /\ open = FALSE
    /\ heardIn = [t \in Turn |-> 0]
    /\ marks = NoMarks
    /\ splitTurns = {} /\ doubted = {}
    /\ lastClose = "none" /\ void = "no" /\ log = <<>>
    /\ closed = FALSE /\ noted = FALSE
    /\ finals = <<>> /\ hung = FALSE /\ hangs = 0
    /\ llm = 0 /\ tts = <<>> /\ playing = FALSE /\ sounded = FALSE
    /\ plain = TRUE

-----------------------------------------------------------------------------
(* The file source.                                                        *)

Heard == turn # 0 /\ heardIn[turn] = file

FileEnds ==
    /\ pump = "playing"
    /\ Heard
    /\ pump' = "gap"
    /\ UNCHANGED <<file, drains, talking, turnVars, logVars, sttVars, replyVars, plain>>

\* turn_gate() is entered, and reads how the last turn closed.  The VAD needs
\* less silence (stop_secs) than the gap has.
GapEnds ==
    /\ pump = "gap"
    /\ ~talking
    /\ pump' = IF file < Files THEN "gate" ELSE "done"
    /\ drains' = IF file < Files THEN lastClose \in Abnormal ELSE drains
    /\ UNCHANGED <<file, talking, turnVars, logVars, sttVars, replyVars, plain>>

\* What the gate waits for: no turn open, and the pipeline idle.
GateClear == ~open /\ ~busy

\* The run is aborted sooner than the gate would open.
NextFile ==
    /\ pump = "gate"
    /\ void = "no"
    /\ pump' = "playing"
    /\ file' = file + 1
    /\ UNCHANGED <<drains, talking, logVars, sttVars, replyVars, plain>>

GateOpens == GateClear /\ NextFile /\ UNCHANGED turnVars

\* Only a decode that has hung holds the gate for GATE_TIMEOUT_S; its turn is
\* closed before.
GateTimesOut ==
    /\ hung
    /\ ~open
    /\ NextFile
    /\ void' = "gate"
    /\ UNCHANGED <<turn, open, heardIn, marks, splitTurns, doubted, lastClose, log>>

-----------------------------------------------------------------------------
(* The user, as the VAD hears the file.                                    *)

\* turn_started(): a turn still open is finished by force, and it and the new
\* one are flagged as the halves of a split.
Halves(new) == IF open THEN {turn, new} ELSE {}
TurnStarted ==
    LET flagged == splitTurns \cup Halves(turn + 1)
    IN  /\ splitTurns' = flagged
        /\ IF open THEN Finish(TRUE, "bot_stopped", flagged)
                   ELSE UNCHANGED <<lastClose, log, void, doubted>>
        /\ turn' = turn + 1
        /\ open' = TRUE
        /\ heardIn' = [heardIn EXCEPT ![turn + 1] = file]
        /\ marks' = NoMarks

\* After an endpoint that was near the file's end there is no time for a
\* whole turn before the next onset in that file.
UserStarts ==
    /\ pump = "playing"
    /\ ~talking
    /\ Heard => turn < file + MaxSplits /\ (open \/ marks.endpoint # "near")
    /\ turn < MaxTurns
    /\ talking' = TRUE
    /\ TurnStarted
    /\ plain' = (plain /\ ~open)
    /\ UNCHANGED <<sourceVars, logVars, sttVars, replyVars>>

\* The endpoint is marked, and its final queued behind earlier ones.
UserStops ==
    /\ talking
    /\ talking' = FALSE
    /\ \E where \in {"near", "far"} :
          /\ Mark([marks EXCEPT !.endpoint = where])
          /\ plain' = (plain /\ where = "near")
    /\ finals' = Append(finals, turn)
    /\ UNCHANGED <<sourceVars, turn, open, heardIn, splitTurns, doubted, lastClose, void, log,
                   logVars, hung, hangs, replyVars>>

-----------------------------------------------------------------------------
(* The pipeline.                                                           *)

\* The final decode returns.  Its text, if any, goes to the model, which
\* drops it if it is still generating.
FinalLands ==
    /\ finals # <<>>
    /\ Mark(IF marks.final # 0 THEN marks
            ELSE [marks EXCEPT !.final = Head(finals), !.early = marks.endpoint = "none"])
    /\ \E text \in BOOLEAN :
          IF text /\ llm = 0
          THEN llm' = Head(finals) /\ tts' = Append(tts, Head(finals))
          ELSE UNCHANGED <<llm, tts>>
    /\ finals' = Tail(finals)
    /\ hung' = FALSE
    /\ UNCHANGED <<sourceVars, talking, turn, open, heardIn, splitTurns, doubted, lastClose,
                   void, log, logVars, hangs, playing, sounded, plain>>

\* No file lasts as long as DECODE_HANG_MS.
DecodeHangs ==
    /\ finals # <<>>
    /\ pump # "playing"
    /\ ~hung
    /\ hangs < MaxHangs
    /\ hung' = TRUE
    /\ hangs' = hangs + 1
    /\ plain' = FALSE
    /\ UNCHANGED <<sourceVars, talking, turnVars, logVars, finals, replyVars>>

\* _generate() ends: llm_done is marked unless the request failed.
LlmFinishes ==
    /\ llm # 0
    /\ llm' = 0
    /\ \E ok \in BOOLEAN : Mark([marks EXCEPT !.done = marks.done \/ ok])
    /\ UNCHANGED <<sourceVars, talking, turn, open, heardIn, splitTurns, doubted, lastClose,
                   void, log, logVars, sttVars, tts, playing, sounded, plain>>

\* Synthesized audio enters the output queue.
Speak ==
    /\ tts # <<>>
    /\ Mark(IF marks.audio # 0 THEN marks ELSE [marks EXCEPT !.audio = Head(tts)])
    /\ playing' = TRUE
    /\ sounded' = TRUE
    /\ UNCHANGED <<sourceVars, talking, turn, open, heardIn, splitTurns, doubted, lastClose,
                   void, log, logVars, sttVars, llm, tts, plain>>

\* The TTS has flushed a reply that is generated to its end; until then it is
\* pending.
Synthesized ==
    /\ tts # <<>>
    /\ llm # Head(tts)
    /\ tts' = Tail(tts)
    /\ UNCHANGED <<sourceVars, talking, turnVars, logVars, sttVars, llm, playing, sounded, plain>>

-----------------------------------------------------------------------------
(* The observer, which closes turns.                                       *)

\* A BotStoppedSpeaking frame ends the turn only once its reply is generated,
\* and nothing of it is pending.
ReplyOver == marks.done /\ tts = <<>>

BotStops ==
    /\ playing
    /\ playing' = FALSE
    /\ IF open /\ ReplyOver THEN CloseTurn("bot_stopped") ELSE UNCHANGED turnVars
    /\ UNCHANGED <<sourceVars, talking, logVars, sttVars, llm, tts, sounded, plain>>

\* The watchdog: nothing has entered the output for SETTLE_MS.
WatchdogSettles ==
    /\ ReplyOver
    /\ sounded
    /\ CloseTurn("watchdog")
    /\ UNCHANGED <<sourceVars, talking, logVars, sttVars, replyVars, plain>>

WatchdogFindsHung ==
    /\ hung
    /\ ~(ReplyOver /\ sounded)
    /\ CloseTurn("stt_hung")
    /\ UNCHANGED <<sourceVars, talking, logVars, sttVars, replyVars, plain>>

\* _stuck_for_ms() passes STUCK_MS.  A speaking user marks a stage more often
\* than that, and no synthesis lasts as long.
Silent == ~busy /\ ~talking /\ tts = <<>>

WatchdogFindsStuck ==
    /\ Silent
    /\ ~(ReplyOver /\ sounded)
    /\ CloseTurn("timeout")
    /\ UNCHANGED <<sourceVars, talking, logVars, sttVars, replyVars, plain>>

-----------------------------------------------------------------------------
(* The end of the run.                                                     *)

\* TurnManager.close(notes): the notes are made before the open turn is
\* finished.
CloseLog ==
    /\ closed' = TRUE
    /\ noted' = (void # "no")
    /\ IF open THEN CloseTurn("bot_stopped") ELSE UNCHANGED turnVars
    /\ UNCHANGED <<sourceVars, talking, sttVars, replyVars, plain>>

\* abort_on_invariant()
Abort == void # "no" /\ CloseLog

\* The playlist is over, and as many turns are written as there are files.  The
\* 60 s the run waits for that are longer than any turn stays open.
Finished == pump = "done" /\ Len(log) >= Files

RunEnds == Finished /\ CloseLog

Next ==
    /\ ~closed
    /\ \/ FileEnds \/ GapEnds \/ GateOpens \/ GateTimesOut
       \/ UserStarts \/ UserStops
       \/ FinalLands \/ DecodeHangs \/ LlmFinishes \/ Speak \/ Synthesized
       \/ BotStops \/ WatchdogSettles \/ WatchdogFindsHung \/ WatchdogFindsStuck
       \/ Abort \/ RunEnds

Spec == Init /\ [][Next]_vars

\* Playback is paced by the clock, every file is heard and every speaker
\* stops, the event loop runs its tasks and the watchdog, requests and
\* syntheses end, and a decode ends unless it hangs.
Live(A) == ~closed /\ A
Fairness ==
    /\ WF_vars(Live(FileEnds)) /\ WF_vars(Live(GapEnds))
    /\ WF_vars(Live(GateOpens)) /\ WF_vars(Live(GateTimesOut))
    /\ WF_vars(Live(~Heard /\ UserStarts)) /\ WF_vars(Live(UserStops))
    /\ WF_vars(Live(~hung /\ FinalLands)) /\ WF_vars(Live(LlmFinishes))
    /\ WF_vars(Live(Synthesized)) /\ WF_vars(Live(BotStops))
    /\ WF_vars(Live(WatchdogSettles)) /\ WF_vars(Live(WatchdogFindsHung))
    /\ WF_vars(Live(WatchdogFindsStuck))
    /\ WF_vars(Live(Abort)) /\ WF_vars(Live(RunEnds))

FairSpec == Spec /\ Fairness

-----------------------------------------------------------------------------
Owner == 0 .. MaxTurns
Clock == [endpoint : {"none", "near", "far"}, final : Owner, early : BOOLEAN,
          done : BOOLEAN, audio : Owner]
Record == [turn : Turn, valid : BOOLEAN, cut : BOOLEAN, final : Owner, audio : Owner]
Reason == {"bot_stopped", "watchdog"} \cup Abnormal
Verdict == {"no", "cascade", "drift", "gate"}

SourceTypeOK ==
    /\ pump \in {"playing", "gap", "gate", "done"}
    /\ file \in 1 .. Files
    /\ drains \in BOOLEAN
    /\ talking \in BOOLEAN
    /\ plain \in BOOLEAN

TurnTypeOK ==
    /\ turn \in Owner
    /\ open \in BOOLEAN
    /\ heardIn \in [Turn -> 0 .. Files]
    /\ marks \in Clock
    /\ splitTurns \subseteq Turn
    /\ doubted \subseteq 1 .. MaxTurns + 1
    /\ lastClose \in {"none"} \cup Reason
    /\ void \in Verdict

LogTypeOK ==
    /\ log \in Seq(Record)
    /\ Len(log) = (IF open THEN turn - 1 ELSE turn)
    /\ \A i \in DOMAIN log : log[i].turn = i
    /\ closed \in BOOLEAN /\ noted \in BOOLEAN

PipelineTypeOK ==
    /\ finals \in Seq(Turn)
    /\ hung \in BOOLEAN /\ (hung => finals # <<>>)
    /\ hangs \in 0 .. MaxHangs
    /\ llm \in Owner
    /\ tts \in Seq(Turn)
    /\ playing \in BOOLEAN /\ sounded \in BOOLEAN

\* Every variable has the shape the code gives it, and the log holds one
\* record of every turn but the open one.
TypeOK == SourceTypeOK /\ TurnTypeOK /\ LogTypeOK /\ PipelineTypeOK

\* "A decode stranded on the next turn" (observer.py, busy) is what the gate is
\* for: unless the run is void, a final is never marked on a turn of another
\* file, through splits, dropped transcripts and closes of every kind.
NoStrandedFinal ==
    void = "no" /\ marks.final # 0 => heardIn[marks.final] = heardIn[turn]

\* "Both halves flagged" (turns.py): when a turn is cut by the next, neither
\* record is valid, however the second closes.
BothHalves ==
    \A i \in DOMAIN log :
        log[i].cut => ~log[i].valid /\ (i + 1 \in DOMAIN log => ~log[i + 1].valid)

\* While each file is one turn, the first audio of a turn is of its own
\* reply, although replies are still played, and may be synthesized, when the
\* turn they answer has been closed.
OwnReply ==
    plain => \A i \in DOMAIN log : log[i].audio \in {0, i}

\* A run of plain turns is never void: a late BotStoppedSpeaking, an empty
\* final, a failed request or a reply with no audio costs at most its turn.
NoFalseAlarm == plain => void = "no"

\* Every run ends with its log complete: no turn stays open for ever, and the
\* gate lets every file through, whatever was split, dropped, failed or hung.
RunCompletes == <>closed

\* Not so in the code: "a split must never void the run"
\* (tests/test_run_invariants.py); the second half, closed by the reply of the
\* first before its own final, does.
SplitNeverVoids ==
    [][void = "no" /\ void' = "cascade" => turn \notin splitTurns']_vars

\* Not so in the code: "after an abnormal close the gate drains"
\* (run_reactive.py, turn_gate); it reads the reason before that close happens.
DrainsAfterAbnormal ==
    [][file' # file /\ void' = void /\ lastClose \in Abnormal => drains]_vars

\* Not so in the code: "a reader of turns.jsonl alone must be able to see that
\* this run is void" (run_reactive.py, at close); a run may become void while its
\* log is closed.
ReasonTravels == closed /\ void # "no" => noted
================================================================================
