--------------------------------- MODULE Reply ---------------------------------
(***************************************************************************)
(* The reply half of a turn: the model's task streams text (services.py,   *)
(* LlamaChatProcessor), the TTS cuts it into chunks and synthesizes them   *)
(* one after the other in a thread (PiperTTSService), the output plays     *)
(* them, and the observer and its watchdog decide when the turn is over    *)
(* (observer.py).  Text is a sequence of symbols of four kinds, each with  *)
(* its reply and its place in it.                                          *)
(***************************************************************************)
EXTENDS Naturals, Sequences, SequencesExt

CONSTANTS MaxTurns,   \* turns in a session
          MaxDeltas,  \* deltas streamed in a reply
          MinClause,  \* the least length of a clause that starts speech, 8
          Target,     \* FIRST_CHUNK_TARGET_CHARS, 46
          Slack,      \* how far past Target a first chunk may be cut, 12
          MinCut      \* a first chunk cut at a space is longer than this, 8

ASSUME MaxTurnsAssumption == MaxTurns \in Nat
ASSUME MaxDeltasAssumption == MaxDeltas \in Nat
ASSUME LengthsAssumption == {MinClause, Target, Slack, MinCut} \subseteq Nat

VARIABLES turn,      \* _turn
          open,      \* a turn is open
          owed,      \* the turn's final has not landed yet
          llmDone,   \* llm_done is marked in the newest turn
          audible,   \* audio_out_first is marked in it
          generating,\* the model's task is running
          reply,     \* the text it has streamed, of the newest reply
          deltas,    \* deltas it has streamed
          inbox,     \* frames the TTS has not handled yet
          opened,    \* _response_open
          buffer,    \* _buffer
          chunked,   \* _first_chunk_sent
          flush,     \* _maybe_flush() is running: for text, for the end, or not
          synth,     \* the chunk the thread synthesizes, holding _synth_lock
          voiced,    \* history: the symbols synthesized since the newest reply began
          queued,    \* audio in the output transport waits to be played
          playing,   \* the output is playing, by its own account
          sounded,   \* _last_audio_out_ns > 0
          deferred,  \* _deferred_close: its turn, and no audio entered since
          closes     \* history: how each turn was closed

turnVars == <<turn, open, owed, llmDone, audible, closes>>
llmVars == <<generating, reply, deltas>>
ttsVars == <<inbox, opened, buffer, chunked, flush, synth, voiced>>
outVars == <<queued, playing, sounded>>
vars == <<turnVars, llmVars, ttsVars, outVars, deferred>>

-----------------------------------------------------------------------------
\* A word's letters, a blank, a clause mark, a sentence end.
Kind == {"letter", "blank", "clause", "stop"}
Delta == {<<"letter">>, <<"blank", "letter">>, <<"clause">>, <<"stop">>}
Symbol == [of : 1 .. MaxTurns, at : 1 .. 2 * MaxDeltas, kind : Kind]

NoDeferral == [turn |-> 0, last |-> FALSE]
Frame(type, text) == [type |-> type, text |-> text]

Marks(text) == {i \in DOMAIN text : text[i].kind \in {"clause", "stop"}}
Blanks(text) == {i \in DOMAIN text : text[i].kind = "blank"}

\* str.strip()
Strip(text) ==
    LET solid == DOMAIN text \ Blanks(text)
    IN  IF solid = {} THEN <<>> ELSE SubSeq(text, Min(solid), Max(solid))

\* Where a first chunk may end: at the first mark unless it is early, or at
\* the last blank before the target and its slack.
FirstClause(text) == Marks(text) # {} /\ Min(Marks(text)) >= MinClause
BeforeTarget(text) == {i \in Blanks(text) : i - 1 < Target + Slack}
CutAtBlank(text) ==
    /\ Len(text) >= Target
    /\ BeforeTarget(text) # {} /\ Max(BeforeTarget(text)) - 1 > MinCut
FirstEnd(text) ==
    IF FirstClause(text) THEN Min(Marks(text))
    ELSE IF CutAtBlank(text) THEN Max(BeforeTarget(text)) - 1 ELSE 0

\* A later chunk ends after the blank that follows a sentence's end.
SentenceEnds(text) ==
    {i \in Blanks(text) : i > 1 /\ text[i - 1].kind = "stop"}
LaterEnd(text) == IF SentenceEnds(text) = {} THEN 0 ELSE Min(SentenceEnds(text))

\* _split_ready(): <<>> is None.
SplitReady(text, sent, final) ==
    IF final THEN Strip(text)
    ELSE SubSeq(text, 1, IF sent THEN LaterEnd(text) ELSE FirstEnd(text))

-----------------------------------------------------------------------------
(* Mistakes a change could make; the mutants put them in place.            *)
LockOnly == synth # <<>>
AsideOnly(aside, quiet) == sounded /\ aside
AudibleOnly == audible

-----------------------------------------------------------------------------
\* pending: some of the reply has not been pushed to the output yet.
pending == opened \/ Strip(buffer) # <<>> \/ synth # <<>>

Init ==
    /\ turn = 0 /\ open = FALSE /\ owed = FALSE
    /\ llmDone = FALSE /\ audible = FALSE /\ closes = <<>>
    /\ generating = FALSE /\ reply = <<>> /\ deltas = 0
    /\ inbox = <<>> /\ opened = FALSE /\ buffer = <<>> /\ chunked = FALSE
    /\ flush = "none" /\ synth = <<>> /\ voiced = <<>>
    /\ queued = FALSE /\ playing = FALSE /\ sounded = FALSE
    /\ deferred = NoDeferral

\* The user speaks: the gate lets the file play once no turn is open and
\* nothing is generated.  What is left of an older reply may still be heard.
TurnStarts ==
    /\ ~open /\ ~generating
    /\ turn < MaxTurns
    /\ turn' = turn + 1
    /\ open' = TRUE /\ owed' = TRUE
    /\ llmDone' = FALSE /\ audible' = FALSE
    /\ UNCHANGED <<closes, llmVars, ttsVars, outVars, deferred>>

\* The final lands; a text that is not blank starts a reply.
FinalLands ==
    /\ owed
    /\ owed' = FALSE
    /\ reply' = <<>> /\ deltas' = 0 /\ voiced' = <<>>
    /\ \/ generating' = TRUE /\ inbox' = Append(inbox, Frame("start", <<>>))
       \/ UNCHANGED <<generating, inbox>>
    /\ UNCHANGED <<turn, open, llmDone, audible, closes, opened, buffer, chunked, flush, synth,
                   outVars, deferred>>

\* _on_delta().  A TTS that is free has handled the start by the time the
\* server answers.
LlmStreams ==
    /\ generating
    /\ deltas < MaxDeltas
    /\ flush = "none" => inbox = <<>>
    /\ \E d \in Delta :
          LET text == [i \in DOMAIN d |-> [of |-> turn, at |-> Len(reply) + i, kind |-> d[i]]]
          IN  /\ reply' = reply \o text
              /\ inbox' = Append(inbox, Frame("text", text))
    /\ deltas' = deltas + 1
    /\ UNCHANGED <<turnVars, generating, opened, buffer, chunked, flush, synth, voiced, outVars,
                   deferred>>

\* _generate() ends: llm_done is marked before the end frame is pushed, and
\* not at all when the request failed.
LlmEnds ==
    /\ generating
    /\ flush = "none" => inbox = <<>>
    /\ generating' = FALSE
    /\ \E ok \in BOOLEAN : llmDone' = (llmDone \/ (ok /\ open))
    /\ inbox' = Append(inbox, Frame("end", <<>>))
    /\ UNCHANGED <<turn, open, owed, audible, closes, reply, deltas, opened, buffer, chunked,
                   flush, synth, voiced, outVars, deferred>>

\* The loop of _maybe_flush() from its head: the next chunk is cut off the
\* buffer, by its length, and synthesized, or the frame is done with.
Flush(text, sent, final) ==
    LET chunk == SplitReady(text, sent, final)
        over == chunk = <<>>
    IN  /\ buffer' = SubSeq(text, Len(chunk) + 1, Len(text))
        /\ synth' = Strip(chunk)
        /\ flush' = IF over THEN "none" ELSE IF final THEN "end" ELSE "text"
        /\ chunked' = (sent /\ ~(over /\ final))
        /\ opened' = (opened /\ ~(over /\ final))

\* The TTS handles its next frame.
TtsHandles ==
    /\ inbox # <<>> /\ flush = "none"
    /\ inbox' = Tail(inbox)
    /\ LET f == Head(inbox)
       IN  IF f.type = "start"
           THEN opened' = TRUE /\ UNCHANGED <<buffer, chunked, flush, synth>>
           ELSE Flush(buffer \o f.text, chunked, f.type = "end")
    /\ UNCHANGED <<turnVars, llmVars, voiced, outVars, deferred>>

\* The synthesis returns, its audio enters the output, and the loop goes on.
Voice ==
    /\ flush # "none"
    /\ voiced' = voiced \o synth
    /\ Flush(buffer, TRUE, flush = "end")
    /\ queued' = TRUE /\ sounded' = TRUE
    /\ audible' = (audible \/ open)
    /\ deferred' = [deferred EXCEPT !.last = FALSE]
    /\ UNCHANGED <<turn, open, owed, llmDone, closes, llmVars, inbox, playing>>

\* The output plays all it has, and reports that it stopped when no more comes.
Play ==
    /\ queued
    /\ queued' = FALSE /\ playing' = TRUE
    /\ UNCHANGED <<turnVars, llmVars, ttsVars, sounded, deferred>>

-----------------------------------------------------------------------------
(* The observer closes turns; a close records the time of playback_done    *)
(* against the audio that entered the output: after it, or before some.    *)

\* close_if_current() for the newest turn, if it is open.
CloseTurn(reason, backdated) ==
    /\ open
    /\ open' = FALSE
    /\ closes' = Append(closes, [reason |-> reason, backdated |-> backdated])
    /\ UNCHANGED <<turn, owed, llmDone, audible>>

BotStops ==
    /\ playing /\ ~queued
    /\ playing' = FALSE
    /\ IF llmDone /\ pending
       THEN deferred' = [turn |-> turn, last |-> TRUE] /\ UNCHANGED turnVars
       ELSE /\ UNCHANGED deferred
            /\ IF llmDone /\ open THEN CloseTurn("bot_stopped", FALSE) ELSE UNCHANGED turnVars
    /\ UNCHANGED <<llmVars, ttsVars, queued, sounded>>

\* deferred_after_audio, or SETTLE_MS without new audio, which any playback
\* may last.
Aside == deferred.turn = turn /\ deferred.last
Settled(aside, quiet) == sounded /\ (aside \/ quiet)
Over == llmDone /\ ~pending

WatchdogSettles ==
    /\ Over
    /\ \E quiet \in BOOLEAN : Settled(Aside, quiet)
    /\ CloseTurn("watchdog", deferred.turn = turn /\ ~deferred.last)
    /\ deferred' = NoDeferral
    /\ UNCHANGED <<llmVars, ttsVars, outVars>>

\* _stuck_for_ms() passes STUCK_MS: nothing is decoded or generated, and no
\* synthesis lasts as long.
Lifeless == turn # 0
WatchdogFindsStuck ==
    /\ ~owed /\ ~generating
    /\ inbox = <<>> /\ flush = "none"
    /\ ~(Over /\ Settled(Aside, TRUE))
    /\ Lifeless
    /\ CloseTurn("timeout", FALSE)
    /\ deferred' = NoDeferral
    /\ UNCHANGED <<llmVars, ttsVars, outVars>>

Next ==
    \/ TurnStarts \/ FinalLands
    \/ LlmStreams \/ LlmEnds
    \/ TtsHandles \/ Voice \/ Play
    \/ BotStops \/ WatchdogSettles \/ WatchdogFindsStuck

\* Finals land, requests end, the loop serves the TTS, threads return and the
\* watchdog looks ten times a second.
Fairness ==
    /\ WF_vars(FinalLands) /\ WF_vars(LlmEnds)
    /\ WF_vars(TtsHandles) /\ WF_vars(Voice) /\ WF_vars(Play) /\ WF_vars(BotStops)
    /\ WF_vars(WatchdogSettles) /\ WF_vars(WatchdogFindsStuck)

Spec == Init /\ [][Next]_vars /\ Fairness

-----------------------------------------------------------------------------
\* Every variable has the shape the code gives it, a chunk is synthesized
\* exactly while a flush runs, and one close is recorded for every turn.
TypeOK ==
    /\ turn \in 0 .. MaxTurns
    /\ {open, owed, llmDone, audible, generating, opened, chunked, queued, playing, sounded}
           \subseteq BOOLEAN
    /\ deltas \in 0 .. MaxDeltas
    /\ \A text \in {reply, buffer, synth, voiced} : Range(text) \subseteq Symbol
    /\ \A i \in DOMAIN inbox : inbox[i].type \in {"start", "text", "end"}
    /\ flush \in {"none", "text", "end"} /\ (flush = "none" <=> synth = <<>>)
    /\ deferred.turn \in 0 .. MaxTurns /\ deferred.last \in BOOLEAN
    /\ Len(closes) = (IF open THEN turn - 1 ELSE turn)

Closing == closes' # closes
Reason == closes'[Len(closes')].reason
\* The places in the reply of turn t that a text is from, and those of them that
\* are not blank.
Of(text, t) == {text[i].at : i \in {j \in DOMAIN text : text[j].of = t}}
VisibleOf(text, t) == {text[i].at : i \in {j \in DOMAIN text \ Blanks(text) : text[j].of = t}}

\* A turn that ends as it should ends after its reply: all the model sent has
\* been synthesized by then, and nothing of it waits in the TTS, although the
\* output falls silent between sentences and while the model still streams.
ClosedComplete ==
    [][Closing /\ Reason # "timeout" => VisibleOf(reply, turn) \subseteq Of(voiced, turn)]_vars

\* A reply that was generated and heard is never given up for stuck, whatever
\* became of its BotStoppedSpeaking frames.
NeverGivenUp == [][Closing /\ Reason = "timeout" => ~(llmDone /\ audible)]_vars

\* Every turn ends: with its reply, or, when there is none to hear, as stuck.
TurnCloses == open ~> ~open

\* Not so in the code, which "turns reply text into PCM" (services.py): a symbol
\* of a reply can be synthesized twice.
SpokenOnce == \A i, j \in DOMAIN voiced : voiced[i] = voiced[j] => i = j

\* Not so in the code: playback_done is "the last instant the pipeline is known
\* to be LOUD" (turns.py, mark); audio of the turn may enter the output after it.
LastLoud == \A i \in DOMAIN closes : ~closes[i].backdated
================================================================================
