------------------------------- MODULE Listener -------------------------------
(***************************************************************************)
(* The listening service (stt.py, StreamingWhisperSTT, in its commit mode  *)
(* with worker processes): utterances arrive as VAD frames, a hypothesis   *)
(* task keeps one decode at a time in flight while the user speaks, and at *)
(* the endpoint that decode is frozen, killed or raced while the final     *)
(* decode of what is left runs.  The frames are handled one at a time, and *)
(* a final holds the handler until it lands; the user, the threads, the    *)
(* children and the reply go on meanwhile.                                 *)
(***************************************************************************)
EXTENDS WorkerPool, Sequences

CONSTANTS MaxSplits  \* utterances that may start without the gate, in a split file

ASSUME MaxSplitsAssumption == MaxSplits \in Nat

VARIABLES inbox,         \* VAD frames the service has not handled yet
          talking,       \* the user is speaking (VAD)
          said,          \* utterances the VAD has opened
          splits,        \* those it opened without the gate: a file's later halves
          clock,         \* TurnManager: no turn open, its user speaking, or done
          sounded,       \* audio_out_first is marked in the open turn
          llmDone,       \* llm_done is marked in the open turn
          llm,           \* the language model is generating
          voice,         \* reply audio is pending, or has just reached the output
          utt,           \* the utterance the service is handling, or handled last
          speaking,      \* _speaking
          task,          \* _hyp_task: the utterance it decodes for, or 0
          words,         \* whose words the committer holds
          finalPending,  \* _final_pending; the handler waits in its decode
          playbackSince, \* _playback_since_stop
          workerStart,   \* _worker_decode_start: the utterance of that decode, or 0
          slipped,       \* history: decodes on their way to the child at their endpoint
          orderly        \* history: no turn was split, or closed while its user spoke

userVars == <<inbox, talking, said, splits>>
turnVars == <<clock, sounded, llmDone, llm, voice, orderly>>
sttVars == <<utt, speaking, task, words, finalPending, playbackSince, slipped>>
vars == <<poolVars, userVars, turnVars, sttVars, workerStart>>

-----------------------------------------------------------------------------
(* Mistakes a change could make; the mutants put them in place.            *)
FrozenCounts == {u \in Utterance : InThread(u)}
UncountedAfterCancel == {u \in Utterance : InThread(u) /\ task = u}
KeptWithoutTask(ok) == IF ok THEN {} ELSE words
ContBesideFinal(spoken, pending, played) ==
    stopped[active] /\ ~spoken /\ clock # "speaking" /\ played
ContBeforeReply(spoken, pending, played) ==
    stopped[active] /\ ~pending /\ ~spoken /\ clock # "speaking"

-----------------------------------------------------------------------------
\* _live_decode_starts(), the hypotheses among them: those in a thread,
\* leaving out the one frozen by SIGSTOP.
LiveDecodes ==
    {u \in Utterance : InThread(u) /\ ~(stopped[active] /\ workerStart = u)}

\* decoding: a decode of either engine is in flight.
decoding == finalPending \/ LiveDecodes # {}

speechInProgress == clock = "speaking"

\* Cancelling a task cancels a decode no thread has taken yet: by the event
\* loop's next turn it is cancelled, or a thread has it.
Settled == \A u \in Utterance : job[u] = "queued" => task = u

\* _maybe_cont(): SIGCONT when no final is pending, no turn is being spoken
\* and a reply has played since the freeze.
MayCont(spoken, pending, played) ==
    stopped[active] /\ ~pending /\ ~spoken /\ ~speechInProgress /\ played
MaybeCont(spoken, pending, played) ==
    IF MayCont(spoken, pending, played) THEN Cont(active) ELSE UNCHANGED poolVars

Init ==
    /\ PoolInit
    /\ inbox = <<>> /\ talking = FALSE /\ said = 0 /\ splits = 0
    /\ clock = "none" /\ sounded = FALSE /\ llmDone = FALSE
    /\ llm = FALSE /\ voice = FALSE
    /\ utt = 0 /\ speaking = FALSE /\ task = 0 /\ words = {}
    /\ finalPending = FALSE /\ playbackSince = TRUE
    /\ workerStart = 0 /\ slipped = {} /\ orderly = TRUE

-----------------------------------------------------------------------------
(* The user, as the VAD reports it to the observer and to the service.     *)

\* turn_started() opens a turn, closing an open one.  The next file's utterance
\* waits for the turn to close and the engines to idle (turn_gate); a file the
\* VAD splits does not, and its second half opens a turn inside the first, or
\* after it has closed.
UserStarts ==
    /\ ~talking
    /\ said < MaxUtterances
    /\ Settled
    /\ \/ /\ clock = "none" /\ ~decoding /\ ~llm /\ inbox = <<>>
          /\ UNCHANGED <<splits, orderly>>
       \/ splits < MaxSplits /\ splits' = splits + 1 /\ orderly' = FALSE
    /\ talking' = TRUE
    /\ said' = said + 1
    /\ inbox' = Append(inbox, "started")
    /\ clock' = "speaking"
    /\ sounded' = FALSE
    /\ llmDone' = FALSE
    /\ UNCHANGED <<poolVars, llm, voice, sttVars, workerStart>>

UserStops ==
    /\ talking
    /\ talking' = FALSE
    /\ inbox' = Append(inbox, "stopped")
    /\ clock' = IF clock = "speaking" THEN "ended" ELSE clock
    /\ UNCHANGED <<poolVars, said, splits, sounded, llmDone, llm, voice, orderly, sttVars,
                   workerStart>>

-----------------------------------------------------------------------------
(* The service's frame handler.                                            *)

\* Hypotheses need a worker: one worker must be loaded and not frozen, of two
\* the active one must be loaded and free.
WorkerOK(thawed) ==
    IF design.workers = 1 THEN ready[active] /\ (~stopped[active] \/ thawed)
                    ELSE ReadyIdle(active)

\* What the committer holds when a turn opens, with a task or without.
WordsAtOpen(ok) == {}

\* The turn opens for the service: the committer forgets the last one, and a
\* hypothesis task starts if a worker can take its decodes.  _maybe_cont finds
\* _speaking set and does nothing.
HandleStarted ==
    LET thaws == design.contAtTurnOpen /\ stopped[active]
    IN  /\ ~finalPending /\ Settled
        /\ inbox # <<>> /\ Head(inbox) = "started"
        /\ inbox' = Tail(inbox)
        /\ utt' = utt + 1
        /\ speaking' = TRUE
        /\ IF thaws THEN Cont(active) ELSE UNCHANGED poolVars
        /\ words' = WordsAtOpen(WorkerOK(thaws))
        /\ task' = IF WorkerOK(thaws) THEN utt + 1 ELSE 0
        /\ UNCHANGED <<talking, said, splits, turnVars, finalPending, playbackSince,
                       workerStart, slipped>>

\* The endpoint: the task is cancelled and its decode frozen or killed, then
\* the final of the rest of the audio starts, if there is enough to decode.
HandleStopped ==
    LET frozen == design.atEndpoint = "stop" /\ Stoppable(active)
        played == playbackSince /\ ~frozen
    IN  /\ ~finalPending
        /\ inbox # <<>> /\ Head(inbox) = "stopped"
        /\ inbox' = Tail(inbox)
        /\ speaking' = FALSE
        /\ task' = 0
        /\ playbackSince' = played
        /\ slipped' = IF job[utt] \in {"queued", "entered"} THEN slipped \cup {utt} ELSE slipped
        /\ \E enough \in BOOLEAN :
              /\ finalPending' = enough
              /\ CASE frozen -> StopIfBusy(active)
                   [] design.atEndpoint = "kill" /\ task # 0 -> KillAndPromote
                   [] OTHER -> IF enough THEN UNCHANGED poolVars
                                         ELSE MaybeCont(FALSE, FALSE, played)
        /\ UNCHANGED <<talking, said, splits, turnVars, utt, words, workerStart>>

\* The final decode returns: its text, if any, goes to the language model,
\* which drops it if it is still generating.
FinalLands ==
    /\ finalPending /\ Settled
    /\ finalPending' = FALSE
    /\ MaybeCont(speaking, FALSE, playbackSince)
    /\ \E text \in BOOLEAN :
          /\ llm' = (llm \/ text)
          /\ voice' = (voice \/ (text /\ ~llm))
    /\ UNCHANGED <<userVars, clock, sounded, llmDone, orderly, utt, speaking, task, words,
                   playbackSince, workerStart, slipped>>

-----------------------------------------------------------------------------
(* The hypothesis task and its decode.                                     *)

\* What the issuer's in_flight says of a new decode.
InFlightNone == ~decoding

\* The task submits a decode once nothing is in flight.
Issue ==
    /\ task # 0
    /\ job[task] = "none" /\ Settled
    /\ InFlightNone
    /\ job' = [job EXCEPT ![task] = "queued"]
    /\ UNCHANGED <<active, ready, busy, stopped, stale, spawning, child, bound, crashes,
                   userVars, turnVars, sttVars, workerStart>>

CancelQueued(u) ==
    /\ job[u] = "queued"
    /\ task # u
    /\ job' = [job EXCEPT ![u] = "none"]
    /\ UNCHANGED <<active, ready, busy, stopped, stale, spawning, child, bound, crashes,
                   userVars, turnVars, sttVars, workerStart>>

\* A thread takes it: the decode counts as in flight, and is bound to the
\* worker active now.
Enter(u) ==
    /\ job[u] = "queued"
    /\ job' = [job EXCEPT ![u] = "entered"]
    /\ bound' = [bound EXCEPT ![u] = active]
    /\ workerStart' = u
    /\ UNCHANGED <<active, ready, busy, stopped, stale, spawning, child, crashes,
                   userVars, turnVars, sttVars>>

\* A decode that ends forgets that it was the worker's.
StartAfter(u) == IF workerStart = u THEN 0 ELSE workerStart

AskWorker(u) ==
    /\ Ask(u)
    /\ workerStart' = IF job'[u] = "nothing" THEN StartAfter(u) ELSE workerStart
    /\ UNCHANGED <<userVars, turnVars, sttVars>>

Return(u) ==
    /\ Answered(u)
    /\ workerStart' = StartAfter(u)
    /\ UNCHANGED <<userVars, turnVars, sttVars>>

\* The task takes the result and may commit words.  Nobody takes the result
\* of a cancelled one.
Resume ==
    /\ task # 0
    /\ job[task] \in {"words", "nothing"}
    /\ \E kept \in BOOLEAN :
          words' = IF kept /\ job[task] = "words" THEN words \cup {task} ELSE words
    /\ job' = [job EXCEPT ![task] = "none"]
    /\ UNCHANGED <<active, ready, busy, stopped, stale, spawning, child, bound, crashes,
                   userVars, turnVars, utt, speaking, task, finalPending, playbackSince,
                   workerStart, slipped>>

ChildStep(w) ==
    /\ Compute(w) \/ Loaded(w)
    /\ UNCHANGED <<userVars, turnVars, sttVars, workerStart>>

ChildFails(w) ==
    /\ LoadFails(w) \/ Crash(w)
    /\ UNCHANGED <<userVars, turnVars, sttVars, workerStart>>

-----------------------------------------------------------------------------
(* The reply, and the turn it closes.                                      *)

\* A request that fails marks no llm_done.
LlmFinishes ==
    /\ llm
    /\ llm' = FALSE
    /\ \E ok \in BOOLEAN : llmDone' = (llmDone \/ (ok /\ clock # "none"))
    /\ UNCHANGED <<poolVars, userVars, clock, sounded, voice, orderly, sttVars, workerStart>>

\* The first audio of the open turn reaches the output: dead workers respawn.
FirstAudio ==
    /\ voice
    /\ clock # "none"
    /\ ~sounded
    /\ sounded' = TRUE
    /\ RespawnDead
    /\ UNCHANGED <<userVars, clock, llmDone, llm, voice, orderly, sttVars, workerStart>>

\* A close marks playback_done, which may thaw, and then ends the turn.
CloseTurn ==
    /\ clock' = "none"
    /\ playbackSince' = TRUE
    /\ MaybeCont(speaking, finalPending, TRUE)

\* All of the reply's audio has reached the output, and BotStoppedSpeaking or
\* the watchdog's SETTLE_MS says so.  It closes the open turn if that turn saw
\* its llm_done.
ReplyEnds ==
    /\ voice
    /\ ~llm
    /\ voice' = FALSE
    /\ IF clock # "none" /\ llmDone
       THEN CloseTurn
       ELSE UNCHANGED <<clock, playbackSince, poolVars>>
    /\ UNCHANGED <<userVars, sounded, llmDone, llm, orderly, utt, speaking, task, words,
                   finalPending, workerStart, slipped>>

\* Nothing is decoding, generating or playing, and nothing will: the watchdog
\* closes the turn (STUCK_MS).
Stuck ==
    /\ clock # "none"
    /\ ~decoding /\ ~llm /\ ~voice
    /\ inbox = <<>>
    /\ task = 0 /\ Settled
    /\ orderly' = (orderly /\ ~talking)
    /\ CloseTurn
    /\ UNCHANGED <<userVars, sounded, llmDone, llm, voice, utt, speaking, task, words,
                   finalPending, workerStart, slipped>>

-----------------------------------------------------------------------------
Next ==
    /\ UNCHANGED design
    /\ \/ UserStarts \/ UserStops
       \/ HandleStarted \/ HandleStopped \/ FinalLands
       \/ Issue \/ Resume
       \/ \E u \in Utterance : CancelQueued(u) \/ Enter(u) \/ AskWorker(u) \/ Return(u)
       \/ \E w \in Worker : ChildStep(w) \/ ChildFails(w)
       \/ LlmFinishes \/ FirstAudio \/ ReplyEnds \/ Stuck

Spec == Init /\ [][Next]_<<design, vars>>

\* The event loop serves its frames, tasks and callbacks, threads run, a
\* child that is not frozen finishes, engines load, the model stops
\* generating, a reply is played out, and the watchdog looks at every open
\* turn.  Nothing makes the user speak, but who speaks stops.
Fairness ==
    /\ WF_vars(UserStops)
    /\ WF_vars(HandleStarted) /\ WF_vars(HandleStopped) /\ WF_vars(FinalLands)
    /\ WF_vars(Resume)
    /\ \A u \in Utterance :
          WF_vars(CancelQueued(u) \/ Enter(u)) /\ WF_vars(AskWorker(u)) /\ WF_vars(Return(u))
    /\ \A w \in 1 .. MaxWorkers : WF_vars(w \in Worker /\ ChildStep(w))
    /\ WF_vars(LlmFinishes) /\ WF_vars(ReplyEnds) /\ WF_vars(Stuck)

FairSpec == Spec /\ Fairness

-----------------------------------------------------------------------------
ServiceTypeOK ==
    /\ inbox \in Seq({"started", "stopped"})
    /\ talking \in BOOLEAN
    /\ said \in 0 .. MaxUtterances
    /\ splits \in 0 .. MaxSplits
    /\ clock \in {"none", "speaking", "ended"}
    /\ sounded \in BOOLEAN /\ llmDone \in BOOLEAN
    /\ llm \in BOOLEAN /\ voice \in BOOLEAN
    /\ utt \in 0 .. said
    /\ speaking \in BOOLEAN
    /\ task \in {0, utt} /\ (task # 0 => speaking)
    /\ words \subseteq Utterance
    /\ finalPending \in BOOLEAN
    /\ playbackSince \in BOOLEAN
    /\ workerStart \in 0 .. MaxUtterances /\ (workerStart # 0 => InThread(workerStart))
    /\ slipped \subseteq Utterance
    /\ orderly \in BOOLEAN

\* Every variable has the shape the code gives it; a task is the speaking
\* utterance's, and the decode the pool was last given is still in its thread.
TypeOK == PoolTypeOK /\ ServiceTypeOK

\* "A turn with no hypotheses must not inherit the last turn's
\* committed_end_s" (stt.py): a final is joined to words of its own utterance
\* only, whichever turns had a task, a late decode or no worker.
OwnWords == finalPending => words \subseteq {utt}

\* decoding counts every decode that uses the cores, whatever became of its
\* task: while a child computes, the watchdog and the gate see work.
BusyCoversCompute ==
    \A w \in Worker : child[w] = "computing" /\ ~stopped[w] => decoding

\* A thread about to ask finds its worker's pipe free: no hypothesis is lost
\* to a request that an earlier turn's decode still owes.
PipeFree == \A u \in Utterance : job[u] = "entered" => ~busy[bound[u]]

\* A hypothesis that was in the child at its endpoint does not compute beside
\* that endpoint's final; one still on its way there may.
Beside(u) == \E w \in Worker : child[w] = "computing" /\ ~stopped[w] /\ u \in Asking(w)
QuietFinal == finalPending /\ design.atEndpoint # "race" /\ utt \notin slipped => ~Beside(utt)

\* A frozen decode stays off the cores until its own reply is synthesized and
\* its turn closed, as long as turns and utterances are one to one.
FrozenThroughReply ==
    orderly /\ ~design.contAtTurnOpen =>
        \A w \in Worker : \A u \in Asking(w) :
            stale[w] /\ ~stopped[w] /\ u = said => clock = "none" /\ ~llm /\ ~voice

\* hyp_stopped never marks an endpoint whose own decode was not frozen: a
\* decode that an earlier endpoint froze is not frozen again.
OwnFreeze ==
    [][\A w \in Worker : stopped'[w] /\ ~stopped[w] =>
           \A u \in Asking(w) : u = utt \/ u \in slipped]_vars

\* What is frozen while a turn is open is thawed: freezing the decode never
\* keeps the watchdog from closing a turn, and the playback_done of that close
\* is not lost on the freeze, whatever was split or still pending at it.
Frozen(w) == w \in Worker /\ stopped[w]
Thawed == \A w \in 1 .. MaxWorkers : (Frozen(w) /\ clock # "none") ~> ~Frozen(w)

\* An engine loads on every core it can get: none starts loading beside a
\* final, at its endpoint or later, as long as turns and utterances are one to
\* one.
SpawnsBesideFinal == \E w \in Worker : spawning'[w] /\ ~spawning[w] /\ finalPending'
SpawnedApart == [][orderly => ~SpawnsBesideFinal]_vars

\* Not so in the code: what is frozen waits for "a playback_done since the stop"
\* (stt.py, _maybe_cont).  An endpoint whose turn a reply has closed already, after
\* a split, freezes with no turn open: nothing thaws it before the next turn's end.
ThawedOfItself == \A w \in 1 .. MaxWorkers : Frozen(w) ~> ~Frozen(w)

\* Not so in the code: "the final starts on cores nothing else is holding"
\* (stt.py, at the kill); a decode between its thread's start and its request
\* escapes the kill.  QuietFinal says what remains true.
NothingBesideFinal == finalPending => ~Beside(utt)
===============================================================================
