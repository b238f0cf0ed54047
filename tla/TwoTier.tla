------------------------------ MODULE TwoTier ------------------------------
(***************************************************************************)
(* The hypothesis loop with engines in this process (stt.py), paced by     *)
(* Pacing and, in two-tier mode, keeping its transcript in the spans of    *)
(* twotier.py: tiny's agreement says where the committed audio ends, base  *)
(* reads that audio in batches, and the final decodes what neither read.   *)
(* Words are abstracted to how far the commitment reaches; LocalAgreement  *)
(* has the words.  Time passes in ticks, of audio and of decoding alike.   *)
(***************************************************************************)
EXTENDS Pacing, Sequences, FiniteSets

CONSTANTS MaxTime,   \* the longest utterance, pre-roll included
          MaxTurns,  \* utterances in a session
          MaxCost,   \* the longest decode
          Batch,     \* batch_s
          Lookback,  \* lookback_s
          TailGuard, \* tail_guard_s
          Mode       \* the configurations: records of two, endpoint, rule and prior

ASSUME MaxTimeAssumption == MaxTime \in Nat
ASSUME MaxTurnsAssumption == MaxTurns \in Nat
ASSUME MaxCostAssumption == MaxCost \in Nat \ {0}
ASSUME BatchAssumption == Batch \in Nat /\ Lookback \in Nat
ASSUME TailGuardAssumption == TailGuard \in Nat
ASSUME ModeAssumption ==
    Mode \subseteq [two : BOOLEAN, endpoint : {"race", "wait"},
                    rule : {"controlled", "naive"}, prior : Nat]

Time == 0 .. MaxTime
Source == {"tiny", "base"}
Span == [start : Time, end : Time]
\* Transcribed audio, and the engine whose text stands for it.
Read == [key : Source, start : Time, end : Time]
\* A decode: its engine, the spans it stands for, its audio, the ticks it has run.
Decode == [key : Source \cup {"none"}, spans : Nat, from : Time, to : Time, ran : 0 .. MaxCost]

VARIABLES mode,          \* the run's configuration
          turn,          \* utterances opened so far
          phase,         \* the handler: "quiet", "talking", "waiting" or "final"
          have,          \* len(_audio)
          heard,         \* what the endpoint took from _audio
          elapsed,       \* ticks since the turn opened
          task,          \* _hyp_task: none, sleeping, awaiting a decode, or ended
          decode,        \* the decode the task awaits
          orphans,       \* decodes in threads whose task was cancelled
          idle,          \* ticks since _last_decode_end_ns
          lastDecode,    \* last_decode_ms
          spent,         \* history: ticks of decoding the turn's task paid for
          committedEnd,  \* committed_end_s
          window,        \* pending_agreement
          pending,       \* TwoTierListener.pending
          done,          \* TwoTierListener.done
          baseEnd,       \* base_committed_end_s
          tailFrom       \* tail_from_s of the final

turnVars == <<mode, turn, phase, have, heard, elapsed, tailFrom>>
paceVars == <<idle, lastDecode, spent>>
textVars == <<committedEnd, window, pending, done, baseEnd>>
vars == <<turnVars, task, decode, orphans, paceVars, textVars>>

NoDecode == [key |-> "none", spans |-> 0, from |-> 0, to |-> 0, ran |-> 0]
Smaller(a, b) == IF a < b THEN a ELSE b

\* Mistakes a change could make; the mutants put them in place.
NothingPopped(n) == pending

-----------------------------------------------------------------------------
\* decoding: some thread has a decode, whether or not a task waits for it.
Decoding == task = "awaiting" \/ orphans > 0

Seconds(spans) == IF spans = <<>> THEN 0 ELSE spans[Len(spans)].end - spans[1].start

\* ready_batch(): the pending spans, merged, once they are long enough.  They
\* follow one another, so that their lengths add up to the distance spanned.
BatchReady(force) == pending # <<>> /\ (force \/ Seconds(pending) >= Batch)

CompleteInFront(n, key) ==
    /\ pending' = SubSeq(pending, n + 1, Len(pending))
    /\ done' = <<[key |-> key, start |-> pending[1].start, end |-> pending[n].end]>> \o done
    /\ baseEnd' = AtLeast(baseEnd, pending[n].end)
    /\ UNCHANGED <<committedEnd, window>>

\* complete_batch(): the n spans of the batch leave the head of the queue, where
\* they were taken from, and become one span of the transcript.
PendingAfter(n) == SubSeq(pending, n + 1, Len(pending))
Complete(n, key) ==
    /\ pending' = PendingAfter(n)
    /\ done' = Append(done, [key |-> key, start |-> pending[1].start, end |-> pending[n].end])
    /\ baseEnd' = AtLeast(baseEnd, pending[n].end)
    /\ UNCHANGED <<committedEnd, window>>

Init ==
    /\ mode \in Mode
    /\ turn = 0 /\ phase = "quiet"
    /\ have = 0 /\ heard = 0 /\ elapsed = 0
    /\ task = "none" /\ decode = NoDecode /\ orphans = 0
    /\ idle = 0 /\ lastDecode = 0 /\ spent = 0
    /\ committedEnd = 0 /\ window = 0
    /\ pending = <<>> /\ done = <<>> /\ baseEnd = 0
    /\ tailFrom = 0

-----------------------------------------------------------------------------
(* The turn.                                                               *)

\* The committer and the spans of the last turn are forgotten.
ResetText ==
    /\ committedEnd' = 0 /\ window' = 0
    /\ pending' = <<>> /\ done' = <<>> /\ baseEnd' = 0

\* A turn opens with what the pre-roll ring holds; everything is reset
\* unless a task is left over.
Started ==
    /\ phase = "quiet"
    /\ turn < MaxTurns
    /\ turn' = turn + 1
    /\ phase' = "talking"
    /\ have' \in 0 .. Smaller(1, MaxTime)
    /\ elapsed' = 0 /\ spent' = 0
    /\ heard' = 0 /\ tailFrom' = 0
    /\ IF task = "none"
       THEN /\ ResetText
            /\ idle' = 0 /\ lastDecode' = 0
            /\ task' = "sleeping"
       ELSE UNCHANGED <<textVars, idle, lastDecode, task>>
    /\ UNCHANGED <<mode, decode, orphans>>

\* A tick of audio, of rest, and of the decode that runs.
Tick ==
    /\ \/ phase = "talking" /\ have < MaxTime
       \/ phase = "waiting" /\ task = "awaiting"
    /\ decode.ran < MaxCost
    /\ have' = IF phase = "talking" THEN have + 1 ELSE have
    /\ elapsed' = elapsed + 1
    /\ idle' = idle + 1
    /\ decode' = IF task = "awaiting" THEN [decode EXCEPT !.ran = @ + 1] ELSE decode
    /\ spent' = IF task = "awaiting" THEN spent + 1 ELSE spent
    /\ UNCHANGED <<mode, turn, phase, heard, tailFrom, task, orphans, lastDecode, textVars>>

-----------------------------------------------------------------------------
(* The hypothesis loop.                                                    *)

\* The issuer's reason to issue, or not.
Reason ==
    IF mode.rule = "naive"
    THEN FixedTick(Decoding)
    ELSE SelfPaced(mode.prior, lastDecode, Decoding, idle, have - committedEnd, have, window)

\* What one pass through the loop decides to start.
Job ==
    IF mode.two
    THEN ChooseJob(Decoding, Reason # "duty", BatchReady(FALSE), Reason \in {"issue", "tick"})
    ELSE IF Reason \in {"issue", "tick"} THEN "tiny" ELSE "none"

\* The audio a job reads: past the commitment for tiny, the batch and what
\* comes before it for base.
JobFrom(job) ==
    IF job = "tiny" THEN committedEnd ELSE AtLeast(0, pending[1].start - Lookback)
JobTo(job) == IF job = "tiny" THEN have ELSE Smaller(have, pending[Len(pending)].end)

\* The loop goes on while the user speaks, and sees it at its next turn.
Rested == IF phase = "talking" THEN "sleeping" ELSE "ended"

\* A decode starts if there is any audio for it.
Begin(job) ==
    /\ task = "sleeping"
    /\ Job = job
    /\ JobTo(job) > JobFrom(job)
    /\ decode' = [key |-> job, spans |-> IF job = "base" THEN Len(pending) ELSE 0,
                  from |-> JobFrom(job), to |-> JobTo(job), ran |-> 0]
    /\ task' = "awaiting"
    /\ UNCHANGED <<turnVars, orphans, paceVars, textVars>>

\* No audio is left for base: the batch keeps tiny's text.
BatchWithoutAudio ==
    /\ task = "sleeping"
    /\ Job = "base"
    /\ JobTo("base") <= JobFrom("base")
    /\ Complete(Len(pending), "tiny")
    /\ task' = Rested
    /\ UNCHANGED <<turnVars, decode, orphans, paceVars>>

\* Nothing to start, after the endpoint: the loop ends.
LoopEnds ==
    /\ task = "sleeping" /\ phase # "talking"
    /\ Job = "none" \/ (Job = "tiny" /\ JobTo("tiny") <= JobFrom("tiny"))
    /\ task' = "ended"
    /\ UNCHANGED <<turnVars, decode, orphans, paceVars, textVars>>

Measured ==
    /\ task = "awaiting" /\ decode.ran > 0
    /\ task' = Rested
    /\ decode' = NoDecode
    /\ idle' = 0
    /\ lastDecode' = NoteDecode(lastDecode, decode.ran)
    /\ UNCHANGED <<turnVars, orphans, spent>>

\* tiny's words are offered: with its window full the committer may commit,
\* up to the guard before the end of the buffer, and the committed audio
\* becomes a span.
HypothesisDone ==
    /\ Measured
    /\ decode.key = "tiny"
    /\ window' = Smaller(window + 1, AgreementN - 1)
    /\ committedEnd' \in
          {committedEnd} \cup
          IF window = AgreementN - 1 THEN committedEnd .. decode.to - TailGuard ELSE {}
    /\ pending' = IF mode.two /\ committedEnd' > committedEnd
                  THEN Append(pending, [start |-> committedEnd, end |-> committedEnd'])
                  ELSE pending
    /\ UNCHANGED <<done, baseEnd>>

\* base's words inside the batch are kept, and stand for its audio.
BatchDone ==
    /\ Measured
    /\ decode.key = "base"
    /\ Complete(decode.spans, "base")

OrphanDone ==
    /\ orphans > 0
    /\ orphans' = orphans - 1
    /\ UNCHANGED <<turnVars, task, decode, paceVars, textVars>>

-----------------------------------------------------------------------------
(* The endpoint.                                                           *)

\* Cancelling the task leaves its decode in the thread pool.
Cancel ==
    /\ task' = "none"
    /\ decode' = NoDecode
    /\ orphans' = IF task = "awaiting" THEN orphans + 1 ELSE orphans

\* _run_span(force): _audio was taken by the endpoint already, so whatever is
\* pending keeps tiny's text.
Flush ==
    IF mode.two /\ BatchReady(TRUE)
    THEN Complete(Len(pending), "tiny")
    ELSE UNCHANGED textVars

\* The final decodes what the transcript does not stand for.
TailStart == IF mode.two THEN baseEnd' ELSE committedEnd

\* The endpoint takes the audio; too little of it is no turn.  In the wait
\* mode a task left over is waited for.
Stopped ==
    /\ phase = "talking"
    /\ heard' = have
    /\ have' = 0
    /\ IF mode.endpoint = "race" THEN Cancel ELSE UNCHANGED <<task, decode, orphans>>
    /\ CASE have = 0 ->
              phase' = "quiet" /\ UNCHANGED <<textVars, tailFrom>>
         [] have > 0 /\ mode.endpoint = "wait" /\ task # "none" ->
              phase' = "waiting" /\ UNCHANGED <<textVars, tailFrom>>
         [] OTHER ->
              phase' = "final" /\ Flush /\ tailFrom' = TailStart
    /\ UNCHANGED <<mode, turn, elapsed, paceVars>>

\* The task ended, or wait_timeout_s passed and it is cancelled.
WaitOver ==
    /\ phase = "waiting"
    /\ task \in {"ended", "awaiting"}
    /\ Cancel
    /\ phase' = "final"
    /\ Flush
    /\ tailFrom' = TailStart
    /\ UNCHANGED <<mode, turn, have, heard, elapsed, paceVars>>

FinalDone ==
    /\ phase = "final"
    /\ phase' = "quiet"
    /\ UNCHANGED <<mode, turn, have, heard, elapsed, tailFrom, task, decode, orphans,
                   paceVars, textVars>>

-----------------------------------------------------------------------------
Next ==
    \/ Started \/ Tick
    \/ \E job \in Source : Begin(job)
    \/ BatchWithoutAudio \/ LoopEnds \/ HypothesisDone \/ BatchDone \/ OrphanDone
    \/ Stopped \/ WaitOver \/ FinalDone

Spec == Init /\ [][Next]_vars

-----------------------------------------------------------------------------
\* Every variable has the shape stt.py, pacing.py and twotier.py give it.
TypeOK ==
    /\ mode \in Mode
    /\ turn \in 0 .. MaxTurns
    /\ phase \in {"quiet", "talking", "waiting", "final"}
    /\ have \in Time /\ heard \in Time /\ elapsed \in Nat
    /\ task \in {"none", "sleeping", "awaiting", "ended"}
    /\ decode \in Decode
    /\ orphans \in Nat
    /\ idle \in Nat /\ lastDecode \in 0 .. MaxCost /\ spent \in Nat
    /\ committedEnd \in Time /\ window \in 0 .. AgreementN - 1
    /\ pending \in Seq(Span) /\ done \in Seq(Read)
    /\ baseEnd \in Time /\ tailFrom \in Time

\* The spans lie side by side in order, from one point to another.
Tile(spans, from, to) ==
    IF spans = <<>> THEN from = to
    ELSE /\ spans[1].start = from
         /\ spans[Len(spans)].end = to
         /\ \A i \in 1 .. Len(spans) - 1 : spans[i].end = spans[i + 1].start
         /\ \A i \in 1 .. Len(spans) : spans[i].start < spans[i].end

\* "A span tiny committed but base never re-decoded is not in the transcript
\* and its audio must still be decoded" (twotier.py): the audio transcribed,
\* the audio queued for base and the audio nobody committed lie side by side,
\* with no gap and no overlap, whatever was cancelled, flushed or late; base
\* reads a batch to its end; and the final starts where the transcribed audio
\* ends, inside the utterance.
SpansTile ==
    /\ mode.two => Tile(done, 0, baseEnd) /\ Tile(pending, baseEnd, committedEnd)
    /\ decode.key = "base" => decode.to = pending[decode.spans].end
    /\ phase = "final" => tailFrom <= heard /\ (mode.two => Tile(done, 0, tailFrom))

\* A hypothesis or a batch starts with the decode time so far within duty_max
\* of the time elapsed, as long as one engine does all the listening.
Starts == task # "awaiting" /\ task' = "awaiting"
WithinDuty == spent * DutyDen <= elapsed * DutyNum
DutyHeld == [][Starts /\ mode.rule = "controlled" /\ ~mode.two => WithinDuty]_vars

\* Not so in the code: "Nothing runs before the duty debt is paid, whichever
\* engine owes it" (twotier.py, choose_job); an issuer that refuses for want of
\* audio or of time has not looked at the debt, and the batch starts.
DebtPaid ==
    [][Starts /\ mode.rule = "controlled" /\ lastDecode > 0 =>
           idle * DutyNum >= (DutyDen - DutyNum) * lastDecode]_vars

\* Not so in the code: "the transcript is base's throughout" (twotier.py); the
\* flush at the endpoint finds _audio taken and keeps tiny's text.
TextIsBase == phase = "final" => \A i \in DOMAIN done : done[i].key = "base"

\* The transcript of a turn is an append-only log of timed readings, as the
\* committer's is.
Log == INSTANCE CommitLog WITH Key <- Source, MaxTime <- MaxTime,
                               committed <- done, committedEnd <- baseEnd
ImplementsLog == Log!Spec
=============================================================================
