----------------------------- MODULE TwoTierProofs -----------------------------
(***************************************************************************)
(* TwoTier, for every utterance length, decode cost, batch size, guard and *)
(* duty target: its type invariant, that the spans tile the committed      *)
(* audio, that a decode starts within the duty target, and that the        *)
(* transcript is an append-only log.                                       *)
(***************************************************************************)
EXTENDS TwoTier, TLAPS

\* How far the audio of the open utterance goes.
Reach == IF phase = "talking" THEN have ELSE IF phase = "quiet" THEN 0 ELSE heard

\* A decode reads audio that is there, and only while someone waits for it; a
\* batch is all that is queued, and base hears it to its end.
DecodeInReach ==
    /\ task = "awaiting" => /\ decode.key \in Source
                            /\ decode.from < decode.to /\ decode.to <= Reach
    /\ task # "awaiting" => decode = NoDecode
    /\ decode.key = "base" =>
          /\ mode.two /\ pending # <<>>
          /\ decode.spans = Len(pending) /\ decode.to = committedEnd

\* The commitment stays inside the utterance, and a task left over from an
\* utterance without audio has neither read nor committed anything.
LeftOver ==
    /\ phase # "quiet" \/ task # "none" => committedEnd <= Reach
    /\ phase # "talking" => have = 0
    /\ phase = "final" => task = "none"
    /\ phase = "waiting" => mode.endpoint = "wait"
    /\ (phase = "quiet" /\ task # "none") \/ (phase = "talking" /\ have = 0) =>
          idle = 0 /\ lastDecode = 0

\* What is queued lies between the transcript and the commitment, and what is
\* transcribed before both.
SpansOrdered ==
    /\ mode.two => /\ baseEnd <= committedEnd
                   /\ pending # <<>> => baseEnd < committedEnd
    /\ ~mode.two => pending = <<>> /\ done = <<>> /\ baseEnd = 0
    /\ Log!Timed(done)
    /\ \A i \in DOMAIN done : done[i].start < done[i].end /\ done[i].end <= baseEnd

TailMarked == phase = "final" => tailFrom = IF mode.two THEN baseEnd ELSE committedEnd

IInv ==
    /\ TypeOK /\ DecodeInReach /\ LeftOver /\ SpansOrdered /\ TailMarked
    /\ mode.two => Tile(done, 0, baseEnd) /\ Tile(pending, baseEnd, committedEnd)

\* Outside a decode the rest since the last one is all that its own cost may
\* still be charged to: what was spent before it is within the duty target of
\* the time before it.
Paid ==
    mode.rule = "controlled" /\ ~mode.two =>
        /\ task = "sleeping" =>
              (spent - lastDecode) * DutyDen <= (elapsed - idle - lastDecode) * DutyNum
        /\ task = "awaiting" =>
              (spent - decode.ran) * DutyDen <= (elapsed - decode.ran) * DutyNum

-----------------------------------------------------------------------------
USE DEF Decode

LEMMA Sizes == 0 \in Time /\ Time \subseteq Int /\ Smaller(1, MaxTime) \in Time
BY MaxTimeAssumption DEF Time, Smaller

LEMMA ModeKinds ==
    ASSUME TypeOK
    PROVE  mode.two \in BOOLEAN /\ mode.prior \in Nat
BY ModeAssumption DEF TypeOK

\* One more span, from where the others end.
LEMMA TileAppend ==
    ASSUME NEW S, NEW spans \in Seq(S), NEW from, NEW to, NEW s \in S, Tile(spans, from, to),
           s.start = to, s.start < s.end
    PROVE  Append(spans, s) \in Seq(S) /\ Tile(Append(spans, s), from, s.end)
<1> DEFINE more == Append(spans, s)
<1>1. /\ more \in Seq(S) /\ Len(more) = Len(spans) + 1 /\ Len(spans) \in Nat
      /\ more[Len(more)] = s /\ more # <<>>
      /\ \A i \in 1 .. Len(spans) : more[i] = spans[i]
  OBVIOUS
<1> HIDE DEF more
<1>2. CASE spans = <<>>
  BY <1>1, <1>2 DEF Tile
<1>3. CASE spans # <<>>
  <2>1. Len(spans) > 0 /\ spans[Len(spans)].end = to
    BY <1>3 DEF Tile
  <2>2. more[1].start = from
    BY <1>1, <1>3, <2>1 DEF Tile
  <2>3. \A i \in 1 .. Len(more) - 1 : more[i].end = more[i + 1].start
    <3>1. TAKE i \in 1 .. Len(more) - 1
    <3>2. CASE i = Len(spans)
      BY <1>1, <2>1, <3>2
    <3>3. CASE i < Len(spans)
      BY <1>1, <1>3, <3>3 DEF Tile
    <3>4. QED
      BY <1>1, <3>2, <3>3
  <2>4. \A i \in 1 .. Len(more) : more[i].start < more[i].end
    BY <1>1, <1>3 DEF Tile
  <2>5. QED
    BY <1>1, <2>2, <2>3, <2>4 DEF Tile
<1>4. QED
  BY <1>1, <1>2, <1>3 DEF more

\* complete_batch() of all that is queued: the transcript reaches the
\* commitment, and nothing is queued any more.
LEMMA CompleteFacts ==
    ASSUME IInv, mode.two, pending # <<>>, NEW key \in Source, Complete(Len(pending), key)
    PROVE  /\ pending' = <<>> /\ UNCHANGED <<committedEnd, window>> /\ baseEnd' = committedEnd
           /\ done' \in Seq(Read) /\ Len(done') = Len(done) + 1
           /\ \A i \in DOMAIN done : done'[i] = done[i]
           /\ done'[Len(done')].start = baseEnd /\ done'[Len(done')].end = committedEnd
           /\ Tile(done', 0, baseEnd')
           /\ Log!Timed(done')
           /\ \A i \in DOMAIN done' : done'[i].start < done'[i].end /\ done'[i].end <= baseEnd'
<1> DEFINE new == [key |-> key, start |-> baseEnd, end |-> committedEnd]
<1>1. /\ TypeOK /\ SpansOrdered /\ Tile(done, 0, baseEnd) /\ Tile(pending, baseEnd, committedEnd)
      /\ pending \in Seq(Span) /\ done \in Seq(Read) /\ baseEnd \in Time /\ committedEnd \in Time
      /\ baseEnd \in Int /\ committedEnd \in Int
  BY Sizes DEF IInv, TypeOK
<1>2. /\ pending[1].start = baseEnd /\ pending[Len(pending)].end = committedEnd
      /\ baseEnd < committedEnd
  BY <1>1 DEF Tile, SpansOrdered
<1>3. pending' = <<>>
  BY <1>1 DEF Complete, PendingAfter
<1>4. UNCHANGED <<committedEnd, window>> /\ baseEnd' = committedEnd
  BY <1>1, <1>2 DEF Complete, AtLeast
<1>5. done' = Append(done, new) /\ new \in Read
  BY <1>1, <1>2 DEF Complete, Read
<1>6. new.start = baseEnd /\ new.end = committedEnd
  OBVIOUS
<1> HIDE DEF new
<1>7. /\ done' \in Seq(Read) /\ Len(done') = Len(done) + 1 /\ done'[Len(done')] = new
      /\ \A i \in DOMAIN done : done'[i] = done[i]
      /\ \A i \in DOMAIN done' : i \in DOMAIN done \/ i = Len(done')
      /\ \A i \in DOMAIN done : i < Len(done')
  BY <1>1, <1>5
<1>8. Tile(done', 0, baseEnd')
  BY <1>1, <1>2, <1>4, <1>5, <1>6, TileAppend
<1>9. \A i \in DOMAIN done' : done'[i].start < done'[i].end /\ done'[i].end <= baseEnd'
  <2>1. TAKE i \in DOMAIN done'
  <2>2. CASE i = Len(done')
    BY <1>1, <1>2, <1>4, <1>6, <1>7, <2>2
  <2>3. CASE i \in DOMAIN done
    <3>1. done[i] \in Read
      BY <1>1, <2>3
    <3>2. done[i].end \in Int
      BY <3>1, Sizes DEF Read
    <3>3. done[i].start < done[i].end /\ done[i].end <= baseEnd
      BY <1>1, <2>3 DEF SpansOrdered
    <3>4. QED
      BY <1>1, <1>2, <1>4, <1>7, <2>3, <3>2, <3>3
  <2>4. QED
    BY <1>7, <2>2, <2>3
<1>10. Log!Timed(done')
  <2> SUFFICES ASSUME NEW i \in DOMAIN done', NEW j \in DOMAIN done', i < j
               PROVE  done'[i].end <= done'[j].start
    BY DEF Log!Timed
  <2>1. i \in DOMAIN done
    BY <1>1, <1>7
  <2>2. CASE j \in DOMAIN done
    BY <1>1, <1>7, <2>1, <2>2 DEF SpansOrdered, Log!Timed
  <2>3. CASE j = Len(done')
    BY <1>1, <1>6, <1>7, <2>1, <2>3 DEF SpansOrdered
  <2>4. QED
    BY <1>7, <2>2, <2>3
<1>11. QED
  BY <1>3, <1>4, <1>6, <1>7, <1>8, <1>9, <1>10

LEMMA InitEstablishes == Init => IInv
<1> SUFFICES ASSUME Init PROVE IInv
  OBVIOUS
<1>1. <<>> \in Seq(Span) /\ <<>> \in Seq(Read) /\ DOMAIN <<>> = {}
  OBVIOUS
<1>2. NoDecode \in Decode
  BY Sizes, MaxCostAssumption DEF NoDecode
<1>3. TypeOK
  BY <1>1, <1>2, Sizes, MaxTurnsAssumption, MaxCostAssumption, AgreementNAssumption DEF Init, TypeOK
<1>4. DecodeInReach /\ LeftOver /\ TailMarked
  BY DEF Init, DecodeInReach, NoDecode, LeftOver, TailMarked
<1>5. SpansOrdered
  BY <1>1 DEF Init, SpansOrdered, Log!Timed
<1>6. Tile(done, 0, baseEnd) /\ Tile(pending, baseEnd, committedEnd)
  BY DEF Init, Tile
<1>7. QED
  BY <1>3, <1>4, <1>5, <1>6 DEF IInv

\* The spans and the transcript are what they were.
LEMMA TextFrame ==
    ASSUME IInv, UNCHANGED <<mode, textVars>>
    PROVE  /\ SpansOrdered'
           /\ mode.two => Tile(done, 0, baseEnd)' /\ Tile(pending, baseEnd, committedEnd)'
<1>1. UNCHANGED <<mode, committedEnd, pending, done, baseEnd>>
  BY DEF textVars
<1>2. SpansOrdered'
  BY <1>1 DEF IInv, SpansOrdered, Log!Timed
<1>3. mode.two => Tile(done, 0, baseEnd)' /\ Tile(pending, baseEnd, committedEnd)'
  BY <1>1 DEF IInv, Tile
<1>4. QED
  BY <1>2, <1>3

\* Everything queued is in the transcript.
LEMMA CompletePreserves ==
    ASSUME IInv, mode.two, pending # <<>>, NEW key \in Source, Complete(Len(pending), key),
           UNCHANGED mode
    PROVE  /\ SpansOrdered'
           /\ Tile(done, 0, baseEnd)' /\ Tile(pending, baseEnd, committedEnd)'
           /\ pending' \in Seq(Span) /\ done' \in Seq(Read) /\ baseEnd' \in Time
           /\ UNCHANGED <<committedEnd, window>> /\ baseEnd' = committedEnd
<1>1. /\ pending' = <<>> /\ UNCHANGED <<committedEnd, window>> /\ baseEnd' = committedEnd
      /\ done' \in Seq(Read) /\ Tile(done', 0, baseEnd') /\ Log!Timed(done')
      /\ \A i \in DOMAIN done' : done'[i].start < done'[i].end /\ done'[i].end <= baseEnd'
  BY CompleteFacts
<1>2. committedEnd \in Time /\ committedEnd \in Int /\ <<>> \in Seq(Span)
  BY Sizes DEF IInv, TypeOK
<1>3. SpansOrdered'
  BY <1>1, <1>2 DEF SpansOrdered, Log!Timed
<1>4. Tile(done, 0, baseEnd)' /\ Tile(pending, baseEnd, committedEnd)'
  BY <1>1 DEF Tile
<1>5. QED
  BY <1>1, <1>2, <1>3, <1>4

LEMMA StartedPreserves == ASSUME IInv, Started PROVE IInv'
<1>1. /\ TypeOK /\ DecodeInReach /\ LeftOver /\ phase = "quiet"
      /\ phase' = "talking" /\ have' \in Time /\ heard' = 0 /\ elapsed' = 0 /\ spent' = 0
      /\ tailFrom' = 0 /\ turn' \in 0 .. MaxTurns /\ UNCHANGED <<mode, decode, orphans>>
  BY MaxTurnsAssumption, MaxTimeAssumption DEF Started, IInv, TypeOK, Smaller, Time
<1>2. CASE task = "none"
  <2>1. /\ committedEnd' = 0 /\ window' = 0 /\ pending' = <<>> /\ done' = <<>> /\ baseEnd' = 0
        /\ idle' = 0 /\ lastDecode' = 0 /\ task' = "sleeping"
    BY <1>2 DEF Started, ResetText
  <2>2. <<>> \in Seq(Span) /\ <<>> \in Seq(Read) /\ DOMAIN <<>> = {}
    OBVIOUS
  <2>3. TypeOK'
    BY <1>1, <2>1, <2>2, Sizes, MaxCostAssumption, AgreementNAssumption DEF TypeOK
  <2>4. DecodeInReach' /\ LeftOver' /\ TailMarked'
    BY <1>1, <1>2, <2>1, Sizes DEF DecodeInReach, NoDecode, LeftOver, Reach, TailMarked, Time
  <2>5. SpansOrdered'
    BY <2>1, <2>2 DEF SpansOrdered, Log!Timed
  <2>6. Tile(done, 0, baseEnd)' /\ Tile(pending, baseEnd, committedEnd)'
    BY <2>1 DEF Tile
  <2>7. QED
    BY <2>3, <2>4, <2>5, <2>6 DEF IInv
<1>3. CASE task # "none"
  <2>1. UNCHANGED <<textVars, idle, lastDecode, task>>
    BY <1>3 DEF Started
  <2>2. TypeOK'
    BY <1>1, <2>1, Sizes DEF TypeOK, textVars
  <2>3. committedEnd \in Time /\ committedEnd <= 0
    BY <1>1, <1>3 DEF LeftOver, Reach, TypeOK
  <2>4. DecodeInReach' /\ LeftOver' /\ TailMarked'
    BY <1>1, <1>3, <2>1, <2>3, Sizes
       DEF DecodeInReach, NoDecode, LeftOver, Reach, TailMarked, Time, TypeOK, textVars
  <2>5. QED
    BY <1>1, <2>1, <2>2, <2>4, TextFrame DEF IInv
<1>4. QED
  BY <1>2, <1>3

LEMMA TickPreserves == ASSUME IInv, Tick PROVE IInv'
<1>1. /\ TypeOK /\ DecodeInReach /\ LeftOver /\ TailMarked
      /\ UNCHANGED <<mode, turn, phase, heard, tailFrom, task, orphans, lastDecode, textVars>>
      /\ phase = "talking" \/ (phase = "waiting" /\ task = "awaiting")
  BY DEF Tick, IInv
<1>2. /\ have' \in Time /\ have <= have'
      /\ have' = IF phase = "talking" THEN have + 1 ELSE have
      /\ elapsed' \in Nat /\ idle' \in Nat /\ spent' \in Nat
  <2>1. have \in 0 .. MaxTime /\ elapsed \in Nat /\ idle \in Nat /\ spent \in Nat
    BY <1>1 DEF TypeOK, Time
  <2>2. /\ phase = "talking" => have < MaxTime
        /\ have' = IF phase = "talking" THEN have + 1 ELSE have
        /\ elapsed' = elapsed + 1 /\ idle' = idle + 1
        /\ spent' = IF task = "awaiting" THEN spent + 1 ELSE spent
    BY DEF Tick
  <2>3. QED
    BY <2>1, <2>2, MaxTimeAssumption DEF Time
<1>3. /\ decode' \in Decode
      /\ decode'.key = decode.key /\ decode'.spans = decode.spans
      /\ decode'.from = decode.from /\ decode'.to = decode.to
      /\ task # "awaiting" => decode' = decode
  <2>1. decode \in Decode
    BY <1>1 DEF TypeOK
  <2>2. /\ decode.ran < MaxCost
        /\ decode' = IF task = "awaiting" THEN [decode EXCEPT !.ran = @ + 1] ELSE decode
    BY DEF Tick
  <2>3. decode.ran \in 0 .. MaxCost /\ decode.ran + 1 \in 0 .. MaxCost
    BY <2>1, <2>2, MaxCostAssumption
  <2>4. QED
    BY <2>1, <2>2, <2>3
<1>4. TypeOK'
  BY <1>1, <1>2, <1>3 DEF TypeOK, textVars
<1>5. Reach <= Reach' /\ Reach \in Int /\ Reach' \in Int
  BY <1>1, <1>2 DEF Reach, TypeOK, Time
<1>6. DecodeInReach'
  <2>1. decode.to \in Int
    BY <1>1, Sizes DEF TypeOK
  <2>2. QED
    BY <1>1, <1>3, <1>5, <2>1 DEF DecodeInReach, textVars
<1>7. LeftOver' /\ TailMarked'
  <2>1. committedEnd \in Int /\ have \in Nat
    BY <1>1, Sizes DEF TypeOK, Time
  <2>2. QED
    BY <1>1, <1>2, <1>5, <2>1 DEF LeftOver, TailMarked, textVars
<1>8. QED
  BY <1>1, <1>4, <1>6, <1>7, TextFrame DEF IInv

\* The commitment never passes the audio of the utterance being spoken, so a
\* batch that is begun has all its audio; after the endpoint there is none.
LEMMA BeginPreserves == ASSUME IInv, NEW job \in Source, Begin(job) PROVE IInv'
<1>1. /\ TypeOK /\ DecodeInReach /\ LeftOver /\ TailMarked /\ SpansOrdered
      /\ task = "sleeping" /\ Job = job /\ JobTo(job) > JobFrom(job)
      /\ task' = "awaiting"
      /\ UNCHANGED <<turnVars, orphans, paceVars, textVars>>
      /\ have \in Time /\ committedEnd \in Time /\ pending \in Seq(Span)
  BY DEF Begin, IInv, TypeOK
<1>2. job = "base" => mode.two /\ pending # <<>>
  <2>1. job = "base" => mode.two /\ BatchReady(FALSE)
    BY <1>1 DEF Job, ChooseJob
  <2>2. QED
    BY <2>1 DEF BatchReady
<1>3. job = "base" =>
          /\ pending[1].start \in Time /\ pending[Len(pending)].end = committedEnd
          /\ Len(pending) \in Nat
  <2>1. ASSUME job = "base"
        PROVE  /\ pending[1] \in Span /\ pending[Len(pending)].end = committedEnd
               /\ Len(pending) \in Nat
    BY <1>1, <1>2, <2>1 DEF IInv, Tile
  <2>2. QED
    BY <2>1 DEF Span
<1>4. JobFrom(job) \in Time /\ JobTo(job) \in Time
  <2>1. CASE job = "tiny"
    BY <1>1, <2>1 DEF JobFrom, JobTo
  <2>2. CASE job = "base"
    <3>1. AtLeast(0, pending[1].start - Lookback) \in Time
      <4>1. pending[1].start \in 0 .. MaxTime /\ Lookback \in Nat
        BY <1>3, <2>2, BatchAssumption DEF Time
      <4>2. QED
        BY <4>1, MaxTimeAssumption DEF AtLeast, Time
    <3>2. Smaller(have, pending[Len(pending)].end) \in Time
      BY <1>1, <1>3, <2>2 DEF Smaller
    <3>3. QED
      BY <2>2, <3>1, <3>2 DEF JobFrom, JobTo
  <2>3. QED
    BY <2>1, <2>2 DEF Source
<1>5. phase = "talking" /\ committedEnd <= have /\ Reach = have
  <2>1. JobTo(job) <= have
    BY <1>1, <1>3, Sizes DEF JobTo, Smaller, Source, Time
  <2>2. have > 0
    BY <1>1, <1>4, <2>1 DEF Time
  <2>3. QED
    BY <1>1, <2>2 DEF LeftOver, Reach
<1>6. JobTo(job) <= have /\ (job = "base" => JobTo(job) = committedEnd)
  BY <1>1, <1>3, <1>5, Sizes DEF JobTo, Smaller, Source, Time
<1>7. decode' = [key |-> job, spans |-> IF job = "base" THEN Len(pending) ELSE 0,
                 from |-> JobFrom(job), to |-> JobTo(job), ran |-> 0]
  BY DEF Begin
<1> DEFINE n == IF job = "base" THEN Len(pending) ELSE 0
           f == JobFrom(job)
           t == JobTo(job)
<1>8. n \in Nat /\ (job = "base" => n = Len(pending))
  BY <1>3
<1>9. /\ decode'.key = job /\ decode'.spans = n /\ decode'.from = f /\ decode'.to = t
      /\ decode' \in Decode
  <2> HIDE DEF n, f, t
  <2>1. decode' = [key |-> job, spans |-> n, from |-> f, to |-> t, ran |-> 0]
    BY <1>7 DEF n, f, t
  <2>2. f \in Time /\ t \in Time
    BY <1>4 DEF f, t
  <2>3. QED
    BY <1>8, <2>1, <2>2, MaxCostAssumption
<1>10. TypeOK'
  BY <1>1, <1>9 DEF TypeOK, turnVars, paceVars, textVars
<1>11. DecodeInReach'
  BY <1>1, <1>2, <1>5, <1>6, <1>8, <1>9 DEF DecodeInReach, Reach, turnVars, textVars
<1>12. LeftOver' /\ TailMarked'
  BY <1>1, <1>5 DEF LeftOver, TailMarked, Reach, turnVars, paceVars, textVars
<1>13. QED
  BY <1>1, <1>10, <1>11, <1>12, TextFrame DEF IInv, turnVars

\* What a step that neither moves the turn nor starts a decode must show.
LEMMA LoopPreserves ==
    ASSUME IInv, UNCHANGED <<turnVars, spent>>, task # "none",
           task' = "sleeping" \/ task' = "ended",
           decode' = NoDecode, orphans' \in Nat, idle' \in Nat, lastDecode' \in 0 .. MaxCost,
           idle' # idle \/ lastDecode' # lastDecode => task = "awaiting",
           committedEnd' \in Time, window' \in 0 .. AgreementN - 1, pending' \in Seq(Span),
           done' \in Seq(Read), baseEnd' \in Time,
           committedEnd' <= committedEnd \/ committedEnd' <= Reach,
           SpansOrdered',
           mode.two => Tile(done, 0, baseEnd)' /\ Tile(pending, baseEnd, committedEnd)'
    PROVE  IInv'
<1>1. TypeOK /\ DecodeInReach /\ LeftOver /\ phase # "final" /\ UNCHANGED turnVars
  BY DEF IInv, LeftOver
<1>2. TypeOK'
  <2>1. NoDecode \in Decode
    BY Sizes, MaxCostAssumption DEF NoDecode
  <2>2. QED
    BY <1>1, <2>1 DEF TypeOK, turnVars
<1>3. DecodeInReach'
  BY DEF DecodeInReach, NoDecode
<1>4. Reach' = Reach /\ Reach \in Int
  BY <1>1, Sizes DEF Reach, turnVars, TypeOK
<1>5. LeftOver'
  <2>1. committedEnd' <= Reach
    <3>1. committedEnd <= Reach /\ committedEnd \in Int /\ committedEnd' \in Int
      BY <1>1, Sizes DEF LeftOver, TypeOK
    <3>2. QED
      BY <1>4, <3>1
  <2>2. (phase = "quiet" \/ (phase = "talking" /\ have = 0)) => task # "awaiting"
    <3>1. decode.from \in Time /\ decode.to \in Time
      BY <1>1 DEF TypeOK
    <3>2. Reach = 0 => ~(decode.from < decode.to /\ decode.to <= Reach)
      BY <3>1 DEF Time
    <3>3. QED
      BY <1>1, <3>2 DEF DecodeInReach, Reach
  <2>3. QED
    BY <1>1, <1>4, <2>1, <2>2 DEF LeftOver, turnVars
<1>6. TailMarked'
  BY <1>1 DEF TailMarked, turnVars
<1>7. QED
  BY <1>1, <1>2, <1>3, <1>5, <1>6 DEF IInv, turnVars

LEMMA BatchWithoutAudioPreserves == ASSUME IInv, BatchWithoutAudio PROVE IInv'
<1>1. /\ TypeOK /\ task = "sleeping" /\ Job = "base" /\ Complete(Len(pending), "tiny")
      /\ UNCHANGED <<turnVars, decode, orphans, paceVars>> /\ decode = NoDecode
      /\ task' = "sleeping" \/ task' = "ended"
  BY DEF BatchWithoutAudio, Rested, IInv, DecodeInReach
<1>2. mode.two /\ pending # <<>>
  <2>1. mode.two /\ BatchReady(FALSE)
    BY <1>1 DEF Job, ChooseJob
  <2>2. QED
    BY <2>1 DEF BatchReady
<1>3. /\ SpansOrdered' /\ Tile(done, 0, baseEnd)' /\ Tile(pending, baseEnd, committedEnd)'
      /\ pending' \in Seq(Span) /\ done' \in Seq(Read) /\ baseEnd' \in Time
      /\ UNCHANGED <<committedEnd, window>>
  BY <1>1, <1>2, CompletePreserves DEF Source, turnVars
<1>4. committedEnd' <= committedEnd
  BY <1>1, <1>3, Sizes DEF TypeOK
<1>5. QED
  BY <1>1, <1>3, <1>4, LoopPreserves DEF TypeOK, paceVars

LEMMA LoopEndsPreserves == ASSUME IInv, LoopEnds PROVE IInv'
<1>1. /\ TypeOK /\ task = "sleeping" /\ task' = "ended" /\ decode' = NoDecode
      /\ UNCHANGED <<turnVars, orphans, paceVars, textVars>>
  BY DEF LoopEnds, IInv, DecodeInReach
<1>2. committedEnd' <= committedEnd
  BY <1>1, Sizes DEF TypeOK, textVars
<1>3. /\ SpansOrdered'
      /\ mode.two => Tile(done, 0, baseEnd)' /\ Tile(pending, baseEnd, committedEnd)'
  BY <1>1, TextFrame DEF turnVars
<1>4. QED
  BY <1>1, <1>2, <1>3, LoopPreserves DEF TypeOK, paceVars, textVars

\* The measured decode paces the next one.
LEMMA MeasuredFacts ==
    ASSUME IInv, Measured
    PROVE  /\ task = "awaiting" /\ (task' = "sleeping" \/ task' = "ended")
           /\ decode' = NoDecode /\ orphans' \in Nat
           /\ idle' \in Nat /\ lastDecode' \in 0 .. MaxCost
           /\ UNCHANGED <<turnVars, spent>>
<1>1. decode.ran \in 0 .. MaxCost /\ lastDecode \in 0 .. MaxCost /\ orphans \in Nat
  BY DEF IInv, TypeOK
<1>2. QED
  BY <1>1 DEF Measured, Rested, NoteDecode

LEMMA HypothesisDonePreserves == ASSUME IInv, HypothesisDone PROVE IInv'
<1>1. /\ TypeOK /\ DecodeInReach /\ SpansOrdered
      /\ Measured /\ decode.key = "tiny" /\ UNCHANGED <<done, baseEnd>>
  BY DEF HypothesisDone, IInv
<1>2. /\ task = "awaiting" /\ (task' = "sleeping" \/ task' = "ended")
      /\ decode' = NoDecode /\ orphans' \in Nat /\ idle' \in Nat /\ lastDecode' \in 0 .. MaxCost
      /\ UNCHANGED <<turnVars, spent>>
  BY <1>1, MeasuredFacts
<1>3. /\ committedEnd \in Time /\ committedEnd \in Int /\ window \in 0 .. AgreementN - 1
      /\ baseEnd \in Time /\ baseEnd \in Int /\ pending \in Seq(Span) /\ done \in Seq(Read)
      /\ decode.to \in Time /\ decode.to \in Int /\ decode.to <= Reach
  <2>1. decode \in Decode
    BY <1>1 DEF TypeOK
  <2>2. decode.to \in Time /\ decode.to \in Int
    BY <2>1, Sizes
  <2>3. QED
    BY <1>1, <1>2, <2>2, Sizes DEF TypeOK, DecodeInReach
<1>4. window' \in 0 .. AgreementN - 1
  BY <1>3, AgreementNAssumption DEF HypothesisDone, Smaller
<1>5. \/ committedEnd' = committedEnd
      \/ committedEnd' \in committedEnd .. decode.to - TailGuard
  BY DEF HypothesisDone
<1>6. /\ committedEnd' \in Time /\ committedEnd' \in Int /\ committedEnd <= committedEnd'
      /\ committedEnd' <= committedEnd \/ committedEnd' <= decode.to
  BY <1>3, <1>5, TailGuardAssumption, MaxTimeAssumption DEF Time
<1>7. committedEnd' <= committedEnd \/ committedEnd' <= Reach
  <2>1. Reach \in Int
    BY <1>1, Sizes DEF Reach, TypeOK
  <2>2. QED
    BY <1>3, <1>6, <2>1
<1>8. CASE mode.two /\ committedEnd' > committedEnd
  <2> DEFINE s == [start |-> committedEnd, end |-> committedEnd']
  <2>1. pending' = Append(pending, s)
    BY <1>8 DEF HypothesisDone
  <2>2. s \in Span /\ s.start = committedEnd /\ s.end = committedEnd'
    BY <1>3, <1>6 DEF Span
  <2> HIDE DEF s
  <2>3. pending' \in Seq(Span) /\ Tile(pending, baseEnd, committedEnd)'
    <3>1. Tile(pending, baseEnd, committedEnd) /\ s.start < s.end
      BY <1>3, <1>6, <1>8, <2>2 DEF IInv
    <3>2. pending' \in Seq(Span) /\ Tile(pending', baseEnd, committedEnd')
      BY <1>3, <2>1, <2>2, <3>1, TileAppend
    <3>3. QED
      BY <1>1, <3>2 DEF Tile
  <2>4. SpansOrdered'
    BY <1>1, <1>2, <1>3, <1>6, <1>8 DEF SpansOrdered, Log!Timed, turnVars
  <2>5. Tile(done, 0, baseEnd)'
    BY <1>1, <1>8 DEF IInv, Tile
  <2>6. QED
    BY <1>1, <1>2, <1>3, <1>4, <1>6, <1>7, <2>3, <2>4, <2>5, LoopPreserves
<1>9. CASE ~mode.two \/ committedEnd' = committedEnd
  <2>1. pending' = pending
    BY <1>3, <1>9 DEF HypothesisDone
  <2>2. SpansOrdered'
    BY <1>1, <1>2, <1>9, <2>1 DEF SpansOrdered, Log!Timed, turnVars
  <2>3. mode.two => Tile(done, 0, baseEnd)' /\ Tile(pending, baseEnd, committedEnd)'
    BY <1>1, <1>9, <2>1 DEF IInv, Tile
  <2>4. QED
    BY <1>1, <1>2, <1>3, <1>4, <1>6, <1>7, <2>1, <2>2, <2>3, LoopPreserves
<1>10. QED
  BY <1>3, <1>6, <1>8, <1>9

LEMMA BatchDonePreserves == ASSUME IInv, BatchDone PROVE IInv'
<1>1. /\ TypeOK /\ Measured /\ decode.key = "base" /\ Complete(decode.spans, "base")
      /\ mode.two /\ pending # <<>> /\ decode.spans = Len(pending)
  BY DEF BatchDone, IInv, DecodeInReach
<1>2. /\ task = "awaiting" /\ (task' = "sleeping" \/ task' = "ended")
      /\ decode' = NoDecode /\ orphans' \in Nat /\ idle' \in Nat /\ lastDecode' \in 0 .. MaxCost
      /\ UNCHANGED <<turnVars, spent>>
  BY <1>1, MeasuredFacts
<1>3. Complete(Len(pending), "base")
  BY <1>1
<1>4. /\ SpansOrdered' /\ Tile(done, 0, baseEnd)' /\ Tile(pending, baseEnd, committedEnd)'
      /\ pending' \in Seq(Span) /\ done' \in Seq(Read) /\ baseEnd' \in Time
      /\ UNCHANGED <<committedEnd, window>>
  BY <1>1, <1>2, <1>3, CompletePreserves DEF Source, turnVars
<1>5. committedEnd' <= committedEnd /\ committedEnd \in Time /\ window \in 0 .. AgreementN - 1
  BY <1>1, <1>4, Sizes DEF TypeOK
<1>6. QED
  BY <1>1, <1>2, <1>4, <1>5, LoopPreserves

\* The flush at the endpoint keeps the tiling, and moves no boundary of tiny's.
LEMMA FlushFacts ==
    ASSUME IInv, Flush, UNCHANGED mode
    PROVE  /\ SpansOrdered'
           /\ mode.two => Tile(done, 0, baseEnd)' /\ Tile(pending, baseEnd, committedEnd)'
           /\ pending' \in Seq(Span) /\ done' \in Seq(Read) /\ baseEnd' \in Time
           /\ UNCHANGED <<committedEnd, window>>
<1>1. CASE mode.two /\ BatchReady(TRUE)
  <2>1. Complete(Len(pending), "tiny") /\ pending # <<>> /\ "tiny" \in Source
    BY <1>1 DEF Flush, BatchReady, Source
  <2>2. QED
    BY <1>1, <2>1, CompletePreserves
<1>2. CASE ~(mode.two /\ BatchReady(TRUE))
  <2>1. UNCHANGED textVars
    BY <1>2 DEF Flush
  <2>2. QED
    BY <2>1, TextFrame DEF IInv, TypeOK, textVars
<1>3. QED
  BY <1>1, <1>2

\* The final: nobody listens any more, and it starts where the transcript ends.
LEMMA FinalBegins ==
    ASSUME IInv, phase \in {"talking", "waiting"}, phase' = "final",
           task' = "none", decode' = NoDecode, orphans' \in Nat,
           Flush, tailFrom' = TailStart, have' = 0, heard' = Reach,
           UNCHANGED <<mode, turn, elapsed, paceVars>>
    PROVE  IInv'
<1>1. TypeOK /\ LeftOver
  BY DEF IInv
<1>2. /\ SpansOrdered'
      /\ mode.two => Tile(done, 0, baseEnd)' /\ Tile(pending, baseEnd, committedEnd)'
      /\ pending' \in Seq(Span) /\ done' \in Seq(Read) /\ baseEnd' \in Time
      /\ UNCHANGED <<committedEnd, window>>
  BY FlushFacts
<1>3. committedEnd \in Time /\ committedEnd <= Reach /\ Reach \in Time
  BY <1>1 DEF LeftOver, Reach, TypeOK
<1>4. TypeOK'
  <2>1. NoDecode \in Decode
    BY Sizes, MaxCostAssumption DEF NoDecode
  <2>2. tailFrom' \in Time
    BY <1>2, <1>3 DEF TailStart
  <2>3. QED
    BY <1>1, <1>2, <1>3, <2>1, <2>2, Sizes DEF TypeOK, paceVars
<1>5. DecodeInReach'
  BY DEF DecodeInReach, NoDecode
<1>6. LeftOver'
  BY <1>2, <1>3 DEF LeftOver, Reach
<1>7. TailMarked'
  BY <1>2 DEF TailMarked, TailStart
<1>8. QED
  BY <1>2, <1>4, <1>5, <1>6, <1>7 DEF IInv

LEMMA StoppedPreserves == ASSUME IInv, Stopped PROVE IInv'
<1>1. /\ TypeOK /\ DecodeInReach /\ LeftOver /\ phase = "talking" /\ Reach = have
      /\ heard' = have /\ have' = 0 /\ UNCHANGED <<mode, turn, elapsed, paceVars>>
      /\ have \in Nat /\ have \in Time /\ committedEnd \in Int /\ committedEnd <= have
      /\ mode.endpoint \in {"race", "wait"}
  BY ModeAssumption, Sizes DEF Stopped, IInv, Reach, LeftOver, TypeOK, Time
<1>2. /\ IF mode.endpoint = "race" THEN Cancel ELSE UNCHANGED <<task, decode, orphans>>
      /\ orphans' \in Nat
  BY <1>1 DEF Stopped, Cancel, TypeOK
<1>3. task' # "none" => mode.endpoint = "wait" /\ UNCHANGED <<task, decode, orphans>>
  BY <1>1, <1>2 DEF Cancel
<1>4. task' = "none" => decode' = NoDecode
  BY <1>1, <1>2 DEF Cancel, DecodeInReach
<1>5. ASSUME UNCHANGED <<textVars, tailFrom>>, phase' = "quiet" \/ phase' = "waiting",
             phase' = "quiet" => have = 0, phase' = "waiting" => mode.endpoint = "wait"
      PROVE  IInv'
  <2>1. /\ decode \in Decode
        /\ NoDecode \in Decode
        /\ decode.from \in Time /\ decode.to \in Time
    BY <1>1, Sizes, MaxCostAssumption DEF TypeOK, NoDecode
  <2>2. TypeOK'
    <3>1. task' \in {"none", "sleeping", "awaiting", "ended"}
          /\ (decode' = NoDecode \/ decode' = decode)
      BY <1>1, <1>2 DEF Cancel, TypeOK
    <3>2. QED
      BY <1>1, <1>2, <1>5, <2>1, <3>1, Sizes DEF TypeOK, textVars, paceVars
  <2>3. Reach' = have
    BY <1>1, <1>5 DEF Reach
  <2>4. DecodeInReach'
    <3>1. CASE task' = "none"
      BY <1>4, <3>1 DEF DecodeInReach, NoDecode
    <3>2. CASE task' # "none"
      BY <1>1, <1>3, <1>5, <2>3, <3>2 DEF DecodeInReach, textVars
    <3>3. QED
      BY <3>1, <3>2
  <2>5. LeftOver'
    BY <1>1, <1>3, <1>5, <2>3 DEF LeftOver, textVars, paceVars
  <2>6. TailMarked'
    BY <1>5 DEF TailMarked
  <2>7. QED
    BY <1>1, <1>5, <2>2, <2>4, <2>5, <2>6, TextFrame DEF IInv
<1>6. CASE have = 0
  <2>1. phase' = "quiet" /\ UNCHANGED <<textVars, tailFrom>>
    BY <1>6 DEF Stopped
  <2>2. QED
    BY <1>5, <1>6, <2>1
<1>7. CASE have > 0 /\ mode.endpoint = "wait" /\ task # "none"
  <2>1. phase' = "waiting" /\ UNCHANGED <<textVars, tailFrom>>
    BY <1>7, <1>1 DEF Stopped
  <2>2. QED
    BY <1>5, <1>7, <2>1
<1>8. CASE have > 0 /\ (mode.endpoint = "race" \/ task = "none")
  <2>1. have # 0 /\ ~(have > 0 /\ mode.endpoint = "wait" /\ task # "none")
    BY <1>1, <1>8
  <2>2. phase' = "final" /\ Flush /\ tailFrom' = TailStart
    BY <2>1 DEF Stopped
  <2>3. task' = "none" /\ decode' = NoDecode
    BY <1>1, <1>2, <1>4, <1>8 DEF Cancel
  <2>4. QED
    BY <1>1, <1>2, <2>2, <2>3, FinalBegins
<1>9. QED
  BY <1>1, <1>6, <1>7, <1>8

LEMMA WaitOverPreserves == ASSUME IInv, WaitOver PROVE IInv'
<1>1. /\ phase = "waiting" /\ phase' = "final" /\ Cancel /\ Flush /\ tailFrom' = TailStart
      /\ UNCHANGED <<mode, turn, have, heard, elapsed, paceVars>>
  BY DEF WaitOver
<1>2. task' = "none" /\ decode' = NoDecode /\ orphans' \in Nat
  BY <1>1 DEF Cancel, IInv, TypeOK
<1>3. have' = 0 /\ heard' = Reach
  BY <1>1 DEF IInv, LeftOver, Reach
<1>4. QED
  BY <1>1, <1>2, <1>3, FinalBegins

LEMMA QuietPreserves == ASSUME IInv, OrphanDone \/ FinalDone \/ UNCHANGED vars PROVE IInv'
<1>1. /\ UNCHANGED <<mode, turn, have, heard, elapsed, tailFrom, task, decode, paceVars, textVars>>
      /\ orphans' \in Nat /\ (phase' = phase \/ (phase = "final" /\ phase' = "quiet"))
  BY DEF OrphanDone, FinalDone, vars, turnVars, IInv, TypeOK
<1>2. TypeOK'
  BY <1>1 DEF IInv, TypeOK, paceVars, textVars
<1>3. DecodeInReach' /\ LeftOver' /\ TailMarked'
  BY <1>1 DEF IInv, DecodeInReach, LeftOver, TailMarked, Reach, paceVars, textVars
<1>4. QED
  BY <1>1, <1>2, <1>3, TextFrame DEF IInv

LEMMA NextPreserves == IInv /\ [Next]_vars => IInv'
<1> SUFFICES ASSUME IInv, [Next]_vars PROVE IInv'
  OBVIOUS
<1>1. CASE Started \/ Tick \/ \E job \in Source : Begin(job)
  BY <1>1, StartedPreserves, TickPreserves, BeginPreserves
<1>2. CASE BatchWithoutAudio \/ LoopEnds \/ HypothesisDone \/ BatchDone
  BY <1>2, BatchWithoutAudioPreserves, LoopEndsPreserves, HypothesisDonePreserves,
     BatchDonePreserves
<1>3. CASE Stopped \/ WaitOver
  BY <1>3, StoppedPreserves, WaitOverPreserves
<1>4. CASE OrphanDone \/ FinalDone \/ UNCHANGED vars
  BY <1>4, QuietPreserves
<1>5. QED
  BY <1>1, <1>2, <1>3, <1>4 DEF Next

-----------------------------------------------------------------------------
THEOREM Invariance == Spec => []IInv
<1>1. QED
  BY InitEstablishes, NextPreserves, PTL DEF Spec

\* Every variable has the shape stt.py, pacing.py and twotier.py give it.
THEOREM TypeCorrect == Spec => []TypeOK
<1>1. IInv => TypeOK
  BY DEF IInv
<1>2. QED
  BY <1>1, Invariance, PTL

\* Whatever the turn was cut into, cancelled, left over or flushed, the audio
\* transcribed, queued and not yet committed lie side by side, base reads its
\* batches to their end, and the final starts where the transcript ends
\* (TwoTierListener, _run_span, transcribe_final).
THEOREM SpansAlwaysTile == Spec => []SpansTile
<1>1. ASSUME IInv PROVE SpansTile
  <2>1. mode.two => Tile(done, 0, baseEnd) /\ Tile(pending, baseEnd, committedEnd)
    BY <1>1 DEF IInv
  <2>2. decode.key = "base" => decode.to = pending[decode.spans].end
    BY <1>1 DEF IInv, DecodeInReach, Tile
  <2>3. ASSUME phase = "final"
        PROVE  tailFrom <= heard /\ (mode.two => Tile(done, 0, tailFrom))
    <3>1. committedEnd <= heard /\ tailFrom = IF mode.two THEN baseEnd ELSE committedEnd
      BY <1>1, <2>3 DEF IInv, LeftOver, Reach, TailMarked
    <3>2. mode.two => baseEnd <= committedEnd
      BY <1>1 DEF IInv, SpansOrdered
    <3>3. baseEnd \in Int /\ committedEnd \in Int /\ heard \in Int
      BY <1>1, Sizes DEF IInv, TypeOK
    <3>4. QED
      BY <1>1, <3>1, <3>2, <3>3 DEF IInv
  <2>4. QED
    BY <2>1, <2>2, <2>3 DEF SpansTile
<1>2. QED
  BY <1>1, Invariance, PTL

-----------------------------------------------------------------------------
(* The duty target.                                                        *)

\* A rest of (1/duty - 1) x d after a decode of d pays for it.
LEMMA RestPays ==
    ASSUME NEW s \in Int, NEW e \in Int, NEW i \in Int, NEW d \in Int,
           (s - d) * DutyDen <= (e - i - d) * DutyNum,
           (DutyDen - DutyNum) * d <= i * DutyNum
    PROVE  s * DutyDen <= e * DutyNum
<1>1. DutyNum \in Int /\ DutyDen \in Int
  BY DutyAssumption
<1>2. (s - d) * DutyDen = s * DutyDen - d * DutyDen
  BY <1>1
<1>3. (e - i - d) * DutyNum = e * DutyNum - i * DutyNum - d * DutyNum
  BY <1>1
<1>4. (DutyDen - DutyNum) * d = d * DutyDen - d * DutyNum
  BY <1>1
<1>5. /\ s * DutyDen \in Int /\ d * DutyDen \in Int /\ e * DutyNum \in Int
      /\ i * DutyNum \in Int /\ d * DutyNum \in Int
  BY <1>1
<1>6. QED
  BY <1>2, <1>3, <1>4, <1>5

\* With one engine a decode starts only when the issuer has said so, which the
\* self-paced one does after the rest it owes.
LEMMA StartsWithinDuty ==
    ASSUME IInv, Paid, NEW job \in Source, Begin(job), mode.rule = "controlled", ~mode.two
    PROVE  WithinDuty
<1>1. /\ TypeOK /\ task = "sleeping" /\ Job = "tiny"
      /\ spent \in Nat /\ elapsed \in Nat /\ idle \in Nat /\ lastDecode \in Nat
  BY DEF Begin, Job, Source, IInv, TypeOK
<1>2. ~RestOwed(lastDecode, have - committedEnd, idle)
  <2>1. Reason \in {"issue", "tick"}
    BY <1>1 DEF Job
  <2>2. Reason = SelfPaced(mode.prior, lastDecode, Decoding, idle, have - committedEnd, have,
                           window)
    BY DEF Reason
  <2>3. have - committedEnd < MinUncommitted \/ have - committedEnd >= MinUncommitted
    BY <1>1, MinUncommittedAssumption DEF TypeOK, Time
  <2>4. QED
    BY <2>1, <2>2, <2>3 DEF SelfPaced
<1>3. (DutyDen - DutyNum) * lastDecode <= idle * DutyNum
  <2>1. DutyNum \in Nat /\ DutyDen \in Nat
    BY DutyAssumption
  <2>2. CASE lastDecode = 0
    <3>1. 0 <= idle * DutyNum
      BY <1>1, <2>1
    <3>2. (DutyDen - DutyNum) * lastDecode = 0
      BY <2>1, <2>2
    <3>3. QED
      BY <3>1, <3>2
  <2>3. CASE lastDecode # 0
    <3>1. ~(idle * DutyNum < (DutyDen - DutyNum) * lastDecode)
      BY <1>2, <2>3 DEF RestOwed, Expected
    <3>2. idle * DutyNum \in Int /\ (DutyDen - DutyNum) * lastDecode \in Int
      BY <1>1, <2>1
    <3>3. QED
      BY <3>1, <3>2
  <2>4. QED
    BY <2>2, <2>3
<1>4. (spent - lastDecode) * DutyDen <= (elapsed - idle - lastDecode) * DutyNum
  BY <1>1 DEF Paid
<1>5. spent * DutyDen <= elapsed * DutyNum
  BY <1>1, <1>3, <1>4, RestPays
<1>6. QED
  BY <1>5 DEF WithinDuty

LEMMA PaidPreserved == IInv /\ Paid /\ [Next]_vars => Paid'
<1> SUFFICES ASSUME IInv, Paid, [Next]_vars, mode.rule = "controlled", ~mode.two
             PROVE  Paid'
  <2>1. [Next]_vars => UNCHANGED mode
    BY DEF Next, Started, Tick, Begin, BatchWithoutAudio, LoopEnds, HypothesisDone, Measured,
           BatchDone, OrphanDone, Stopped, WaitOver, FinalDone, vars, turnVars
  <2>2. QED
    BY <2>1 DEF Paid
<1>1. /\ TypeOK /\ spent \in Int /\ elapsed \in Int /\ idle \in Int /\ lastDecode \in Int
      /\ decode.ran \in Int /\ DutyNum \in Int /\ DutyDen \in Int
  BY DutyAssumption DEF IInv, TypeOK
<1>2. CASE Started
  <2>1. CASE task = "none"
    <3>1. spent' = 0 /\ elapsed' = 0 /\ idle' = 0 /\ lastDecode' = 0 /\ task' = "sleeping"
      BY <1>2, <2>1 DEF Started
    <3>2. QED
      BY <1>1, <3>1 DEF Paid
  <2>2. CASE task # "none"
    <3>1. /\ phase = "quiet" /\ spent' = 0 /\ elapsed' = 0
          /\ UNCHANGED <<idle, lastDecode, task, decode>>
      BY <1>2, <2>2 DEF Started
    <3>2. idle = 0 /\ lastDecode = 0 /\ task # "awaiting"
      <4>1. decode.from \in Time /\ decode.to \in Time
        BY <1>1 DEF TypeOK
      <4>2. ~(decode.from < decode.to /\ decode.to <= 0)
        BY <4>1 DEF Time
      <4>3. QED
        BY <2>2, <3>1, <4>2 DEF IInv, LeftOver, DecodeInReach, Reach
    <3>3. QED
      BY <1>1, <3>1, <3>2 DEF Paid
  <2>3. QED
    BY <2>1, <2>2
<1>3. CASE Tick
  <2>1. /\ task' = task /\ lastDecode' = lastDecode /\ elapsed' = elapsed + 1 /\ idle' = idle + 1
        /\ task = "awaiting" => spent' = spent + 1 /\ decode' = [decode EXCEPT !.ran = @ + 1]
        /\ task # "awaiting" => spent' = spent
    BY <1>3 DEF Tick
  <2>2. task = "awaiting" => decode'.ran = decode.ran + 1
    BY <1>1, <2>1 DEF TypeOK
  <2>3. /\ elapsed' - idle' - lastDecode' = elapsed - idle - lastDecode
        /\ task = "awaiting" => /\ spent' - decode'.ran = spent - decode.ran
                                /\ elapsed' - decode'.ran = elapsed - decode.ran
    BY <1>1, <2>1, <2>2
  <2>4. QED
    BY <2>1, <2>3 DEF Paid
<1>4. ASSUME NEW job \in Source, Begin(job) PROVE Paid'
  <2>1. spent * DutyDen <= elapsed * DutyNum
    BY <1>4, StartsWithinDuty DEF WithinDuty
  <2>2. task' = "awaiting" /\ decode'.ran = 0 /\ UNCHANGED <<spent, elapsed>>
    BY <1>4 DEF Begin, paceVars, turnVars
  <2>3. spent' - decode'.ran = spent /\ elapsed' - decode'.ran = elapsed
    BY <1>1, <2>2
  <2>4. QED
    BY <2>1, <2>2, <2>3 DEF Paid
<1>5. CASE HypothesisDone \/ BatchDone
  <2>1. /\ task = "awaiting" /\ task' # "awaiting" /\ decode.ran > 0 /\ idle' = 0
        /\ lastDecode' = decode.ran /\ UNCHANGED <<spent, elapsed>>
    BY <1>5 DEF HypothesisDone, BatchDone, Measured, Rested, NoteDecode, turnVars
  <2>2. spent' - lastDecode' = spent - decode.ran
        /\ elapsed' - idle' - lastDecode' = elapsed - decode.ran
    BY <1>1, <2>1
  <2>3. QED
    BY <2>1, <2>2 DEF Paid
<1>6. CASE BatchWithoutAudio \/ LoopEnds
  BY <1>6 DEF BatchWithoutAudio, LoopEnds, Rested, Paid, paceVars, turnVars
<1>7. CASE Stopped \/ WaitOver
  <2>1. /\ UNCHANGED <<elapsed, paceVars>>
        /\ task' = "none" \/ UNCHANGED <<task, decode>>
    BY <1>7 DEF Stopped, WaitOver, Cancel
  <2>2. QED
    BY <2>1 DEF Paid, paceVars
<1>8. CASE OrphanDone \/ FinalDone \/ UNCHANGED vars
  <2>1. UNCHANGED <<elapsed, paceVars, task, decode>>
    BY <1>8 DEF OrphanDone, FinalDone, vars, turnVars
  <2>2. QED
    BY <2>1 DEF Paid, paceVars
<1>9. QED
  BY <1>2, <1>3, <1>4, <1>5, <1>6, <1>7, <1>8 DEF Next

\* Nobody but Begin puts a decode in a thread.
LEMMA OnlyBeginStarts ==
    ASSUME [Next]_vars, Starts
    PROVE  \E job \in Source : Begin(job)
BY DEF Starts, Next, Started, Tick, BatchWithoutAudio, LoopEnds, HypothesisDone, BatchDone,
       Measured, Rested, OrphanDone, Stopped, WaitOver, Cancel, FinalDone, vars

\* As long as one engine does all the listening, whatever its decodes cost and
\* whenever the user pauses, no decode starts before the decode time of the
\* turn is within duty_max of the time since it opened (SelfPacedIssuer.decide).
THEOREM DutyIsHeld == Spec => DutyHeld
<1>1. Init => Paid
  BY DEF Init, Paid
<1>2. IInv /\ Paid /\ [Next]_vars =>
          [Starts /\ mode.rule = "controlled" /\ ~mode.two => WithinDuty]_vars
  BY OnlyBeginStarts, StartsWithinDuty
<1>3. QED
  BY <1>1, <1>2, PaidPreserved, Invariance, PTL DEF Spec, DutyHeld

-----------------------------------------------------------------------------
(* Refinement: the transcript is an append-only log.                       *)

LEMMA CompleteAppends ==
    ASSUME IInv, mode.two, pending # <<>>, NEW key \in Source, Complete(Len(pending), key)
    PROVE  Log!Keep
<1>1. /\ done' \in Seq(Read) /\ Len(done') = Len(done) + 1
      /\ \A i \in DOMAIN done : done'[i] = done[i]
      /\ done'[Len(done')].start = baseEnd /\ done'[Len(done')].end = committedEnd
      /\ baseEnd' = committedEnd /\ Log!Timed(done')
      /\ \A i \in DOMAIN done' : done'[i].start < done'[i].end
  BY CompleteFacts
<1>2. done \in Seq(Read) /\ Len(done) \in Nat /\ baseEnd \in Int
  BY Sizes DEF IInv, TypeOK
<1>3. done' \in Seq(Log!Word)
  <2>1. \A i \in 1 .. Len(done') : done'[i] \in Read /\ done'[i].start < done'[i].end
    BY <1>1
  <2>2. \A w \in Read : w.start < w.end => w \in Log!Word
    BY DEF Read, Time, Log!Word, Log!Time
  <2>3. QED
    BY <1>1, <2>1, <2>2
<1>4. Len(done') > Len(done) /\ done'[Len(done) + 1].start >= baseEnd
  BY <1>1, <1>2
<1>5. QED
  BY <1>1, <1>3, <1>4 DEF Log!Keep

\* Base's readings and tiny's alike are only ever appended, in the order of
\* the audio; the next turn alone takes them away, all of them.
THEOREM Refinement == Spec => ImplementsLog
<1>1. Init => Log!Init
  BY DEF Init, Log!Init
<1>2. ASSUME IInv, [Next]_vars PROVE [Log!Next]_(Log!vars)
  <2>1. CASE Started
    BY <2>1 DEF Started, ResetText, textVars, Log!Next, Log!NewTurn, Log!vars
  <2>2. CASE BatchWithoutAudio
    <3>1. Complete(Len(pending), "tiny") /\ mode.two /\ BatchReady(FALSE)
      BY <2>2 DEF BatchWithoutAudio, Job, ChooseJob
    <3>2. pending # <<>> /\ "tiny" \in Source
      BY <3>1 DEF BatchReady, Source
    <3>3. QED
      BY <1>2, <3>1, <3>2, CompleteAppends DEF Log!Next
  <2>3. CASE BatchDone
    <3>1. Complete(Len(pending), "base") /\ mode.two /\ pending # <<>> /\ "base" \in Source
      BY <1>2, <2>3 DEF BatchDone, IInv, DecodeInReach, Source
    <3>2. QED
      BY <1>2, <3>1, CompleteAppends DEF Log!Next
  <2>4. CASE Stopped \/ WaitOver
    <3>1. UNCHANGED textVars \/ Flush
      BY <2>4 DEF Stopped, WaitOver
    <3>2. CASE mode.two /\ BatchReady(TRUE) /\ Flush
      <4>1. Complete(Len(pending), "tiny") /\ pending # <<>> /\ "tiny" \in Source
        BY <3>2 DEF Flush, BatchReady, Source
      <4>2. QED
        BY <1>2, <3>2, <4>1, CompleteAppends DEF Log!Next
    <3>3. CASE UNCHANGED textVars
      BY <3>3 DEF textVars, Log!vars
    <3>4. QED
      BY <3>1, <3>2, <3>3 DEF Flush
  <2>5. CASE Tick \/ (\E job \in Source : Begin(job)) \/ LoopEnds \/ HypothesisDone \/ OrphanDone
             \/ FinalDone \/ UNCHANGED vars
    BY <2>5 DEF Tick, Begin, LoopEnds, HypothesisDone, OrphanDone, FinalDone, vars, textVars,
                Log!vars
  <2>6. QED
    BY <1>2, <2>1, <2>2, <2>3, <2>4, <2>5 DEF Next
<1>3. QED
  BY <1>1, <1>2, Invariance, PTL DEF Spec, ImplementsLog, Log!Spec
===============================================================================
