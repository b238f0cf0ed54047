------------------------------ MODULE TurnsProofs ------------------------------
(***************************************************************************)
(* Turns and Scores, for every playlist and any number of splits and       *)
(* hangs: the type invariant; that a split invalidates both its halves;    *)
(* that the gate never lets a final land on a turn of another file; that   *)
(* plain turns hear their own replies and never void the run; that a turn  *)
(* which is scored is scored on its own final; and that the scoring by     *)
(* text keeps every valid turn that holds the whole of its file.           *)
(* At the end of the reply half of a turn, Reply: that a turn is closed    *)
(* after all of its reply was said, and never given up while it is heard,  *)
(* whatever the lengths at which the text is cut.                          *)
(***************************************************************************)
EXTENDS Scores, FiniteSetTheorems, WellFoundedInduction, TLAPS

\* Nothing is flagged beyond the newest turn, so a record's flag is settled
\* when it is written; a record that was cut has its flag, and its successor's
\* too, and flagged records are invalid.
FlagsSettled ==
    /\ splitTurns \subseteq 1 .. turn
    /\ \A i \in DOMAIN log :
          /\ log[i].cut => i \in splitTurns /\ i + 1 \in splitTurns
          /\ i \in splitTurns => ~log[i].valid

\* What is not finished with is of the file being played: the open turn, the
\* user's speech, and every final still to land.
OneFile ==
    /\ open \/ talking => turn # 0
    /\ pump \in {"gate", "done"} => ~talking
    /\ pump = "gate" => file < Files
    /\ \A i \in DOMAIN finals : finals[i] <= turn
    /\ void = "no" =>
          /\ open \/ talking => heardIn[turn] = file
          /\ \A i \in DOMAIN finals : heardIn[finals[i]] = file
          /\ marks.final # 0 => heardIn[marks.final] = heardIn[turn]

IInv == TypeOK /\ FlagsSettled /\ OneFile

\* Plain turns, one of each file: an endpoint never comes before its file's
\* end, so the next onset is the next file's.
OneTurnAFile ==
    /\ void = "no" /\ ~hung
    /\ turn \in {file - 1, file}
    /\ turn # 0 => heardIn[turn] = turn
    /\ turn = file - 1 => pump = "playing" /\ ~open
    /\ talking => open

\* What is decoded, generated, synthesized and heard of a plain turn is its
\* own: nothing of it is pending once it is closed, and nothing is marked on it
\* before its user falls silent.
OneReplyATurn ==
    /\ finals \in {<<>>, <<turn>>} /\ llm \in {0, turn} /\ tts \in {<<>>, <<turn>>}
    /\ ~open \/ talking => finals = <<>> /\ llm = 0 /\ tts = <<>>
    /\ talking => marks = NoMarks
    /\ turn = file /\ ~talking => marks.endpoint = "near"
    /\ open /\ ~talking => (finals = <<>> <=> marks.final # 0)
    /\ marks.final = 0 => llm = 0 /\ tts = <<>>
    /\ marks.done => marks.final # 0 /\ llm = 0
    /\ marks.audio \in {0, turn}
    /\ \A i \in DOMAIN log : log[i].audio \in {0, i}

PlainTurns == plain => OneTurnAFile /\ OneReplyATurn

\* The finals in the log are of their turns' files, while the run is not void
\* and when it became so only as its log was closed.
FinalsOfTheirFiles ==
    /\ marks.final <= turn
    /\ closed => ~open
    /\ \A i \in DOMAIN log : log[i].final <= turn
    /\ void = "no" \/ (closed /\ ~noted) =>
          \A i \in DOMAIN log : log[i].final # 0 => heardIn[log[i].final] = heardIn[i]

-----------------------------------------------------------------------------
LEMMA Sizes == MaxTurns \in Nat /\ MaxTurns >= 1 /\ Turn \subseteq Owner /\ 0 \in Owner
BY FilesAssumption, MaxSplitsAssumption DEF MaxTurns, Turn, Owner

LEMMA BooleanChecks ==
    ASSUME NEW forced \in BOOLEAN, NEW reason, NEW flagged
    PROVE  Scorable(forced, reason, flagged) \in BOOLEAN
BY DEF Scorable

\* What finishing the open turn leaves: one more record, which is invalid if
\* its turn is flagged, and a verdict that is never taken back.
LEMMA FinishFacts ==
    ASSUME TypeOK, FlagsSettled, open, turn # 0,
           NEW forced \in BOOLEAN, NEW reason \in Reason, NEW flagged \in SUBSET Turn,
           splitTurns \subseteq flagged, flagged \subseteq splitTurns \cup {turn, turn + 1},
           forced => turn \in flagged /\ turn + 1 \in flagged,
           Finish(forced, reason, flagged)
    PROVE  /\ lastClose' \in Reason
           /\ void' \in Verdict
           /\ void' = "no" => void = "no"
           /\ doubted' \subseteq 1 .. MaxTurns + 1
           /\ log' \in Seq(Record)
           /\ Len(log') = turn
           /\ \A i \in DOMAIN log' :
                 /\ log'[i].turn = i
                 /\ log'[i].cut => i \in flagged /\ i + 1 \in flagged
                 /\ i \in flagged => ~log'[i].valid
<1> DEFINE r == [turn |-> turn, valid |-> Scorable(forced, reason, flagged),
                 cut |-> forced, final |-> marks.final, audio |-> marks.audio]
<1>1. turn \in Turn /\ marks.final \in Owner /\ marks.audio \in Owner
  <2>1. turn \in Owner /\ marks \in Clock
    BY DEF TypeOK, TurnTypeOK
  <2>2. QED
    BY <2>1, Sizes DEF Owner, Turn, Clock
<1>2. r \in Record
  BY <1>1, BooleanChecks DEF Record
<1>3. log \in Seq(Record) /\ Len(log) = turn - 1
  BY DEF TypeOK, LogTypeOK
<1>4. log' = Append(log, r) /\ lastClose' = reason
  BY DEF Finish
<1>5. r.turn = turn /\ r.cut = forced /\ (r.valid => turn \notin flagged)
  BY DEF Scorable
<1> HIDE DEF r
<1>6. log' \in Seq(Record) /\ Len(log') = turn /\ log'[turn] = r
      /\ \A i \in 1 .. turn - 1 : log'[i] = log[i]
  BY <1>1, <1>2, <1>3, <1>4 DEF Turn
<1>7. ASSUME NEW i \in DOMAIN log'
      PROVE  /\ log'[i].turn = i
             /\ log'[i].cut => i \in flagged /\ i + 1 \in flagged
             /\ i \in flagged => ~log'[i].valid
  <2>1. DOMAIN log' = 1 .. turn /\ DOMAIN log = 1 .. turn - 1
    BY <1>1, <1>3, <1>6 DEF Turn
  <2>2. CASE i = turn
    BY <2>2, <1>5, <1>6
  <2>3. CASE i # turn
    <3>1. i \in DOMAIN log /\ log'[i] = log[i] /\ i < turn
      BY <2>1, <2>3, <1>1, <1>6 DEF Turn
    <3>2. i \in flagged => i \in splitTurns
      BY <3>1, <1>1, <2>1 DEF Turn
    <3>3. QED
      BY <3>1, <3>2 DEF TypeOK, LogTypeOK, FlagsSettled
  <2>4. QED
    BY <2>2, <2>3
<1>8. void' \in Verdict /\ (void' = "no" => void = "no")
  BY DEF Finish, TypeOK, TurnTypeOK, Verdict
<1>9. doubted' \subseteq 1 .. MaxTurns + 1
  <2>1. doubted \subseteq 1 .. MaxTurns + 1
    BY DEF TypeOK, TurnTypeOK
  <2>2. turn + 1 \in 1 .. MaxTurns + 1
    BY <1>1, Sizes DEF Turn
  <2>3. QED
    BY <2>1, <2>2 DEF Finish
<1>10. QED
  BY <1>4, <1>6, <1>7, <1>8, <1>9

LEMMA InitEstablishes == Init => IInv
<1> SUFFICES ASSUME Init PROVE IInv
  OBVIOUS
<1>1. SourceTypeOK
  <2>1. 1 \in 1 .. Files
    BY FilesAssumption
  <2>2. QED
    BY <2>1 DEF Init, SourceTypeOK
<1>2. TurnTypeOK
  <2>1. NoMarks \in Clock
    BY Sizes DEF NoMarks, Clock
  <2>2. [t \in Turn |-> 0] \in [Turn -> 0 .. Files]
    BY FilesAssumption
  <2>3. QED
    BY <2>1, <2>2, Sizes DEF Init, TurnTypeOK, Verdict
<1>3. LogTypeOK
  <2>1. log = <<>> /\ turn = 0 /\ open = FALSE /\ closed = FALSE /\ noted = FALSE
    BY DEF Init
  <2>2. <<>> \in Seq(Record) /\ Len(<<>>) = 0 /\ DOMAIN <<>> = {}
    OBVIOUS
  <2>3. log \in Seq(Record) /\ Len(log) = (IF open THEN turn - 1 ELSE turn)
    BY <2>1, <2>2
  <2>4. \A i \in DOMAIN log : log[i].turn = i
    BY <2>1, <2>2
  <2>5. closed \in BOOLEAN /\ noted \in BOOLEAN
    BY <2>1
  <2>6. QED
    BY <2>3, <2>4, <2>5 DEF LogTypeOK
<1>4. PipelineTypeOK
  <2>1. /\ finals = <<>> /\ hung = FALSE /\ hangs = 0
        /\ llm = 0 /\ tts = <<>> /\ playing = FALSE /\ sounded = FALSE
    BY DEF Init
  <2>2. 0 \in 0 .. MaxHangs /\ 0 \in Owner /\ <<>> \in Seq(Turn)
    BY Sizes, MaxHangsAssumption
  <2>3. QED
    BY <2>1, <2>2 DEF PipelineTypeOK
<1>5. FlagsSettled
  BY DEF Init, FlagsSettled
<1>6. OneFile
  BY DEF Init, OneFile, NoMarks
<1>7. QED
  BY <1>1, <1>2, <1>3, <1>4, <1>5, <1>6 DEF IInv, TypeOK

\* A turn that is closed, for whatever reason.
LEMMA ClosePreserves ==
    ASSUME IInv, NEW reason \in Reason, CloseTurn(reason),
           UNCHANGED <<sourceVars, talking, sttVars, llm, tts, sounded, plain>>,
           playing' \in BOOLEAN, closed' \in BOOLEAN, noted' \in BOOLEAN
    PROVE  IInv'
<1>1. TypeOK /\ FlagsSettled /\ OneFile
  BY DEF IInv
<1>2. open /\ turn # 0 /\ splitTurns \in SUBSET Turn
  BY DEF CloseTurn, IInv, OneFile, TypeOK, TurnTypeOK
<1>3. Finish(FALSE, reason, splitTurns)
  BY DEF CloseTurn
<1>4. /\ lastClose' \in Reason
      /\ void' \in Verdict
      /\ void' = "no" => void = "no"
      /\ doubted' \subseteq 1 .. MaxTurns + 1
      /\ log' \in Seq(Record)
      /\ Len(log') = turn
      /\ \A i \in DOMAIN log' :
            /\ log'[i].turn = i
            /\ log'[i].cut => i \in splitTurns /\ i + 1 \in splitTurns
            /\ i \in splitTurns => ~log'[i].valid
  BY <1>1, <1>2, <1>3, FinishFacts
<1>5. UNCHANGED <<turn, heardIn, marks, splitTurns>> /\ open' = FALSE
  BY DEF CloseTurn
<1>6. SourceTypeOK'
  BY <1>1 DEF TypeOK, SourceTypeOK, sourceVars
<1>7. TurnTypeOK'
  BY <1>1, <1>4, <1>5 DEF TypeOK, TurnTypeOK
<1>8. LogTypeOK'
  BY <1>4, <1>5 DEF LogTypeOK
<1>9. PipelineTypeOK'
  BY <1>1 DEF TypeOK, PipelineTypeOK, sttVars
<1>10. FlagsSettled'
  BY <1>1, <1>4, <1>5 DEF FlagsSettled
<1>11. OneFile'
  BY <1>1, <1>4, <1>5 DEF OneFile, sourceVars, sttVars
<1>12. QED
  BY <1>6, <1>7, <1>8, <1>9, <1>10, <1>11 DEF IInv, TypeOK

\* A step that writes no record and opens no turn disturbs few parts of the
\* invariant; these are the ones it leaves.
LEMMA TurnFrame ==
    ASSUME IInv, UNCHANGED turnVars, closed' \in BOOLEAN, noted' \in BOOLEAN
    PROVE  TurnTypeOK' /\ LogTypeOK' /\ FlagsSettled'
<1>1. TurnTypeOK'
  BY DEF IInv, TypeOK, TurnTypeOK, turnVars
<1>2. LogTypeOK'
  BY DEF IInv, TypeOK, LogTypeOK, turnVars
<1>3. FlagsSettled'
  BY DEF IInv, FlagsSettled, turnVars
<1>4. QED
  BY <1>1, <1>2, <1>3

LEMMA LogFrame ==
    ASSUME IInv, marks' \in Clock,
           UNCHANGED <<turn, open, heardIn, splitTurns, doubted, lastClose, void, log, closed,
                       noted>>
    PROVE  TurnTypeOK' /\ LogTypeOK' /\ FlagsSettled'
<1>1. TurnTypeOK'
  BY DEF IInv, TypeOK, TurnTypeOK
<1>2. LogTypeOK'
  BY DEF IInv, TypeOK, LogTypeOK
<1>3. FlagsSettled'
  BY DEF IInv, FlagsSettled
<1>4. QED
  BY <1>1, <1>2, <1>3

\* The file source.  A file is let through when nothing of the one before is
\* left to land, or the run is void.
LEMMA SourcePreserves ==
    ASSUME IInv, FileEnds \/ GapEnds \/ GateOpens \/ GateTimesOut
    PROVE  IInv'
<1>1. TypeOK /\ FlagsSettled /\ OneFile
  BY DEF IInv
<1>2. CASE FileEnds
  <2>1. TurnTypeOK' /\ LogTypeOK' /\ FlagsSettled'
    BY <1>1, <1>2, TurnFrame DEF FileEnds, logVars, TypeOK, LogTypeOK
  <2>2. SourceTypeOK' /\ PipelineTypeOK'
    BY <1>1, <1>2 DEF FileEnds, TypeOK, SourceTypeOK, PipelineTypeOK, sttVars, replyVars
  <2>3. OneFile'
    BY <1>1, <1>2 DEF FileEnds, OneFile, turnVars, sttVars
  <2>4. QED
    BY <2>1, <2>2, <2>3 DEF IInv, TypeOK
<1>3. CASE GapEnds
  <2>1. TurnTypeOK' /\ LogTypeOK' /\ FlagsSettled'
    BY <1>1, <1>3, TurnFrame DEF GapEnds, logVars, TypeOK, LogTypeOK
  <2>2. PipelineTypeOK'
    BY <1>1, <1>3 DEF GapEnds, TypeOK, PipelineTypeOK, sttVars, replyVars
  <2>3. drains' \in BOOLEAN
    <3>1. drains \in BOOLEAN /\ (lastClose \in Abnormal) \in BOOLEAN
      BY <1>1 DEF TypeOK, SourceTypeOK
    <3>2. drains' = IF file < Files THEN lastClose \in Abnormal ELSE drains
      BY <1>3 DEF GapEnds
    <3>3. QED
      BY <3>1, <3>2, Zenon
  <2>4. SourceTypeOK'
    BY <1>1, <1>3, <2>3 DEF GapEnds, TypeOK, SourceTypeOK
  <2>5. OneFile'
    BY <1>1, <1>3 DEF GapEnds, OneFile, turnVars, sttVars
  <2>6. QED
    BY <2>1, <2>2, <2>4, <2>5 DEF IInv, TypeOK
<1>4. CASE GateOpens
  <2>1. TurnTypeOK' /\ LogTypeOK' /\ FlagsSettled'
    BY <1>1, <1>4, TurnFrame DEF GateOpens, NextFile, logVars, TypeOK, LogTypeOK
  <2>2. PipelineTypeOK'
    BY <1>1, <1>4 DEF GateOpens, NextFile, TypeOK, PipelineTypeOK, sttVars, replyVars
  <2>3. SourceTypeOK'
    BY <1>1, <1>4, FilesAssumption DEF GateOpens, NextFile, TypeOK, SourceTypeOK, OneFile
  <2>4. OneFile'
    BY <1>1, <1>4 DEF GateOpens, GateClear, busy, NextFile, OneFile, turnVars, sttVars
  <2>5. QED
    BY <2>1, <2>2, <2>3, <2>4 DEF IInv, TypeOK
<1>5. CASE GateTimesOut
  <2>1. TurnTypeOK'
    BY <1>1, <1>5 DEF GateTimesOut, NextFile, TypeOK, TurnTypeOK, Verdict
  <2>2. LogTypeOK'
    BY <1>1, <1>5 DEF GateTimesOut, NextFile, TypeOK, LogTypeOK, logVars
  <2>3. FlagsSettled'
    BY <1>1, <1>5 DEF GateTimesOut, NextFile, FlagsSettled
  <2>4. PipelineTypeOK'
    BY <1>1, <1>5 DEF GateTimesOut, NextFile, TypeOK, PipelineTypeOK, sttVars, replyVars
  <2>5. SourceTypeOK'
    BY <1>1, <1>5, FilesAssumption DEF GateTimesOut, NextFile, TypeOK, SourceTypeOK, OneFile
  <2>6. OneFile'
    BY <1>1, <1>5 DEF GateTimesOut, NextFile, OneFile, sttVars
  <2>7. QED
    BY <2>1, <2>2, <2>3, <2>4, <2>5, <2>6 DEF IInv, TypeOK
<1>6. QED
  BY <1>2, <1>3, <1>4, <1>5

\* A turn opens; the one still open, if any, is cut.
LEMMA UserStartsPreserves ==
    ASSUME IInv, UserStarts
    PROVE  IInv'
<1> DEFINE flagged == splitTurns \cup Halves(turn + 1)
<1>1. TypeOK /\ FlagsSettled /\ OneFile
  BY DEF IInv
<1>2. turn \in Nat /\ turn + 1 \in Turn /\ turn' = turn + 1 /\ open' = TRUE
  <2>1. turn \in 0 .. MaxTurns /\ turn < MaxTurns
    BY <1>1 DEF UserStarts, TypeOK, TurnTypeOK, Owner
  <2>2. QED
    BY <2>1, Sizes DEF UserStarts, TurnStarted, Turn
<1>3. /\ splitTurns' = flagged /\ flagged \in SUBSET Turn
      /\ splitTurns \subseteq flagged /\ flagged \subseteq 1 .. turn + 1
      /\ flagged \subseteq splitTurns \cup {turn, turn + 1}
      /\ open => turn \in flagged /\ turn + 1 \in flagged
      /\ open => turn # 0
  <2>1. splitTurns' = flagged
    BY DEF UserStarts, TurnStarted
  <2>2. splitTurns \subseteq 1 .. turn /\ (open => turn # 0) /\ open \in BOOLEAN
    BY <1>1 DEF FlagsSettled, OneFile, TypeOK, TurnTypeOK
  <2>3. turn # 0 => turn \in 1 .. turn + 1
    BY <1>2
  <2>4. /\ 1 .. turn \subseteq 1 .. turn + 1 /\ 1 .. turn + 1 \subseteq Turn
        /\ turn + 1 \in 1 .. turn + 1
    BY <1>2, Sizes DEF Turn
  <2>5. QED
    BY <2>1, <2>2, <2>3, <2>4 DEF Halves
<1> HIDE DEF flagged
<1>4. IF open THEN Finish(TRUE, "bot_stopped", flagged)
              ELSE UNCHANGED <<lastClose, log, void, doubted>>
  BY DEF UserStarts, TurnStarted, flagged
<1>5. /\ lastClose' \in {"none"} \cup Reason
      /\ void' \in Verdict
      /\ void' = "no" => void = "no"
      /\ doubted' \subseteq 1 .. MaxTurns + 1
      /\ log' \in Seq(Record)
      /\ Len(log') = turn
      /\ \A i \in DOMAIN log' :
            /\ log'[i].turn = i
            /\ log'[i].cut => i \in flagged /\ i + 1 \in flagged
            /\ i \in flagged => ~log'[i].valid
  <2>1. CASE open
    BY <1>1, <1>3, <1>4, <2>1, FinishFacts DEF Reason
  <2>2. CASE ~open
    <3>1. log' = log /\ flagged = splitTurns
      BY <1>4, <2>2 DEF flagged, Halves
    <3>2. QED
      BY <1>1, <1>4, <2>2, <3>1 DEF TypeOK, TurnTypeOK, LogTypeOK, FlagsSettled
  <2>3. QED
    BY <1>1, <2>1, <2>2 DEF TypeOK, TurnTypeOK
<1>6. SourceTypeOK'
  BY <1>1 DEF UserStarts, TypeOK, SourceTypeOK, sourceVars
<1>7. TurnTypeOK'
  <2>1. heardIn' \in [Turn -> 0 .. Files]
    BY <1>1, <1>2, FilesAssumption DEF UserStarts, TurnStarted, TypeOK, TurnTypeOK, SourceTypeOK
  <2>2. marks' \in Clock
    BY Sizes DEF UserStarts, TurnStarted, NoMarks, Clock
  <2>3. turn' \in Owner
    BY <1>2, Sizes
  <2>4. QED
    BY <1>2, <1>3, <1>5, <2>1, <2>2, <2>3 DEF TurnTypeOK
<1>8. LogTypeOK'
  <2>1. Len(log') = turn' - 1
    BY <1>2, <1>5
  <2>2. closed' \in BOOLEAN /\ noted' \in BOOLEAN
    BY <1>1 DEF UserStarts, logVars, TypeOK, LogTypeOK
  <2>3. QED
    BY <1>2, <1>5, <2>1, <2>2 DEF LogTypeOK
<1>9. PipelineTypeOK'
  BY <1>1 DEF UserStarts, TypeOK, PipelineTypeOK, sttVars, replyVars
<1>10. FlagsSettled'
  BY <1>2, <1>3, <1>5 DEF FlagsSettled
<1>11. OneFile'
  <2>1. /\ heardIn'[turn'] = file /\ file' = file /\ marks'.final = 0
        /\ turn' # 0 /\ finals' = finals /\ pump' = "playing"
    BY <1>1, <1>2 DEF UserStarts, TurnStarted, NoMarks, TypeOK, TurnTypeOK, sourceVars, sttVars
  <2>2. \A i \in DOMAIN finals : finals[i] <= turn /\ finals[i] \in Turn
    BY <1>1 DEF OneFile, TypeOK, PipelineTypeOK
  <2>3. \A i \in DOMAIN finals : heardIn'[finals[i]] = heardIn[finals[i]]
    BY <1>1, <1>2, <2>2 DEF UserStarts, TurnStarted, TypeOK, TurnTypeOK, Turn
  <2>4. \A i \in DOMAIN finals : finals[i] <= turn'
    BY <1>2, <2>2 DEF Turn
  <2>5. QED
    BY <1>1, <1>5, <2>1, <2>3, <2>4 DEF OneFile
<1>12. QED
  BY <1>6, <1>7, <1>8, <1>9, <1>10, <1>11 DEF IInv, TypeOK

\* The user falls silent: the endpoint is marked and a final is owed.
LEMMA UserStopsPreserves ==
    ASSUME IInv, UserStops
    PROVE  IInv'
<1>1. TypeOK /\ FlagsSettled /\ OneFile
  BY DEF IInv
<1>2. marks' \in Clock /\ marks'.final = marks.final
  <2>1. PICK where \in {"near", "far"} : Mark([marks EXCEPT !.endpoint = where])
    BY DEF UserStops
  <2>2. marks \in Clock
    BY <1>1 DEF TypeOK, TurnTypeOK
  <2>3. [marks EXCEPT !.endpoint = where] \in Clock
        /\ [marks EXCEPT !.endpoint = where].final = marks.final
    BY <2>2 DEF Clock
  <2>4. QED
    BY <2>1, <2>2, <2>3 DEF Mark
<1>3. TurnTypeOK' /\ LogTypeOK' /\ FlagsSettled'
  BY <1>2, LogFrame DEF UserStops, logVars
<1>4. SourceTypeOK'
  <2>1. plain' \in BOOLEAN
    <3>1. PICK where \in {"near", "far"} : plain' = (plain /\ where = "near")
      BY DEF UserStops
    <3>2. QED
      BY <3>1
  <2>2. QED
    BY <1>1, <2>1 DEF UserStops, TypeOK, SourceTypeOK, sourceVars
<1>5. turn \in Turn /\ finals \in Seq(Turn) /\ finals' = Append(finals, turn)
      /\ turn' = turn /\ heardIn' = heardIn
  BY <1>1 DEF UserStops, OneFile, TypeOK, TurnTypeOK, PipelineTypeOK, Owner, Turn
<1>6. PipelineTypeOK'
  <2>1. finals' \in Seq(Turn) /\ finals' # <<>>
    BY <1>5
  <2>2. QED
    BY <1>1, <2>1 DEF UserStops, TypeOK, PipelineTypeOK, replyVars
<1>7. OneFile'
  <2>1. \A i \in DOMAIN finals' :
            finals'[i] = turn \/ (i \in DOMAIN finals /\ finals'[i] = finals[i])
    BY <1>5
  <2>2. \A i \in DOMAIN finals' : finals'[i] <= turn
    BY <1>1, <1>5, <2>1 DEF OneFile, Turn
  <2>3. void = "no" => heardIn[turn] = file
    BY <1>1 DEF UserStops, OneFile
  <2>4. void = "no" => \A i \in DOMAIN finals' : heardIn[finals'[i]] = file
    BY <1>1, <2>1, <2>3 DEF OneFile
  <2>5. file' = file /\ pump' = pump /\ void' = void /\ open' = open /\ talking' = FALSE
    BY DEF UserStops, sourceVars
  <2>6. QED
    BY <1>1, <1>2, <1>5, <2>2, <2>3, <2>4, <2>5 DEF OneFile
<1>8. QED
  BY <1>3, <1>4, <1>6, <1>7 DEF IInv, TypeOK

\* A final lands.  It is of the file being played, and so is the newest turn,
\* unless the run is void: no final is owed once the next file plays.
LEMMA FinalLandsPreserves ==
    ASSUME IInv, FinalLands
    PROVE  IInv'
<1>1. TypeOK /\ FlagsSettled /\ OneFile
  BY DEF IInv
<1>2. /\ finals \in Seq(Turn) /\ finals # <<>>
      /\ Head(finals) \in Turn /\ Head(finals) = finals[1] /\ 1 \in DOMAIN finals
      /\ Tail(finals) \in Seq(Turn)
      /\ \A i \in DOMAIN Tail(finals) : i + 1 \in DOMAIN finals /\ Tail(finals)[i] = finals[i + 1]
  BY <1>1 DEF FinalLands, TypeOK, PipelineTypeOK
<1> DEFINE m == IF marks.final # 0 THEN marks
                ELSE [marks EXCEPT !.final = Head(finals), !.early = marks.endpoint = "none"]
<1>3. Mark(m) /\ finals' = Tail(finals)
  BY DEF FinalLands
<1>4. m \in Clock /\ m.final \in {marks.final, Head(finals)}
  <2>1. marks \in Clock /\ Head(finals) \in Owner
    BY <1>1, <1>2, Sizes DEF TypeOK, TurnTypeOK
  <2>2. (marks.endpoint = "none") \in BOOLEAN
    OBVIOUS
  <2>3. QED
    BY <2>1, <2>2 DEF Clock
<1> HIDE DEF m
<1>5. marks' \in Clock
  BY <1>1, <1>3, <1>4 DEF Mark, TypeOK, TurnTypeOK
<1>6. TurnTypeOK' /\ LogTypeOK' /\ FlagsSettled'
  BY <1>5, LogFrame DEF FinalLands, logVars
<1>7. SourceTypeOK'
  BY <1>1 DEF FinalLands, TypeOK, SourceTypeOK, sourceVars
<1>8. PipelineTypeOK'
  <2>1. llm' \in Owner /\ tts' \in Seq(Turn)
    <3>1. PICK text \in BOOLEAN :
             IF text /\ llm = 0
             THEN llm' = Head(finals) /\ tts' = Append(tts, Head(finals))
             ELSE UNCHANGED <<llm, tts>>
      BY DEF FinalLands
    <3>2. llm \in Owner /\ tts \in Seq(Turn) /\ Append(tts, Head(finals)) \in Seq(Turn)
      BY <1>1, <1>2 DEF TypeOK, PipelineTypeOK
    <3>3. QED
      BY <1>2, <3>1, <3>2, Sizes
  <2>2. QED
    BY <1>1, <1>2, <1>3, <2>1 DEF FinalLands, TypeOK, PipelineTypeOK
<1>9. OneFile'
  <2>1. /\ file' = file /\ pump' = pump /\ void' = void /\ open' = open /\ talking' = talking
        /\ turn' = turn /\ heardIn' = heardIn
    BY DEF FinalLands, sourceVars
  <2>2. \A i \in DOMAIN finals' :
           finals'[i] <= turn /\ (void = "no" => heardIn[finals'[i]] = file)
    BY <1>1, <1>2, <1>3 DEF OneFile
  <2>3. void = "no" /\ marks'.final # 0 => heardIn[marks'.final] = heardIn[turn]
    <3>1. CASE open
      <4>1. marks' = m
        BY <1>3, <3>1 DEF Mark
      <4>2. void = "no" => heardIn[Head(finals)] = file /\ heardIn[turn] = file
        BY <1>1, <1>2, <3>1 DEF OneFile
      <4>3. QED
        BY <1>1, <1>4, <4>1, <4>2 DEF OneFile
    <3>2. CASE ~open
      BY <1>1, <1>3, <3>2 DEF Mark, OneFile
    <3>3. QED
      BY <3>1, <3>2
  <2>4. QED
    BY <1>1, <2>1, <2>2, <2>3 DEF OneFile
<1>10. QED
  BY <1>6, <1>7, <1>8, <1>9 DEF IInv, TypeOK

\* The rest of the pipeline marks no final and closes no turn.
LEMMA PipelinePreserves ==
    ASSUME IInv, DecodeHangs \/ LlmFinishes \/ Speak \/ Synthesized
    PROVE  IInv'
<1>1. TypeOK /\ FlagsSettled /\ OneFile
  BY DEF IInv
<1>2. marks \in Clock /\ tts \in Seq(Turn)
  BY <1>1 DEF TypeOK, TurnTypeOK, PipelineTypeOK
<1>3. CASE DecodeHangs
  <2>1. TurnTypeOK' /\ LogTypeOK' /\ FlagsSettled'
    BY <1>1, <1>3, TurnFrame DEF DecodeHangs, logVars, TypeOK, LogTypeOK
  <2>2. SourceTypeOK'
    BY <1>1, <1>3 DEF DecodeHangs, TypeOK, SourceTypeOK, sourceVars
  <2>3. hangs' \in 0 .. MaxHangs
    BY <1>1, <1>3, MaxHangsAssumption DEF DecodeHangs, TypeOK, PipelineTypeOK
  <2>4. PipelineTypeOK'
    BY <1>1, <1>3, <2>3 DEF DecodeHangs, TypeOK, PipelineTypeOK, replyVars
  <2>5. OneFile'
    BY <1>1, <1>3 DEF DecodeHangs, OneFile, turnVars, sourceVars
  <2>6. QED
    BY <2>1, <2>2, <2>4, <2>5 DEF IInv, TypeOK
<1>4. CASE LlmFinishes
  <2>1. PICK ok \in BOOLEAN : Mark([marks EXCEPT !.done = marks.done \/ ok])
    BY <1>4 DEF LlmFinishes
  <2>2. marks' \in Clock /\ marks'.final = marks.final
    BY <1>2, <2>1 DEF Mark, Clock
  <2>3. TurnTypeOK' /\ LogTypeOK' /\ FlagsSettled'
    BY <1>4, <2>2, LogFrame DEF LlmFinishes, logVars
  <2>4. SourceTypeOK'
    BY <1>1, <1>4 DEF LlmFinishes, TypeOK, SourceTypeOK, sourceVars
  <2>5. PipelineTypeOK'
    BY <1>1, <1>4, Sizes DEF LlmFinishes, TypeOK, PipelineTypeOK, sttVars
  <2>6. OneFile'
    BY <1>1, <1>4, <2>2 DEF LlmFinishes, OneFile, sourceVars, sttVars
  <2>7. QED
    BY <2>3, <2>4, <2>5, <2>6 DEF IInv, TypeOK
<1>5. CASE Speak
  <2>1. Head(tts) \in Owner
    BY <1>2, <1>5, Sizes DEF Speak
  <2>2. marks' \in Clock /\ marks'.final = marks.final
    BY <1>2, <1>5, <2>1 DEF Speak, Mark, Clock
  <2>3. TurnTypeOK' /\ LogTypeOK' /\ FlagsSettled'
    BY <1>5, <2>2, LogFrame DEF Speak, logVars
  <2>4. SourceTypeOK'
    BY <1>1, <1>5 DEF Speak, TypeOK, SourceTypeOK, sourceVars
  <2>5. PipelineTypeOK'
    BY <1>1, <1>5 DEF Speak, TypeOK, PipelineTypeOK, sttVars
  <2>6. OneFile'
    BY <1>1, <1>5, <2>2 DEF Speak, OneFile, sourceVars, sttVars
  <2>7. QED
    BY <2>3, <2>4, <2>5, <2>6 DEF IInv, TypeOK
<1>6. CASE Synthesized
  <2>1. TurnTypeOK' /\ LogTypeOK' /\ FlagsSettled'
    BY <1>1, <1>6, TurnFrame DEF Synthesized, logVars, TypeOK, LogTypeOK
  <2>2. SourceTypeOK'
    BY <1>1, <1>6 DEF Synthesized, TypeOK, SourceTypeOK, sourceVars
  <2>3. tts' \in Seq(Turn)
    BY <1>2, <1>6 DEF Synthesized
  <2>4. PipelineTypeOK'
    BY <1>1, <1>6, <2>3 DEF Synthesized, TypeOK, PipelineTypeOK, sttVars
  <2>5. OneFile'
    BY <1>1, <1>6 DEF Synthesized, OneFile, turnVars, sourceVars, sttVars
  <2>6. QED
    BY <2>1, <2>2, <2>4, <2>5 DEF IInv, TypeOK
<1>7. QED
  BY <1>3, <1>4, <1>5, <1>6

\* A turn is closed, or there is none to close.
LEMMA ObserverPreserves ==
    ASSUME IInv,
           \/ BotStops \/ WatchdogSettles \/ WatchdogFindsHung \/ WatchdogFindsStuck
           \/ CloseLog
    PROVE  IInv'
<1> DEFINE Frame == /\ UNCHANGED <<sourceVars, talking, sttVars, llm, tts, sounded, plain>>
                    /\ playing' \in BOOLEAN /\ closed' \in BOOLEAN /\ noted' \in BOOLEAN
<1>1. TypeOK
  BY DEF IInv
<1>2. {"bot_stopped", "watchdog", "stt_hung", "timeout"} \subseteq Reason
  BY DEF Reason, Abnormal
<1>3. Frame
  <2>1. closed \in BOOLEAN /\ noted \in BOOLEAN /\ playing \in BOOLEAN
    BY <1>1 DEF TypeOK, LogTypeOK, PipelineTypeOK
  <2>2. (void # "no") \in BOOLEAN
    OBVIOUS
  <2>3. QED
    BY <2>1, <2>2 DEF BotStops, WatchdogSettles, WatchdogFindsHung, WatchdogFindsStuck,
                      CloseLog, logVars, replyVars
<1>4. UNCHANGED turnVars
      \/ \E reason \in {"bot_stopped", "watchdog", "stt_hung", "timeout"} : CloseTurn(reason)
  BY DEF BotStops, WatchdogSettles, WatchdogFindsHung, WatchdogFindsStuck, CloseLog
<1>5. CASE UNCHANGED turnVars
  <2>1. TurnTypeOK' /\ LogTypeOK' /\ FlagsSettled'
    BY <1>3, <1>5, TurnFrame
  <2>2. SourceTypeOK' /\ PipelineTypeOK'
    BY <1>1, <1>3 DEF TypeOK, SourceTypeOK, PipelineTypeOK, sourceVars, sttVars
  <2>3. OneFile'
    BY <1>3, <1>5 DEF IInv, OneFile, turnVars, sourceVars, sttVars
  <2>4. QED
    BY <2>1, <2>2, <2>3 DEF IInv, TypeOK
<1>6. CASE \E reason \in {"bot_stopped", "watchdog", "stt_hung", "timeout"} : CloseTurn(reason)
  BY <1>2, <1>3, <1>6, ClosePreserves
<1>7. QED
  BY <1>4, <1>5, <1>6

LEMMA NextPreserves == IInv /\ [Next]_vars => IInv'
<1> SUFFICES ASSUME IInv, [Next]_vars PROVE IInv'
  OBVIOUS
<1>1. CASE Next
  <2>1. CASE FileEnds \/ GapEnds \/ GateOpens \/ GateTimesOut
    BY <2>1, SourcePreserves
  <2>2. CASE UserStarts \/ UserStops
    BY <2>2, UserStartsPreserves, UserStopsPreserves
  <2>3. CASE FinalLands
    BY <2>3, FinalLandsPreserves
  <2>4. CASE DecodeHangs \/ LlmFinishes \/ Speak \/ Synthesized
    BY <2>4, PipelinePreserves
  <2>5. CASE BotStops \/ WatchdogSettles \/ WatchdogFindsHung \/ WatchdogFindsStuck
    BY <2>5, ObserverPreserves
  <2>6. CASE Abort \/ RunEnds
    BY <2>6, ObserverPreserves DEF Abort, RunEnds
  <2>7. QED
    BY <1>1, <2>1, <2>2, <2>3, <2>4, <2>5, <2>6 DEF Next
<1>2. CASE UNCHANGED vars
  <2>1. UNCHANGED <<sourceVars, talking, turnVars, logVars, sttVars, replyVars, plain>>
    BY <1>2 DEF vars
  <2>2. TurnTypeOK' /\ LogTypeOK' /\ FlagsSettled'
    BY <2>1, TurnFrame DEF IInv, TypeOK, LogTypeOK, logVars
  <2>3. SourceTypeOK' /\ PipelineTypeOK'
    BY <2>1 DEF IInv, TypeOK, SourceTypeOK, PipelineTypeOK, sourceVars, sttVars, replyVars
  <2>4. OneFile'
    BY <2>1 DEF IInv, OneFile, turnVars, sourceVars, sttVars
  <2>5. QED
    BY <2>2, <2>3, <2>4 DEF IInv, TypeOK
<1>3. QED
  BY <1>1, <1>2

-----------------------------------------------------------------------------
(* Plain turns.                                                            *)

\* A plain turn that is closed was endpointed where its file ended and has
\* its final, so the run is not void for it.
LEMMA PlainClose ==
    ASSUME IInv, OneTurnAFile, OneReplyATurn, NEW reason \in Reason, CloseTurn(reason),
           ~talking, marks.final # 0, llm = 0, tts = <<>>, finals = <<>>,
           UNCHANGED <<sourceVars, talking, sttVars, llm, tts>>
    PROVE  OneTurnAFile' /\ OneReplyATurn'
<1>1. /\ open /\ turn = file /\ turn # 0 /\ heardIn[turn] = turn /\ marks.endpoint = "near"
      /\ turn \in Nat /\ marks.final # 0 /\ file \in Nat
  BY DEF IInv, OneTurnAFile, OneReplyATurn, CloseTurn, OneFile, TypeOK, TurnTypeOK, SourceTypeOK,
         Owner
<1>2. /\ UNCHANGED <<turn, heardIn, marks, splitTurns>> /\ open' = FALSE
      /\ Finish(FALSE, reason, splitTurns)
  BY DEF CloseTurn
<1>3. ~Drifted(splitTurns) /\ ~Cascade(FALSE, splitTurns)
  BY <1>1 DEF Drifted, Cascade
<1>4. void' = "no"
  BY <1>2, <1>3 DEF Finish, OneTurnAFile
<1>5. \A i \in DOMAIN log' : log'[i].audio \in {0, i}
  <2> DEFINE r == [turn |-> turn, valid |-> Scorable(FALSE, reason, splitTurns),
                   cut |-> FALSE, final |-> marks.final, audio |-> marks.audio]
  <2>1. log' = Append(log, r) /\ r.audio = marks.audio
    BY <1>2 DEF Finish
  <2> HIDE DEF r
  <2>2. log \in Seq(Record) /\ Len(log) = turn - 1
    BY <1>1 DEF IInv, TypeOK, LogTypeOK
  <2>3. \A i \in DOMAIN log' : (i = turn /\ log'[i] = r) \/ (i \in DOMAIN log /\ log'[i] = log[i])
    BY <1>1, <2>1, <2>2
  <2>4. QED
    BY <2>1, <2>3 DEF OneReplyATurn
<1>6. OneTurnAFile'
  BY <1>1, <1>2, <1>4 DEF OneTurnAFile, sourceVars, sttVars
<1>7. OneReplyATurn'
  BY <1>1, <1>2, <1>5 DEF OneReplyATurn, sourceVars, sttVars
<1>8. QED
  BY <1>6, <1>7

LEMMA PlainPreserves == IInv /\ PlainTurns /\ [Next]_vars => PlainTurns'
<1> SUFFICES ASSUME IInv, PlainTurns, [Next]_vars, plain'
             PROVE  OneTurnAFile' /\ OneReplyATurn'
  BY DEF PlainTurns
<1>1. plain
  BY DEF Next, vars, FileEnds, GapEnds, GateOpens, GateTimesOut, NextFile, UserStarts, UserStops,
         FinalLands, DecodeHangs, LlmFinishes, Speak, Synthesized, BotStops, WatchdogSettles,
         WatchdogFindsHung, WatchdogFindsStuck, Abort, RunEnds, CloseLog
<1>2. OneTurnAFile /\ OneReplyATurn
  BY <1>1 DEF PlainTurns
<1>3. /\ turn \in Nat /\ file \in 1 .. Files /\ open \in BOOLEAN /\ talking \in BOOLEAN
      /\ heardIn \in [Turn -> 0 .. Files] /\ (open \/ talking => turn # 0)
      /\ (pump \in {"gate", "done"} => ~talking)
      /\ Files \in Nat /\ turn \in 0 .. MaxTurns /\ MaxTurns \in Nat
      /\ log \in Seq(Record) /\ Len(log) = (IF open THEN turn - 1 ELSE turn)
  BY FilesAssumption, Sizes
     DEF IInv, OneFile, TypeOK, TurnTypeOK, SourceTypeOK, LogTypeOK, Owner
<1>4. marks \in Clock /\ marks.done \in BOOLEAN /\ marks.final \in Nat
  <2>1. marks \in Clock
    BY DEF IInv, TypeOK, TurnTypeOK
  <2>2. QED
    BY <2>1 DEF Clock, Owner
<1>5. CASE FileEnds
  BY <1>2, <1>3, <1>5 DEF FileEnds, Heard, OneTurnAFile, OneReplyATurn, turnVars, sttVars, replyVars
<1>6. CASE GapEnds
  BY <1>2, <1>3, <1>6 DEF GapEnds, OneTurnAFile, OneReplyATurn, turnVars, sttVars, replyVars
<1>7. CASE GateOpens
  <2>1. turn = file /\ ~open /\ ~talking /\ finals = <<>> /\ llm = 0 /\ tts = <<>>
    BY <1>2, <1>3, <1>7
       DEF GateOpens, GateClear, busy, NextFile, OneTurnAFile, OneReplyATurn
  <2>2. /\ file' = file + 1 /\ pump' = "playing"
        /\ UNCHANGED <<drains, talking, turnVars, logVars, sttVars, replyVars>>
    BY <1>7 DEF GateOpens, NextFile
  <2>3. QED
    BY <1>2, <1>3, <2>1, <2>2 DEF OneTurnAFile, OneReplyATurn, turnVars, sttVars, replyVars
<1>8. CASE UserStarts
  <2>1. ~open /\ pump = "playing" /\ ~talking
    BY <1>8 DEF UserStarts
  <2>2. turn = file - 1
    <3>1. SUFFICES ASSUME turn = file PROVE FALSE
      BY <1>2 DEF OneTurnAFile
    <3>2. Heard /\ marks.endpoint = "near"
      BY <1>2, <1>3, <2>1, <3>1 DEF OneTurnAFile, OneReplyATurn, Heard
    <3>3. QED
      BY <1>8, <2>1, <3>2 DEF UserStarts
  <2>3. /\ turn' = turn + 1 /\ open' = TRUE /\ talking' = TRUE /\ marks' = NoMarks
        /\ heardIn' = [heardIn EXCEPT ![turn + 1] = file] /\ turn < MaxTurns
        /\ void' = void /\ log' = log
        /\ UNCHANGED <<sourceVars, sttVars, replyVars>>
    BY <1>8, <2>1 DEF UserStarts, TurnStarted
  <2>4. turn' = file /\ heardIn'[turn'] = file
    BY <1>3, <2>2, <2>3 DEF Turn
  <2>5. finals = <<>> /\ llm = 0 /\ tts = <<>>
    BY <1>2, <2>1 DEF OneReplyATurn
  <2>6. OneTurnAFile'
    BY <1>2, <1>3, <2>3, <2>4 DEF OneTurnAFile, sourceVars, sttVars
  <2>7. OneReplyATurn'
    BY <1>2, <1>3, <2>3, <2>4, <2>5 DEF OneReplyATurn, sourceVars, sttVars, replyVars, NoMarks
  <2>8. QED
    BY <2>6, <2>7
<1>9. CASE UserStops
  <2>1. PICK where \in {"near", "far"} :
           Mark([marks EXCEPT !.endpoint = where]) /\ plain' = (plain /\ where = "near")
    BY <1>9 DEF UserStops
  <2>2. where = "near" /\ open /\ turn = file /\ talking /\ marks = NoMarks
    BY <1>2, <1>3, <1>9, <2>1 DEF UserStops, OneTurnAFile, OneReplyATurn
  <2>3. marks' = [NoMarks EXCEPT !.endpoint = "near"]
    BY <2>1, <2>2 DEF Mark
  <2>4. /\ marks'.endpoint = "near" /\ marks'.final = 0 /\ marks'.done = FALSE
        /\ marks'.audio = 0
    BY <2>3 DEF NoMarks
  <2>5. finals' = <<turn>> /\ llm = 0 /\ tts = <<>>
    BY <1>2, <1>9, <2>2 DEF UserStops, OneReplyATurn
  <2>6. /\ talking' = FALSE
        /\ UNCHANGED <<sourceVars, turn, open, heardIn, void, log, hung, replyVars>>
    BY <1>9 DEF UserStops
  <2>7. OneTurnAFile'
    BY <1>2, <2>2, <2>6 DEF OneTurnAFile, sourceVars
  <2>8. finals' # <<>>
    BY <2>5
  <2>9. OneReplyATurn'
    BY <1>2, <1>3, <2>2, <2>4, <2>5, <2>6, <2>8 DEF OneReplyATurn, sourceVars, replyVars
  <2>10. QED
    BY <2>7, <2>9
<1>10. CASE FinalLands
  <2>1. finals = <<turn>> /\ open /\ ~talking /\ marks.final = 0 /\ llm = 0 /\ tts = <<>>
    BY <1>2, <1>10 DEF FinalLands, OneReplyATurn
  <2>2. Head(finals) = turn /\ Tail(finals) = <<>> /\ Append(tts, turn) = <<turn>>
    BY <2>1
  <2>3. marks' = [marks EXCEPT !.final = turn, !.early = marks.endpoint = "none"]
    BY <1>10, <2>1, <2>2 DEF FinalLands, Mark
  <2>4. /\ marks'.endpoint = marks.endpoint /\ marks'.final = turn /\ marks'.done = marks.done
        /\ marks'.audio = marks.audio
    BY <1>4, <2>3 DEF Clock
  <2>5. PICK text \in BOOLEAN : IF text /\ llm = 0
                                THEN llm' = turn /\ tts' = Append(tts, turn)
                                ELSE UNCHANGED <<llm, tts>>
    BY <1>10, <2>2 DEF FinalLands
  <2>6. /\ finals' = <<>> /\ hung' = FALSE
        /\ UNCHANGED <<sourceVars, talking, turn, open, heardIn, void, log>>
    BY <1>10, <2>2 DEF FinalLands
  <2>7. llm' \in {0, turn} /\ tts' \in {<<>>, <<turn>>}
    BY <2>1, <2>2, <2>5
  <2>8. marks.done = FALSE /\ turn # 0
    BY <1>2, <1>3, <1>4, <2>1 DEF OneReplyATurn
  <2>9. OneTurnAFile'
    BY <1>2, <2>6 DEF OneTurnAFile, sourceVars
  <2>10. OneReplyATurn'
    BY <1>2, <1>3, <2>1, <2>4, <2>6, <2>7, <2>8 DEF OneReplyATurn, sourceVars
  <2>11. QED
    BY <2>9, <2>10
<1>11. CASE LlmFinishes
  <2>1. open /\ ~talking /\ marks.final # 0 /\ llm' = 0
    BY <1>2, <1>11 DEF LlmFinishes, OneReplyATurn
  <2>2. PICK ok \in BOOLEAN : marks' = [marks EXCEPT !.done = marks.done \/ ok]
    BY <1>11, <2>1 DEF LlmFinishes, Mark
  <2>3. /\ marks'.endpoint = marks.endpoint /\ marks'.final = marks.final
        /\ marks'.audio = marks.audio
    BY <1>4, <2>2 DEF Clock
  <2>4. UNCHANGED <<sourceVars, talking, turn, open, heardIn, void, log, sttVars, tts>>
    BY <1>11 DEF LlmFinishes
  <2>5. OneTurnAFile'
    BY <1>2, <2>4 DEF OneTurnAFile, sourceVars, sttVars
  <2>6. OneReplyATurn'
    BY <1>2, <1>3, <2>1, <2>3, <2>4 DEF OneReplyATurn, sourceVars, sttVars
  <2>7. QED
    BY <2>5, <2>6
<1>12. CASE Speak
  <2>1. tts = <<turn>> /\ open /\ ~talking
    BY <1>2, <1>12 DEF Speak, OneReplyATurn
  <2>2. marks' = IF marks.audio # 0 THEN marks ELSE [marks EXCEPT !.audio = turn]
    BY <1>12, <2>1 DEF Speak, Mark
  <2>3. /\ marks'.endpoint = marks.endpoint /\ marks'.final = marks.final
        /\ marks'.done = marks.done /\ marks'.audio \in {marks.audio, turn}
    BY <1>4, <2>2 DEF Clock
  <2>4. UNCHANGED <<sourceVars, talking, turn, open, heardIn, void, log, sttVars, llm, tts>>
    BY <1>12 DEF Speak
  <2>5. OneTurnAFile'
    BY <1>2, <2>4 DEF OneTurnAFile, sourceVars, sttVars
  <2>6. OneReplyATurn'
    BY <1>2, <2>1, <2>3, <2>4 DEF OneReplyATurn, sourceVars, sttVars
  <2>7. QED
    BY <2>5, <2>6
<1>13. CASE Synthesized
  <2>1. tts' = <<>>
    BY <1>2, <1>13 DEF Synthesized, OneReplyATurn
  <2>2. UNCHANGED <<sourceVars, talking, turnVars, sttVars, llm>>
    BY <1>13 DEF Synthesized
  <2>3. QED
    BY <1>2, <2>1, <2>2 DEF OneTurnAFile, OneReplyATurn, sourceVars, turnVars, sttVars
<1>14. ASSUME NEW reason \in Reason, CloseTurn(reason), ReplyOver,
              UNCHANGED <<sourceVars, talking, sttVars, llm, tts>>
       PROVE  OneTurnAFile' /\ OneReplyATurn'
  <2>1. open /\ marks.done /\ tts = <<>>
    BY <1>14 DEF CloseTurn, ReplyOver
  <2>2. ~talking
    BY <1>2, <2>1 DEF OneReplyATurn, NoMarks
  <2>3. marks.final # 0 /\ llm = 0 /\ finals = <<>>
    BY <1>2, <2>1, <2>2 DEF OneReplyATurn
  <2>4. QED
    BY <1>2, <1>14, <2>1, <2>2, <2>3, PlainClose
<1>15. ASSUME UNCHANGED <<sourceVars, talking, turnVars, sttVars, llm, tts>>
       PROVE  OneTurnAFile' /\ OneReplyATurn'
  BY <1>2, <1>15 DEF OneTurnAFile, OneReplyATurn, sourceVars, turnVars, sttVars
<1>16. "bot_stopped" \in Reason /\ "watchdog" \in Reason /\ "timeout" \in Reason
  BY DEF Reason, Abnormal
<1>17. CASE BotStops
  BY <1>14, <1>15, <1>16, <1>17 DEF BotStops
<1>18. CASE WatchdogSettles
  BY <1>14, <1>16, <1>18 DEF WatchdogSettles, replyVars
<1>19. CASE WatchdogFindsStuck
  <2>1. finals = <<>> /\ llm = 0 /\ ~talking /\ tts = <<>> /\ open
    BY <1>19 DEF WatchdogFindsStuck, Silent, busy, CloseTurn
  <2>2. marks.final # 0
    BY <1>2, <2>1 DEF OneReplyATurn
  <2>3. QED
    BY <1>2, <1>16, <1>19, <2>1, <2>2, PlainClose DEF WatchdogFindsStuck, replyVars
<1>20. CASE RunEnds
  <2>1. ~open
    BY <1>2, <1>3, <1>20 DEF RunEnds, Finished, OneTurnAFile
  <2>2. QED
    BY <1>15, <1>20, <2>1 DEF RunEnds, CloseLog, replyVars
<1>21. CASE GateTimesOut \/ DecodeHangs \/ WatchdogFindsHung \/ Abort
  BY <1>2, <1>21 DEF GateTimesOut, DecodeHangs, WatchdogFindsHung, Abort, OneTurnAFile
<1>22. CASE UNCHANGED vars
  BY <1>15, <1>22 DEF vars, replyVars
<1>23. QED
  BY <1>5, <1>6, <1>7, <1>8, <1>9, <1>10, <1>11, <1>12, <1>13, <1>17, <1>18, <1>19, <1>20,
     <1>21, <1>22 DEF Next

-----------------------------------------------------------------------------
(* The finals in the log.                                                  *)

\* A record keeps the final that was marked on its turn.
LEMMA FinishFinals ==
    ASSUME IInv, FinalsOfTheirFiles, ~closed, open,
           NEW forced \in BOOLEAN, NEW reason, NEW flagged, Finish(forced, reason, flagged)
    PROVE  /\ void' = "no" => void = "no"
           /\ DOMAIN log' = 1 .. turn
           /\ \A i \in DOMAIN log' :
                 /\ log'[i].final <= turn
                 /\ void = "no" /\ log'[i].final # 0 => heardIn[log'[i].final] = heardIn[i]
<1> DEFINE r == [turn |-> turn, valid |-> Scorable(forced, reason, flagged),
                 cut |-> forced, final |-> marks.final, audio |-> marks.audio]
<1>1. log' = Append(log, r) /\ r.final = marks.final /\ (void' = "no" => void = "no")
  BY DEF Finish
<1> HIDE DEF r
<1>2. log \in Seq(Record) /\ Len(log) = turn - 1 /\ turn \in Nat /\ turn # 0
  BY DEF IInv, OneFile, TypeOK, TurnTypeOK, LogTypeOK, Owner
<1>3. /\ \A i \in DOMAIN log' : (i = turn /\ log'[i] = r) \/ (i \in DOMAIN log /\ log'[i] = log[i])
      /\ DOMAIN log' = 1 .. turn
  BY <1>1, <1>2
<1>4. marks.final <= turn
      /\ (void = "no" /\ marks.final # 0 => heardIn[marks.final] = heardIn[turn])
  BY DEF IInv, OneFile, FinalsOfTheirFiles
<1>5. QED
  BY <1>1, <1>3, <1>4 DEF FinalsOfTheirFiles

LEMMA RecordedFinals ==
    ASSUME NEW records \in Seq(Record)
    PROVE  \A i \in DOMAIN records : records[i].final \in Nat
<1> SUFFICES ASSUME NEW i \in DOMAIN records PROVE records[i].final \in Nat
  OBVIOUS
<1>1. records[i] \in Record
  OBVIOUS
<1>2. QED
  BY <1>1 DEF Record, Owner

LEMMA FinalsPreserved == IInv /\ FinalsOfTheirFiles /\ [Next]_vars => FinalsOfTheirFiles'
<1> SUFFICES ASSUME IInv, FinalsOfTheirFiles, [Next]_vars
             PROVE  FinalsOfTheirFiles'
  OBVIOUS
<1>1. /\ turn \in Nat /\ turn \in 0 .. MaxTurns /\ MaxTurns \in Nat /\ open \in BOOLEAN
      /\ log \in Seq(Record) /\ Len(log) = (IF open THEN turn - 1 ELSE turn)
      /\ heardIn \in [Turn -> 0 .. Files] /\ marks \in Clock
  BY Sizes DEF IInv, TypeOK, TurnTypeOK, LogTypeOK, Owner
<1>2. \A i \in DOMAIN log : log[i].final \in Nat
  BY <1>1, RecordedFinals
<1>3. ASSUME marks'.final <= turn, UNCHANGED <<turn, open, heardIn, void, log, closed, noted>>
      PROVE  FinalsOfTheirFiles'
  BY <1>3 DEF FinalsOfTheirFiles
<1>4. ASSUME UNCHANGED <<turnVars, logVars>>
      PROVE  FinalsOfTheirFiles'
  BY <1>4 DEF FinalsOfTheirFiles, turnVars, logVars
<1>5. CASE UNCHANGED vars
  BY <1>4, <1>5 DEF vars
<1>6. CASE Next
  <2>1. ~closed
    BY <1>6 DEF Next
  <2>2. CASE FileEnds \/ GapEnds \/ GateOpens \/ DecodeHangs \/ Synthesized
    BY <1>4, <2>2 DEF FileEnds, GapEnds, GateOpens, NextFile, DecodeHangs, Synthesized
  <2>3. CASE GateTimesOut
    BY <2>1, <2>3 DEF GateTimesOut, NextFile, logVars, FinalsOfTheirFiles
  <2>4. CASE UserStarts
    <3>1. /\ turn' = turn + 1 /\ open' = TRUE /\ marks'.final = 0 /\ closed' = closed
          /\ turn < MaxTurns /\ heardIn' = [heardIn EXCEPT ![turn + 1] = file]
          /\ IF open THEN Finish(TRUE, "bot_stopped", splitTurns \cup Halves(turn + 1))
                     ELSE UNCHANGED <<lastClose, log, void, doubted>>
      BY <2>4 DEF UserStarts, TurnStarted, NoMarks, logVars
    <3>2. /\ void' = "no" => void = "no"
          /\ DOMAIN log' = 1 .. turn
          /\ \A i \in DOMAIN log' :
                /\ log'[i].final <= turn
                /\ void = "no" /\ log'[i].final # 0 => heardIn[log'[i].final] = heardIn[i]
      <4>1. CASE open
        BY <2>1, <3>1, <4>1, FinishFinals
      <4>2. CASE ~open
        BY <1>1, <3>1, <4>2 DEF FinalsOfTheirFiles
      <4>3. QED
        BY <1>1, <4>1, <4>2
    <3>3. \A t \in 1 .. turn : heardIn'[t] = heardIn[t]
      BY <1>1, <3>1 DEF Turn
    <3>4. \A i \in DOMAIN log' : log'[i].final \in Nat
      <4>1. log' \in Seq(Record)
        BY <2>4, UserStartsPreserves DEF IInv, TypeOK, LogTypeOK
      <4>2. QED
        BY <4>1, RecordedFinals
    <3>5. ASSUME void' = "no", NEW i \in DOMAIN log', log'[i].final # 0
          PROVE  heardIn'[log'[i].final] = heardIn'[i]
      BY <1>1, <3>2, <3>3, <3>4, <3>5
    <3>6. QED
      BY <1>1, <2>1, <3>1, <3>2, <3>4, <3>5 DEF FinalsOfTheirFiles
  <2>5. CASE UserStops
    <3>1. PICK where : Mark([marks EXCEPT !.endpoint = where])
      BY <2>5 DEF UserStops
    <3>2. marks'.final = marks.final
      BY <1>1, <3>1 DEF Mark, Clock
    <3>3. QED
      BY <1>3, <2>5, <3>2 DEF UserStops, logVars, FinalsOfTheirFiles
  <2>6. CASE FinalLands
    <3>1. Head(finals) <= turn
      BY <2>6 DEF FinalLands, IInv, OneFile, TypeOK, PipelineTypeOK
    <3>2. marks'.final \in {marks.final, Head(finals)}
      BY <1>1, <2>6 DEF FinalLands, Mark, Clock
    <3>3. QED
      BY <1>3, <2>6, <3>1, <3>2 DEF FinalLands, logVars, FinalsOfTheirFiles
  <2>7. CASE LlmFinishes
    <3>1. PICK ok : Mark([marks EXCEPT !.done = marks.done \/ ok])
      BY <2>7 DEF LlmFinishes
    <3>2. marks'.final = marks.final
      BY <1>1, <3>1 DEF Mark, Clock
    <3>3. QED
      BY <1>3, <2>7, <3>2 DEF LlmFinishes, logVars, FinalsOfTheirFiles
  <2>8. CASE Speak
    <3>1. marks'.final = marks.final
      BY <1>1, <2>8 DEF Speak, Mark, Clock
    <3>2. QED
      BY <1>3, <2>8, <3>1 DEF Speak, logVars, FinalsOfTheirFiles
  <2>9. ASSUME NEW reason, CloseTurn(reason),
               UNCHANGED <<closed, noted>> \/ (closed' = TRUE /\ noted' = (void # "no"))
        PROVE  FinalsOfTheirFiles'
    <3>1. /\ open /\ Finish(FALSE, reason, splitTurns) /\ open' = FALSE
          /\ UNCHANGED <<turn, heardIn, marks>>
      BY <2>9 DEF CloseTurn
    <3>2. /\ void' = "no" => void = "no"
          /\ \A i \in DOMAIN log' :
                /\ log'[i].final <= turn
                /\ void = "no" /\ log'[i].final # 0 => heardIn[log'[i].final] = heardIn[i]
      BY <2>1, <3>1, FinishFinals
    <3>3. void' = "no" \/ (closed' /\ ~noted') => void = "no"
      BY <2>1, <2>9, <3>2
    <3>4. QED
      BY <3>1, <3>2, <3>3 DEF FinalsOfTheirFiles
  <2>10. CASE BotStops \/ WatchdogSettles \/ WatchdogFindsHung \/ WatchdogFindsStuck
    BY <1>4, <2>9, <2>10
       DEF BotStops, WatchdogSettles, WatchdogFindsHung, WatchdogFindsStuck, logVars
  <2>11. CASE Abort \/ RunEnds
    <3>1. closed' = TRUE /\ noted' = (void # "no")
          /\ (IF open THEN CloseTurn("bot_stopped") ELSE UNCHANGED turnVars)
      BY <2>11 DEF Abort, RunEnds, CloseLog
    <3>2. CASE open
      BY <2>9, <3>1, <3>2
    <3>3. CASE ~open
      BY <3>1, <3>3 DEF FinalsOfTheirFiles, turnVars
    <3>4. QED
      BY <3>2, <3>3
  <2>12. QED
    BY <1>6, <2>2, <2>3, <2>4, <2>5, <2>6, <2>7, <2>8, <2>10, <2>11 DEF Next
<1>7. QED
  BY <1>5, <1>6

\* Two turns of one file are two records of it.
LEMMA OnlyOne ==
    ASSUME NEW S, IsFiniteSet(S), Cardinality(S) = 1, NEW i \in S, NEW j \in S
    PROVE  i = j
<1>1. PICK x : S = {x}
  BY FS_Singleton
<1>2. QED
  BY <1>1

-----------------------------------------------------------------------------
\* The invariant that carries the results below.
THEOREM Invariance == Spec => []IInv
<1>1. QED
  BY InitEstablishes, NextPreserves, PTL DEF Spec

\* The log holds one record of every turn but the open one, in their order,
\* for any playlist and however the turns are cut and closed (turns.py).
THEOREM TypeCorrect == Spec => []TypeOK
<1>1. IInv => TypeOK
  BY DEF IInv
<1>2. QED
  BY <1>1, Invariance, PTL

\* A turn cut by the next one makes both their records invalid, however many
\* turns one utterance is split into (turns.py, turn_started, finish_turn).
THEOREM SplitsAreInvalid == Spec => []BothHalves
<1>1. IInv => BothHalves
  BY DEF IInv, FlagsSettled, BothHalves
<1>2. QED
  BY <1>1, Invariance, PTL

\* The gate keeps every final on a turn of the file it was spoken in, unless
\* the run is void (run_reactive.py, turn_gate; observer.py, busy).
THEOREM GateHolds == Spec => []NoStrandedFinal
<1>1. IInv => NoStrandedFinal
  BY DEF IInv, OneFile, NoStrandedFinal
<1>2. QED
  BY <1>1, Invariance, PTL

LEMMA PlainInvariance == Spec => []PlainTurns
<1>1. Init => PlainTurns
  <2> SUFFICES ASSUME Init PROVE PlainTurns
    OBVIOUS
  <2>1. OneTurnAFile
    BY DEF Init, OneTurnAFile
  <2>2. OneReplyATurn
    BY DEF Init, OneReplyATurn, NoMarks
  <2>3. QED
    BY <2>1, <2>2 DEF PlainTurns
<1>2. QED
  BY <1>1, PlainPreserves, Invariance, PTL DEF Spec

\* However long the playlist, while each file is one turn its first audio is
\* of its own reply (observer.py, the BotStoppedSpeaking guard).
THEOREM RepliesAreTheirOwn == Spec => []OwnReply
<1>1. PlainTurns => OwnReply
  BY DEF PlainTurns, OneReplyATurn, OwnReply
<1>2. QED
  BY <1>1, PlainInvariance, PTL

\* However long the playlist, plain turns never make the run void: neither
\* cascade nor drift is seen where there was none (turns.py, finish_turn).
THEOREM PlainIsNeverVoid == Spec => []NoFalseAlarm
<1>1. PlainTurns => NoFalseAlarm
  BY DEF PlainTurns, OneTurnAFile, NoFalseAlarm
<1>2. QED
  BY <1>1, PlainInvariance, PTL

\* Whatever was split, doubted or hung, a turn that the scorers count is
\* scored on the final of its own speech, though the run may have become void
\* as its log was closed (p9_score.py, per_item; turns.py, close).
THEOREM ScoresAreTheirOwn == Spec => []ScoredOnItsOwn
<1>1. Init => FinalsOfTheirFiles
  <2> SUFFICES ASSUME Init PROVE FinalsOfTheirFiles
    OBVIOUS
  <2>1. marks.final = 0 /\ turn = 0 /\ log = <<>> /\ ~closed
    BY DEF Init, NoMarks
  <2>2. QED
    BY <2>1 DEF FinalsOfTheirFiles
<1>2. IInv /\ FinalsOfTheirFiles => ScoredOnItsOwn
  <2> SUFFICES ASSUME IInv, FinalsOfTheirFiles, RunCounts, NEW i \in DOMAIN log, Counted(i)
               PROVE  log[i].final = i
    BY DEF ScoredOnItsOwn
  <2> DEFINE S == {k \in DOMAIN log : heardIn[k] = heardIn[i]}
  <2>1. log \in Seq(Record) /\ turn \in Nat /\ Len(log) = turn
    BY DEF IInv, TypeOK, TurnTypeOK, LogTypeOK, Owner, FinalsOfTheirFiles, RunCounts
  <2>2. log[i].final \in 1 .. turn
    <3>1. log[i] \in Record
      BY <2>1
    <3>2. log[i].final \in Nat /\ log[i].final # 0
      BY <3>1 DEF Record, Owner, Counted
    <3>3. QED
      BY <2>1, <3>2 DEF FinalsOfTheirFiles
  <2>3. i \in S /\ log[i].final \in S
    BY <2>1, <2>2 DEF FinalsOfTheirFiles, RunCounts
  <2>4. IsFiniteSet(S)
    <3>1. IsFiniteSet(1 .. turn)
      BY <2>1, FS_Interval
    <3>2. S \subseteq 1 .. turn
      BY <2>1
    <3>3. QED
      BY <3>1, <3>2, FS_Subset
  <2>5. Cardinality(S) = 1
    BY DEF Counted, WholeItem, PerItem
  <2> HIDE DEF S
  <2>6. QED
    BY <2>3, <2>4, <2>5, OnlyOne
<1>3. QED
  BY <1>1, <1>2, FinalsPreserved, Invariance, PTL DEF Spec

-----------------------------------------------------------------------------
(* The alignment of what was said to what was played.                      *)

(* A set of numbers that is not empty has a least one.                     *)
LEMMA Least ==
    ASSUME NEW T \in SUBSET Nat, T # {}
    PROVE  \E m \in T : \A n \in T : m <= n
<1> DEFINE R == {ss \in Nat \X Nat : ss[1] < ss[2]}
<1>1. IsWellFoundedOn(R, Nat)
  BY NatLessThanWellFounded DEF OpToRel
<1> HIDE DEF R
<1>2. PICK x \in T : \A y \in T : ~ (<<y, x>> \in R)
  BY <1>1, WFMin
<1>3. ASSUME NEW y \in T
      PROVE  x <= y
  <2>1. x \in Nat /\ y \in Nat
    OBVIOUS
  <2>2. ~ (y < x)
    BY <1>2, <2>1 DEF R
  <2>3. QED
    BY <2>1, <2>2
<1>4. QED
  BY <1>3

(* A set with zero and with every number's successor holds all of Nat.     *)
LEMMA Induction ==
    ASSUME NEW S, 0 \in S, \A n \in Nat : n \in S => n + 1 \in S
    PROVE  Nat \subseteq S
<1> DEFINE T == {n \in Nat : n \notin S}
<1> SUFFICES ASSUME T # {} PROVE FALSE
  OBVIOUS
<1>1. PICK m \in T : \A n \in T : m <= n
  BY Least
<1>2. m # 0 /\ m - 1 \in Nat /\ m - 1 \notin T
  BY <1>1
<1>3. QED
  BY <1>2

-----------------------------------------------------------------------------
(* The table of the alignment.                                             *)
CellsOf(n, m) == {c \in (1 .. n) \X (1 .. m) : c[2] <= c[1] /\ c[1] - c[2] <= n - m}

Cell(cost, dp, c) ==
    LET opening == dp[<<c[1] - 1, c[2] - 1>>]
        continuing == dp[<<c[1] - 1, c[2]>>]
        before == CASE c[1] = 1 -> 0
                    [] c[1] > 1 /\ c[1] = c[2] -> opening
                    [] c[1] > 1 /\ c[2] = 1 -> continuing
                    [] OTHER -> IF Prefers(opening, continuing) THEN opening
                                ELSE continuing
    IN  before + cost[c[1]][c[2]]

Filled(cost, cells, dp) == dp = [c \in cells |-> Cell(cost, dp, c)]

LEMMA FirstRow ==
    ASSUME NEW cost, NEW dp, NEW j
    PROVE  Cell(cost, dp, <<1, j>>) = 0 + cost[1][j]
  BY DEF Cell

LEMMA Diagonal ==
    ASSUME NEW cost, NEW dp, NEW i \in Nat, i > 1
    PROVE  Cell(cost, dp, <<i, i>>) = dp[<<i - 1, i - 1>>] + cost[i][i]
<1>1. i # 1
  OBVIOUS
<1>2. QED
  BY <1>1 DEF Cell

LEMMA FirstColumn ==
    ASSUME NEW cost, NEW dp, NEW i \in Nat, i > 1
    PROVE  Cell(cost, dp, <<i, 1>>) = dp[<<i - 1, 1>>] + cost[i][1]
<1>1. i # 1
  OBVIOUS
<1>2. QED
  BY <1>1 DEF Cell

LEMMA Inner ==
    ASSUME NEW cost, NEW dp, NEW i \in Nat, NEW j \in Nat, i > 1, j > 1, i # j
    PROVE  Cell(cost, dp, <<i, j>>) =
               (IF dp[<<i - 1, j - 1>>] <= dp[<<i - 1, j>>]
                THEN dp[<<i - 1, j - 1>>] ELSE dp[<<i - 1, j>>]) + cost[i][j]
<1>1. i # 1 /\ j # 1
  OBVIOUS
<1>2. QED
  BY <1>1 DEF Cell, Prefers

(* A cell reads only cells of the row before.                              *)
LEMMA CellReads ==
    ASSUME NEW cost, NEW n \in Nat, NEW m \in Nat, NEW g, NEW h, NEW c \in CellsOf(n, m),
           \A p \in CellsOf(n, m) : p[1] < c[1] => g[p] = h[p]
    PROVE  Cell(cost, g, c) = Cell(cost, h, c)
<1>1. PICK i \in 1 .. n, j \in 1 .. m : c = <<i, j>> /\ j <= i /\ i - j <= n - m
  BY DEF CellsOf
<1>2. i \in Nat /\ j \in Nat /\ 1 <= i /\ 1 <= j
  BY <1>1
<1>3. i > 1 /\ j > 1 => g[<<i - 1, j - 1>>] = h[<<i - 1, j - 1>>]
  <2> SUFFICES ASSUME i > 1, j > 1 PROVE g[<<i - 1, j - 1>>] = h[<<i - 1, j - 1>>]
    OBVIOUS
  <2>1. /\ i - 1 \in 1 .. n /\ j - 1 \in 1 .. m /\ j - 1 <= i - 1
        /\ (i - 1) - (j - 1) <= n - m /\ i - 1 < i
    BY <1>1
  <2>2. <<i - 1, j - 1>> \in CellsOf(n, m)
    BY <2>1 DEF CellsOf
  <2>3. QED
    BY <1>1, <2>1, <2>2
<1>4. i > 1 /\ i # j => g[<<i - 1, j>>] = h[<<i - 1, j>>]
  <2> SUFFICES ASSUME i > 1, i # j PROVE g[<<i - 1, j>>] = h[<<i - 1, j>>]
    OBVIOUS
  <2>1. /\ i - 1 \in 1 .. n /\ j \in 1 .. m /\ j <= i - 1
        /\ (i - 1) - j <= n - m /\ i - 1 < i
    BY <1>1
  <2>2. <<i - 1, j>> \in CellsOf(n, m)
    BY <2>1 DEF CellsOf
  <2>3. QED
    BY <1>1, <2>1, <2>2
<1>5. Cell(cost, g, <<i, j>>) = Cell(cost, h, <<i, j>>)
  <2>1. CASE i = 1
    <3>1. /\ Cell(cost, g, <<1, j>>) = 0 + cost[1][j]
          /\ Cell(cost, h, <<1, j>>) = 0 + cost[1][j]
      BY FirstRow
    <3>2. QED
      BY <2>1, <3>1
  <2>2. CASE i > 1 /\ i = j
    <3>1. /\ Cell(cost, g, <<i, i>>) = g[<<i - 1, i - 1>>] + cost[i][i]
          /\ Cell(cost, h, <<i, i>>) = h[<<i - 1, i - 1>>] + cost[i][i]
      BY <1>2, <2>2, Diagonal
    <3>2. QED
      BY <1>3, <2>2, <3>1
  <2>3. CASE i > 1 /\ j = 1 /\ i # j
    <3>1. /\ Cell(cost, g, <<i, 1>>) = g[<<i - 1, 1>>] + cost[i][1]
          /\ Cell(cost, h, <<i, 1>>) = h[<<i - 1, 1>>] + cost[i][1]
      BY <1>2, <2>3, FirstColumn
    <3>2. QED
      BY <1>4, <2>3, <3>1
  <2>4. CASE i > 1 /\ j > 1 /\ i # j
    <3>1. /\ Cell(cost, g, <<i, j>>) =
                 (IF g[<<i - 1, j - 1>>] <= g[<<i - 1, j>>]
                  THEN g[<<i - 1, j - 1>>] ELSE g[<<i - 1, j>>]) + cost[i][j]
          /\ Cell(cost, h, <<i, j>>) =
                 (IF h[<<i - 1, j - 1>>] <= h[<<i - 1, j>>]
                  THEN h[<<i - 1, j - 1>>] ELSE h[<<i - 1, j>>]) + cost[i][j]
      BY <1>2, <2>4, Inner
    <3>2. QED
      BY <1>3, <1>4, <2>4, <3>1
  <2>5. QED
    BY <1>2, <2>1, <2>2, <2>3, <2>4
<1>6. QED
  BY <1>1, <1>5

(* So there is such a table, row by row.                                   *)
LEMMA TableIsFilled ==
    ASSUME NEW cost, NEW n \in Nat, NEW m \in Nat
    PROVE  Filled(cost, CellsOf(n, m), Table(cost, n, m))
<1> DEFINE Rows(r) == {c \in CellsOf(n, m) : c[1] <= r}
           S == {r \in Nat : \E g : Filled(cost, Rows(r), g)}
<1>1. 0 \in S
  <2>1. Rows(0) = {}
    BY DEF CellsOf
  <2>2. Filled(cost, {}, [c \in {} |-> 0])
    BY DEF Filled
  <2>3. QED
    BY <2>1, <2>2
<1>2. ASSUME NEW r \in Nat, r \in S
      PROVE  r + 1 \in S
  <2>1. PICK g : Filled(cost, Rows(r), g)
    BY <1>2
  <2>2. PICK h : h = [c \in Rows(r + 1) |-> Cell(cost, g, c)]
    OBVIOUS
  <2>3. ASSUME NEW c \in Rows(r + 1)
        PROVE  Cell(cost, g, c) = Cell(cost, h, c)
    <3>1. ASSUME NEW p \in CellsOf(n, m), p[1] < c[1]
          PROVE  g[p] = h[p]
      <4>1. p[1] \in Nat /\ c[1] \in Nat /\ c[1] <= r + 1
        BY DEF CellsOf
      <4>2. p \in Rows(r) /\ p \in Rows(r + 1)
        BY <3>1, <4>1
      <4>3. g[p] = Cell(cost, g, p)
        BY <2>1, <4>2 DEF Filled
      <4>4. QED
        BY <2>2, <4>2, <4>3
    <3>2. QED
      BY <3>1, CellReads
  <2> HIDE DEF Rows
  <2>4. Filled(cost, Rows(r + 1), h)
    BY <2>2, <2>3 DEF Filled
  <2>5. QED
    BY <2>4
<1>3. n \in S
  <2> HIDE DEF S
  <2>1. Nat \subseteq S
    BY <1>1, <1>2, Induction
  <2>2. QED
    BY <2>1
<1>4. Rows(n) = CellsOf(n, m)
  BY DEF CellsOf
<1> HIDE DEF Rows
<1>5. \E g : Filled(cost, CellsOf(n, m), g)
  BY <1>3, <1>4
<1>6. Table(cost, n, m) = CHOOSE g : Filled(cost, CellsOf(n, m), g)
  BY DEF Table, Filled, Cell, CellsOf
<1>7. QED
  BY <1>5, <1>6

\* f lays n turns on m files in their order, no file without a turn.
Orderly(f, n, m) ==
    /\ n \in Nat /\ m \in Nat /\ 1 <= n /\ 1 <= m
    /\ f \in [1 .. n -> 1 .. m] /\ f[1] = 1 /\ f[n] = m
    /\ \A i \in 1 .. n - 1 : f[i + 1] = f[i] \/ f[i + 1] = f[i] + 1

\* The errors tell a turn's own file from all others.
Telling(cost, f, n, m, worst) ==
    /\ worst \in Nat
    /\ \A i \in 1 .. n :
          /\ cost[i][f[i]] \in Nat /\ cost[i][f[i]] < worst
          /\ \A j \in 1 .. m : j # f[i] => cost[i][j] = worst

(* The cells of such a laying are in the table.                            *)
LEMMA OwnCells ==
    ASSUME NEW n, NEW m, NEW f, Orderly(f, n, m), NEW k \in 1 .. n
    PROVE  f[k] <= k /\ k - f[k] <= n - m
<1>1. /\ n \in Nat /\ m \in Nat /\ 1 <= n /\ f \in [1 .. n -> 1 .. m]
      /\ f[1] = 1 /\ f[n] = m /\ k \in Nat
      /\ \A i \in 1 .. n - 1 : f[i + 1] = f[i] \/ f[i + 1] = f[i] + 1
  BY DEF Orderly
<1> DEFINE S == {i \in Nat : i < n => f[i + 1] <= i + 1}
           T == {d \in Nat : d < n => m - f[n - d] <= d}
<1>2. Nat \subseteq S
  <2>1. 0 \in S
    BY <1>1
  <2>2. ASSUME NEW i \in Nat, i \in S
        PROVE  i + 1 \in S
    <3> SUFFICES ASSUME i + 1 < n PROVE f[(i + 1) + 1] <= (i + 1) + 1
      OBVIOUS
    <3>1. /\ i + 1 \in 1 .. n - 1 /\ i + 1 \in 1 .. n /\ (i + 1) + 1 \in 1 .. n
          /\ f[i + 1] <= i + 1
      BY <1>1, <2>2
    <3>2. f[(i + 1) + 1] = f[i + 1] \/ f[(i + 1) + 1] = f[i + 1] + 1
      BY <1>1, <3>1
    <3>3. f[i + 1] \in Nat
      BY <1>1, <3>1
    <3>4. QED
      BY <3>1, <3>2, <3>3
  <2> HIDE DEF S
  <2>3. QED
    BY <2>1, <2>2, Induction
<1>3. Nat \subseteq T
  <2>1. 0 \in T
    BY <1>1
  <2>2. ASSUME NEW d \in Nat, d \in T
        PROVE  d + 1 \in T
    <3> SUFFICES ASSUME d + 1 < n PROVE m - f[n - (d + 1)] <= d + 1
      OBVIOUS
    <3>1. PICK i : i = n - (d + 1)
      OBVIOUS
    <3>2. i \in 1 .. n - 1 /\ i \in 1 .. n /\ i + 1 \in 1 .. n /\ n - d = i + 1 /\ d < n
      BY <1>1, <3>1
    <3>3. m - f[i + 1] <= d
      BY <2>2, <3>2
    <3>4. f[i + 1] = f[i] \/ f[i + 1] = f[i] + 1
      BY <1>1, <3>2
    <3>5. f[i] \in Nat /\ f[i + 1] \in Nat
      BY <1>1, <3>2
    <3>6. m - f[i] <= d + 1
      BY <1>1, <3>3, <3>4, <3>5
    <3>7. QED
      BY <3>1, <3>6
  <2> HIDE DEF T
  <2>3. QED
    BY <2>1, <2>2, Induction
<1>4. f[k] <= k
  <2>1. k - 1 \in Nat /\ k - 1 < n /\ (k - 1) + 1 = k
    BY <1>1
  <2> HIDE DEF S
  <2>2. k - 1 \in S
    BY <1>2, <2>1
  <2>3. QED
    BY <2>1, <2>2 DEF S
<1>5. m - f[k] <= n - k
  <2>1. n - k \in T /\ n - k < n /\ n - (n - k) = k
    BY <1>1, <1>3
  <2>2. QED
    BY <2>1
<1>6. f[k] \in Nat
  BY <1>1
<1>7. QED
  BY <1>1, <1>4, <1>5, <1>6

\* In its row the cell of the turn's own file is the least.
LeastInRow(dp, f, n, m, i) ==
    /\ <<i, f[i]>> \in CellsOf(n, m)
    /\ \A j \in 1 .. m : <<i, j>> \in CellsOf(n, m) =>
          dp[<<i, j>>] \in Nat /\ (j # f[i] => dp[<<i, f[i]>>] < dp[<<i, j>>])

LEMMA OwnIsLeast ==
    ASSUME NEW n, NEW m, NEW f, NEW cost, NEW worst, NEW dp, Orderly(f, n, m),
           Telling(cost, f, n, m, worst), Filled(cost, CellsOf(n, m), dp), NEW k \in 1 .. n
    PROVE  LeastInRow(dp, f, n, m, k)
<1>1. /\ n \in Nat /\ m \in Nat /\ 1 <= n /\ 1 <= m /\ f \in [1 .. n -> 1 .. m]
      /\ f[1] = 1 /\ k \in Nat
  BY DEF Orderly
<1>2. \A c \in CellsOf(n, m) : dp[c] = Cell(cost, dp, c)
  BY DEF Filled
<1>3. ASSUME NEW i \in 1 .. n
      PROVE  /\ i \in Nat /\ f[i] \in Nat /\ f[i] \in 1 .. m /\ f[i] <= i
             /\ i - f[i] <= n - m /\ <<i, f[i]>> \in CellsOf(n, m)
  <2>1. f[i] \in 1 .. m /\ f[i] <= i /\ i - f[i] <= n - m
    BY <1>1, OwnCells
  <2>2. QED
    BY <1>1, <2>1 DEF CellsOf
<1>4. LeastInRow(dp, f, n, m, 1)
  <2> SUFFICES ASSUME NEW j \in 1 .. m, <<1, j>> \in CellsOf(n, m)
               PROVE  dp[<<1, j>>] \in Nat /\ j = f[1]
    <3>1. 1 \in 1 .. n
      BY <1>1
    <3>2. QED
      BY <1>3, <3>1 DEF LeastInRow
  <2>1. j = 1
    BY DEF CellsOf
  <2>2. dp[<<1, j>>] = 0 + cost[1][j]
    <3>1. Cell(cost, dp, <<1, 1>>) = 0 + cost[1][1]
      BY FirstRow
    <3>2. QED
      BY <1>2, <2>1, <3>1
  <2>3. cost[1][1] \in Nat
    <3>1. 1 \in 1 .. n
      BY <1>1
    <3>2. QED
      BY <1>1, <3>1 DEF Telling
  <2>4. QED
    BY <1>1, <2>1, <2>2, <2>3
<1>5. ASSUME NEW i \in 1 .. n - 1, LeastInRow(dp, f, n, m, i)
      PROVE  LeastInRow(dp, f, n, m, i + 1)
  <2> DEFINE own == dp[<<i, f[i]>>]
             up(j) == dp[<<i, j - 1>>]
             left(j) == dp[<<i, j>>]
  <2>1. /\ i \in 1 .. n /\ i + 1 \in 1 .. n /\ i \in Nat /\ i + 1 \in Nat /\ i + 1 > 1
        /\ (i + 1) - 1 = i
    BY <1>1
  <2>2. f[i + 1] = f[i] \/ f[i + 1] = f[i] + 1
    BY DEF Orderly
  <2>3. /\ f[i] \in Nat /\ f[i] <= i /\ f[i + 1] \in Nat /\ f[i + 1] <= i + 1
        /\ f[i + 1] \in 1 .. m /\ f[i] \in 1 .. m
        /\ <<i, f[i]>> \in CellsOf(n, m) /\ <<i + 1, f[i + 1]>> \in CellsOf(n, m)
    BY <1>3, <2>1
  <2>4. own \in Nat
    BY <1>5, <2>3 DEF LeastInRow
  <2>5. \A j \in 1 .. m : <<i, j>> \in CellsOf(n, m) =>
            left(j) \in Nat /\ own <= left(j) /\ (j # f[i] => own < left(j))
    <3> SUFFICES ASSUME NEW j \in 1 .. m, <<i, j>> \in CellsOf(n, m)
                 PROVE  left(j) \in Nat /\ own <= left(j) /\ (j # f[i] => own < left(j))
      OBVIOUS
    <3>1. left(j) \in Nat /\ (j # f[i] => own < left(j))
      BY <1>5 DEF LeastInRow
    <3>2. j = f[i] => own = left(j)
      OBVIOUS
    <3> HIDE DEF own, left
    <3>3. QED
      BY <2>4, <3>1, <3>2
  <2>6. ASSUME NEW j \in 1 .. m, <<i + 1, j>> \in CellsOf(n, m)
        PROVE  /\ j \in Nat /\ 1 <= j /\ j <= i + 1
               /\ j > 1 => <<i, j - 1>> \in CellsOf(n, m) /\ j - 1 \in 1 .. m
               /\ j # i + 1 => <<i, j>> \in CellsOf(n, m)
    <3>1. j <= i + 1 /\ (i + 1) - j <= n - m /\ j \in Nat /\ 1 <= j
      BY <1>1, <2>1, <2>6 DEF CellsOf
    <3>2. j > 1 => <<i, j - 1>> \in CellsOf(n, m) /\ j - 1 \in 1 .. m
      BY <1>1, <2>1, <3>1 DEF CellsOf
    <3>3. j # i + 1 => <<i, j>> \in CellsOf(n, m)
      BY <1>1, <2>1, <3>1 DEF CellsOf
    <3>4. QED
      BY <3>1, <3>2, <3>3
  <2>7. ASSUME NEW j \in 1 .. m, <<i + 1, j>> \in CellsOf(n, m)
        PROVE  \E before \in Nat :
                  /\ dp[<<i + 1, j>>] = before + cost[i + 1][j]
                  /\ own <= before /\ (j = f[i + 1] => own = before)
    <3>1. dp[<<i + 1, j>>] = Cell(cost, dp, <<i + 1, j>>)
      BY <1>2, <2>7
    <3>2. CASE j = i + 1
      <4>1. Cell(cost, dp, <<i + 1, i + 1>>)
               = dp[<<(i + 1) - 1, (i + 1) - 1>>] + cost[i + 1][i + 1]
        BY <2>1, Diagonal
      <4>2. dp[<<i + 1, j>>] = left(i) + cost[i + 1][j]
        BY <2>1, <3>1, <3>2, <4>1
      <4>3. <<i, i>> \in CellsOf(n, m) /\ i \in 1 .. m
        BY <2>1, <2>6, <2>7, <3>2
      <4>4. left(i) \in Nat /\ own <= left(i)
        BY <2>5, <4>3
      <4>5. j = f[i + 1] => own = left(i)
        <5>1. j = f[i + 1] => f[i] = i
          BY <2>1, <2>2, <2>3, <3>2
        <5>2. QED
          BY <5>1
      <4> HIDE DEF own, left
      <4>6. QED
        BY <4>2, <4>4, <4>5
    <3>3. CASE j # i + 1 /\ j = 1
      <4>1. Cell(cost, dp, <<i + 1, 1>>) = dp[<<(i + 1) - 1, 1>>] + cost[i + 1][1]
        BY <2>1, FirstColumn
      <4>2. dp[<<i + 1, j>>] = left(1) + cost[i + 1][j]
        BY <2>1, <3>1, <3>3, <4>1
      <4>3. <<i, 1>> \in CellsOf(n, m) /\ 1 \in 1 .. m
        BY <1>1, <2>6, <2>7, <3>3
      <4>4. left(1) \in Nat /\ own <= left(1)
        BY <2>5, <4>3
      <4>5. j = f[i + 1] => own = left(1)
        <5>1. j = f[i + 1] => f[i] = 1
          BY <2>1, <2>2, <2>3, <3>3
        <5>2. QED
          BY <5>1
      <4> HIDE DEF own, left
      <4>6. QED
        BY <4>2, <4>4, <4>5
    <3>4. CASE j # i + 1 /\ j # 1
      <4>1. /\ <<i, j - 1>> \in CellsOf(n, m) /\ j - 1 \in 1 .. m /\ <<i, j>> \in CellsOf(n, m)
            /\ j \in Nat /\ j > 1
        BY <2>6, <2>7, <3>4
      <4>2. Cell(cost, dp, <<i + 1, j>>) =
               (IF dp[<<(i + 1) - 1, j - 1>>] <= dp[<<(i + 1) - 1, j>>]
                THEN dp[<<(i + 1) - 1, j - 1>>] ELSE dp[<<(i + 1) - 1, j>>]) + cost[i + 1][j]
        BY <2>1, <3>4, <4>1, Inner
      <4>3. dp[<<i + 1, j>>] =
               (IF up(j) <= left(j) THEN up(j) ELSE left(j)) + cost[i + 1][j]
        BY <2>1, <3>1, <4>2
      <4>4. left(j) \in Nat /\ own <= left(j) /\ (j # f[i] => own < left(j))
        BY <2>5, <4>1
      <4>5. up(j) \in Nat /\ own <= up(j) /\ (j - 1 # f[i] => own < up(j))
        BY <2>5, <4>1
      <4>6. (j = f[i] => own = left(j)) /\ (j - 1 = f[i] => own = up(j))
        OBVIOUS
      <4>7. j = f[i + 1] => j = f[i] \/ j - 1 = f[i]
        BY <2>2, <2>3, <4>1
      <4>8. j # f[i] \/ j - 1 # f[i]
        BY <4>1
      <4> HIDE DEF own, left, up
      <4>9. CASE up(j) <= left(j)
        <5>1. dp[<<i + 1, j>>] = up(j) + cost[i + 1][j]
          BY <4>3, <4>9
        <5>2. j = f[i + 1] => own = up(j)
          BY <2>4, <4>4, <4>5, <4>6, <4>7, <4>8, <4>9
        <5>3. QED
          BY <4>5, <5>1, <5>2
      <4>10. CASE ~(up(j) <= left(j))
        <5>1. dp[<<i + 1, j>>] = left(j) + cost[i + 1][j]
          BY <4>3, <4>10
        <5>2. j = f[i + 1] => own = left(j)
          BY <2>4, <4>4, <4>5, <4>6, <4>7, <4>8, <4>10
        <5>3. QED
          BY <4>4, <5>1, <5>2
      <4>11. QED
        BY <4>9, <4>10
    <3>5. QED
      BY <3>2, <3>3, <3>4
  <2>8. /\ worst \in Nat /\ cost[i + 1][f[i + 1]] \in Nat /\ cost[i + 1][f[i + 1]] < worst
        /\ \A j \in 1 .. m : j # f[i + 1] => cost[i + 1][j] = worst
    BY <2>1 DEF Telling
  <2>9. dp[<<i + 1, f[i + 1]>>] = own + cost[i + 1][f[i + 1]]
    BY <2>3, <2>7
  <2> HIDE DEF own
  <2>10. ASSUME NEW j \in 1 .. m, <<i + 1, j>> \in CellsOf(n, m)
         PROVE  /\ dp[<<i + 1, j>>] \in Nat
                /\ j # f[i + 1] => dp[<<i + 1, f[i + 1]>>] < dp[<<i + 1, j>>]
    <3>1. PICK before \in Nat : dp[<<i + 1, j>>] = before + cost[i + 1][j] /\ own <= before
      BY <2>7, <2>10
    <3>2. CASE j = f[i + 1]
      BY <2>8, <3>1, <3>2
    <3>3. CASE j # f[i + 1]
      <4>1. cost[i + 1][j] = worst
        BY <2>8, <3>3
      <4>2. QED
        BY <2>4, <2>8, <2>9, <3>1, <4>1
    <3>4. QED
      BY <3>2, <3>3
  <2>11. QED
    BY <2>3, <2>10 DEF LeastInRow
<1> DEFINE S == {i \in Nat : i < n => LeastInRow(dp, f, n, m, i + 1)}
<1>6. 0 \in S
  BY <1>4
<1>7. ASSUME NEW i \in Nat, i \in S
      PROVE  i + 1 \in S
  <2> SUFFICES ASSUME i + 1 < n PROVE LeastInRow(dp, f, n, m, (i + 1) + 1)
    OBVIOUS
  <2>1. i + 1 \in 1 .. n - 1 /\ LeastInRow(dp, f, n, m, i + 1)
    BY <1>1, <1>7
  <2>2. QED
    BY <1>5, <2>1
<1> HIDE DEF S
<1>8. Nat \subseteq S
  BY <1>6, <1>7, Induction
<1>9. k - 1 \in S /\ k - 1 < n /\ (k - 1) + 1 = k
  BY <1>1, <1>8
<1>10. QED
  BY <1>9 DEF S

(* Read back from the end, the least cells are the turns' own files: the   *)
(* alignment is the true one, whichever way ties are decided.              *)
LEMMA AlignedIsOwn ==
    ASSUME NEW n, NEW m, NEW f, NEW cost, NEW worst, Orderly(f, n, m),
           Telling(cost, f, n, m, worst)
    PROVE  Aligned(cost, n, m) = f
<1>1. /\ n \in Nat /\ m \in Nat /\ 1 <= n /\ 1 <= m /\ f \in [1 .. n -> 1 .. m] /\ f[n] = m
      /\ \A i \in 1 .. n - 1 : f[i + 1] = f[i] \/ f[i + 1] = f[i] + 1
  BY DEF Orderly
<1>2. PICK dp : dp = Table(cost, n, m)
  OBVIOUS
<1>3. \A i \in 1 .. n : LeastInRow(dp, f, n, m, i)
  BY <1>1, <1>2, TableIsFilled, OwnIsLeast
<1> DEFINE Back(g) ==
               g = [i \in 1 .. n |->
                       IF i = n THEN m
                       ELSE g[i + 1] - (IF Opens(dp, i + 1, g[i + 1]) THEN 1 ELSE 0)]
<1>4. ASSUME NEW i \in 1 .. n - 1
      PROVE  f[i] = f[i + 1] - (IF Opens(dp, i + 1, f[i + 1]) THEN 1 ELSE 0)
  <2>1. PICK j : j = f[i + 1]
    OBVIOUS
  <2>2. /\ i \in 1 .. n /\ i + 1 \in 1 .. n /\ i \in Nat /\ j \in Nat /\ f[i] \in Nat
        /\ j \in 1 .. m /\ f[i] \in 1 .. m /\ (i + 1) - 1 = i
    BY <1>1, <2>1
  <2>3. f[i] <= i /\ i - f[i] <= n - m /\ j <= i + 1 /\ (i + 1) - j <= n - m
    BY <2>1, <2>2, OwnCells
  <2>4. j = f[i] \/ j = f[i] + 1
    BY <1>1, <2>1
  <2>5. Opens(dp, i + 1, j) <=> i + 1 = j \/ (j > 1 /\ dp[<<i, j - 1>>] <= dp[<<i, j>>])
    BY <2>2 DEF Opens, Prefers
  <2>6. /\ <<i, f[i]>> \in CellsOf(n, m)
        /\ \A h \in 1 .. m : <<i, h>> \in CellsOf(n, m) =>
              dp[<<i, h>>] \in Nat /\ (h # f[i] => dp[<<i, f[i]>>] < dp[<<i, h>>])
    BY <1>3, <2>2 DEF LeastInRow
  <2>7. CASE j = f[i] + 1
    <3>1. j - 1 = f[i] /\ j > 1
      BY <2>2, <2>7
    <3>2. CASE i + 1 = j
      BY <2>1, <2>2, <2>5, <2>7, <3>2
    <3>3. CASE i + 1 # j
      <4>1. <<i, j>> \in CellsOf(n, m)
        BY <1>1, <2>2, <2>3, <3>3 DEF CellsOf
      <4>2. dp[<<i, f[i]>>] \in Nat /\ dp[<<i, j>>] \in Nat /\ dp[<<i, f[i]>>] < dp[<<i, j>>]
        BY <2>2, <2>6, <2>7, <4>1
      <4>3. dp[<<i, j - 1>>] <= dp[<<i, j>>]
        BY <3>1, <4>2
      <4>4. QED
        BY <2>1, <2>2, <2>5, <2>7, <3>1, <4>3
    <3>4. QED
      BY <3>2, <3>3
  <2>8. CASE j = f[i]
    <3>1. i + 1 # j
      BY <2>2, <2>3, <2>8
    <3>2. j > 1 => ~(dp[<<i, j - 1>>] <= dp[<<i, j>>])
      <4> SUFFICES ASSUME j > 1 PROVE ~(dp[<<i, j - 1>>] <= dp[<<i, j>>])
        OBVIOUS
      <4>1. j - 1 \in 1 .. m /\ j - 1 # f[i]
        BY <1>1, <2>2, <2>8
      <4>2. <<i, j - 1>> \in CellsOf(n, m)
        BY <1>1, <2>2, <2>3, <4>1 DEF CellsOf
      <4>3. /\ dp[<<i, j - 1>>] \in Nat /\ dp[<<i, f[i]>>] \in Nat
            /\ dp[<<i, f[i]>>] < dp[<<i, j - 1>>]
        BY <2>2, <2>6, <4>1, <4>2
      <4>4. QED
        BY <2>8, <4>3
    <3>3. QED
      BY <2>1, <2>2, <2>5, <2>8, <3>1, <3>2
  <2>9. QED
    BY <2>4, <2>7, <2>8
<1>5. Back(f)
  <2>1. \A i \in 1 .. n : i # n => i \in 1 .. n - 1
    BY <1>1
  <2>2. QED
    BY <1>1, <1>4, <2>1
<1>6. ASSUME NEW g, Back(g)
      PROVE  g = f
  <2> DEFINE S == {d \in Nat : d < n => g[n - d] = f[n - d]}
  <2>1. 0 \in S
    BY <1>1, <1>6
  <2>2. ASSUME NEW d \in Nat, d \in S
        PROVE  d + 1 \in S
    <3> SUFFICES ASSUME d + 1 < n PROVE g[n - (d + 1)] = f[n - (d + 1)]
      OBVIOUS
    <3>1. PICK i : i = n - (d + 1)
      OBVIOUS
    <3>2. i \in 1 .. n - 1 /\ i \in 1 .. n /\ n - d = i + 1 /\ d < n /\ i # n
      BY <1>1, <3>1
    <3>3. g[i + 1] = f[i + 1]
      BY <2>2, <3>2
    <3>4. g[i] = g[i + 1] - (IF Opens(dp, i + 1, g[i + 1]) THEN 1 ELSE 0)
      BY <1>6, <3>2
    <3>5. g[i] = f[i]
      BY <1>4, <3>2, <3>3, <3>4
    <3>6. QED
      BY <3>1, <3>5
  <2> HIDE DEF S
  <2>3. Nat \subseteq S
    BY <2>1, <2>2, Induction
  <2>4. ASSUME NEW i \in 1 .. n
        PROVE  g[i] = f[i]
    <3>1. n - i \in Nat /\ n - i < n /\ n - (n - i) = i
      BY <1>1
    <3>2. n - i \in S
      BY <2>3, <3>1
    <3>3. QED
      BY <3>1, <3>2 DEF S
  <2>5. g = [i \in 1 .. n |-> g[i]]
    BY <1>6
  <2>6. f = [i \in 1 .. n |-> f[i]]
    BY <1>1
  <2>7. QED
    BY <2>4, <2>5, <2>6
<1>7. ~(n < m)
  <2>1. n \in 1 .. n
    BY <1>1
  <2>2. f[n] <= n
    BY <2>1, OwnCells
  <2>3. QED
    BY <1>1, <2>2
<1>8. Aligned(cost, n, m) = CHOOSE g : Back(g)
  BY <1>2, <1>7 DEF Aligned
<1> HIDE DEF Back
<1>9. QED
  BY <1>5, <1>6, <1>8

-----------------------------------------------------------------------------
(* The turns with words, in their order.                                   *)

\* w lists the members of W upwards, each once.
Lists(w, n, W) ==
    /\ n \in Nat /\ w \in [1 .. n -> W]
    /\ \A k, l \in 1 .. n : k < l => w[k] < w[l]
    /\ \A i \in W : \E k \in 1 .. n : w[k] = i

LEMMA RankedLists ==
    ASSUME NEW n \in Nat, NEW W \in SUBSET (1 .. n)
    PROVE  Lists(Ranked(W), Cardinality(W), W)
<1>0. \A i \in W : i \in Nat
  OBVIOUS
<1>1. IsFiniteSet(W) /\ Cardinality(W) \in Nat
  <2>1. IsFiniteSet(1 .. n)
    BY FS_Interval
  <2>2. IsFiniteSet(W)
    BY <2>1, FS_Subset
  <2>3. QED
    BY <2>2, FS_CardinalityType
<1> DEFINE Upto(i) == {j \in W : j <= i}
<1>2. ASSUME NEW i \in W
      PROVE  IsFiniteSet(Upto(i)) /\ Rank(i, W) = Cardinality(Upto(i))
  <2>1. Upto(i) \in SUBSET W
    OBVIOUS
  <2>2. IsFiniteSet(Upto(i))
    BY <1>1, <2>1, FS_Subset
  <2>3. QED
    BY <2>2 DEF Rank
<1>3. ASSUME NEW i \in W
      PROVE  Rank(i, W) \in 1 .. Cardinality(W)
  <2>1. Upto(i) \in SUBSET W /\ i \in Upto(i)
    OBVIOUS
  <2> HIDE DEF Upto
  <2>2. Cardinality(Upto(i)) <= Cardinality(W)
    BY <1>1, <2>1, FS_Subset
  <2>3. Cardinality(Upto(i)) \in Nat
    BY <1>2, FS_CardinalityType
  <2>4. Cardinality(Upto(i)) # 0
    BY <1>2, <2>1, FS_EmptySet
  <2>5. QED
    BY <1>1, <1>2, <2>2, <2>3, <2>4
<1>4. ASSUME NEW i \in W, NEW j \in W, i < j
      PROVE  Rank(i, W) < Rank(j, W)
  <2>1. Upto(i) \in SUBSET Upto(j) /\ j \in Upto(j) /\ j \notin Upto(i)
    <3>1. i \in Nat /\ j \in Nat
      BY <1>0
    <3>2. \A k \in W : k <= i => k <= j
      BY <1>0, <1>4, <3>1
    <3>3. j <= j /\ ~(j <= i)
      BY <1>4, <3>1
    <3>4. QED
      BY <3>2, <3>3
  <2> HIDE DEF Upto
  <2>2. Cardinality(Upto(i)) <= Cardinality(Upto(j))
    BY <1>2, <2>1, FS_Subset
  <2>3. Cardinality(Upto(i)) # Cardinality(Upto(j))
    BY <1>2, <2>1, FS_Subset
  <2>4. Cardinality(Upto(i)) \in Nat /\ Cardinality(Upto(j)) \in Nat
    BY <1>2, FS_CardinalityType
  <2>5. QED
    BY <1>2, <2>2, <2>3, <2>4
<1>5. \A i, j \in W : Rank(i, W) = Rank(j, W) => i = j
  <2> SUFFICES ASSUME NEW i \in W, NEW j \in W, Rank(i, W) = Rank(j, W) PROVE i = j
    OBVIOUS
  <2>1. Rank(i, W) \in Nat
    BY <1>3
  <2>2. ~(i < j)
    BY <1>4, <2>1
  <2>3. ~(j < i)
    BY <1>4, <2>1
  <2>4. QED
    BY <2>2, <2>3
<1>6. \A k \in 1 .. Cardinality(W) : \E i \in W : Rank(i, W) = k
  <2> DEFINE rank == [i \in W |-> Rank(i, W)]
  <2>1. rank \in Injection(W, 1 .. Cardinality(W))
    <3>1. rank \in [W -> 1 .. Cardinality(W)]
      BY <1>3
    <3>2. \A i, j \in W : rank[i] = rank[j] => i = j
      BY <1>5
    <3> HIDE DEF rank
    <3>3. QED
      BY <3>1, <3>2 DEF Injection, IsInjective
  <2>2. IsFiniteSet(1 .. Cardinality(W))
        /\ Cardinality(1 .. Cardinality(W)) = Cardinality(W)
    BY <1>1, FS_Interval
  <2>3. rank \in Surjection(W, 1 .. Cardinality(W))
    BY <2>1, <2>2, FS_Injection
  <2>4. QED
    BY <2>3 DEF Surjection
<1> DEFINE w == Ranked(W)
<1>7. ASSUME NEW k \in 1 .. Cardinality(W)
      PROVE  w[k] \in W /\ Rank(w[k], W) = k
  <2>1. w[k] = CHOOSE i \in W : Rank(i, W) = k
    BY DEF Ranked
  <2>2. QED
    BY <1>6, <2>1
<1>8. w \in [1 .. Cardinality(W) -> W]
  <2>1. w = [k \in 1 .. Cardinality(W) |-> w[k]]
    BY DEF Ranked
  <2>2. QED
    BY <1>7, <2>1
<1>9. ASSUME NEW k \in 1 .. Cardinality(W), NEW l \in 1 .. Cardinality(W), k < l
      PROVE  w[k] < w[l]
  <2>1. w[k] \in W /\ w[l] \in W /\ Rank(w[k], W) = k /\ Rank(w[l], W) = l
    BY <1>7
  <2> HIDE DEF w
  <2>2. w[k] # w[l] /\ ~(w[l] < w[k])
    <3>1. w[l] < w[k] => l < k
      BY <1>4, <2>1
    <3>2. w[k] = w[l] => k = l
      BY <2>1
    <3>3. QED
      BY <1>1, <1>9, <3>1, <3>2
  <2>3. w[k] \in Nat /\ w[l] \in Nat
    BY <1>0, <2>1
  <2>4. QED
    BY <2>2, <2>3
<1>10. ASSUME NEW i \in W
       PROVE  \E k \in 1 .. Cardinality(W) : w[k] = i
  <2>1. Rank(i, W) \in 1 .. Cardinality(W)
    BY <1>3
  <2>2. w[Rank(i, W)] \in W /\ Rank(w[Rank(i, W)], W) = Rank(i, W)
    BY <1>7, <2>1
  <2>3. QED
    BY <1>5, <2>1, <2>2
<1>11. QED
  BY <1>1, <1>8, <1>9, <1>10 DEF Lists

-----------------------------------------------------------------------------
\* The files are heard one after the other, each in one turn at least, and a
\* run whose notes do not say that it is invalid has heard the last.
FilesInOrder ==
    /\ \A i \in 1 .. turn : heardIn[i] \in 1 .. file
    /\ \A i, j \in 1 .. turn : i <= j => heardIn[i] <= heardIn[j]
    /\ \A f \in 1 .. file - 1 : \E i \in 1 .. turn : heardIn[i] = f
    /\ pump # "playing" => turn # 0 /\ heardIn[turn] = file
    /\ pump = "done" => file = Files
    /\ closed /\ ~noted => pump = "done"

LEMMA FilesPreserved == IInv /\ FilesInOrder /\ [Next]_vars => FilesInOrder'
<1> SUFFICES ASSUME IInv, FilesInOrder, [Next]_vars
             PROVE  FilesInOrder'
  OBVIOUS
<1>1. /\ turn \in Nat /\ turn \in 0 .. MaxTurns /\ MaxTurns \in Nat
      /\ heardIn \in [Turn -> 0 .. Files] /\ file \in 1 .. Files /\ Files \in Nat
  BY Sizes, FilesAssumption DEF IInv, TypeOK, SourceTypeOK, TurnTypeOK, Owner
<1>2. ASSUME UNCHANGED <<pump, file, turn, heardIn, closed, noted>>
      PROVE  FilesInOrder'
  BY <1>2 DEF FilesInOrder
<1>3. CASE UNCHANGED vars
  BY <1>2, <1>3 DEF vars, sourceVars, turnVars, logVars
<1>4. CASE Next
  <2>1. ~closed
    BY <1>4 DEF Next
  <2>2. CASE FileEnds
    <3>1. /\ turn # 0 /\ heardIn[turn] = file /\ pump' = "gap"
          /\ UNCHANGED <<file, turn, heardIn, closed, noted>>
      BY <2>2 DEF FileEnds, Heard, turnVars, logVars
    <3>2. QED
      BY <2>1, <3>1 DEF FilesInOrder
  <2>3. CASE GapEnds
    <3>1. /\ pump = "gap" /\ pump' = IF file < Files THEN "gate" ELSE "done"
          /\ UNCHANGED <<file, turn, heardIn, closed, noted>>
      BY <2>3 DEF GapEnds, turnVars, logVars
    <3>2. pump' = "done" => file = Files
      BY <1>1, <3>1
    <3>3. QED
      BY <2>1, <3>1, <3>2 DEF FilesInOrder
  <2>4. CASE GateOpens \/ GateTimesOut
    <3>1. /\ pump = "gate" /\ pump' = "playing" /\ file' = file + 1
          /\ UNCHANGED <<turn, heardIn, closed, noted>>
      BY <2>4 DEF GateOpens, GateTimesOut, NextFile, turnVars, logVars
    <3>2. turn # 0 /\ heardIn[turn] = file /\ turn \in 1 .. turn
      BY <1>1, <3>1 DEF FilesInOrder
    <3>3. ASSUME NEW f \in 1 .. file' - 1
          PROVE  \E i \in 1 .. turn : heardIn[i] = f
      <4>1. f = file \/ f \in 1 .. file - 1
        BY <1>1, <3>1
      <4>2. QED
        BY <3>2, <4>1 DEF FilesInOrder
    <3>4. \A i \in 1 .. turn : heardIn[i] \in 1 .. file'
      BY <1>1, <3>1 DEF FilesInOrder
    <3>5. QED
      BY <2>1, <3>1, <3>3, <3>4 DEF FilesInOrder
  <2>5. CASE UserStarts
    <3>1. /\ pump = "playing" /\ turn < MaxTurns /\ turn' = turn + 1
          /\ heardIn' = [heardIn EXCEPT ![turn + 1] = file]
          /\ UNCHANGED <<pump, file, closed, noted>>
      BY <2>5 DEF UserStarts, TurnStarted, sourceVars, logVars
    <3>2. /\ turn + 1 \in Turn /\ heardIn'[turn + 1] = file
          /\ \A i \in 1 .. turn : heardIn'[i] = heardIn[i]
      BY <1>1, <3>1 DEF Turn
    <3>3. \A i \in 1 .. turn' : i \in 1 .. turn \/ i = turn + 1
      BY <1>1, <3>1
    <3>4. \A i \in 1 .. turn : heardIn[i] \in 1 .. file
      BY DEF FilesInOrder
    <3>5. \A i \in 1 .. turn' : heardIn'[i] \in 1 .. file
      BY <1>1, <3>2, <3>3, <3>4
    <3>6. ASSUME NEW i \in 1 .. turn', NEW j \in 1 .. turn', i <= j
          PROVE  heardIn'[i] <= heardIn'[j]
      <4>1. CASE j = turn + 1
        BY <1>1, <3>2, <3>5, <4>1
      <4>2. CASE j \in 1 .. turn
        <5>1. i \in 1 .. turn
          BY <1>1, <3>1, <3>6, <4>2
        <5>2. QED
          BY <3>2, <3>6, <4>2, <5>1 DEF FilesInOrder
      <4>3. QED
        BY <3>3, <4>1, <4>2
    <3>7. ASSUME NEW f \in 1 .. file - 1
          PROVE  \E i \in 1 .. turn' : heardIn'[i] = f
      <4>1. PICK i \in 1 .. turn : heardIn[i] = f
        BY DEF FilesInOrder
      <4>2. i \in 1 .. turn' /\ heardIn'[i] = f
        BY <1>1, <3>1, <3>2, <4>1
      <4>3. QED
        BY <4>2
    <3>8. QED
      BY <2>1, <3>1, <3>5, <3>6, <3>7 DEF FilesInOrder
  <2>6. CASE UserStops \/ FinalLands \/ DecodeHangs \/ LlmFinishes \/ Speak \/ Synthesized
    <3>1. UNCHANGED <<pump, file, turn, heardIn, closed, noted>>
      BY <2>6 DEF UserStops, FinalLands, DecodeHangs, LlmFinishes, Speak, Synthesized,
                  sourceVars, turnVars, logVars
    <3>2. QED
      BY <1>2, <3>1
  <2>7. CASE BotStops \/ WatchdogSettles \/ WatchdogFindsHung \/ WatchdogFindsStuck
    <3>1. UNCHANGED <<pump, file, turn, heardIn, closed, noted>>
      BY <2>7 DEF BotStops, WatchdogSettles, WatchdogFindsHung, WatchdogFindsStuck,
                  CloseTurn, sourceVars, turnVars, logVars
    <3>2. QED
      BY <1>2, <3>1
  <2>8. CASE Abort \/ RunEnds
    <3>1. noted' = (void # "no") /\ UNCHANGED <<pump, file, turn, heardIn>>
      BY <2>8 DEF Abort, RunEnds, CloseLog, CloseTurn, sourceVars, turnVars
    <3>2. ~noted' => pump = "done"
      BY <2>8, <3>1 DEF Abort, RunEnds, Finished
    <3>3. QED
      BY <3>1, <3>2 DEF FilesInOrder
  <2>9. QED
    BY <1>4, <2>2, <2>3, <2>4, <2>5, <2>6, <2>7, <2>8 DEF Next
<1>5. QED
  BY <1>3, <1>4

-----------------------------------------------------------------------------
(* The log of a run that counts.                                           *)

\* The files of the turns that have words.
OwnFiles(said) == [k \in DOMAIN Worded(said) |-> heardIn[Worded(said)[k]]]

\* What a run that counts has heard.
Settled ==
    /\ turn \in Nat /\ Files \in Nat /\ 1 <= Files /\ DOMAIN log = 1 .. turn
    /\ \A i \in DOMAIN log : heardIn[i] \in 1 .. Files
    /\ \A i, j \in DOMAIN log : i <= j => heardIn[i] <= heardIn[j]
    /\ \A f \in 1 .. Files : \E i \in DOMAIN log : heardIn[i] = f

LEMMA CountedIsSettled ==
    ASSUME IInv, FinalsOfTheirFiles, FilesInOrder, RunCounts
    PROVE  Settled
<1>1. /\ turn \in Nat /\ log \in Seq(Record) /\ Len(log) = turn
      /\ Files \in Nat /\ 1 <= Files
  BY FilesAssumption
     DEF IInv, TypeOK, TurnTypeOK, LogTypeOK, Owner, FinalsOfTheirFiles, RunCounts
<1>2. DOMAIN log = 1 .. turn
  BY <1>1
<1>3. file = Files /\ turn # 0 /\ heardIn[turn] = Files
  BY DEF FilesInOrder, RunCounts
<1>4. ASSUME NEW f \in 1 .. Files
      PROVE  \E i \in 1 .. turn : heardIn[i] = f
  <2>1. CASE f = Files
    BY <1>1, <1>3, <2>1
  <2>2. CASE f # Files
    <3>1. f \in 1 .. file - 1
      BY <1>1, <1>3, <2>2
    <3>2. QED
      BY <3>1 DEF FilesInOrder
  <2>3. QED
    BY <2>1, <2>2
<1>5. QED
  BY <1>1, <1>2, <1>3, <1>4 DEF Settled, FilesInOrder

\* Every turn is followed by one of its file that has words, if not by another
\* then by itself.
LEMMA WordsFollow ==
    ASSUME Settled, NEW said \in Transcripts, NEW i \in DOMAIN log
    PROVE  \E j \in WithWords(said) : j >= i /\ heardIn[j] = heardIn[i]
<1>1. \E j \in DOMAIN log : j >= i /\ heardIn[j] = heardIn[i] /\ said[j] # AllError
  BY DEF Transcripts
<1>2. QED
  BY <1>1 DEF WithWords, HasWords

LEMMA WordedLists ==
    ASSUME Settled, NEW said \in Transcripts
    PROVE  /\ Lists(Worded(said), Cardinality(WithWords(said)), WithWords(said))
           /\ WithWords(said) \subseteq DOMAIN log
           /\ DOMAIN Worded(said) = 1 .. Cardinality(WithWords(said))
           /\ Len(Worded(said)) = Cardinality(WithWords(said))
<1> DEFINE W == WithWords(said)
           N == Cardinality(WithWords(said))
           w == Worded(said)
<1>1. turn \in Nat /\ W \in SUBSET (1 .. turn) /\ W \subseteq DOMAIN log
  BY DEF Settled, WithWords
<1> HIDE DEF W
<1>2. Lists(Ranked(W), Cardinality(W), W)
  BY <1>1, RankedLists
<1>3. Lists(w, N, W)
  BY <1>2 DEF Worded, W
<1> HIDE DEF w, N
<1>4. N \in Nat /\ w \in [1 .. N -> W]
  BY <1>3 DEF Lists
<1>5. w \in Seq(W) /\ DOMAIN w = 1 .. N
  BY <1>4
<1>6. Len(w) = N
  BY <1>4, <1>5
<1>7. QED
  BY <1>1, <1>3, <1>5, <1>6 DEF W, w, N

LEMMA FilesAreOrderly ==
    ASSUME Settled, NEW said \in Transcripts
    PROVE  Orderly(OwnFiles(said), Len(Worded(said)), Files)
<1>1. PICK W : W = WithWords(said)
  OBVIOUS
<1>2. PICK w : w = Worded(said)
  OBVIOUS
<1>3. PICK n : n = Len(w)
  OBVIOUS
<1>4. PICK f : f = OwnFiles(said)
  OBVIOUS
<1>5. Lists(w, n, W) /\ W \subseteq DOMAIN log /\ DOMAIN w = 1 .. n
  BY <1>1, <1>2, <1>3, WordedLists
<1>6. /\ n \in Nat /\ \A k \in 1 .. n : w[k] \in W /\ w[k] \in DOMAIN log /\ w[k] \in Nat
      /\ \A k, l \in 1 .. n : k < l => w[k] < w[l]
      /\ \A i \in W : \E k \in 1 .. n : w[k] = i
  BY <1>5 DEF Lists, Settled
<1>7. f = [k \in 1 .. n |-> heardIn[w[k]]]
  BY <1>2, <1>4, <1>5 DEF OwnFiles
<1>8. Files \in Nat /\ 1 <= Files
  BY DEF Settled
<1>9. f \in [1 .. n -> 1 .. Files]
  BY <1>6, <1>7 DEF Settled
<1>10. ASSUME NEW k \in 1 .. n, NEW l \in 1 .. n, k <= l
       PROVE  f[k] <= f[l]
  <2>1. w[k] <= w[l]
    <3>1. k = l \/ k < l
      BY <1>6, <1>10
    <3>2. QED
      BY <1>6, <3>1
  <2>2. heardIn[w[k]] <= heardIn[w[l]]
    BY <1>6, <2>1 DEF Settled
  <2>3. QED
    BY <1>7, <2>2
<1>11. ASSUME NEW g \in 1 .. Files
       PROVE  \E k \in 1 .. n : f[k] = g
  <2>1. PICK i \in DOMAIN log : heardIn[i] = g
    BY DEF Settled
  <2>2. PICK j \in W : heardIn[j] = g
    BY <1>1, <2>1, WordsFollow
  <2>3. PICK k \in 1 .. n : w[k] = j
    BY <1>6
  <2>4. QED
    BY <1>7, <2>2, <2>3
<1>12. 1 <= n
  <2>1. \E k \in 1 .. n : f[k] = 1
    BY <1>8, <1>11
  <2>2. QED
    BY <1>6, <2>1
<1>13. f[1] = 1
  <2>1. PICK k \in 1 .. n : f[k] = 1
    BY <1>8, <1>11
  <2>2. 1 \in 1 .. n /\ 1 <= k
    BY <1>6, <1>12
  <2>3. f[1] <= 1 /\ f[1] \in 1 .. Files
    BY <1>9, <1>10, <2>1, <2>2
  <2>4. QED
    BY <2>3
<1>14. f[n] = Files
  <2>1. PICK k \in 1 .. n : f[k] = Files
    BY <1>8, <1>11
  <2>2. n \in 1 .. n /\ k <= n
    BY <1>6, <1>12
  <2>3. Files <= f[n] /\ f[n] \in 1 .. Files
    BY <1>9, <1>10, <2>1, <2>2
  <2>4. QED
    BY <1>8, <2>3
<1>15. ASSUME NEW k \in 1 .. n - 1
       PROVE  f[k + 1] = f[k] \/ f[k + 1] = f[k] + 1
  <2>1. k \in 1 .. n /\ k + 1 \in 1 .. n /\ k <= k + 1 /\ k \in Nat
    BY <1>6
  <2>2. f[k] \in 1 .. Files /\ f[k + 1] \in 1 .. Files /\ f[k] <= f[k + 1]
    BY <1>9, <1>10, <2>1
  <2>3. ASSUME f[k] + 1 < f[k + 1]
        PROVE  FALSE
    <3>1. f[k] + 1 \in 1 .. Files
      BY <1>8, <2>2, <2>3
    <3>2. PICK l \in 1 .. n : f[l] = f[k] + 1
      BY <1>11, <3>1
    <3>3. CASE l <= k
      <4>1. f[l] <= f[k]
        BY <1>10, <2>1, <3>3
      <4>2. QED
        BY <2>2, <3>2, <4>1
    <3>4. CASE k + 1 <= l
      <4>1. f[k + 1] <= f[l]
        BY <1>10, <2>1, <3>4
      <4>2. QED
        BY <2>2, <2>3, <3>2, <4>1
    <3>5. l \in Nat
      BY <1>6
    <3>6. QED
      BY <2>1, <3>3, <3>4, <3>5
  <2>4. QED
    BY <2>2, <2>3
<1>16. QED
  BY <1>2, <1>3, <1>4, <1>6, <1>8, <1>9, <1>12, <1>13, <1>14, <1>15 DEF Orderly

LEMMA WordsAreTelling ==
    ASSUME Settled, NEW said \in Transcripts
    PROVE  Telling(CostOfWorded(said), OwnFiles(said), Len(Worded(said)), Files, AllError)
<1>1. AllError \in Nat
  BY DEF AllError
<1>2. ASSUME NEW k \in 1 .. Len(Worded(said))
      PROVE  /\ CostOfWorded(said)[k][OwnFiles(said)[k]] \in Nat
             /\ CostOfWorded(said)[k][OwnFiles(said)[k]] < AllError
             /\ \A j \in 1 .. Files :
                   j # OwnFiles(said)[k] => CostOfWorded(said)[k][j] = AllError
  <2>1. PICK i : i = Worded(said)[k]
    OBVIOUS
  <2>2. k \in DOMAIN Worded(said) /\ i \in WithWords(said) /\ i \in DOMAIN log
    BY <2>1, WordedLists DEF Lists
  <2>3. OwnFiles(said)[k] = heardIn[i] /\ CostOfWorded(said)[k] = Cost(said, i)
    BY <2>1, <2>2 DEF OwnFiles, CostOfWorded
  <2>4. heardIn[i] \in 1 .. Files
    BY <2>2 DEF Settled
  <2>5. said[i] \in {0, PartError, AllError} /\ said[i] # AllError
    BY <2>2 DEF Transcripts, WithWords, HasWords
  <2>6. said[i] \in Nat /\ said[i] < AllError
    BY <2>5 DEF PartError, AllError
  <2>7. Cost(said, i)[heardIn[i]] = said[i]
        /\ \A j \in 1 .. Files : j # heardIn[i] => Cost(said, i)[j] = AllError
    BY <2>4 DEF Cost
  <2>8. QED
    BY <2>3, <2>6, <2>7
<1>3. QED
  BY <1>1, <1>2 DEF Telling

\* The turn of a whole file is laid on it, and no other turn is.
LEMMA PositionIsOwn ==
    ASSUME Settled, NEW said \in Transcripts, NEW i \in DOMAIN log, WholeItem(i)
    PROVE  /\ PositionOf(said)[i] = heardIn[i]
           /\ \A j \in DOMAIN log \ {i} : PositionOf(said)[j] # heardIn[i]
<1>1. PICK W : W = WithWords(said)
  OBVIOUS
<1>2. PICK w : w = Worded(said)
  OBVIOUS
<1>3. PICK n : n = Len(w)
  OBVIOUS
<1>4. PICK at : at = AlignedWorded(said)
  OBVIOUS
<1>5. Lists(w, n, W) /\ W \subseteq DOMAIN log /\ DOMAIN w = 1 .. n
  BY <1>1, <1>2, <1>3, WordedLists
<1>6. /\ n \in Nat /\ \A k \in 1 .. n : w[k] \in W /\ w[k] \in DOMAIN log /\ w[k] \in Nat
      /\ \A k, l \in 1 .. n : k < l => w[k] < w[l]
      /\ \A j \in W : \E k \in 1 .. n : w[k] = j
  BY <1>5 DEF Lists, Settled
<1>7. at = [k \in 1 .. n |-> heardIn[w[k]]]
  <2>1. Aligned(CostOfWorded(said), Len(Worded(said)), Files) = OwnFiles(said)
    BY FilesAreOrderly, WordsAreTelling, AlignedIsOwn
  <2>2. QED
    BY <1>2, <1>3, <1>4, <1>5, <2>1 DEF AlignedWorded, OwnFiles
<1> DEFINE Nexts(j) == {k \in DOMAIN at : w[k] >= j}
<1>8. PositionOf(said) = [j \in DOMAIN log |->
                             IF Nexts(j) = {} THEN 0 ELSE at[Min(Nexts(j))]]
  BY <1>2, <1>4 DEF PositionOf
<1>9. ASSUME NEW j \in DOMAIN log
      PROVE  \E k \in 1 .. n : /\ w[k] >= j /\ PositionOf(said)[j] = heardIn[w[k]]
                               /\ \A l \in 1 .. n : w[l] >= j => k <= l
  <2>1. PICK v \in W : v >= j
    BY <1>1, WordsFollow
  <2>2. PICK h \in 1 .. n : w[h] = v
    BY <1>6
  <2>3. h \in Nexts(j)
    BY <1>7, <2>1, <2>2
  <2>4. Nexts(j) \subseteq Nat /\ Nexts(j) # {}
    BY <1>7, <2>3
  <2>5. PICK k \in Nexts(j) : \A l \in Nexts(j) : k <= l
    <3> HIDE DEF Nexts
    <3>1. QED
      BY <2>4, Least
  <2>6. Min(Nexts(j)) = k
    <3> HIDE DEF Nexts
    <3>1. \A l \in Nexts(j) : (\A g \in Nexts(j) : l <= g) => l = k
      <4> SUFFICES ASSUME NEW l \in Nexts(j), \A g \in Nexts(j) : l <= g PROVE l = k
        OBVIOUS
      <4>1. l <= k /\ k <= l /\ l \in Nat /\ k \in Nat
        BY <2>4, <2>5
      <4>2. QED
        BY <4>1
    <3>2. QED
      BY <2>5, <3>1 DEF Min
  <2>7. PositionOf(said)[j] = at[k]
    <3> HIDE DEF Nexts
    <3>1. QED
      BY <1>8, <2>4, <2>6
  <2>8. k \in 1 .. n /\ w[k] >= j /\ \A l \in 1 .. n : w[l] >= j => k <= l
    BY <1>7, <2>5
  <2>9. QED
    BY <1>7, <2>7, <2>8
<1> HIDE DEF Nexts
<1>10. ASSUME NEW j \in DOMAIN log, heardIn[j] = heardIn[i]
       PROVE  j = i
  <2> DEFINE S == {k \in DOMAIN log : heardIn[k] = heardIn[i]}
  <2>1. i \in S /\ j \in S
    BY <1>10
  <2>2. IsFiniteSet(S)
    <3>1. IsFiniteSet(1 .. turn)
      BY FS_Interval DEF Settled
    <3>2. S \subseteq 1 .. turn
      BY DEF Settled
    <3>3. QED
      BY <3>1, <3>2, FS_Subset
  <2>3. Cardinality(S) = 1
    BY DEF WholeItem, PerItem
  <2> HIDE DEF S
  <2>4. QED
    BY <2>1, <2>2, <2>3, OnlyOne
<1>11. i \in Nat /\ \A j \in DOMAIN log : j \in Nat
  BY DEF Settled
<1>12. PositionOf(said)[i] = heardIn[i]
  <2>1. i \in W
    <3>1. PICK j \in W : j >= i /\ heardIn[j] = heardIn[i]
      BY <1>1, WordsFollow
    <3>2. QED
      BY <1>5, <1>10, <3>1
  <2>2. PICK h \in 1 .. n : w[h] = i
    BY <1>6, <2>1
  <2>3. PICK k \in 1 .. n : /\ w[k] >= i /\ PositionOf(said)[i] = heardIn[w[k]]
                            /\ \A l \in 1 .. n : w[l] >= i => k <= l
    BY <1>9
  <2>4. k <= h
    BY <1>11, <2>2, <2>3
  <2>5. ~(k < h)
    <3>1. k < h => w[k] < w[h]
      BY <1>6
    <3>2. w[k] \in Nat
      BY <1>6
    <3>3. QED
      BY <1>11, <2>2, <2>3, <3>1, <3>2
  <2>6. k = h
    BY <1>6, <2>4, <2>5
  <2>7. QED
    BY <2>2, <2>3, <2>6
<1>13. ASSUME NEW j \in DOMAIN log \ {i}, PositionOf(said)[j] = heardIn[i]
       PROVE  FALSE
  <2>1. PICK k \in 1 .. n : /\ w[k] >= j /\ PositionOf(said)[j] = heardIn[w[k]]
                            /\ \A l \in 1 .. n : w[l] >= j => k <= l
    BY <1>9
  <2>2. w[k] = i
    <3>1. w[k] \in DOMAIN log /\ heardIn[w[k]] = heardIn[i]
      BY <1>6, <1>13, <2>1
    <3>2. QED
      BY <1>10, <3>1
  <2>3. PICK v \in W : v >= j /\ heardIn[v] = heardIn[j]
    BY <1>1, WordsFollow
  <2>4. PICK l \in 1 .. n : w[l] = v
    BY <1>6
  <2>5. w[k] <= v
    <3>1. k <= l
      BY <2>1, <2>3, <2>4
    <3>2. k = l \/ k < l
      BY <1>6, <3>1
    <3>3. w[k] \in Nat
      BY <1>6
    <3>4. k < l => w[k] < w[l]
      BY <1>6
    <3>5. v \in Nat
      BY <1>5, <1>11
    <3>6. QED
      BY <2>4, <3>2, <3>3, <3>4, <3>5
  <2>6. j <= i /\ i <= v
    BY <1>11, <2>1, <2>2, <2>5
  <2>7. heardIn[j] <= heardIn[i] /\ heardIn[i] <= heardIn[v]
    BY <1>5, <2>6 DEF Settled
  <2>8. heardIn[j] \in Nat /\ heardIn[i] \in Nat
    BY DEF Settled
  <2>9. heardIn[j] = heardIn[i]
    BY <2>3, <2>7, <2>8
  <2>10. QED
    BY <1>10, <2>9
<1>14. QED
  BY <1>12, <1>13

-----------------------------------------------------------------------------
\* However long the playlist and however its turns are split, a valid turn
\* that holds the whole of its file is scored on that file: the alignment of
\* what was said to what was played is the true one, for no error of another
\* file is as small as a turn's own (p7_score.py, align, main).
THEOREM WholeTurnsAreKept == Spec => []WholeKept
<1>1. Init => FinalsOfTheirFiles /\ FilesInOrder
  <2> SUFFICES ASSUME Init PROVE FinalsOfTheirFiles /\ FilesInOrder
    OBVIOUS
  <2>1. /\ marks.final = 0 /\ turn = 0 /\ log = <<>> /\ ~closed
        /\ pump = "playing" /\ file = 1
    BY DEF Init, NoMarks
  <2>2. FinalsOfTheirFiles
    BY <2>1 DEF FinalsOfTheirFiles
  <2>3. FilesInOrder
    BY <2>1 DEF FilesInOrder
  <2>4. QED
    BY <2>2, <2>3
<1>2. IInv /\ FinalsOfTheirFiles /\ FilesInOrder => WholeKept
  <2> SUFFICES ASSUME IInv, FinalsOfTheirFiles, FilesInOrder, RunCounts,
                      NEW said \in Transcripts, NEW i \in DOMAIN log, Counted(i)
               PROVE  i \in ScoredByText(said) /\ PositionOf(said)[i] = heardIn[i]
    BY DEF WholeKept
  <2>1. Settled
    BY CountedIsSettled
  <2>2. WholeItem(i) /\ log[i].valid
    BY DEF Counted
  <2>3. PositionOf(said)[i] = heardIn[i]
        /\ \A j \in DOMAIN log \ {i} : PositionOf(said)[j] # heardIn[i]
    BY <2>1, <2>2, PositionIsOwn
  <2>4. said[i] = 0
    BY <2>2 DEF Transcripts
  <2>5. heardIn[i] \in 1 .. Files /\ heardIn[i] # 0
    BY <2>1 DEF Settled
  <2>6. Cost(said, i)[heardIn[i]] = 0
    BY <2>4, <2>5 DEF Cost
  <2>7. HasWords(said, i) /\ 0 <= FragmentError
    BY <2>4 DEF HasWords, AllError, FragmentError
  <2>8. QED
    BY <2>2, <2>3, <2>5, <2>6, <2>7 DEF ScoredByText
<1>3. QED
  BY <1>1, <1>2, FinalsPreserved, FilesPreserved, Invariance, PTL DEF Spec

-----------------------------------------------------------------------------
(* The reply half of a turn, Reply.  Rep has its turn, its open and its    *)
(* audio in the variables that Turns has them in; nothing below is of      *)
(* Turns' steps.                                                           *)

CONSTANTS ReplyTurns, MaxDeltas, MinClause, Target, Slack, MinCut
VARIABLES owed, llmDone, audible, generating, reply, deltas, inbox, opened, buffer, chunked,
          flush, synth, voiced, queued, deferred, closes

Rep == INSTANCE Reply WITH MaxTurns <- ReplyTurns

Letter == [of : Nat, at : Nat, kind : Rep!Kind]
TtsFrame == [type : {"start", "text", "end"}, text : Seq(Letter)]

\* The symbols of a text that are heard.
Solid(text) == {text[i] : i \in {j \in DOMAIN text : text[j].kind # "blank"}}
OnItsWay == UNION {Solid(inbox[i].text) : i \in DOMAIN inbox}

ReplyShapes ==
    /\ turn \in Nat /\ opened \in BOOLEAN /\ flush \in {"none", "text", "end"}
    /\ inbox \in Seq(TtsFrame)
    /\ closes \in Seq([reason : {"bot_stopped", "watchdog", "timeout"}, backdated : BOOLEAN])
    /\ reply \in Seq(Letter) /\ buffer \in Seq(Letter)
    /\ synth \in Seq(Letter) /\ voiced \in Seq(Letter)

\* Where a reply is: all of it said, or none asked for; asked for, and the TTS
\* has yet to handle its start; streamed; or streamed to its end, which the TTS
\* has yet to handle or flushes for.
Rested ==
    /\ ~generating /\ inbox = <<>> /\ flush = "none" /\ ~opened
    /\ Solid(buffer) = {} /\ synth = <<>>
Asked == generating /\ flush = "none" /\ ~opened /\ inbox = <<Rep!Frame("start", <<>>)>>
Streaming ==
    /\ generating /\ opened /\ flush # "end"
    /\ \A i \in DOMAIN inbox : inbox[i].type = "text"
Ending ==
    /\ ~generating /\ opened
    /\ \/ inbox = <<>> /\ flush = "end"
       \/ /\ inbox # <<>> /\ flush # "end"
          /\ \A i \in DOMAIN inbox : inbox[i].type = IF i = Len(inbox) THEN "end" ELSE "text"

\* A turn has one reply at most, and is open for as long as that lasts.
OneReply ==
    /\ Rested \/ Asked \/ Streaming \/ Ending
    /\ ~Rested => open /\ ~owed
    /\ owed => open
    /\ llmDone => ~owed /\ ~generating
    /\ audible => sounded
    /\ flush = "none" => synth = <<>>

\* What the model streamed has been said, or is still in the TTS.
ReplyKept == Solid(reply) \subseteq Solid(voiced) \cup Solid(synth) \cup Solid(buffer) \cup OnItsWay

ReplyInv == ReplyShapes /\ OneReply /\ ReplyKept

LEMMA SolidOfNothing == Solid(<<>>) = {}
BY DEF Solid

LEMMA SolidOfJoined ==
    ASSUME NEW s \in Seq(Letter), NEW t \in Seq(Letter)
    PROVE  s \o t \in Seq(Letter) /\ Solid(s \o t) = Solid(s) \cup Solid(t)
<1>1. PICK u : u = s \o t
  OBVIOUS
<1>2. /\ Len(s) \in Nat /\ Len(t) \in Nat /\ DOMAIN s = 1 .. Len(s) /\ DOMAIN t = 1 .. Len(t)
      /\ u \in Seq(Letter) /\ DOMAIN u = 1 .. Len(s) + Len(t)
  BY <1>1
<1>3. \A i \in 1 .. Len(s) : u[i] = s[i]
  BY <1>1, <1>2
<1>4. ASSUME NEW i \in 1 .. Len(t)
      PROVE  u[Len(s) + i] = t[i]
  BY <1>1, <1>2
<1>5. Solid(u) \subseteq Solid(s) \cup Solid(t)
  <2>1. ASSUME NEW i \in DOMAIN u, u[i].kind # "blank"
        PROVE  u[i] \in Solid(s) \cup Solid(t)
    <3>1. CASE i <= Len(s)
      <4>1. i \in 1 .. Len(s)
        BY <1>2, <3>1
      <4>2. QED
        BY <1>2, <1>3, <2>1, <4>1 DEF Solid
    <3>2. CASE ~(i <= Len(s))
      <4>1. PICK j \in 1 .. Len(t) : i = Len(s) + j
        <5>1. i - Len(s) \in 1 .. Len(t) /\ i = Len(s) + (i - Len(s))
          BY <1>2, <3>2
        <5>2. QED
          BY <5>1
      <4>2. QED
        BY <1>2, <1>4, <2>1, <4>1 DEF Solid
    <3>3. QED
      BY <3>1, <3>2
  <2>2. QED
    BY <2>1 DEF Solid
<1>6. Solid(s) \subseteq Solid(u)
  <2>1. ASSUME NEW i \in DOMAIN s, s[i].kind # "blank"
        PROVE  s[i] \in Solid(u)
    <3>1. i \in DOMAIN u /\ u[i] = s[i]
      BY <1>2, <1>3
    <3>2. QED
      BY <2>1, <3>1 DEF Solid
  <2>2. QED
    BY <2>1 DEF Solid
<1>7. Solid(t) \subseteq Solid(u)
  <2>1. ASSUME NEW i \in DOMAIN t, t[i].kind # "blank"
        PROVE  t[i] \in Solid(u)
    <3>1. Len(s) + i \in DOMAIN u /\ u[Len(s) + i] = t[i]
      BY <1>2, <1>4
    <3>2. QED
      BY <2>1, <3>1 DEF Solid
  <2>2. QED
    BY <2>1 DEF Solid
<1>8. QED
  BY <1>1, <1>2, <1>5, <1>6, <1>7

\* Cutting a text in two loses nothing of it.
LEMMA SolidOfCut ==
    ASSUME NEW s \in Seq(Letter), NEW e \in 0 .. Len(s)
    PROVE  /\ SubSeq(s, 1, e) \in Seq(Letter) /\ Len(SubSeq(s, 1, e)) = e
           /\ SubSeq(s, e + 1, Len(s)) \in Seq(Letter)
           /\ Solid(s) \subseteq Solid(SubSeq(s, 1, e)) \cup Solid(SubSeq(s, e + 1, Len(s)))
<1>1. Len(s) \in Nat /\ DOMAIN s = 1 .. Len(s) /\ e \in Nat /\ e <= Len(s)
  OBVIOUS
<1>2. PICK a : a = SubSeq(s, 1, e)
  OBVIOUS
<1>3. PICK b : b = SubSeq(s, e + 1, Len(s))
  OBVIOUS
<1>4. a \in Seq(Letter) /\ Len(a) = e /\ DOMAIN a = 1 .. e
  BY <1>1, <1>2
<1>5. b \in Seq(Letter) /\ Len(b) = Len(s) - e /\ DOMAIN b = 1 .. Len(s) - e
  <2>1. b \in Seq(Letter)
    BY <1>1, <1>3
  <2>2. CASE e = Len(s)
    <3>1. b = <<>> /\ Len(s) - e = 0
      BY <1>1, <1>3, <2>2
    <3>2. QED
      BY <2>1, <3>1
  <2>3. CASE e # Len(s)
    <3>1. e + 1 <= Len(s) /\ e + 1 \in Nat
      <4>1. PICK n \in Nat : n = Len(s)
        BY <1>1
      <4>2. e \in Nat /\ e <= n /\ e # n
        BY <1>1, <2>3, <4>1
      <4>3. e + 1 <= n /\ e + 1 \in Nat
        BY <4>2
      <4>4. QED
        BY <4>1, <4>3
    <3>2. Len(b) = Len(s) - (e + 1) + 1
      BY <1>1, <1>3, <3>1
    <3>3. Len(b) = Len(s) - e
      BY <1>1, <3>2
    <3>4. QED
      BY <2>1, <3>3
  <2>4. QED
    BY <2>2, <2>3
<1>6. \A i \in 1 .. e : a[i] = s[i]
  BY <1>1, <1>2
<1>7. \A i \in 1 .. Len(s) - e : b[i] = s[e + i]
  BY <1>1, <1>3
<1>8. ASSUME NEW i \in DOMAIN s, s[i].kind # "blank"
      PROVE  s[i] \in Solid(a) \cup Solid(b)
  <2>1. CASE i <= e
    <3>1. i \in 1 .. e
      BY <1>1, <2>1
    <3>2. QED
      BY <1>4, <1>6, <1>8, <3>1 DEF Solid
  <2>2. CASE ~(i <= e)
    <3>1. PICK j \in 1 .. Len(s) - e : i = e + j
      <4>1. i - e \in 1 .. Len(s) - e /\ i = e + (i - e)
        BY <1>1, <2>2
      <4>2. QED
        BY <4>1
    <3>2. b[j] = s[i]
      BY <1>7, <3>1
    <3>3. QED
      BY <1>5, <1>8, <3>1, <3>2 DEF Solid
  <2>3. QED
    BY <2>1, <2>2
<1>9. Solid(s) \subseteq Solid(a) \cup Solid(b)
  BY <1>8 DEF Solid
<1>10. QED
  BY <1>2, <1>3, <1>4, <1>5, <1>9

LEMMA SmallestIs ==
    ASSUME NEW n \in Nat, NEW T \in SUBSET (1 .. n), T # {}
    PROVE  Rep!Min(T) \in T /\ \A k \in T : Rep!Min(T) <= k
<1>1. T \in SUBSET Nat
  OBVIOUS
<1>2. PICK i \in T : \A k \in T : i <= k
  BY <1>1, Least
<1>3. QED
  BY <1>2 DEF Rep!Min

LEMMA LargestIs ==
    ASSUME NEW n \in Nat, NEW T \in SUBSET (1 .. n), T # {}
    PROVE  Rep!Max(T) \in T /\ \A k \in T : k <= Rep!Max(T)
<1>1. PICK U : U = {n - i : i \in T}
  OBVIOUS
<1>2. U \in SUBSET Nat /\ U # {}
  <2>1. ASSUME NEW u \in U
        PROVE  u \in Nat
    <3>1. PICK i \in 1 .. n : u = n - i
      BY <1>1
    <3>2. QED
      BY <3>1
  <2>2. U # {}
    BY <1>1
  <2>3. QED
    BY <2>1, <2>2
<1>3. PICK m \in U : \A k \in U : m <= k
  BY <1>2, Least
<1>4. PICK i \in T : m = n - i
  BY <1>1
<1>5. ASSUME NEW k \in T
      PROVE  k <= i
  <2>1. n - k \in U
    BY <1>1
  <2>2. n - i <= n - k /\ n \in Nat /\ i \in Nat /\ k \in Nat
    BY <1>3, <1>4, <2>1
  <2>3. QED
    BY <2>2
<1>6. QED
  BY <1>5 DEF Rep!Max

\* str.strip() loses nothing that is heard.
LEMMA SolidOfStripped ==
    ASSUME NEW s \in Seq(Letter)
    PROVE  /\ Rep!Strip(s) \in Seq(Letter) /\ Len(Rep!Strip(s)) \in 0 .. Len(s)
           /\ Solid(s) \subseteq Solid(Rep!Strip(s))
           /\ Solid(s) = {} => Rep!Strip(s) = <<>>
<1>1. Len(s) \in Nat /\ DOMAIN s = 1 .. Len(s)
  OBVIOUS
<1>2. PICK T : T = DOMAIN s \ Rep!Blanks(s)
  OBVIOUS
<1>3. T \in SUBSET (1 .. Len(s)) /\ \A i \in T : s[i].kind # "blank"
  BY <1>1, <1>2 DEF Rep!Blanks
<1>4. \A i \in DOMAIN s : s[i].kind # "blank" => i \in T
  BY <1>2 DEF Rep!Blanks
<1>5. CASE T = {}
  <2>1. Rep!Strip(s) = <<>>
    BY <1>2, <1>5 DEF Rep!Strip
  <2>2. Solid(s) = {}
    BY <1>4, <1>5 DEF Solid
  <2>3. QED
    BY <1>1, <2>1, <2>2
<1>6. CASE T # {}
  <2>1. PICK a \in T : a = Rep!Min(T) /\ \A k \in T : a <= k
    BY <1>1, <1>3, <1>6, SmallestIs
  <2>2. PICK b \in T : b = Rep!Max(T) /\ \A k \in T : k <= b
    BY <1>1, <1>3, <1>6, LargestIs
  <2>3. PICK u : u = SubSeq(s, a, b)
    OBVIOUS
  <2>4. a \in 1 .. Len(s) /\ b \in 1 .. Len(s) /\ a <= b
    BY <1>3, <2>1, <2>2
  <2>5. u \in Seq(Letter) /\ Len(u) = b - a + 1 /\ DOMAIN u = 1 .. b - a + 1
    BY <1>1, <2>3, <2>4
  <2>6. \A i \in 1 .. b - a + 1 : u[i] = s[a + i - 1]
    BY <1>1, <2>3, <2>4
  <2>7. Rep!Strip(s) = u
    BY <1>2, <1>6, <2>1, <2>2, <2>3 DEF Rep!Strip
  <2>8. ASSUME NEW i \in DOMAIN s, s[i].kind # "blank"
        PROVE  s[i] \in Solid(u)
    <3>1. i \in T /\ a <= i /\ i <= b
      BY <1>4, <2>1, <2>2, <2>8
    <3>2. PICK j \in 1 .. b - a + 1 : i = a + j - 1
      <4>1. i - a + 1 \in 1 .. b - a + 1 /\ i = a + (i - a + 1) - 1
        BY <1>1, <2>4, <3>1
      <4>2. QED
        BY <4>1
    <3>3. u[j] = s[i]
      BY <2>6, <3>2
    <3>4. QED
      BY <2>5, <2>8, <3>2, <3>3 DEF Solid
  <2>9. Solid(s) \subseteq Solid(u)
    BY <2>8 DEF Solid
  <2>10. Solid(s) # {}
    BY <1>1, <1>3, <1>6 DEF Solid
  <2>11. Len(u) \in 0 .. Len(s)
    BY <1>1, <2>4, <2>5
  <2>12. QED
    BY <2>5, <2>7, <2>9, <2>10, <2>11
<1>7. QED
  BY <1>5, <1>6

\* A chunk that is cut off the buffer before the end ends inside it.
LEMMA ChunkEnds ==
    ASSUME NEW s \in Seq(Letter)
    PROVE  Rep!LaterEnd(s) \in 0 .. Len(s) /\ Rep!FirstEnd(s) \in 0 .. Len(s)
<1>1. Len(s) \in Nat /\ DOMAIN s = 1 .. Len(s)
  OBVIOUS
<1>2. Rep!LaterEnd(s) \in 0 .. Len(s)
  <2>1. Rep!SentenceEnds(s) \in SUBSET (1 .. Len(s))
    BY <1>1 DEF Rep!SentenceEnds, Rep!Blanks
  <2>2. CASE Rep!SentenceEnds(s) = {}
    BY <1>1, <2>2 DEF Rep!LaterEnd
  <2>3. CASE Rep!SentenceEnds(s) # {}
    <3>1. Rep!Min(Rep!SentenceEnds(s)) \in 1 .. Len(s)
      BY <1>1, <2>1, <2>3, SmallestIs
    <3>2. QED
      BY <1>1, <2>3, <3>1 DEF Rep!LaterEnd
  <2>4. QED
    BY <2>2, <2>3
<1>3. Rep!FirstEnd(s) \in 0 .. Len(s)
  <2>1. CASE Rep!FirstClause(s)
    <3>1. Rep!Marks(s) \in SUBSET (1 .. Len(s)) /\ Rep!Marks(s) # {}
      BY <1>1, <2>1 DEF Rep!Marks, Rep!FirstClause
    <3>2. Rep!Min(Rep!Marks(s)) \in 1 .. Len(s)
      BY <1>1, <3>1, SmallestIs
    <3>3. QED
      BY <1>1, <2>1, <3>2 DEF Rep!FirstEnd
  <2>2. CASE ~Rep!FirstClause(s) /\ Rep!CutAtBlank(s)
    <3>1. Rep!BeforeTarget(s) \in SUBSET (1 .. Len(s)) /\ Rep!BeforeTarget(s) # {}
      BY <1>1, <2>2 DEF Rep!BeforeTarget, Rep!CutAtBlank, Rep!Blanks
    <3>2. Rep!Max(Rep!BeforeTarget(s)) \in 1 .. Len(s)
      BY <1>1, <3>1, LargestIs
    <3>3. Rep!Max(Rep!BeforeTarget(s)) - 1 \in 0 .. Len(s)
      BY <1>1, <3>2
    <3>4. QED
      BY <2>2, <3>3 DEF Rep!FirstEnd
  <2>3. CASE ~Rep!FirstClause(s) /\ ~Rep!CutAtBlank(s)
    BY <1>1, <2>3 DEF Rep!FirstEnd
  <2>4. QED
    BY <2>1, <2>2, <2>3
<1>4. QED
  BY <1>2, <1>3

\* Flushing loses nothing that is heard; it goes on, or it is over, and at the
\* end of a reply it is over when nothing is left.
LEMMA FlushKeeps ==
    ASSUME NEW s \in Seq(Letter), NEW sent, NEW last \in BOOLEAN,
           opened \in BOOLEAN, Rep!Flush(s, sent, last)
    PROVE  /\ buffer' \in Seq(Letter) /\ synth' \in Seq(Letter) /\ opened' \in BOOLEAN
           /\ Solid(s) \subseteq Solid(buffer') \cup Solid(synth')
           /\ \/ flush' = (IF last THEN "end" ELSE "text") /\ (opened' <=> opened)
              \/ /\ flush' = "none" /\ synth' = <<>>
                 /\ IF last THEN ~opened' /\ Solid(buffer') = {} ELSE opened' <=> opened
<1>1. PICK chunk : chunk = Rep!SplitReady(s, sent, last)
  OBVIOUS
<1>2. /\ buffer' = SubSeq(s, Len(chunk) + 1, Len(s)) /\ synth' = Rep!Strip(chunk)
      /\ flush' = IF chunk = <<>> THEN "none" ELSE IF last THEN "end" ELSE "text"
      /\ opened' = (opened /\ ~(chunk = <<>> /\ last))
  BY <1>1 DEF Rep!Flush
<1>3. /\ chunk \in Seq(Letter) /\ Len(chunk) \in 0 .. Len(s)
      /\ Solid(s) \subseteq Solid(chunk) \cup Solid(buffer')
      /\ buffer' \in Seq(Letter)
      /\ last /\ chunk = <<>> => Solid(s) = {} /\ buffer' = s
  <2>1. CASE last
    <3>1. chunk = Rep!Strip(s)
      BY <1>1, <2>1 DEF Rep!SplitReady
    <3>2. chunk \in Seq(Letter) /\ Len(chunk) \in 0 .. Len(s) /\ Solid(s) \subseteq Solid(chunk)
      BY <3>1, SolidOfStripped
    <3>3. buffer' \in Seq(Letter)
      BY <1>2, <3>2, SolidOfCut
    <3>4. ASSUME chunk = <<>> PROVE Solid(s) = {} /\ buffer' = s
      <4>1. Solid(s) = {}
        BY <3>2, <3>4, SolidOfNothing
      <4>2. buffer' = SubSeq(s, 1, Len(s))
        BY <1>2, <3>4
      <4>3. QED
        BY <4>1, <4>2
    <3>5. QED
      BY <3>2, <3>3, <3>4
  <2>2. CASE ~last
    <3>1. PICK e \in 0 .. Len(s) : chunk = SubSeq(s, 1, e)
      BY <1>1, <2>2, ChunkEnds DEF Rep!SplitReady
    <3>2. chunk \in Seq(Letter) /\ Len(chunk) = e
      BY <3>1, SolidOfCut
    <3>3. buffer' = SubSeq(s, e + 1, Len(s))
      BY <1>2, <3>2
    <3>4. QED
      BY <2>2, <3>1, <3>2, <3>3, SolidOfCut
  <2>3. QED
    BY <2>1, <2>2
<1>4. synth' \in Seq(Letter) /\ Solid(chunk) \subseteq Solid(synth')
  BY <1>2, <1>3, SolidOfStripped
<1>5. chunk = <<>> => synth' = <<>>
  BY <1>2, <1>3, SolidOfNothing, SolidOfStripped
<1>6. QED
  BY <1>2, <1>3, <1>4, <1>5

LEMMA FrameComes ==
    ASSUME inbox \in Seq(TtsFrame), NEW f \in TtsFrame, inbox' = Append(inbox, f)
    PROVE  /\ inbox' \in Seq(TtsFrame) /\ inbox' # <<>> /\ Len(inbox') = Len(inbox) + 1
           /\ DOMAIN inbox' = 1 .. Len(inbox) + 1 /\ inbox'[Len(inbox) + 1] = f
           /\ \A i \in DOMAIN inbox : i \in 1 .. Len(inbox) /\ inbox'[i] = inbox[i]
           /\ OnItsWay \cup Solid(f.text) \subseteq OnItsWay'
<1>1. Len(inbox) \in Nat /\ DOMAIN inbox = 1 .. Len(inbox)
  OBVIOUS
<1>2. /\ inbox' \in Seq(TtsFrame) /\ Len(inbox') = Len(inbox) + 1
      /\ DOMAIN inbox' = 1 .. Len(inbox) + 1 /\ inbox'[Len(inbox) + 1] = f
      /\ \A i \in 1 .. Len(inbox) : inbox'[i] = inbox[i]
  BY <1>1
<1>3. inbox' # <<>>
  BY <1>1, <1>2
<1>4. OnItsWay \subseteq OnItsWay'
  <2>1. \A i \in DOMAIN inbox : i \in DOMAIN inbox' /\ inbox'[i] = inbox[i]
    BY <1>1, <1>2
  <2>2. ASSUME NEW i \in DOMAIN inbox, NEW x \in Solid(inbox[i].text)
        PROVE  x \in OnItsWay'
    <3>1. x \in Solid(inbox'[i].text)
      BY <2>1
    <3>2. QED
      BY <2>1, <3>1 DEF OnItsWay
  <2>3. QED
    BY <2>2 DEF OnItsWay
<1>5. Solid(f.text) \subseteq OnItsWay'
  <2>1. Len(inbox) + 1 \in DOMAIN inbox' /\ Solid(inbox'[Len(inbox) + 1].text) = Solid(f.text)
    BY <1>1, <1>2
  <2>2. QED
    BY <2>1 DEF OnItsWay
<1>6. QED
  BY <1>1, <1>2, <1>3, <1>4, <1>5

LEMMA FrameGoes ==
    ASSUME inbox \in Seq(TtsFrame), inbox # <<>>, inbox' = Tail(inbox)
    PROVE  /\ Head(inbox) \in TtsFrame /\ Head(inbox) = inbox[1] /\ 1 \in DOMAIN inbox
           /\ inbox' \in Seq(TtsFrame) /\ Len(inbox') = Len(inbox) - 1
           /\ \A i \in DOMAIN inbox' : i + 1 \in DOMAIN inbox /\ inbox'[i] = inbox[i + 1]
           /\ OnItsWay \subseteq Solid(Head(inbox).text) \cup OnItsWay'
<1>1. PICK n \in Nat : n = Len(inbox) /\ DOMAIN inbox = 1 .. n /\ n # 0
  OBVIOUS
<1>2. /\ inbox' \in Seq(TtsFrame) /\ Len(inbox') = n - 1 /\ DOMAIN inbox' = 1 .. n - 1
      /\ \A i \in 1 .. n - 1 : inbox'[i] = inbox[i + 1]
  BY <1>1
<1>3. Head(inbox) = inbox[1] /\ inbox[1] \in TtsFrame /\ 1 \in 1 .. n
  BY <1>1
<1>4. ASSUME NEW i \in DOMAIN inbox, NEW x \in Solid(inbox[i].text)
      PROVE  x \in Solid(Head(inbox).text) \cup OnItsWay'
  <2>1. CASE i = 1
    BY <1>3, <1>4, <2>1
  <2>2. CASE i # 1
    <3>1. PICK k \in 1 .. n - 1 : i = k + 1
      <4>1. i - 1 \in 1 .. n - 1 /\ i = (i - 1) + 1
        BY <1>1, <2>2
      <4>2. QED
        BY <4>1
    <3>2. k \in DOMAIN inbox' /\ x \in Solid(inbox'[k].text)
      BY <1>2, <1>4, <3>1
    <3>3. QED
      BY <3>2 DEF OnItsWay
  <2>3. QED
    BY <2>1, <2>2
<1>5. OnItsWay \subseteq Solid(Head(inbox).text) \cup OnItsWay'
  BY <1>4 DEF OnItsWay
<1>6. \A i \in DOMAIN inbox' : i + 1 \in DOMAIN inbox /\ inbox'[i] = inbox[i + 1]
  BY <1>1, <1>2
<1>7. QED
  BY <1>1, <1>2, <1>3, <1>5, <1>6

LEMMA ReplyInitially == Rep!Init => ReplyInv
<1> SUFFICES ASSUME Rep!Init PROVE ReplyInv
  OBVIOUS
<1>1. /\ turn = 0 /\ open = FALSE /\ owed = FALSE /\ llmDone = FALSE /\ audible = FALSE
      /\ closes = <<>> /\ generating = FALSE /\ reply = <<>> /\ inbox = <<>> /\ opened = FALSE
      /\ buffer = <<>> /\ flush = "none" /\ synth = <<>> /\ voiced = <<>>
  BY DEF Rep!Init
<1>2. ReplyShapes
  <2>1. /\ <<>> \in Seq(Letter) /\ <<>> \in Seq(TtsFrame)
        /\ <<>> \in Seq([reason : {"bot_stopped", "watchdog", "timeout"}, backdated : BOOLEAN])
    OBVIOUS
  <2>2. QED
    BY <1>1, <2>1 DEF ReplyShapes
<1>3. OneReply
  BY <1>1, SolidOfNothing DEF OneReply, Rested
<1>4. ReplyKept
  BY <1>1, SolidOfNothing DEF ReplyKept
<1>5. QED
  BY <1>2, <1>3, <1>4 DEF ReplyInv

\* A step that leaves the reply where it is.
LEMMA ReplyRests ==
    ASSUME ReplyInv, UNCHANGED <<generating, reply, inbox, opened, buffer, flush, synth, voiced>>
    PROVE  /\ ReplyKept'
           /\ (Rested' <=> Rested) /\ (Asked' <=> Asked)
           /\ (Streaming' <=> Streaming) /\ (Ending' <=> Ending)
<1>1. OnItsWay' = OnItsWay
  BY DEF OnItsWay
<1>2. ReplyKept'
  BY <1>1 DEF ReplyInv, ReplyKept
<1>3. (Rested' <=> Rested) /\ (Asked' <=> Asked)
  BY DEF Rested, Asked
<1>4. (Streaming' <=> Streaming) /\ (Ending' <=> Ending)
  BY DEF Streaming, Ending
<1>5. QED
  BY <1>2, <1>3, <1>4

LEMMA TurnStartsKeeps == ReplyInv /\ Rep!TurnStarts => ReplyInv'
<1> SUFFICES ASSUME ReplyInv, Rep!TurnStarts PROVE ReplyInv'
  OBVIOUS
<1>1. /\ ~open /\ turn' = turn + 1 /\ open' = TRUE /\ owed' = TRUE /\ llmDone' = FALSE
      /\ audible' = FALSE
      /\ UNCHANGED <<closes, generating, reply, inbox, opened, buffer, flush, synth, voiced>>
  BY DEF Rep!TurnStarts, Rep!llmVars, Rep!ttsVars
<1>2. ReplyKept' /\ (Rested' <=> Rested)
  BY <1>1, ReplyRests
<1>3. Rested
  BY <1>1 DEF ReplyInv, OneReply
<1>4. OneReply'
  BY <1>1, <1>2, <1>3 DEF ReplyInv, OneReply
<1>5. ReplyShapes'
  BY <1>1 DEF ReplyInv, ReplyShapes
<1>6. QED
  BY <1>2, <1>4, <1>5 DEF ReplyInv

LEMMA FinalLandsKeeps == ReplyInv /\ Rep!FinalLands => ReplyInv'
<1> SUFFICES ASSUME ReplyInv, Rep!FinalLands PROVE ReplyInv'
  OBVIOUS
<1>1. /\ owed /\ owed' = FALSE /\ reply' = <<>> /\ voiced' = <<>>
      /\ \/ generating' = TRUE /\ inbox' = Append(inbox, Rep!Frame("start", <<>>))
         \/ UNCHANGED <<generating, inbox>>
      /\ UNCHANGED <<turn, open, llmDone, audible, sounded, closes, opened, buffer, flush, synth>>
  BY DEF Rep!FinalLands, Rep!outVars
<1>2. ReplyShapes /\ OneReply /\ Rested /\ open /\ ~llmDone
  BY <1>1 DEF ReplyInv, OneReply
<1>3. ReplyKept'
  BY <1>1, SolidOfNothing DEF ReplyKept
<1>4. CASE UNCHANGED <<generating, inbox>>
  <2>1. Rested'
    BY <1>1, <1>2, <1>4 DEF Rested
  <2>2. OneReply'
    BY <1>1, <1>2, <2>1 DEF OneReply
  <2>3. ReplyShapes'
    <3>1. <<>> \in Seq(Letter)
      OBVIOUS
    <3>2. QED
      BY <1>1, <1>2, <1>4, <3>1 DEF ReplyShapes
  <2>4. QED
    BY <1>3, <2>2, <2>3 DEF ReplyInv
<1>5. CASE generating' = TRUE /\ inbox' = Append(inbox, Rep!Frame("start", <<>>))
  <2>1. inbox' = <<Rep!Frame("start", <<>>)>>
    BY <1>2, <1>5 DEF Rested
  <2>2. Asked' /\ ~Rested'
    <3>1. inbox' # <<>>
      BY <2>1
    <3>2. QED
      BY <1>1, <1>2, <1>5, <2>1, <3>1 DEF Asked, Rested
  <2>3. OneReply'
    BY <1>1, <1>2, <2>2 DEF OneReply, Rested
  <2>4. ReplyShapes'
    <3>1. <<>> \in Seq(Letter)
      OBVIOUS
    <3>2. Rep!Frame("start", <<>>) \in TtsFrame
      BY <3>1 DEF Rep!Frame, TtsFrame
    <3>3. inbox' \in Seq(TtsFrame)
      BY <2>1, <3>2
    <3>4. QED
      BY <1>1, <1>2, <3>1, <3>3 DEF ReplyShapes
  <2>5. QED
    BY <1>3, <2>3, <2>4 DEF ReplyInv
<1>6. QED
  BY <1>1, <1>4, <1>5

\* Text is streamed, and the reply ended, while the TTS is in it.
LEMMA StreamsInside ==
    ASSUME ReplyInv, generating, flush = "none" => inbox = <<>>
    PROVE  Streaming /\ open /\ ~owed /\ ~llmDone
<1>1. OneReply
  BY DEF ReplyInv
<1>2. ~Rested /\ ~Ending
  BY DEF Rested, Ending
<1>3. ~Asked
  <2>1. SUFFICES ASSUME Asked PROVE FALSE
    OBVIOUS
  <2>2. Len(inbox) = 1
    BY <2>1 DEF Asked
  <2>3. inbox = <<>>
    BY <2>1 DEF Asked
  <2>4. QED
    BY <2>2, <2>3
<1>4. QED
  BY <1>1, <1>2, <1>3 DEF OneReply

LEMMA DeltaIsText ==
    ASSUME turn \in Nat, reply \in Seq(Letter), NEW d \in Rep!Delta
    PROVE  [i \in DOMAIN d |-> [of |-> turn, at |-> Len(reply) + i, kind |-> d[i]]] \in Seq(Letter)
<1>1. PICK n \in Nat : DOMAIN d = 1 .. n /\ \A i \in 1 .. n : d[i] \in Rep!Kind
  <2>1. CASE d = <<"blank", "letter">>
    <3>1. DOMAIN d = 1 .. 2 /\ d[1] = "blank" /\ d[2] = "letter"
      BY <2>1
    <3>2. \A i \in 1 .. 2 : i = 1 \/ i = 2
      OBVIOUS
    <3>3. QED
      BY <3>1, <3>2 DEF Rep!Kind
  <2>2. ASSUME NEW k \in {"letter", "clause", "stop"}, d = <<k>>
        PROVE  DOMAIN d = 1 .. 1 /\ \A i \in 1 .. 1 : d[i] \in Rep!Kind
    BY <2>2 DEF Rep!Kind
  <2>3. QED
    BY <2>1, <2>2 DEF Rep!Delta
<1>2. Len(reply) \in Nat
  OBVIOUS
<1>3. PICK s : s = [i \in DOMAIN d |-> [of |-> turn, at |-> Len(reply) + i, kind |-> d[i]]]
  OBVIOUS
<1>4. ASSUME NEW i \in 1 .. n
      PROVE  [of |-> turn, at |-> Len(reply) + i, kind |-> d[i]] \in Letter
  <2>1. Len(reply) + i \in Nat /\ d[i] \in Rep!Kind
    BY <1>1, <1>2
  <2>2. QED
    BY <2>1 DEF Letter
<1>5. s \in [1 .. n -> Letter]
  BY <1>1, <1>3, <1>4
<1>6. s \in Seq(Letter)
  BY <1>5
<1>7. QED
  BY <1>3, <1>6

LEMMA LlmStreamsKeeps == ReplyInv /\ Rep!LlmStreams => ReplyInv'
<1> SUFFICES ASSUME ReplyInv, Rep!LlmStreams PROVE ReplyInv'
  OBVIOUS
<1>1. /\ generating /\ (flush = "none" => inbox = <<>>)
      /\ UNCHANGED <<turn, open, owed, llmDone, audible, sounded, closes, generating, opened,
                     buffer, flush, synth, voiced>>
  BY DEF Rep!LlmStreams, Rep!turnVars, Rep!outVars
<1>2. ReplyShapes /\ OneReply /\ ReplyKept
  BY DEF ReplyInv
<1>3. Streaming /\ open /\ ~owed
  BY <1>1, StreamsInside
<1>4. PICK d \in Rep!Delta :
        LET text == [i \in DOMAIN d |-> [of |-> turn, at |-> Len(reply) + i, kind |-> d[i]]]
        IN  reply' = reply \o text /\ inbox' = Append(inbox, Rep!Frame("text", text))
  BY DEF Rep!LlmStreams
<1>5. PICK s \in Seq(Letter) : reply' = reply \o s /\ inbox' = Append(inbox, Rep!Frame("text", s))
  BY <1>2, <1>4, DeltaIsText DEF ReplyShapes
<1>6. PICK f : f = Rep!Frame("text", s)
  OBVIOUS
<1>7. f \in TtsFrame /\ f.type = "text" /\ f.text = s
  BY <1>6 DEF Rep!Frame, TtsFrame
<1>8. reply' \in Seq(Letter) /\ Solid(reply') = Solid(reply) \cup Solid(s)
  BY <1>2, <1>5, SolidOfJoined DEF ReplyShapes
<1>9. /\ inbox' \in Seq(TtsFrame) /\ DOMAIN inbox' = 1 .. Len(inbox) + 1
      /\ inbox'[Len(inbox) + 1] = f /\ Len(inbox) \in Nat /\ DOMAIN inbox = 1 .. Len(inbox)
      /\ \A i \in DOMAIN inbox : inbox'[i] = inbox[i]
      /\ OnItsWay \cup Solid(s) \subseteq OnItsWay'
  <2>1. inbox \in Seq(TtsFrame) /\ inbox' = Append(inbox, f)
    BY <1>2, <1>5, <1>6 DEF ReplyShapes
  <2>2. Len(inbox) \in Nat /\ DOMAIN inbox = 1 .. Len(inbox)
    BY <2>1
  <2>3. QED
    BY <1>7, <2>1, <2>2, FrameComes
<1>10. ReplyShapes'
  BY <1>1, <1>2, <1>8, <1>9 DEF ReplyShapes
<1>11. Streaming' /\ ~Rested'
  <2>1. ASSUME NEW i \in DOMAIN inbox'
        PROVE  inbox'[i].type = "text"
    <3>1. i \in DOMAIN inbox \/ i = Len(inbox) + 1
      BY <1>9
    <3>2. QED
      BY <1>3, <1>7, <1>9, <3>1 DEF Streaming
  <2>2. QED
    BY <1>1, <1>3, <2>1 DEF Streaming, Rested
<1>12. OneReply'
  BY <1>1, <1>2, <1>3, <1>11 DEF OneReply
<1>13. ReplyKept'
  BY <1>1, <1>2, <1>8, <1>9 DEF ReplyKept
<1>14. QED
  BY <1>10, <1>12, <1>13 DEF ReplyInv

LEMMA LlmEndsKeeps == ReplyInv /\ Rep!LlmEnds => ReplyInv'
<1> SUFFICES ASSUME ReplyInv, Rep!LlmEnds PROVE ReplyInv'
  OBVIOUS
<1>1. /\ generating /\ (flush = "none" => inbox = <<>>) /\ generating' = FALSE
      /\ inbox' = Append(inbox, Rep!Frame("end", <<>>))
      /\ UNCHANGED <<turn, open, owed, audible, sounded, closes, reply, opened, buffer, flush,
                     synth, voiced>>
  BY DEF Rep!LlmEnds, Rep!outVars
<1>2. ReplyShapes /\ OneReply /\ ReplyKept
  BY DEF ReplyInv
<1>3. Streaming /\ open /\ ~owed
  BY <1>1, StreamsInside
<1>4. PICK f : f = Rep!Frame("end", <<>>)
  OBVIOUS
<1>5. f \in TtsFrame /\ f.type = "end"
  <2>1. <<>> \in Seq(Letter)
    OBVIOUS
  <2>2. QED
    BY <1>4, <2>1 DEF Rep!Frame, TtsFrame
<1>6. /\ inbox' \in Seq(TtsFrame) /\ DOMAIN inbox' = 1 .. Len(inbox) + 1 /\ inbox' # <<>>
      /\ Len(inbox') = Len(inbox) + 1
      /\ inbox'[Len(inbox) + 1] = f /\ Len(inbox) \in Nat /\ DOMAIN inbox = 1 .. Len(inbox)
      /\ \A i \in DOMAIN inbox : inbox'[i] = inbox[i]
      /\ OnItsWay \subseteq OnItsWay'
  <2>1. inbox \in Seq(TtsFrame) /\ inbox' = Append(inbox, f)
    BY <1>1, <1>2, <1>4 DEF ReplyShapes
  <2>2. Len(inbox) \in Nat /\ DOMAIN inbox = 1 .. Len(inbox)
    BY <2>1
  <2>3. QED
    BY <1>5, <2>1, <2>2, FrameComes
<1>7. ReplyShapes'
  BY <1>1, <1>2, <1>6 DEF ReplyShapes
<1>8. Ending' /\ ~Rested'
  <2>1. ASSUME NEW i \in DOMAIN inbox'
        PROVE  inbox'[i].type = IF i = Len(inbox') THEN "end" ELSE "text"
    <3>1. CASE i = Len(inbox) + 1
      BY <1>5, <1>6, <3>1
    <3>2. CASE i # Len(inbox) + 1
      <4>1. i \in DOMAIN inbox
        BY <1>6, <3>2
      <4>2. QED
        BY <1>3, <1>6, <3>2, <4>1 DEF Streaming
    <3>3. QED
      BY <3>1, <3>2
  <2>2. ~generating' /\ opened' /\ flush' # "end"
    BY <1>1, <1>3 DEF Streaming
  <2>3. QED
    BY <1>6, <2>1, <2>2 DEF Ending, Rested
<1>9. OneReply'
  BY <1>1, <1>2, <1>3, <1>8 DEF OneReply
<1>10. ReplyKept'
  BY <1>1, <1>2, <1>6 DEF ReplyKept
<1>11. QED
  BY <1>7, <1>9, <1>10 DEF ReplyInv

LEMMA TtsHandlesKeeps == ReplyInv /\ Rep!TtsHandles => ReplyInv'
<1> SUFFICES ASSUME ReplyInv, Rep!TtsHandles PROVE ReplyInv'
  OBVIOUS
<1>1. /\ inbox # <<>> /\ flush = "none" /\ inbox' = Tail(inbox)
      /\ UNCHANGED <<turn, open, owed, llmDone, audible, sounded, closes, generating, reply,
                     voiced>>
  BY DEF Rep!TtsHandles, Rep!turnVars, Rep!llmVars, Rep!outVars
<1>2. ReplyShapes /\ OneReply /\ ReplyKept /\ synth = <<>>
  BY <1>1 DEF ReplyInv, OneReply
<1>3. PICK f : f = Head(inbox)
  OBVIOUS
<1>4. /\ f \in TtsFrame /\ f = inbox[1] /\ 1 \in DOMAIN inbox
      /\ inbox' \in Seq(TtsFrame) /\ Len(inbox') = Len(inbox) - 1
      /\ \A i \in DOMAIN inbox' : i + 1 \in DOMAIN inbox /\ inbox'[i] = inbox[i + 1]
      /\ OnItsWay \subseteq Solid(f.text) \cup OnItsWay'
  BY <1>1, <1>2, <1>3, FrameGoes DEF ReplyShapes
<1>5. inbox \in Seq(TtsFrame) /\ Len(inbox) \in Nat /\ DOMAIN inbox = 1 .. Len(inbox)
      /\ DOMAIN inbox' = 1 .. Len(inbox')
  BY <1>2, <1>4 DEF ReplyShapes
<1>6. ~Rested /\ open /\ ~owed
  BY <1>1, <1>2 DEF Rested, OneReply
<1>7. CASE f.type = "start"
  <2>1. opened' = TRUE /\ UNCHANGED <<buffer, flush, synth>>
    BY <1>3, <1>7 DEF Rep!TtsHandles
  <2>2. Asked
    <3>1. ~Streaming
      BY <1>4, <1>7 DEF Streaming
    <3>2. ~Ending
      BY <1>1, <1>4, <1>7 DEF Ending
    <3>3. QED
      BY <1>2, <1>6, <3>1, <3>2 DEF OneReply
  <2>3. Len(inbox) = 1 /\ inbox[1] = Rep!Frame("start", <<>>)
    BY <2>2 DEF Asked
  <2>4. inbox' = <<>> /\ Solid(f.text) = {}
    <3>1. Len(inbox') = 0
      BY <1>4, <2>3
    <3>2. f.text = <<>>
      BY <1>4, <2>3 DEF Rep!Frame
    <3>3. QED
      BY <1>4, <3>1, <3>2, SolidOfNothing
  <2>5. Streaming' /\ ~Rested'
    <3>1. DOMAIN inbox' = {}
      BY <2>4
    <3>2. QED
      BY <1>1, <2>1, <2>2, <3>1 DEF Streaming, Asked, Rested
  <2>6. OneReply'
    BY <1>1, <1>2, <1>6, <2>1, <2>5 DEF OneReply
  <2>7. ReplyKept'
    BY <1>1, <1>2, <1>4, <2>1, <2>4 DEF ReplyKept
  <2>8. ReplyShapes'
    BY <1>1, <1>2, <1>4, <2>1 DEF ReplyShapes
  <2>9. QED
    BY <2>6, <2>7, <2>8 DEF ReplyInv
<1>8. CASE f.type # "start"
  <2>1. PICK s : s = buffer \o f.text
    OBVIOUS
  <2>2. PICK last \in BOOLEAN : last <=> f.type = "end"
    OBVIOUS
  <2>3. Rep!Flush(s, chunked, last)
    <3>1. (f.type = "end") \in BOOLEAN /\ last = (f.type = "end")
      BY <2>2
    <3>2. Rep!Flush(buffer \o f.text, chunked, f.type = "end")
      BY <1>3, <1>8 DEF Rep!TtsHandles
    <3>3. QED
      BY <2>1, <3>1, <3>2
  <2>4. f.text \in Seq(Letter) /\ buffer \in Seq(Letter) /\ opened \in BOOLEAN
    BY <1>2, <1>4 DEF TtsFrame, ReplyShapes
  <2>5. s \in Seq(Letter) /\ Solid(s) = Solid(buffer) \cup Solid(f.text)
    BY <2>1, <2>4, SolidOfJoined
  <2>6. /\ buffer' \in Seq(Letter) /\ synth' \in Seq(Letter) /\ opened' \in BOOLEAN
        /\ Solid(s) \subseteq Solid(buffer') \cup Solid(synth')
        /\ \/ flush' = (IF last THEN "end" ELSE "text") /\ (opened' <=> opened)
           \/ /\ flush' = "none" /\ synth' = <<>>
              /\ IF last THEN ~opened' /\ Solid(buffer') = {} ELSE opened' <=> opened
    BY <2>3, <2>4, <2>5, FlushKeeps
  <2>7. ReplyShapes'
    BY <1>1, <1>2, <1>4, <2>6 DEF ReplyShapes
  <2>8. ReplyKept'
    <3>1. Solid(synth) = {}
      BY <1>2, SolidOfNothing
    <3>2. QED
      BY <1>1, <1>2, <1>4, <2>5, <2>6, <3>1 DEF ReplyKept
  <2>9. ~Asked
    BY <1>4, <1>8 DEF Asked, Rep!Frame
  <2>10. CASE Streaming
    <3>1. ~last
      BY <1>4, <2>2, <2>10 DEF Streaming
    <3>2. Streaming' /\ ~Rested'
      BY <1>1, <1>4, <2>6, <2>10, <3>1 DEF Streaming, Rested
    <3>3. OneReply'
      BY <1>1, <1>2, <1>6, <2>6, <3>2 DEF OneReply
    <3>4. QED
      BY <2>7, <2>8, <3>3 DEF ReplyInv
  <2>11. CASE Ending
    <3>1. \A i \in DOMAIN inbox : inbox[i].type = IF i = Len(inbox) THEN "end" ELSE "text"
      BY <1>1, <2>11 DEF Ending
    <3>2. CASE Len(inbox) = 1
      <4>1. last
        BY <1>4, <2>2, <3>1, <3>2
      <4>2. inbox' = <<>>
        <5>1. Len(inbox') = 0
          BY <1>4, <3>2
        <5>2. QED
          BY <1>4, <5>1
      <4>3. Rested' \/ (Ending' /\ ~Rested')
        BY <1>1, <2>6, <2>11, <4>1, <4>2 DEF Rested, Ending
      <4>4. flush' = "none" => synth' = <<>>
        BY <2>6, <4>1
      <4>5. OneReply'
        BY <1>1, <1>2, <1>6, <4>3, <4>4 DEF OneReply
      <4>6. QED
        BY <2>7, <2>8, <4>5 DEF ReplyInv
    <3>3. CASE Len(inbox) # 1
      <4>1. ~last
        BY <1>4, <2>2, <3>1, <3>3
      <4>2. inbox' # <<>>
        <5>1. Len(inbox') # 0
          BY <1>4, <1>5, <3>3
        <5>2. QED
          BY <5>1
      <4>3. ASSUME NEW i \in DOMAIN inbox'
            PROVE  inbox'[i].type = IF i = Len(inbox') THEN "end" ELSE "text"
        <5>1. i = Len(inbox') <=> i + 1 = Len(inbox)
          BY <1>4, <1>5
        <5>2. QED
          BY <1>4, <3>1, <5>1
      <4>4. Ending' /\ ~Rested'
        BY <1>1, <2>6, <2>11, <4>1, <4>2, <4>3 DEF Ending, Rested
      <4>5. flush' = "none" => synth' = <<>>
        BY <2>6, <4>1
      <4>6. OneReply'
        BY <1>1, <1>2, <1>6, <4>4, <4>5 DEF OneReply
      <4>7. QED
        BY <2>7, <2>8, <4>6 DEF ReplyInv
    <3>4. QED
      BY <3>2, <3>3
  <2>12. QED
    BY <1>2, <1>6, <2>9, <2>10, <2>11 DEF OneReply
<1>9. QED
  BY <1>7, <1>8

LEMMA VoiceKeeps == ReplyInv /\ Rep!Voice => ReplyInv'
<1> SUFFICES ASSUME ReplyInv, Rep!Voice PROVE ReplyInv'
  OBVIOUS
<1>1. /\ flush # "none" /\ voiced' = voiced \o synth /\ sounded' = TRUE
      /\ UNCHANGED <<turn, open, owed, llmDone, closes, generating, reply, inbox>>
  BY DEF Rep!Voice, Rep!llmVars
<1>2. ReplyShapes /\ OneReply /\ ReplyKept
  BY DEF ReplyInv
<1>3. ~Rested /\ ~Asked /\ open /\ ~owed
  BY <1>1, <1>2 DEF Rested, Asked, OneReply
<1>4. PICK last \in BOOLEAN : last <=> flush = "end"
  OBVIOUS
<1>5. Rep!Flush(buffer, TRUE, last)
  <2>1. last = (flush = "end")
    BY <1>4
  <2>2. QED
    BY <2>1 DEF Rep!Voice
<1>6. /\ buffer' \in Seq(Letter) /\ synth' \in Seq(Letter) /\ opened' \in BOOLEAN
      /\ Solid(buffer) \subseteq Solid(buffer') \cup Solid(synth')
      /\ \/ flush' = (IF last THEN "end" ELSE "text") /\ (opened' <=> opened)
         \/ /\ flush' = "none" /\ synth' = <<>>
            /\ IF last THEN ~opened' /\ Solid(buffer') = {} ELSE opened' <=> opened
  <2>1. buffer \in Seq(Letter) /\ opened \in BOOLEAN
    BY <1>2 DEF ReplyShapes
  <2>2. QED
    BY <1>5, <2>1, FlushKeeps
<1>7. voiced' \in Seq(Letter) /\ Solid(voiced') = Solid(voiced) \cup Solid(synth)
  BY <1>1, <1>2, SolidOfJoined DEF ReplyShapes
<1>8. ReplyShapes'
  BY <1>1, <1>2, <1>6, <1>7 DEF ReplyShapes
<1>9. ReplyKept'
  <2>1. OnItsWay' = OnItsWay
    BY <1>1 DEF OnItsWay
  <2>2. QED
    BY <1>1, <1>2, <1>6, <1>7, <2>1 DEF ReplyKept
<1>10. flush' = "none" => synth' = <<>>
  BY <1>6
<1>11. Rested' \/ ((Streaming' \/ Ending') /\ ~Rested')
  <2>1. CASE Streaming
    <3>1. ~last
      BY <1>4, <2>1 DEF Streaming
    <3>2. QED
      BY <1>1, <1>6, <2>1, <3>1 DEF Streaming, Rested
  <2>2. CASE Ending /\ last
    <3>1. inbox = <<>>
      BY <1>4, <2>2 DEF Ending
    <3>2. QED
      BY <1>1, <1>6, <2>2, <3>1 DEF Ending, Rested
  <2>3. CASE Ending /\ ~last
    <3>1. /\ ~generating /\ opened /\ inbox # <<>>
          /\ \A i \in DOMAIN inbox : inbox[i].type = IF i = Len(inbox) THEN "end" ELSE "text"
      BY <1>4, <2>3 DEF Ending
    <3>2. QED
      BY <1>1, <1>6, <2>3, <3>1 DEF Ending, Rested
  <2>4. QED
    BY <1>2, <1>3, <2>1, <2>2, <2>3 DEF OneReply
<1>12. OneReply'
  BY <1>1, <1>2, <1>3, <1>10, <1>11 DEF OneReply
<1>13. QED
  BY <1>8, <1>9, <1>12 DEF ReplyInv

\* When the model is done and nothing is pending, all of the reply was said.
LEMMA DoneIsSaid ==
    ASSUME OneReply, llmDone, ~Rep!pending
    PROVE  Rested /\ ~owed
<1>1. ~opened /\ ~generating
  BY DEF Rep!pending, OneReply
<1>2. QED
  BY <1>1 DEF OneReply, Asked, Streaming, Ending

\* A turn is closed by three who say so.
LEMMA Closes ==
    ASSUME ReplyInv, NEW reason \in {"bot_stopped", "watchdog", "timeout"},
           NEW backdated \in BOOLEAN, Rep!CloseTurn(reason, backdated)
    PROVE  /\ Rep!Reason = reason
           /\ closes' \in Seq([reason : {"bot_stopped", "watchdog", "timeout"},
                               backdated : BOOLEAN])
           /\ open' = FALSE /\ UNCHANGED <<turn, owed, llmDone, audible>>
<1>1. PICK c : c = [reason |-> reason, backdated |-> backdated]
  OBVIOUS
<1>2. PICK C : C = [reason : {"bot_stopped", "watchdog", "timeout"}, backdated : BOOLEAN]
  OBVIOUS
<1>3. c \in C /\ closes \in Seq(C)
  BY <1>1, <1>2 DEF ReplyInv, ReplyShapes
<1>4. closes' = Append(closes, c) /\ open' = FALSE /\ UNCHANGED <<turn, owed, llmDone, audible>>
  BY <1>1 DEF Rep!CloseTurn
<1>5. closes' \in Seq(C) /\ closes'[Len(closes')] = c
  BY <1>3, <1>4
<1>6. QED
  BY <1>1, <1>2, <1>4, <1>5 DEF Rep!Reason

\* What the observer's three closings leave of the reply, and when they come.
LEMMA ObserverKeeps ==
    ASSUME ReplyInv, Rep!BotStops \/ Rep!WatchdogSettles \/ Rep!WatchdogFindsStuck
    PROVE  /\ ReplyInv'
           /\ closes' # closes => Rested
           /\ closes' # closes /\ Rep!Reason = "timeout" => ~(llmDone /\ audible)
<1>1. ReplyShapes /\ OneReply
  BY DEF ReplyInv
<1>2. UNCHANGED <<generating, reply, inbox, opened, buffer, flush, synth, voiced, sounded>>
  BY DEF Rep!BotStops, Rep!WatchdogSettles, Rep!WatchdogFindsStuck, Rep!llmVars, Rep!ttsVars,
         Rep!outVars
<1>3. /\ ReplyKept'
      /\ (Rested' <=> Rested) /\ (Asked' <=> Asked)
      /\ (Streaming' <=> Streaming) /\ (Ending' <=> Ending)
  BY <1>2, ReplyRests
<1>4. ASSUME NEW reason \in {"bot_stopped", "watchdog", "timeout"}, NEW backdated \in BOOLEAN,
             Rep!CloseTurn(reason, backdated), Rested, ~owed
      PROVE  ReplyInv' /\ Rep!Reason = reason
  <2>1. /\ Rep!Reason = reason
        /\ closes' \in Seq([reason : {"bot_stopped", "watchdog", "timeout"},
                            backdated : BOOLEAN])
        /\ open' = FALSE /\ UNCHANGED <<turn, owed, llmDone, audible>>
    BY <1>4, Closes
  <2>2. ReplyShapes'
    BY <1>1, <1>2, <2>1 DEF ReplyShapes
  <2>3. OneReply'
    BY <1>1, <1>2, <1>3, <1>4, <2>1 DEF OneReply
  <2>4. QED
    BY <1>3, <2>1, <2>2, <2>3 DEF ReplyInv
<1>5. ASSUME UNCHANGED Rep!turnVars
      PROVE  ReplyInv' /\ closes' = closes
  <2>1. UNCHANGED <<turn, open, owed, llmDone, audible, closes>>
    BY <1>5 DEF Rep!turnVars
  <2>2. ReplyShapes' /\ OneReply'
    BY <1>1, <1>2, <1>3, <2>1 DEF ReplyShapes, OneReply
  <2>3. QED
    BY <1>3, <2>1, <2>2 DEF ReplyInv
<1>6. CASE Rep!BotStops
  <2>1. \/ UNCHANGED Rep!turnVars
        \/ llmDone /\ ~Rep!pending /\ Rep!CloseTurn("bot_stopped", FALSE)
    BY <1>6 DEF Rep!BotStops
  <2>2. CASE UNCHANGED Rep!turnVars
    BY <1>5, <2>2
  <2>3. CASE llmDone /\ ~Rep!pending /\ Rep!CloseTurn("bot_stopped", FALSE)
    <3>1. Rested /\ ~owed
      BY <1>1, <2>3, DoneIsSaid
    <3>2. QED
      BY <1>4, <2>3, <3>1
  <2>4. QED
    BY <2>1, <2>2, <2>3
<1>7. CASE Rep!WatchdogSettles
  <2>1. PICK b \in BOOLEAN : llmDone /\ ~Rep!pending /\ Rep!CloseTurn("watchdog", b)
    BY <1>7 DEF Rep!WatchdogSettles, Rep!Over
  <2>2. Rested /\ ~owed
    BY <1>1, <2>1, DoneIsSaid
  <2>3. QED
    BY <1>4, <2>1, <2>2
<1>8. CASE Rep!WatchdogFindsStuck
  <2>1. /\ ~owed /\ ~generating /\ inbox = <<>> /\ flush = "none"
        /\ ~(Rep!Over /\ Rep!Settled(Rep!Aside, TRUE))
        /\ Rep!CloseTurn("timeout", FALSE)
    BY <1>8 DEF Rep!WatchdogFindsStuck
  <2>2. Rested
    BY <1>1, <2>1 DEF OneReply, Asked, Streaming, Ending
  <2>3. ~Rep!pending
    <3>1. Rep!Strip(buffer) = <<>>
      BY <1>1, <2>2, SolidOfStripped DEF Rested, ReplyShapes
    <3>2. QED
      BY <2>2, <3>1 DEF Rep!pending, Rested
  <2>4. ~(llmDone /\ audible)
    BY <1>1, <2>1, <2>3 DEF Rep!Over, Rep!Settled, OneReply
  <2>5. QED
    BY <1>4, <2>1, <2>2, <2>4
<1>9. QED
  BY <1>6, <1>7, <1>8

LEMMA ReplyNext ==
    ReplyInv /\ [Rep!Next]_(Rep!vars)
        => /\ ReplyInv'
           /\ closes' # closes => Rested
           /\ closes' # closes /\ Rep!Reason = "timeout" => ~(llmDone /\ audible)
<1> SUFFICES ASSUME ReplyInv, [Rep!Next]_(Rep!vars)
             PROVE  /\ ReplyInv'
                    /\ closes' # closes => Rested
                    /\ closes' # closes /\ Rep!Reason = "timeout" => ~(llmDone /\ audible)
  OBVIOUS
<1>1. CASE UNCHANGED Rep!vars \/ Rep!Play
  <2>1. UNCHANGED <<turn, open, owed, llmDone, audible, closes, sounded, generating, reply,
                    inbox, opened, buffer, flush, synth, voiced>>
    BY <1>1 DEF Rep!vars, Rep!Play, Rep!turnVars, Rep!llmVars, Rep!ttsVars, Rep!outVars
  <2>2. /\ ReplyKept'
        /\ (Rested' <=> Rested) /\ (Asked' <=> Asked)
        /\ (Streaming' <=> Streaming) /\ (Ending' <=> Ending)
    BY <2>1, ReplyRests
  <2>3. ReplyShapes' /\ OneReply'
    BY <2>1, <2>2 DEF ReplyInv, ReplyShapes, OneReply
  <2>4. QED
    BY <2>1, <2>2, <2>3 DEF ReplyInv
<1>2. CASE Rep!TurnStarts \/ Rep!FinalLands \/ Rep!LlmStreams \/ Rep!LlmEnds
           \/ Rep!TtsHandles \/ Rep!Voice
  <2>1. ReplyInv'
    BY <1>2, TurnStartsKeeps, FinalLandsKeeps, LlmStreamsKeeps, LlmEndsKeeps, TtsHandlesKeeps,
       VoiceKeeps
  <2>2. closes' = closes
    BY <1>2 DEF Rep!TurnStarts, Rep!FinalLands, Rep!LlmStreams, Rep!LlmEnds, Rep!TtsHandles,
                Rep!Voice, Rep!turnVars
  <2>3. QED
    BY <2>1, <2>2
<1>3. CASE Rep!BotStops \/ Rep!WatchdogSettles \/ Rep!WatchdogFindsStuck
  BY <1>3, ObserverKeeps
<1>4. QED
  BY <1>1, <1>2, <1>3 DEF Rep!Next

\* Where a reply rests, all of it that is heard has been said.
LEMMA RestedIsSaid ==
    ASSUME ReplyInv, Rested
    PROVE  Rep!VisibleOf(reply, turn) \subseteq Rep!Of(voiced, turn)
<1>1. Solid(reply) \subseteq Solid(voiced)
  <2>1. Solid(synth) = {} /\ OnItsWay = {}
    BY SolidOfNothing DEF Rested, OnItsWay
  <2>2. QED
    BY <2>1 DEF ReplyInv, ReplyKept, Rested
<1>2. ASSUME NEW i \in DOMAIN reply, i \notin Rep!Blanks(reply), reply[i].of = turn
      PROVE  reply[i].at \in Rep!Of(voiced, turn)
  <2>1. reply[i] \in Solid(reply)
    BY <1>2 DEF Solid, Rep!Blanks
  <2>2. PICK k \in DOMAIN voiced : voiced[k] = reply[i]
    BY <1>1, <2>1 DEF Solid
  <2>3. QED
    BY <1>2, <2>2 DEF Rep!Of
<1>3. QED
  BY <1>2 DEF Rep!VisibleOf

LEMMA ReplyInvariance == Rep!Spec => []ReplyInv
<1>1. ReplyInv /\ [Rep!Next]_(Rep!vars) => ReplyInv'
  BY ReplyNext
<1>2. QED
  BY <1>1, ReplyInitially, PTL DEF Rep!Spec

(* Reply: a turn that ends as it should ends after its reply               *)
(* (ClosedComplete), for any number of turns, deltas and symbols and any   *)
(* lengths at which the chunks are cut.                                    *)
THEOREM RepliesAreComplete == Rep!Spec => Rep!ClosedComplete
<1>1. ASSUME ReplyInv, [Rep!Next]_(Rep!vars)
      PROVE  [Rep!Closing /\ Rep!Reason # "timeout"
                  => Rep!VisibleOf(reply, turn) \subseteq Rep!Of(voiced, turn)]_(Rep!vars)
  BY <1>1, ReplyNext, RestedIsSaid DEF Rep!Closing
<1>2. QED
  BY <1>1, ReplyInvariance, PTL DEF Rep!Spec, Rep!ClosedComplete

(* Reply: a reply that was generated and heard is never given up for stuck *)
(* (NeverGivenUp), for the same constants.                                 *)
THEOREM HeardIsNotStuck == Rep!Spec => Rep!NeverGivenUp
<1>1. ASSUME ReplyInv, [Rep!Next]_(Rep!vars)
      PROVE  [Rep!Closing /\ Rep!Reason = "timeout" => ~(llmDone /\ audible)]_(Rep!vars)
  BY <1>1, ReplyNext DEF Rep!Closing
<1>2. QED
  BY <1>1, ReplyInvariance, PTL DEF Rep!Spec, Rep!NeverGivenUp
===============================================================================
