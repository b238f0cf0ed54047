--------------------------- MODULE InterleavingProofs ---------------------------
(***************************************************************************)
(* That a run keeps its plan, whatever its playlist, its arms, its splits  *)
(* and its unheard files: a turn's budget, role, utterance and arm are     *)
(* those of the file that was playing, and when the plan is a square, so is*)
(* what is scored.  That a Latin plan is a square is proved for any number *)
(* of utterances and levels; that a blocked plan is one, at the end, for   *)
(* any shuffles and any size of the blocks as well.                        *)
(* And that the calibration a run is given is the least-squares rising fit *)
(* of the partials it was fitted on: at every step each pool is no lower   *)
(* at its beginnings than as a whole, and those the fit has passed rise.   *)
(***************************************************************************)
EXTENDS Interleaving, FiniteSetTheorems, WellFoundedInduction, TLAPS

\* The open turn is of the file that plays, and has its budget.
Placed == open => heard /\ slot > 0 /\ position = slot /\ level = BudgetAt(slot)

\* Every turn but the open one has its record, and there are no more turns than
\* files and odd turns; fewer, while the file has yet to give its own.
Counted ==
    /\ turn = Len(log) + (IF open THEN 1 ELSE 0)
    /\ turn <= slot + odd
    /\ slot > 0 /\ ~heard => turn < slot + odd

\* The fit never has more pools than samples, nor looks beyond its last pool.
FitInReach == Len(blocks) <= Len(samples) /\ at \in 1 .. Len(blocks) + 1

\* Of the records of one file one at most is valid: those of a file that is
\* split are its halves.
OneOfAFile ==
    /\ \A i \in DOMAIN log : log[i].slot \in 1 .. slot /\ (~heard => log[i].slot < slot)
    /\ \A i \in DOMAIN log : open /\ log[i].slot = slot => turn \in halves /\ ~log[i].valid
    /\ \A i, j \in DOMAIN log :
          i # j /\ log[i].valid /\ log[j].valid => log[i].slot # log[j].slot

\* A run in which nothing odd has happened has one valid record of each file.
NothingOdd ==
    odd = 0 =>
        /\ halves = {}
        /\ Len(log) = IF slot > 0 /\ (open \/ ~heard) THEN slot - 1 ELSE slot
        /\ \A i \in DOMAIN log : log[i].slot = i /\ log[i].valid

\* A run without a block plan tells its warm-up by the number of the turn.
WarmupByTurn ==
    ~HasPlan => \A i \in DOMAIN log : log[i].warmup = (i <= setup.warmup) /\ ~log[i].washout

IInv ==
    /\ TypeOK /\ Placed /\ Counted /\ FitInReach
    /\ OneOfAFile /\ NothingOdd /\ WarmupByTurn /\ OwnPlace

-----------------------------------------------------------------------------
(* What the constants are.                                                 *)
LEMMA Bounds ==
    /\ MaxOdd \in Nat /\ MaxPartials \in Nat
    /\ Levels \in Nat \ {0} /\ Level = 0 .. Levels - 1 /\ 0 \in Level
<1>1. MaxOdd \in Nat /\ MaxPartials \in Nat
  BY OddAssumption
<1>2. QED
  BY <1>1, LevelsAssumption DEF Level

(* A planned turn has a level, an utterance and a role, and an arm if the  *)
(* run has arms.                                                           *)
LEMMA PlanFacts ==
    ASSUME setup \in Setups
    PROVE  /\ plan \in Seq(PlannedTurn) /\ Len(plan) \in Nat
           /\ DOMAIN plan = 1 .. Len(plan)
           /\ setup.warmup \in Nat
           /\ \A s \in 1 .. Len(plan) :
                 /\ plan[s].level \in Level /\ plan[s].utterance \in Nat
                 /\ plan[s].role \in {"warmup", "washout", "measured"}
                 /\ BudgetAt(s) \in Level
                 /\ HasRunner => ArmAt(s) \in Kind
<1>1. plan \in Seq(PlannedTurn) /\ setup.warmup \in Nat /\ setup.arms \in Seq(Kind)
  BY SetupsAssumption DEF plan
<1>2. Len(plan) \in Nat /\ DOMAIN plan = 1 .. Len(plan)
  BY <1>1
<1>3. ASSUME NEW s \in 1 .. Len(plan)
      PROVE  /\ plan[s].level \in Level /\ plan[s].utterance \in Nat
             /\ plan[s].role \in {"warmup", "washout", "measured"}
  <2>1. plan[s] \in PlannedTurn
    BY <1>1, <1>2
  <2>2. QED
    BY <2>1 DEF PlannedTurn
<1>4. ASSUME NEW s \in 1 .. Len(plan)
      PROVE  BudgetAt(s) \in Level
  BY <1>3, Bounds DEF BudgetAt
<1>5. ASSUME NEW s \in 1 .. Len(plan), HasRunner
      PROVE  ArmAt(s) \in Kind
  <2>1. CASE Interleaved
    <3>1. Len(setup.arms) = Levels
      BY <1>5, <2>1, SetupsAssumption DEF Interleaved, HasRunner
    <3>2. plan[s].level + 1 \in 1 .. Len(setup.arms)
      BY <1>3, <3>1, Bounds
    <3>3. QED
      BY <1>1, <2>1, <3>2 DEF ArmAt
  <2>2. CASE ~Interleaved
    <3>1. 1 \in 1 .. Len(setup.arms)
      BY <1>1, <1>5 DEF HasRunner
    <3>2. QED
      BY <1>1, <2>2, <3>1 DEF ArmAt
  <2>3. QED
    BY <2>1, <2>2
<1>6. QED
  BY <1>1, <1>2, <1>3, <1>4, <1>5

(* What is known of any state: the file that plays is one of the plan.     *)
LEMMA StateFacts ==
    ASSUME IInv
    PROVE  /\ setup \in Setups
           /\ slot \in 0 .. Len(plan) /\ slot \in Nat /\ Len(plan) \in Nat
           /\ turn \in Nat /\ odd \in 0 .. MaxOdd
           /\ heard \in BOOLEAN /\ open \in BOOLEAN
           /\ log \in Seq(TurnRecord) /\ Len(log) \in Nat /\ DOMAIN log = 1 .. Len(log)
           /\ open => slot \in 1 .. Len(plan) /\ plan_slot = slot
<1>1. TypeOK /\ Placed
  BY DEF IInv
<1>2. /\ setup \in Setups /\ slot \in 0 .. Len(plan) /\ odd \in 0 .. MaxOdd
      /\ turn \in 0 .. slot + MaxOdd /\ log \in Seq(TurnRecord)
      /\ {heard, open} \subseteq BOOLEAN
  BY <1>1 DEF TypeOK
<1>3. Len(plan) \in Nat
  BY <1>2, PlanFacts
<1>4. slot \in Nat /\ turn \in Nat
  BY <1>2, <1>3, Bounds
<1>5. Len(log) \in Nat /\ DOMAIN log = 1 .. Len(log)
  BY <1>2
<1>6. ASSUME open
      PROVE  slot \in 1 .. Len(plan) /\ plan_slot = slot
  BY <1>1, <1>2, <1>3, <1>4, <1>6 DEF Placed, plan_slot
<1>7. QED
  BY <1>2, <1>3, <1>4, <1>5, <1>6

(* The record of the open turn is that of its file.                        *)
LEMMA RecordIsOfItsFile ==
    ASSUME IInv, open, NEW sound \in BOOLEAN, NEW split
    PROVE  LET r == Record(sound, split)
           IN  /\ r \in TurnRecord
               /\ r.turn = turn /\ r.slot = slot /\ r.level = BudgetAt(slot)
               /\ r.valid = (sound /\ turn \notin split)
               /\ HasPlan => /\ r.utterance = plan[slot].utterance
                             /\ r.warmup = (plan[slot].role = "warmup")
                             /\ r.washout = (plan[slot].role = "washout")
               /\ ~HasPlan => r.warmup = (turn <= setup.warmup) /\ r.washout = FALSE
<1>1. TypeOK /\ Placed
  BY DEF IInv
<1>2. /\ setup \in Setups /\ turn \in Nat /\ slot \in 1 .. Len(plan) /\ plan_slot = slot
      /\ slot \in Nat /\ Len(plan) \in Nat
  BY StateFacts
<1>3. /\ DOMAIN plan = 1 .. Len(plan) /\ setup.warmup \in Nat
      /\ plan[slot].utterance \in Nat /\ BudgetAt(slot) \in Level
  BY <1>2, PlanFacts
<1>4. position = slot /\ level = BudgetAt(slot) /\ tag \in Kind \cup {"none"}
  BY <1>1 DEF Placed, TypeOK
<1>5. /\ HasPlan => PlannedUtterance = plan[slot].utterance
      /\ PlannedUtterance \in Nat
  BY <1>2, <1>3, <1>4 DEF PlannedUtterance
<1>6. /\ PlannedAs("warmup") \in BOOLEAN /\ PlannedAs("washout") \in BOOLEAN
      /\ HasPlan => /\ PlannedAs("warmup") = (plan[slot].role = "warmup")
                    /\ PlannedAs("washout") = (plan[slot].role = "washout")
      /\ ~HasPlan => /\ PlannedAs("warmup") = (turn <= setup.warmup)
                     /\ PlannedAs("washout") = FALSE
  <2>1. CASE HasPlan
    <3>1. slot \in DOMAIN plan
      BY <1>2, <1>3
    <3>2. /\ PlannedAs("warmup") = (plan[slot].role = "warmup")
          /\ PlannedAs("washout") = (plan[slot].role = "washout")
      BY <1>2, <2>1, <3>1 DEF PlannedAs
    <3>3. QED
      BY <2>1, <3>2
  <2>2. CASE ~HasPlan
    BY <1>2, <1>3, <2>2 DEF PlannedAs
  <2>3. QED
    BY <2>1, <2>2
<1>7. (sound /\ turn \notin split) \in BOOLEAN
  OBVIOUS
<1>8. Record(sound, split) \in TurnRecord
  BY <1>2, <1>3, <1>4, <1>5, <1>6, <1>7 DEF Record, TurnRecord
<1>9. QED
  BY <1>4, <1>5, <1>6, <1>8 DEF Record

(* What the log is once the record of the open turn is in it.              *)
LEMMA RecordAppended ==
    ASSUME IInv, open, NEW sound \in BOOLEAN, NEW split,
           log' = Append(log, Record(sound, split)), setup' = setup
    PROVE  /\ log' \in Seq(TurnRecord) /\ Len(log') = turn /\ turn = Len(log) + 1
           /\ DOMAIN log' = 1 .. turn
           /\ \A i \in DOMAIN log : i \in DOMAIN log' /\ i # turn /\ log'[i] = log[i]
           /\ log'[turn] = Record(sound, split) /\ turn \in DOMAIN log'
           /\ \A i \in DOMAIN log' : i = turn \/ i \in DOMAIN log
           /\ \A i \in DOMAIN log' : log'[i].turn = i
           /\ WarmupByTurn'
           /\ \A i \in DOMAIN log' :
                 LET r == log'[i] IN
                 /\ Interleaved /\ ~HasRunner => r.level = plan[r.slot].level
                 /\ HasPlan => /\ r.utterance = plan[r.slot].utterance
                               /\ r.warmup = (plan[r.slot].role = "warmup")
                               /\ r.washout = (plan[r.slot].role = "washout")
<1> DEFINE new == Record(sound, split)
<1>1. TypeOK /\ Counted /\ WarmupByTurn /\ OwnPlace
  BY DEF IInv
<1>2. log \in Seq(TurnRecord) /\ Len(log) \in Nat /\ DOMAIN log = 1 .. Len(log)
  BY StateFacts
<1>3. turn = Len(log) + 1 /\ \A i \in DOMAIN log : log[i].turn = i
  BY <1>1 DEF Counted, TypeOK
<1>4. /\ new \in TurnRecord
      /\ new.turn = turn /\ new.slot = slot /\ new.level = BudgetAt(slot)
      /\ HasPlan => /\ new.utterance = plan[slot].utterance
                    /\ new.warmup = (plan[slot].role = "warmup")
                    /\ new.washout = (plan[slot].role = "washout")
      /\ ~HasPlan => new.warmup = (turn <= setup.warmup) /\ new.washout = FALSE
  BY RecordIsOfItsFile
<1> HIDE DEF new
<1>5. log' = Append(log, new)
  BY DEF new
<1>6. log' \in Seq(TurnRecord) /\ Len(log') = turn /\ DOMAIN log' = 1 .. turn
  BY <1>2, <1>3, <1>4, <1>5
<1>7. /\ \A i \in DOMAIN log : i \in DOMAIN log' /\ i # turn /\ log'[i] = log[i]
      /\ log'[turn] = new /\ turn \in DOMAIN log'
      /\ \A i \in DOMAIN log' : i = turn \/ i \in DOMAIN log
  BY <1>2, <1>3, <1>4, <1>5, <1>6
<1>8. \A i \in DOMAIN log' : log'[i].turn = i
  BY <1>3, <1>4, <1>7
<1>9. WarmupByTurn'
  <2> SUFFICES ASSUME ~HasPlan, NEW i \in DOMAIN log'
               PROVE  log'[i].warmup = (i <= setup.warmup) /\ ~log'[i].washout
    BY DEF WarmupByTurn, HasPlan
  <2>1. CASE i = turn
    BY <1>4, <1>7, <2>1
  <2>2. CASE i \in DOMAIN log
    BY <1>1, <1>7, <2>2 DEF WarmupByTurn
  <2>3. QED
    BY <1>7, <2>1, <2>2
<1>10. ASSUME NEW i \in DOMAIN log'
       PROVE  LET r == log'[i] IN
              /\ Interleaved /\ ~HasRunner => r.level = plan[r.slot].level
              /\ HasPlan => /\ r.utterance = plan[r.slot].utterance
                            /\ r.warmup = (plan[r.slot].role = "warmup")
                            /\ r.washout = (plan[r.slot].role = "washout")
  <2>1. CASE i = turn
    BY <1>4, <1>7, <2>1 DEF BudgetAt
  <2>2. CASE i \in DOMAIN log
    BY <1>1, <1>7, <2>2 DEF OwnPlace
  <2>3. QED
    BY <1>7, <2>1, <2>2
<1>11. QED
  BY <1>3, <1>6, <1>7, <1>8, <1>9, <1>10 DEF new

-----------------------------------------------------------------------------
(* A part of a sequence, and a sequence with two neighbours made one.      *)
LEMMA SubSeqIs ==
    ASSUME NEW S, NEW s \in Seq(S), NEW m \in 1 .. Len(s) + 1, NEW n \in 0 .. Len(s), m <= n + 1
    PROVE  SubSeq(s, m, n) \in Seq(S) /\ Len(SubSeq(s, m, n)) = n - m + 1
<1>1. CASE m <= n
  <2>1. \A i \in m .. n : s[i] \in S
    OBVIOUS
  <2>2. QED
    BY <1>1, <2>1
<1>2. CASE m = n + 1
  <2>1. SubSeq(s, m, n) = <<>>
    BY <1>2
  <2>2. QED
    BY <1>2, <2>1
<1>3. QED
  BY <1>1, <1>2

LEMMA Spliced ==
    ASSUME NEW S, NEW s \in Seq(S), NEW i \in Nat, 1 <= i, i < Len(s), NEW e \in S
    PROVE  LET t == SubSeq(s, 1, i - 1) \o <<e>> \o SubSeq(s, i + 2, Len(s))
           IN  t \in Seq(S) /\ Len(t) = Len(s) - 1
<1> DEFINE front == SubSeq(s, 1, i - 1)
           back == SubSeq(s, i + 2, Len(s))
<1>1. front \in Seq(S) /\ Len(front) = i - 1
  BY SubSeqIs
<1>2. back \in Seq(S) /\ Len(back) = Len(s) - i - 1
  BY SubSeqIs
<1> HIDE DEF front, back
<1>3. <<e>> \in Seq(S) /\ Len(<<e>>) = 1
  OBVIOUS
<1>4. front \o <<e>> \in Seq(S) /\ Len(front \o <<e>>) = i
  BY <1>1, <1>3
<1>5. (front \o <<e>>) \o back \in Seq(S) /\ Len((front \o <<e>>) \o back) = Len(s) - 1
  BY <1>2, <1>4
<1>6. QED
  BY <1>5 DEF front, back

(* One turn of the fit pools two neighbours or moves on.                   *)
LEMMA FitStepKeeps ==
    ASSUME samples \in Seq(Sample), blocks \in Seq(BlockRecord), FitInReach, FitStep
    PROVE  /\ samples' = samples /\ blocks' \in Seq(BlockRecord) /\ FitInReach'
           /\ at' \in 1 .. Len(samples) + 1
<1>1. /\ samples' = samples /\ Len(samples) \in Nat
      /\ Len(blocks) \in Nat /\ DOMAIN blocks = 1 .. Len(blocks)
      /\ Len(blocks) <= Len(samples) /\ at \in Nat /\ 1 <= at /\ at < Len(blocks)
  BY DEF FitStep, FitInReach, Fitted
<1>2. CASE LessEq(Mean(blocks[at]), Mean(blocks[at + 1]))
  <2>1. at' = at + 1 /\ blocks' = blocks
    BY <1>2 DEF FitStep
  <2>2. QED
    BY <1>1, <2>1 DEF FitInReach
<1>3. CASE ~LessEq(Mean(blocks[at]), Mean(blocks[at + 1]))
  <2> DEFINE pool == Pool(blocks[at], blocks[at + 1])
  <2>1. /\ blocks' = SubSeq(blocks, 1, at - 1) \o <<pool>> \o SubSeq(blocks, at + 2, Len(blocks))
        /\ at' = StepBack(at)
    BY <1>3 DEF FitStep
  <2>2. pool \in BlockRecord
    <3>1. blocks[at] \in BlockRecord /\ blocks[at + 1] \in BlockRecord
      BY <1>1
    <3>2. QED
      BY <3>1 DEF Pool, BlockRecord
  <2> HIDE DEF pool
  <2>3. blocks' \in Seq(BlockRecord) /\ Len(blocks') = Len(blocks) - 1
    BY <1>1, <2>1, <2>2, Spliced
  <2>4. at' \in 1 .. at
    BY <1>1, <2>1 DEF StepBack
  <2>5. QED
    BY <1>1, <2>3, <2>4 DEF FitInReach
<1>4. QED
  BY <1>2, <1>3

(* The calibration begins with one pool a sample, or with nothing to fit.  *)
LEMMA InitInv == Init => IInv
<1> SUFFICES ASSUME Init PROVE IInv
  OBVIOUS
<1>1. /\ setup \in Setups /\ slot = 0 /\ heard = FALSE /\ turn = 0 /\ open = FALSE
      /\ position = 0 /\ halves = {} /\ level = 0 /\ partials = 0 /\ tag = "none"
      /\ log = <<>> /\ decisions = {} /\ odd = 0
  BY DEF Init
<1>2. PICK s \in Seq(Sample) : FitInit(s)
  <2>1. <<>> \in Seq(Sample)
    OBVIOUS
  <2>2. QED
    BY <2>1, FitsAssumption DEF Init
<1>3. /\ samples \in Seq(Sample) /\ blocks \in Seq(BlockRecord)
      /\ Len(blocks) = Len(samples) /\ at = 1 /\ Len(samples) \in Nat
  <2>1. samples = s /\ blocks = [i \in DOMAIN s |-> Block(s[i])] /\ at = 1
    BY <1>2 DEF FitInit
  <2>2. DOMAIN s = 1 .. Len(s) /\ Len(s) \in Nat
    OBVIOUS
  <2>3. \A i \in DOMAIN s : Block(s[i]) \in BlockRecord
    <3> SUFFICES ASSUME NEW i \in DOMAIN s PROVE Block(s[i]) \in BlockRecord
      OBVIOUS
    <3>1. s[i] \in Sample
      OBVIOUS
    <3>2. s[i].raw \in Score /\ s[i].done \in Nat
      BY <3>1 DEF Sample
    <3>3. QED
      BY <3>2 DEF Block, BlockRecord
  <2>4. blocks \in Seq(BlockRecord) /\ Len(blocks) = Len(s)
    BY <2>1, <2>2, <2>3
  <2>5. QED
    BY <2>1, <2>2, <2>4
<1>4. /\ Len(log) = 0 /\ DOMAIN log = {} /\ log \in Seq(TurnRecord)
  BY <1>1
<1>5. Len(plan) \in Nat
  BY <1>1, PlanFacts
<1>6. TypeOK
  <2>1. /\ slot \in 0 .. Len(plan) /\ position \in 0 .. slot /\ turn \in 0 .. slot + MaxOdd
        /\ partials \in 0 .. MaxPartials /\ level \in Level /\ odd \in 0 .. MaxOdd
    BY <1>1, <1>5, Bounds
  <2>2. at \in 1 .. Len(samples) + 1
    BY <1>3
  <2>3. QED
    BY <1>1, <1>3, <1>4, <2>1, <2>2 DEF TypeOK
<1>7. FitInReach
  BY <1>3 DEF FitInReach
<1>8. Placed /\ Counted /\ OneOfAFile /\ NothingOdd /\ WarmupByTurn /\ OwnPlace
  BY <1>1, <1>4 DEF Placed, Counted, OneOfAFile, NothingOdd, WarmupByTurn, OwnPlace
<1>9. QED
  BY <1>6, <1>7, <1>8 DEF IInv

(* A step that opens and closes no turn and starts no file.                *)
LEMMA RunRests ==
    ASSUME IInv,
           UNCHANGED <<setup, slot, heard, turn, open, position, halves, level, log, odd>>
    PROVE  Placed' /\ Counted' /\ OneOfAFile' /\ NothingOdd' /\ WarmupByTurn'
<1>1. Placed /\ Counted /\ OneOfAFile /\ NothingOdd /\ WarmupByTurn
  BY DEF IInv
<1>2. Placed'
  BY <1>1 DEF Placed, BudgetAt, Interleaved, HasRunner, plan
<1>3. Counted'
  BY <1>1 DEF Counted
<1>4. OneOfAFile'
  BY <1>1 DEF OneOfAFile
<1>5. NothingOdd'
  BY <1>1 DEF NothingOdd
<1>6. WarmupByTurn'
  BY <1>1 DEF WarmupByTurn, HasPlan
<1>7. QED
  BY <1>2, <1>3, <1>4, <1>5, <1>6

LEMMA CalibrateKeeps ==
    ASSUME IInv, Calibrate
    PROVE  IInv'
<1>1. TypeOK /\ FitInReach /\ OwnPlace
  BY DEF IInv
<1>2. FitStep /\ UNCHANGED <<setup, slot, heard, turnVars, armVars, odd>>
  BY DEF Calibrate
<1>3. samples \in Seq(Sample) /\ blocks \in Seq(BlockRecord)
  BY <1>1 DEF TypeOK
<1>4. /\ samples' = samples /\ blocks' \in Seq(BlockRecord) /\ FitInReach'
      /\ at' \in 1 .. Len(samples) + 1
  BY <1>1, <1>2, <1>3, FitStepKeeps
<1>5. TypeOK'
  BY <1>1, <1>2, <1>4 DEF TypeOK, turnVars, plan
<1>6. Placed' /\ Counted' /\ OneOfAFile' /\ NothingOdd' /\ WarmupByTurn'
  BY <1>2, RunRests DEF turnVars
<1>7. OwnPlace'
  BY <1>1, <1>2 DEF OwnPlace, turnVars, armVars, Interleaved, HasRunner, HasPlan, plan
<1>8. QED
  BY <1>4, <1>5, <1>6, <1>7 DEF IInv

LEMMA DraftMeasuredKeeps ==
    ASSUME IInv, DraftMeasured \/ UNCHANGED vars
    PROVE  IInv'
<1>1. TypeOK /\ FitInReach /\ OwnPlace
  BY DEF IInv
<1>2. UNCHANGED <<setup, slot, heard, turnVars, decisions, odd, fitVars>>
  BY DEF DraftMeasured, vars, armVars
<1>3. TypeOK'
  BY <1>1, <1>2 DEF TypeOK, turnVars, fitVars, plan
<1>4. Placed' /\ Counted' /\ OneOfAFile' /\ NothingOdd' /\ WarmupByTurn'
  BY <1>2, RunRests DEF turnVars
<1>5. OwnPlace' /\ FitInReach'
  BY <1>1, <1>2
  DEF OwnPlace, FitInReach, turnVars, fitVars, Interleaved, HasRunner, HasPlan, plan
<1>6. QED
  BY <1>3, <1>4, <1>5 DEF IInv

(* A decision is of the arm planned for the file of the open turn.         *)
LEMMA DecidesKeeps ==
    ASSUME IInv, NEW reading, NEW enough, NEW x, Decides(reading, enough, x)
    PROVE  IInv'
<1>1. TypeOK /\ FitInReach /\ OwnPlace
  BY DEF IInv
<1>2. /\ open /\ HasRunner /\ partials < MaxPartials /\ partials' = partials + 1
      /\ tag' = IF tag = "none" THEN ArmAt(plan_slot) ELSE tag
      /\ UNCHANGED <<setup, slot, heard, turn, open, position, halves, level, log, odd, fitVars>>
  BY DEF Decides
<1>3. /\ plan_slot = slot /\ slot \in 1 .. Len(plan) /\ setup \in Setups
  BY <1>2, StateFacts
<1>4. ArmAt(slot) \in Kind
  BY <1>2, <1>3, PlanFacts
<1>5. partials' \in 0 .. MaxPartials /\ tag' \in Kind \cup {"none"}
  BY <1>1, <1>2, <1>3, <1>4, Bounds DEF TypeOK
<1>6. TypeOK'
  BY <1>1, <1>2, <1>5 DEF TypeOK, fitVars, plan
<1>7. Placed' /\ Counted' /\ OneOfAFile' /\ NothingOdd' /\ WarmupByTurn'
  BY <1>2, RunRests
<1>8. \A d \in decisions' : d \in decisions \/ (d.slot = slot /\ d.arm = ArmAt(slot))
  BY <1>3 DEF Decides
<1>9. ASSUME Interleaved
      PROVE  \A d \in decisions' : d.arm = setup.arms[plan[d.slot].level + 1]
  BY <1>1, <1>8, <1>9 DEF OwnPlace, ArmAt
<1>10. OwnPlace' /\ FitInReach'
  BY <1>1, <1>2, <1>9 DEF OwnPlace, FitInReach, fitVars, Interleaved, HasRunner, HasPlan, plan
<1>11. QED
  BY <1>6, <1>7, <1>10 DEF IInv

(* The next file: the one before it has no open turn any more.             *)
LEMMA NextFileKeeps ==
    ASSUME IInv, NextFile
    PROVE  IInv'
<1>1. /\ TypeOK /\ Placed /\ Counted /\ FitInReach
      /\ OneOfAFile /\ NothingOdd /\ WarmupByTurn /\ OwnPlace
  BY DEF IInv
<1>2. /\ ~open /\ slot < Len(plan) /\ slot' = slot + 1 /\ heard' = FALSE
      /\ slot > 0 /\ ~heard => odd < MaxOdd
      /\ odd' = odd + (IF slot > 0 /\ ~heard THEN 1 ELSE 0)
      /\ UNCHANGED <<setup, turnVars, armVars, fitVars>>
  BY DEF NextFile
<1>3. /\ slot \in Nat /\ Len(plan) \in Nat /\ odd \in 0 .. MaxOdd /\ turn \in Nat
      /\ Len(log) \in Nat
  BY StateFacts
<1>4. odd' \in 0 .. MaxOdd /\ odd' >= odd
  BY <1>2, <1>3, Bounds
<1>5. TypeOK'
  <2>1. /\ slot' \in 0 .. Len(plan) /\ position \in 0 .. slot' /\ turn \in 0 .. slot' + MaxOdd
    BY <1>1, <1>2, <1>3, Bounds DEF TypeOK
  <2>2. {heard', open'} \subseteq BOOLEAN
    BY <1>1, <1>2 DEF TypeOK, turnVars
  <2>3. QED
    BY <1>1, <1>2, <1>4, <2>1, <2>2 DEF TypeOK, turnVars, fitVars, plan
<1>6. Placed'
  BY <1>2 DEF Placed, turnVars
<1>7. Counted'
  <2>1. turn' < slot' + odd'
    BY <1>1, <1>2, <1>3, <1>4 DEF Counted, TypeOK, turnVars
  <2>2. QED
    BY <1>1, <1>2, <1>3, <2>1 DEF Counted, turnVars
<1>8. OneOfAFile'
  BY <1>1, <1>2, <1>3 DEF OneOfAFile, turnVars
<1>9. NothingOdd'
  <2> SUFFICES ASSUME odd' = 0
               PROVE  /\ halves = {} /\ Len(log) = slot
                      /\ \A i \in DOMAIN log : log[i].slot = i /\ log[i].valid
    BY <1>2, <1>3 DEF NothingOdd, turnVars
  <2>1. odd = 0 /\ ~(slot > 0 /\ ~heard)
    BY <1>2, <1>3, <1>4
  <2>2. QED
    BY <1>1, <1>2, <2>1 DEF NothingOdd
<1>10. WarmupByTurn' /\ OwnPlace' /\ FitInReach'
  BY <1>1, <1>2
  DEF WarmupByTurn, OwnPlace, FitInReach, turnVars, armVars, fitVars, Interleaved, HasRunner,
      HasPlan, plan
<1>11. QED
  BY <1>5, <1>6, <1>7, <1>8, <1>9, <1>10 DEF IInv

(* The open turn gets its record and no turn is open.                      *)
LEMMA TurnClosesKeeps ==
    ASSUME IInv, TurnCloses
    PROVE  IInv'
<1>1. /\ TypeOK /\ Placed /\ Counted /\ FitInReach
      /\ OneOfAFile /\ NothingOdd /\ WarmupByTurn /\ OwnPlace
  BY DEF IInv
<1>2. /\ open /\ open' = FALSE
      /\ UNCHANGED <<setup, slot, heard, turn, position, halves, level, partials, tag, armVars,
                     fitVars>>
  BY DEF TurnCloses
<1>3. PICK sound \in BOOLEAN :
          /\ ~sound \/ (HasRunner /\ tag = "none") => odd < MaxOdd
          /\ odd' = odd + (IF ~sound \/ (HasRunner /\ tag = "none") THEN 1 ELSE 0)
          /\ log' = Append(log, Record(sound, halves))
  BY DEF TurnCloses
<1> DEFINE new == Record(sound, halves)
<1>4. /\ slot \in Nat /\ Len(plan) \in Nat /\ odd \in 0 .. MaxOdd /\ turn \in Nat
      /\ Len(log) \in Nat /\ slot \in 1 .. Len(plan)
  BY <1>2, StateFacts
<1>5. /\ new.turn = turn /\ new.slot = slot /\ new.valid = (sound /\ turn \notin halves)
  BY <1>2, RecordIsOfItsFile
<1> HIDE DEF new
<1>6. /\ log' \in Seq(TurnRecord) /\ Len(log') = turn /\ turn = Len(log) + 1
      /\ DOMAIN log' = 1 .. turn
      /\ \A i \in DOMAIN log : i \in DOMAIN log' /\ i # turn /\ log'[i] = log[i]
      /\ log'[turn] = new /\ turn \in DOMAIN log'
      /\ \A i \in DOMAIN log' : i = turn \/ i \in DOMAIN log
      /\ \A i \in DOMAIN log' : log'[i].turn = i
      /\ WarmupByTurn'
  BY <1>2, <1>3, RecordAppended DEF new
<1>7. odd' \in 0 .. MaxOdd /\ odd' >= odd
  BY <1>3, <1>4, Bounds
<1>8. heard /\ slot > 0
  BY <1>1, <1>2 DEF Placed
<1>9. TypeOK'
  <2>1. {heard', open'} \subseteq BOOLEAN
    BY <1>1, <1>2 DEF TypeOK
  <2>2. QED
    BY <1>1, <1>2, <1>6, <1>7, <2>1 DEF TypeOK, fitVars, plan
<1>10. Placed'
  BY <1>2 DEF Placed
<1>11. Counted'
  BY <1>1, <1>2, <1>4, <1>6, <1>7, <1>8 DEF Counted
<1>12. OneOfAFile'
  <2>1. \A i \in DOMAIN log' : log'[i].slot \in 1 .. slot
    BY <1>1, <1>4, <1>5, <1>6 DEF OneOfAFile
  <2>2. ASSUME NEW i \in DOMAIN log, log[i].valid, new.valid
        PROVE  log[i].slot # slot
    BY <1>1, <1>2, <1>5, <2>2 DEF OneOfAFile
  <2>3. ASSUME NEW i \in DOMAIN log', NEW j \in DOMAIN log',
               i # j, log'[i].valid, log'[j].valid
        PROVE  log'[i].slot # log'[j].slot
    <3>1. CASE i = turn
      BY <1>5, <1>6, <2>2, <2>3, <3>1
    <3>2. CASE j = turn
      BY <1>5, <1>6, <2>2, <2>3, <3>2
    <3>3. CASE i # turn /\ j # turn
      BY <1>1, <1>6, <2>3, <3>3 DEF OneOfAFile
    <3>4. QED
      BY <3>1, <3>2, <3>3
  <2>4. QED
    BY <1>2, <1>8, <2>1, <2>3 DEF OneOfAFile
<1>13. NothingOdd'
  <2> SUFFICES ASSUME odd' = 0
               PROVE  /\ halves = {} /\ Len(log') = slot
                      /\ \A i \in DOMAIN log' : log'[i].slot = i /\ log'[i].valid
    BY <1>2, <1>8 DEF NothingOdd
  <2>1. odd = 0 /\ sound
    BY <1>3, <1>4, <1>7
  <2>2. /\ halves = {} /\ Len(log) = slot - 1
        /\ \A i \in DOMAIN log : log[i].slot = i /\ log[i].valid
    BY <1>1, <1>2, <1>8, <2>1 DEF NothingOdd
  <2>3. turn = slot
    BY <1>4, <1>6, <2>2
  <2>4. new.valid
    BY <1>5, <2>1, <2>2
  <2>5. QED
    BY <1>5, <1>6, <2>2, <2>3, <2>4
<1>14. OwnPlace'
  <2>1. \A i \in DOMAIN log' :
           LET r == log'[i] IN
           /\ Interleaved /\ ~HasRunner => r.level = plan[r.slot].level
           /\ HasPlan => /\ r.utterance = plan[r.slot].utterance
                         /\ r.warmup = (plan[r.slot].role = "warmup")
                         /\ r.washout = (plan[r.slot].role = "washout")
    BY <1>2, <1>3, RecordAppended
  <2>2. QED
    BY <1>1, <1>2, <2>1 DEF OwnPlace, armVars, Interleaved, HasRunner, HasPlan, plan
<1>15. FitInReach'
  BY <1>1, <1>2 DEF FitInReach, fitVars
<1>16. QED
  BY <1>6, <1>9, <1>10, <1>11, <1>12, <1>13, <1>14, <1>15 DEF IInv

(* A turn opens: of a file that has given none, or within the open turn of *)
(* its file, which makes both of them halves.                              *)
LEMMA UserStartsKeeps ==
    ASSUME IInv, UserStarts
    PROVE  IInv'
<1>1. /\ TypeOK /\ Placed /\ Counted /\ FitInReach
      /\ OneOfAFile /\ NothingOdd /\ WarmupByTurn /\ OwnPlace
  BY DEF IInv
<1> DEFINE split == IF open THEN halves \cup {turn, turn + 1} ELSE halves
           new == Record(FALSE, split)
<1>2. /\ slot > 0
      /\ ~heard \/ (open /\ odd < MaxOdd)
      /\ odd' = odd + (IF open THEN 1 ELSE 0)
      /\ halves' = split
      /\ log' = IF open THEN Append(log, new) ELSE log
      /\ turn' = turn + 1 /\ open' = TRUE /\ heard' = TRUE /\ position' = slot
      /\ level' = BudgetAt(slot) /\ partials' = 0 /\ tag' = "none"
      /\ UNCHANGED <<setup, slot, armVars, fitVars>>
  BY DEF UserStarts
<1>3. slot > 0 /\ (~heard \/ (open /\ odd < MaxOdd))
  BY DEF UserStarts
<1>4. /\ setup \in Setups /\ slot \in 1 .. Len(plan) /\ slot \in Nat /\ Len(plan) \in Nat
      /\ odd \in 0 .. MaxOdd /\ turn \in Nat /\ Len(log) \in Nat /\ DOMAIN log = 1 .. Len(log)
      /\ log \in Seq(TurnRecord) /\ open \in BOOLEAN /\ heard \in BOOLEAN
  BY <1>3, StateFacts
<1>5. halves \subseteq 1 .. turn /\ split \subseteq 1 .. turn + 1
  <2>1. halves \subseteq 1 .. turn
    BY <1>1 DEF TypeOK
  <2>2. open => turn \in 1 .. turn + 1
    BY <1>1, <1>4 DEF Counted
  <2>3. QED
    BY <1>4, <2>1, <2>2
<1>6. BudgetAt(slot) \in Level
  BY <1>4, PlanFacts
<1>7. odd' \in 0 .. MaxOdd
  BY <1>2, <1>3, <1>4, <1>1, Bounds DEF Placed
<1>8. turn' <= slot + odd'
  <2>1. CASE open
    BY <1>1, <1>2, <1>4, <2>1 DEF Counted
  <2>2. CASE ~open
    BY <1>1, <1>2, <1>3, <1>4, <2>2 DEF Counted
  <2>3. QED
    BY <2>1, <2>2
<1>9. ASSUME log' \in Seq(TurnRecord), \A i \in DOMAIN log' : log'[i].turn = i
      PROVE  TypeOK'
  <2>1. {heard', open'} \subseteq BOOLEAN
    BY <1>2
  <2>2. turn' \in 0 .. slot' + MaxOdd
    BY <1>2, <1>4, <1>7, <1>8, Bounds
  <2>3. /\ slot' \in 0 .. Len(plan) /\ position' \in 0 .. slot' /\ partials' \in 0 .. MaxPartials
        /\ level' \in Level
    BY <1>2, <1>4, <1>6, Bounds
  <2>4. halves' \subseteq 1 .. turn'
    BY <1>2, <1>5
  <2>5. QED
    BY <1>1, <1>2, <1>4, <1>7, <1>9, <2>1, <2>2, <2>3, <2>4 DEF TypeOK, fitVars, plan
<1>10. Placed'
  BY <1>2, <1>3 DEF Placed, BudgetAt, Interleaved, HasRunner, plan
<1>11. FitInReach'
  BY <1>1, <1>2 DEF FitInReach, fitVars
<1>12. CASE open
  <2>1. /\ log' = Append(log, new) /\ split = halves \cup {turn, turn + 1} /\ odd' = odd + 1
    BY <1>2, <1>12
  <2>2. new.turn = turn /\ new.slot = slot /\ new.valid = (FALSE /\ turn \notin split)
    BY <1>12, RecordIsOfItsFile
  <2>3. ~new.valid
    BY <2>2
  <2> HIDE DEF new
  <2>4. /\ log' \in Seq(TurnRecord) /\ Len(log') = turn /\ turn = Len(log) + 1
        /\ DOMAIN log' = 1 .. turn
        /\ \A i \in DOMAIN log : i \in DOMAIN log' /\ i # turn /\ log'[i] = log[i]
        /\ log'[turn] = new /\ turn \in DOMAIN log'
        /\ \A i \in DOMAIN log' : i = turn \/ i \in DOMAIN log
        /\ \A i \in DOMAIN log' : log'[i].turn = i
        /\ WarmupByTurn'
    BY <1>2, <1>12, <2>1, RecordAppended DEF new
  <2>5. TypeOK'
    BY <1>9, <2>4
  <2>6. Counted'
    BY <1>2, <1>8, <2>4 DEF Counted
  <2>7. OneOfAFile'
    <3>1. \A i \in DOMAIN log' : log'[i].slot \in 1 .. slot
      BY <1>1, <1>4, <2>2, <2>4 DEF OneOfAFile
    <3>2. \A i \in DOMAIN log' : log'[i].slot = slot => ~log'[i].valid
      BY <1>1, <1>12, <2>3, <2>4 DEF OneOfAFile
    <3>3. turn' \in halves'
      BY <1>2, <2>1
    <3>4. \A i, j \in DOMAIN log' :
             i # j /\ log'[i].valid /\ log'[j].valid => log'[i].slot # log'[j].slot
      BY <1>1, <2>3, <2>4 DEF OneOfAFile
    <3>5. QED
      BY <1>2, <3>1, <3>2, <3>3, <3>4 DEF OneOfAFile
  <2>8. NothingOdd'
    BY <1>4, <2>1 DEF NothingOdd
  <2>9. OwnPlace'
    <3>1. \A i \in DOMAIN log' :
             LET r == log'[i] IN
             /\ Interleaved /\ ~HasRunner => r.level = plan[r.slot].level
             /\ HasPlan => /\ r.utterance = plan[r.slot].utterance
                           /\ r.warmup = (plan[r.slot].role = "warmup")
                           /\ r.washout = (plan[r.slot].role = "washout")
      BY <1>2, <1>12, <2>1, RecordAppended DEF new
    <3>2. QED
      BY <1>1, <1>2, <3>1 DEF OwnPlace, armVars, Interleaved, HasRunner, HasPlan, plan
  <2>10. QED
    BY <1>10, <1>11, <2>4, <2>5, <2>6, <2>7, <2>8, <2>9 DEF IInv
<1>13. CASE ~open
  <2>1. log' = log /\ ~heard /\ odd' = odd /\ halves' = halves
    BY <1>2, <1>3, <1>4, <1>13
  <2>2. TypeOK'
    BY <1>1, <1>9, <2>1 DEF TypeOK
  <2>3. Counted'
    BY <1>1, <1>2, <1>4, <1>8, <1>13, <2>1 DEF Counted
  <2>4. OneOfAFile'
    <3>1. \A i \in DOMAIN log : log[i].slot \in 1 .. slot /\ log[i].slot < slot
      BY <1>1, <2>1 DEF OneOfAFile
    <3>2. \A i \in DOMAIN log : log[i].slot # slot
      BY <1>4, <3>1
    <3>3. QED
      BY <1>1, <1>2, <2>1, <3>1, <3>2 DEF OneOfAFile
  <2>5. NothingOdd'
    <3>1. odd = 0 => Len(log) = slot - 1
      BY <1>1, <1>3, <2>1 DEF NothingOdd
    <3>2. odd = 0 => halves = {} /\ \A i \in DOMAIN log : log[i].slot = i /\ log[i].valid
      BY <1>1 DEF NothingOdd
    <3> HIDE DEF split, new
    <3>3. QED
      BY <1>2, <1>3, <2>1, <3>1, <3>2 DEF NothingOdd
  <2>6. WarmupByTurn' /\ OwnPlace'
    BY <1>1, <1>2, <2>1
    DEF WarmupByTurn, OwnPlace, armVars, Interleaved, HasRunner, HasPlan, plan
  <2>7. QED
    BY <1>10, <1>11, <2>2, <2>3, <2>4, <2>5, <2>6 DEF IInv
<1>14. QED
  BY <1>4, <1>12, <1>13

-----------------------------------------------------------------------------
(* Interleaving's IInv is inductive, for any plans, arms, splits and fits. *)
THEOREM Invariance == Spec => []IInv
<1>1. Init => IInv
  BY InitInv
<1>2. IInv /\ [Next]_vars => IInv'
  <2> SUFFICES ASSUME IInv, [Next]_vars PROVE IInv'
    OBVIOUS
  <2>1. CASE Calibrate
    BY <2>1, CalibrateKeeps
  <2>2. CASE NextFile
    BY <2>2, NextFileKeeps
  <2>3. CASE UserStarts
    BY <2>3, UserStartsKeeps
  <2>4. CASE PartialInPlan
    BY <2>4, DecidesKeeps DEF PartialInPlan
  <2>5. CASE PartialScored
    BY <2>5, DecidesKeeps DEF PartialScored
  <2>6. CASE PartialPlaced
    BY <2>6, DecidesKeeps DEF PartialPlaced
  <2>7. CASE DraftMeasured \/ UNCHANGED vars
    BY <2>7, DraftMeasuredKeeps
  <2>8. CASE TurnCloses
    BY <2>8, TurnClosesKeeps
  <2>9. QED
    BY <2>1, <2>2, <2>3, <2>4, <2>5, <2>6, <2>7, <2>8 DEF Next
<1>3. QED
  BY <1>1, <1>2, PTL DEF Spec

(* Records and decisions have their types, and the n-th record is that of  *)
(* turn n; the fit stays within its samples.                               *)
THEOREM TypeCorrect == Spec => []TypeOK
<1>1. IInv => TypeOK
  BY DEF IInv
<1>2. QED
  BY <1>1, Invariance, PTL

(* The budget, the role, the utterance and the arm of a turn are those of  *)
(* the file that was playing, however many turns and silences there were   *)
(* before it (plan_slot, policy_for, budget_for).                          *)
THEOREM PlacesAreTheirOwn == Spec => []OwnPlace
<1>1. IInv => OwnPlace
  BY DEF IInv
<1>2. QED
  BY <1>1, Invariance, PTL

-----------------------------------------------------------------------------
(* Division with a remainder, which is unique.                             *)
LEMMA Division ==
    ASSUME NEW a \in Int, NEW b \in Nat \ {0}
    PROVE  a = b * (a \div b) + (a % b) /\ a \div b \in Int /\ a % b \in 0 .. b - 1
OBVIOUS

LEMMA NoMultipleWithin ==
    ASSUME NEW b \in Nat \ {0}, NEW k \in Int, b * k < b, b * k > -b
    PROVE  k = 0
OBVIOUS

LEMMA DivisionIsUnique ==
    ASSUME NEW b \in Nat \ {0}, NEW p \in Int, NEW q \in Int,
           NEW u \in 0 .. b - 1, NEW v \in 0 .. b - 1, b * p + u = b * q + v
    PROVE  p = q /\ u = v
<1>1. b * (p - q) = v - u
  OBVIOUS
<1>2. v - u < b /\ v - u > -b
  OBVIOUS
<1>3. p - q = 0
  BY <1>1, <1>2, NoMultipleWithin
<1>4. QED
  BY <1>3

LEMMA QuotientInRange ==
    ASSUME NEW b \in Nat \ {0}, NEW n \in Nat, NEW p \in Int, NEW u \in 0 .. b - 1
    PROVE  b * p + u \in 0 .. n * b - 1 <=> p \in 0 .. n - 1
<1>1. ASSUME p \in 0 .. n - 1
      PROVE  b * p + u \in 0 .. n * b - 1
  <2>1. b * p >= 0
    BY <1>1
  <2>2. b * (n - 1 - p) >= 0
    BY <1>1
  <2>3. b * (n - 1 - p) = n * b - b - b * p
    BY <1>1
  <2>4. b * p \in Int /\ n * b \in Int
    OBVIOUS
  <2>5. QED
    BY <2>1, <2>2, <2>3, <2>4
<1>2. ASSUME p < 0
      PROVE  b * p + u < 0
  <2>1. b * (-1 - p) >= 0 /\ b * (-1 - p) = -b - b * p
    BY <1>2
  <2>2. b * p \in Int
    OBVIOUS
  <2>3. QED
    BY <2>1, <2>2
<1>3. ASSUME p >= n
      PROVE  b * p + u >= n * b
  <2>1. b * (p - n) >= 0 /\ b * (p - n) = b * p - n * b
    BY <1>3
  <2>2. b * p \in Int /\ n * b \in Int
    OBVIOUS
  <2>3. QED
    BY <2>1, <2>2
<1>4. b * p + u \in Int /\ n * b \in Int
  OBVIOUS
<1>5. QED
  BY <1>1, <1>2, <1>3, <1>4

(* An utterance that starts at any rotation meets every level in one pass. *)
LEMMA OnePassALevel ==
    ASSUME NEW r \in Nat, NEW l \in Level
    PROVE  \E p \in Level : \A q \in Level : (r + q) % Levels = l <=> q = p
<1>1. Levels \in Nat \ {0} /\ Level = 0 .. Levels - 1
  BY Bounds
<1> DEFINE p == (l - r) % Levels
           k == (l - r) \div Levels
<1>2. l - r = Levels * k + p /\ k \in Int /\ p \in Level
  BY <1>1, Division
<1> HIDE DEF p, k
<1>3. ASSUME NEW q \in Level
      PROVE  (r + q) % Levels = l <=> q = p
  <2> DEFINE m == (r + q) % Levels
             n == (r + q) \div Levels
  <2>1. r + q = Levels * n + m /\ n \in Int /\ m \in Level
    <3>1. r + q \in Int
      BY <1>1
    <3>2. QED
      BY <1>1, <3>1, Division
  <2> HIDE DEF m, n
  <2>2. Levels * n \in Int /\ Levels * k \in Int
    BY <1>1, <1>2, <2>1
  <2>3. ASSUME m = l
        PROVE  q = p
    <3>1. q = Levels * n + Levels * k + p
      BY <1>1, <1>2, <2>1, <2>2, <2>3
    <3>2. Levels * 0 + q = Levels * (n + k) + p
      BY <1>1, <1>2, <2>1, <3>1
    <3>3. 0 \in Int /\ n + k \in Int /\ q \in 0 .. Levels - 1 /\ p \in 0 .. Levels - 1
      BY <1>1, <1>2, <2>1
    <3>4. QED
      BY <1>1, <3>2, <3>3, DivisionIsUnique
  <2>4. ASSUME q = p
        PROVE  m = l
    <3>1. l = Levels * n + Levels * k + m
      BY <1>1, <1>2, <2>1, <2>2, <2>4
    <3>2. Levels * 0 + l = Levels * (n + k) + m
      BY <1>1, <1>2, <2>1, <3>1
    <3>3. 0 \in Int /\ n + k \in Int /\ l \in 0 .. Levels - 1 /\ m \in 0 .. Levels - 1
      BY <1>1, <1>2, <2>1
    <3>4. QED
      BY <1>1, <3>2, <3>3, DivisionIsUnique
  <2>5. QED
    BY <2>3, <2>4 DEF m
<1>4. QED
  BY <1>2, <1>3

(* Two sequences, one after the other.                                     *)
LEMMA Joined ==
    ASSUME NEW S, NEW a \in Seq(S), NEW b \in Seq(S)
    PROVE  /\ a \o b \in Seq(S) /\ DOMAIN (a \o b) = 1 .. Len(a) + Len(b)
           /\ \A i \in 1 .. Len(a) : (a \o b)[i] = a[i]
           /\ \A j \in 1 .. Len(b) : (a \o b)[Len(a) + j] = b[j]
OBVIOUS

(* What a Latin plan holds: its warm-up, and then pass after pass.         *)
LEMMA LatinPlanIs ==
    ASSUME NEW rot \in [Utterance -> Nat], NEW w \in Nat
    PROVE  LET plan_ == LatinPlan(rot, w)
               n == Levels * Utterances
           IN  /\ n \in Nat /\ plan_ \in Seq(PlannedTurn)
               /\ DOMAIN plan_ = 1 .. w + n
               /\ \A i \in 1 .. w : plan_[i].role = "warmup"
               /\ \A j \in 1 .. n :
                     plan_[w + j] = Planned(LatinLevel(rot, (j - 1) \div Utterances,
                                                       (j - 1) % Utterances),
                                            (j - 1) % Utterances, "measured")
<1> DEFINE n == Levels * Utterances
           head == [i \in 1 .. w |-> Planned((i - 1) % Levels, i - 1, "warmup")]
           turn_(j) == Planned(LatinLevel(rot, (j - 1) \div Utterances, (j - 1) % Utterances),
                               (j - 1) % Utterances, "measured")
           body == [j \in 1 .. n |-> turn_(j)]
<1>1. /\ Levels \in Nat \ {0} /\ Level = 0 .. Levels - 1
      /\ Utterances \in Nat \ {0} /\ Utterance = 0 .. Utterances - 1
  BY Bounds, UtterancesAssumption DEF Utterance
<1>2. n \in Nat
  BY <1>1
<1>3. ASSUME NEW i \in 1 .. w
      PROVE  head[i] \in PlannedTurn /\ head[i].role = "warmup"
  <2>1. (i - 1) % Levels \in Level /\ i - 1 \in Nat
    BY <1>1, Division
  <2>2. QED
    BY <2>1 DEF Planned, PlannedTurn
<1>4. ASSUME NEW j \in 1 .. n
      PROVE  turn_(j) \in PlannedTurn
  <2>1. (j - 1) % Utterances \in Utterance /\ (j - 1) \div Utterances \in Int /\ j - 1 \in Nat
    BY <1>1, <1>2, Division
  <2>2. (j - 1) \div Utterances \in Int /\ rot[(j - 1) % Utterances] \in Nat
    BY <2>1
  <2>3. LatinLevel(rot, (j - 1) \div Utterances, (j - 1) % Utterances) \in Level
    <3>1. rot[(j - 1) % Utterances] + (j - 1) \div Utterances \in Int
      BY <2>2
    <3>2. QED
      BY <1>1, <3>1, Division DEF LatinLevel
  <2>4. (j - 1) % Utterances \in Nat
    BY <1>1, <2>1
  <2>5. QED
    BY <2>3, <2>4 DEF Planned, PlannedTurn
<1>5. head \in Seq(PlannedTurn) /\ Len(head) = w
  BY <1>3
<1> HIDE DEF turn_
<1>6. body \in Seq(PlannedTurn) /\ Len(body) = n /\ \A j \in 1 .. n : body[j] = turn_(j)
  BY <1>2, <1>4
<1>7. LatinPlan(rot, w) = head \o body
  BY DEF LatinPlan, turn_
<1>8. \A i \in 1 .. w : head[i].role = "warmup"
  BY <1>3
<1> HIDE DEF head, body, n
<1>9. /\ LatinPlan(rot, w) \in Seq(PlannedTurn)
      /\ DOMAIN LatinPlan(rot, w) = 1 .. w + n
      /\ \A i \in 1 .. w : LatinPlan(rot, w)[i] = head[i]
      /\ \A j \in 1 .. n : LatinPlan(rot, w)[w + j] = body[j]
  BY <1>5, <1>6, <1>7, Joined
<1>10. QED
  BY <1>2, <1>6, <1>8, <1>9 DEF n, turn_

(* build_schedule(): whatever the shuffle, every utterance is measured once*)
(* at every level, and the turns before are the warm-up.                   *)
THEOREM LatinIsSquare ==
    ASSUME NEW rot \in Shuffles(Utterance), NEW w \in Nat
    PROVE  /\ Square(LatinPlan(rot, w))
           /\ LatinPlan(rot, w) \in Seq(PlannedTurn)
           /\ \A i \in DOMAIN LatinPlan(rot, w) :
                 LatinPlan(rot, w)[i].role = IF i <= w THEN "warmup" ELSE "measured"
<1> DEFINE p == LatinPlan(rot, w)
           n == Levels * Utterances
           pass(j) == (j - 1) \div Utterances
           of(j) == (j - 1) % Utterances
<1>1. /\ Levels \in Nat \ {0} /\ Level = 0 .. Levels - 1
      /\ Utterances \in Nat \ {0} /\ Utterance = 0 .. Utterances - 1
  BY Bounds, UtterancesAssumption DEF Utterance
<1>2. rot \in [Utterance -> Nat]
  <2>1. rot \in [Utterance -> Utterance]
    BY DEF Shuffles, Bijection, Injection
  <2>2. QED
    BY <1>1, <2>1
<1>3. /\ n \in Nat /\ p \in Seq(PlannedTurn) /\ DOMAIN p = 1 .. w + n
      /\ \A i \in 1 .. w : p[i].role = "warmup"
      /\ \A j \in 1 .. n : p[w + j] = Planned(LatinLevel(rot, pass(j), of(j)), of(j), "measured")
  BY <1>2, LatinPlanIs
<1>4. ASSUME NEW j \in 1 .. n
      PROVE  /\ j - 1 = Utterances * pass(j) + of(j)
             /\ pass(j) \in Level /\ of(j) \in Utterance
  <2>1. j - 1 \in 0 .. Levels * Utterances - 1 /\ j - 1 \in Int
    BY <1>3
  <2>2. /\ j - 1 = Utterances * pass(j) + of(j)
        /\ pass(j) \in Int /\ of(j) \in 0 .. Utterances - 1
    BY <1>1, <2>1, Division
  <2>3. pass(j) \in 0 .. Levels - 1
    BY <1>1, <2>1, <2>2, QuotientInRange
  <2>4. QED
    BY <1>1, <2>2, <2>3
<1> HIDE DEF p, n, pass, of
<1>5. \A i \in DOMAIN p : i \in 1 .. w \/ (i > w /\ i - w \in 1 .. n /\ i = w + (i - w))
  BY <1>3
<1>6. \A j \in 1 .. n : p[w + j].role = "measured" /\ p[w + j].utterance \in Utterance
  <2> SUFFICES ASSUME NEW j \in 1 .. n
               PROVE  p[w + j].role = "measured" /\ p[w + j].utterance \in Utterance
    OBVIOUS
  <2>1. p[w + j] = Planned(LatinLevel(rot, pass(j), of(j)), of(j), "measured")
    BY <1>3
  <2>2. p[w + j].role = "measured" /\ p[w + j].utterance = of(j)
    BY <2>1 DEF Planned
  <2>3. QED
    BY <1>4, <2>2
<1>7. \A i \in DOMAIN p : /\ p[i].role = "measured" => p[i].utterance \in Utterance
                          /\ p[i].role = IF i <= w THEN "warmup" ELSE "measured"
  <2> SUFFICES ASSUME NEW i \in DOMAIN p
               PROVE  /\ p[i].role = "measured" => p[i].utterance \in Utterance
                      /\ p[i].role = IF i <= w THEN "warmup" ELSE "measured"
    OBVIOUS
  <2>1. CASE i \in 1 .. w
    BY <1>3, <2>1
  <2>2. CASE i > w /\ i - w \in 1 .. n /\ i = w + (i - w)
    <3>1. p[i].role = "measured" /\ p[i].utterance \in Utterance
      BY <1>6, <2>2
    <3>2. ~(i <= w)
      BY <1>3, <2>2
    <3>3. QED
      BY <3>1, <3>2
  <2>3. QED
    BY <1>5, <2>1, <2>2
<1>8. ASSUME NEW u \in Utterance, NEW l \in Level
      PROVE  \E i \in DOMAIN p : \A k \in DOMAIN p : p[k] = Planned(l, u, "measured") <=> k = i
  <2>1. rot[u] \in Nat
    BY <1>2
  <2>2. PICK s \in Level : \A q \in Level : LatinLevel(rot, q, u) = l <=> q = s
    BY <2>1, OnePassALevel DEF LatinLevel
  <2> DEFINE j == Utterances * s + u + 1
  <2>3. j \in 1 .. n
    <3>1. Utterances * s + u \in 0 .. Levels * Utterances - 1
      BY <1>1, QuotientInRange
    <3>2. QED
      BY <1>1, <1>3, <3>1 DEF n
  <2>4. pass(j) = s /\ of(j) = u
    <3>1. Utterances * pass(j) + of(j) = Utterances * s + u
      BY <1>1, <1>4, <2>3
    <3> HIDE DEF j
    <3>2. pass(j) \in Int /\ of(j) \in 0 .. Utterances - 1 /\ s \in Int /\ u \in 0 .. Utterances - 1
      BY <1>1, <1>4, <2>3
    <3>3. QED
      BY <1>1, <3>1, <3>2, DivisionIsUnique
  <2>5. w + j \in DOMAIN p /\ p[w + j] = Planned(l, u, "measured")
    <3> HIDE DEF j
    <3>1. w + j \in DOMAIN p
      BY <1>3, <2>3
    <3>2. LatinLevel(rot, s, u) = l
      BY <2>2
    <3>3. QED
      BY <1>3, <2>3, <2>4, <3>1, <3>2
  <2>6. ASSUME NEW k \in DOMAIN p, p[k] = Planned(l, u, "measured")
        PROVE  k = w + j
    <3>1. p[k].role = "measured"
      BY <2>6 DEF Planned
    <3>2. k - w \in 1 .. n /\ k = w + (k - w)
      BY <1>3, <1>5, <3>1
    <3> DEFINE m == k - w
    <3>3. m \in 1 .. n /\ p[w + m] = Planned(l, u, "measured")
      BY <2>6, <3>2
    <3> HIDE DEF m, j
    <3>4. Planned(LatinLevel(rot, pass(m), of(m)), of(m), "measured") = Planned(l, u, "measured")
      BY <1>3, <3>3
    <3>5. of(m) = u /\ LatinLevel(rot, pass(m), of(m)) = l
      BY <3>4 DEF Planned
    <3>6. pass(m) = s
      BY <1>4, <2>2, <3>3, <3>5
    <3>7. m - 1 = Utterances * s + u
      BY <1>4, <3>3, <3>5, <3>6
    <3>8. Utterances * s \in Int /\ u \in Int
      BY <1>1
    <3>9. m = j
      BY <1>3, <3>3, <3>7, <3>8 DEF j
    <3>10. QED
      BY <3>2, <3>9 DEF m
  <2> HIDE DEF j
  <2>7. QED
    BY <2>5, <2>6
<1>9. QED
  BY <1>3, <1>7, <1>8 DEF Square, p

-----------------------------------------------------------------------------
(* A planned turn is its level, its utterance and its role.                *)
LEMMA PlaceInSquare ==
    ASSUME IInv, Square(plan),
           NEW s \in 1 .. Len(plan), plan[s].role = "measured"
    PROVE  /\ plan[s] = Planned(plan[s].level, plan[s].utterance, "measured")
           /\ plan[s].level \in Level /\ plan[s].utterance \in Utterance
<1>1. setup \in Setups
  BY StateFacts
<1>2. plan \in Seq(PlannedTurn) /\ DOMAIN plan = 1 .. Len(plan) /\ plan[s].level \in Level
  BY <1>1, PlanFacts
<1>3. plan[s] \in PlannedTurn
  BY <1>2
<1>4. plan[s] = Planned(plan[s].level, plan[s].utterance, "measured")
  BY <1>3 DEF PlannedTurn, Planned
<1>5. plan[s].utterance \in Utterance
  BY <1>2 DEF Square
<1>6. QED
  BY <1>2, <1>4, <1>5

(* The place of a record, and the role of one that is scored.              *)
LEMMA RowFacts ==
    ASSUME IInv, Interleaved, NEW i \in Rows
    PROVE  /\ i \in DOMAIN log /\ log[i].valid
           /\ log[i].slot \in 1 .. Len(plan)
           /\ HasPlan => plan[log[i].slot].role = "measured"
<1>1. TypeOK /\ OneOfAFile /\ OwnPlace
  BY DEF IInv
<1>2. i \in DOMAIN log /\ log[i].valid /\ ~log[i].warmup /\ ~log[i].washout
  BY DEF Rows, Scored
<1>3. setup \in Setups /\ slot \in 0 .. Len(plan) /\ slot \in Nat /\ Len(plan) \in Nat
  BY StateFacts
<1>4. log[i].slot \in 1 .. Len(plan)
  BY <1>1, <1>2, <1>3 DEF OneOfAFile
<1>5. plan[log[i].slot].role \in {"warmup", "washout", "measured"}
  BY <1>3, <1>4, PlanFacts
<1>6. HasPlan => /\ log[i].warmup = (plan[log[i].slot].role = "warmup")
                 /\ log[i].washout = (plan[log[i].slot].role = "washout")
  BY <1>1, <1>2 DEF OwnPlace
<1>7. QED
  BY <1>2, <1>4, <1>5, <1>6

\* What a run that compares arms is given: a plan that is a square, and arms that
\* are told apart by their names.
SquarePlans == \A s \in Setups : s.design # "straight" => Square(s.plan)
DistinctArms ==
    \A s \in Setups : s.design # "straight" =>
        \A a, b \in DOMAIN s.arms : s.arms[a] = s.arms[b] => a = b

(* Two rows of a blocked run are never of one utterance under one level.   *)
LEMMA NeverScoredTwice ==
    ASSUME IInv, SquarePlans, DistinctArms, HasPlan,
           NEW i \in Rows, NEW j \in Rows, i # j
    PROVE  <<PlayedIn(i), PlayedUnder(i)>> # <<PlayedIn(j), PlayedUnder(j)>>
<1> DEFINE s == log[i].slot
           t == log[j].slot
<1>1. Interleaved /\ setup \in Setups /\ setup.design # "straight"
  BY StateFacts DEF HasPlan, Interleaved
<1>2. /\ s \in 1 .. Len(plan) /\ t \in 1 .. Len(plan)
      /\ plan[s].role = "measured" /\ plan[t].role = "measured"
      /\ i \in DOMAIN log /\ j \in DOMAIN log /\ log[i].valid /\ log[j].valid
  BY <1>1, RowFacts
<1>3. s # t
  BY <1>2 DEF IInv, OneOfAFile
<1> HIDE DEF s, t
<1>4. Square(plan)
  BY <1>1 DEF SquarePlans, plan
<1>5. /\ plan[s] = Planned(plan[s].level, plan[s].utterance, "measured")
      /\ plan[t] = Planned(plan[t].level, plan[t].utterance, "measured")
      /\ plan[s].level \in Level /\ plan[t].level \in Level
      /\ plan[s].utterance \in Utterance
  BY <1>2, <1>4, PlaceInSquare
<1>6. ASSUME plan[s].utterance = plan[t].utterance, plan[s].level = plan[t].level
      PROVE  FALSE
  <2>1. PICK k \in DOMAIN plan : \A m \in DOMAIN plan :
            plan[m] = Planned(plan[s].level, plan[s].utterance, "measured") <=> m = k
    BY <1>4, <1>5 DEF Square
  <2>2. s \in DOMAIN plan /\ t \in DOMAIN plan
    BY <1>1, <1>2, PlanFacts
  <2>3. s = k /\ t = k
    BY <1>5, <1>6, <2>1, <2>2
  <2>4. QED
    BY <1>3, <2>3
<1>7. ASSUME HasRunner, ArmAt(s) = ArmAt(t)
      PROVE  plan[s].level = plan[t].level
  <2>1. /\ Len(setup.arms) = Levels /\ setup.arms \in Seq(Kind)
        /\ \A a, b \in DOMAIN setup.arms : setup.arms[a] = setup.arms[b] => a = b
    BY <1>1, <1>7, SetupsAssumption DEF HasRunner, DistinctArms
  <2>2. setup.arms[plan[s].level + 1] = setup.arms[plan[t].level + 1]
    BY <1>1, <1>7 DEF ArmAt
  <2>3. plan[s].level + 1 \in DOMAIN setup.arms /\ plan[t].level + 1 \in DOMAIN setup.arms
    BY <1>5, <2>1, Bounds
  <2>4. plan[s].level + 1 = plan[t].level + 1
    BY <2>1, <2>2, <2>3
  <2>5. QED
    BY <1>5, <2>4, Bounds
<1>8. QED
  BY <1>6, <1>7 DEF PlayedIn, PlayedUnder, s, t

(* A run in which nothing was odd has one row for each.                    *)
LEMMA ScoredExactlyOnce ==
    ASSUME IInv, SquarePlans, Interleaved, Over, odd = 0, NEW u \in Utterance, NEW l \in Level
    PROVE  Cardinality({i \in Rows : PlayedIn(i) = u /\ plan[log[i].slot].level = l}) = 1
<1> DEFINE Mine == {i \in Rows : PlayedIn(i) = u /\ plan[log[i].slot].level = l}
<1>1. /\ setup \in Setups /\ setup.design # "straight" /\ Len(plan) \in Nat
      /\ DOMAIN log = 1 .. Len(log)
  BY StateFacts DEF Interleaved
<1>2. /\ slot = Len(plan) /\ heard /\ ~open
  BY DEF Over
<1>3. /\ Len(log) = Len(plan)
      /\ \A i \in DOMAIN log : log[i].slot = i /\ log[i].valid
  BY <1>2 DEF IInv, NothingOdd
<1>4. DOMAIN plan = 1 .. Len(plan) /\ DOMAIN log = DOMAIN plan
  BY <1>1, <1>3, PlanFacts
<1>5. Square(plan)
  BY <1>1 DEF SquarePlans, plan
<1>6. PICK k \in DOMAIN plan : \A m \in DOMAIN plan :
          plan[m] = Planned(l, u, "measured") <=> m = k
  BY <1>5 DEF Square
<1>7. ASSUME NEW i \in DOMAIN log
      PROVE  (~log[i].warmup /\ ~log[i].washout) <=> plan[i].role = "measured"
  <2>1. plan[i].role \in {"warmup", "washout", "measured"}
    BY <1>1, <1>4, PlanFacts
  <2>2. CASE HasPlan
    <3>1. /\ log[i].warmup = (plan[i].role = "warmup")
          /\ log[i].washout = (plan[i].role = "washout")
      BY <1>3, <2>2 DEF IInv, OwnPlace
    <3>2. QED
      BY <2>1, <3>1
  <2>3. CASE ~HasPlan
    <3>1. setup.design = "latin"
      BY <1>1, <2>3, SetupsAssumption DEF HasPlan
    <3>2. plan[i].role = IF i <= setup.warmup THEN "warmup" ELSE "measured"
      BY <1>1, <1>4, <3>1, SetupsAssumption DEF plan
    <3>3. log[i].warmup = (i <= setup.warmup) /\ ~log[i].washout
      BY <2>3 DEF IInv, WarmupByTurn
    <3>4. QED
      BY <3>2, <3>3
  <2>4. QED
    BY <2>2, <2>3
<1>8. Rows = {i \in DOMAIN log : plan[i].role = "measured"}
  BY <1>3, <1>7 DEF Rows, Scored
<1>9. ASSUME NEW i \in DOMAIN log
      PROVE  i \in Mine <=> plan[i] = Planned(l, u, "measured")
  <2>1. i \in Mine <=> /\ plan[i].role = "measured" /\ plan[i].utterance = u
                       /\ plan[i].level = l
    BY <1>3, <1>8 DEF PlayedIn
  <2>2. ASSUME plan[i].role = "measured"
        PROVE  plan[i] = Planned(plan[i].level, plan[i].utterance, "measured")
    BY <1>4, <1>5, <2>2, PlaceInSquare
  <2>3. ASSUME plan[i] = Planned(l, u, "measured")
        PROVE  plan[i].role = "measured" /\ plan[i].utterance = u /\ plan[i].level = l
    BY <2>3 DEF Planned
  <2>4. QED
    BY <2>1, <2>2, <2>3
<1>10. Mine \subseteq DOMAIN log
  BY DEF Rows
<1> HIDE DEF Mine
<1>11. Mine = {k}
  BY <1>4, <1>6, <1>9, <1>10
<1>12. Cardinality(Mine) = 1
  BY <1>11, FS_Singleton
<1>13. QED
  BY <1>12 DEF Mine

(* Of a run whose plan is a square every utterance is scored once under    *)
(* every level: never twice in a blocked run, whatever was split or was not*)
(* heard, and exactly once when nothing was odd (arm_compare.py).          *)
THEOREM SquareIsScored ==
    ASSUME SquarePlans, DistinctArms
    PROVE  Spec => []WholeSquare
<1>1. IInv => WholeSquare
  <2> SUFFICES ASSUME IInv PROVE WholeSquare
    OBVIOUS
  <2>1. HasPlan => \A i, j \in Rows :
            i # j => <<PlayedIn(i), PlayedUnder(i)>> # <<PlayedIn(j), PlayedUnder(j)>>
    BY NeverScoredTwice
  <2>2. Over /\ odd = 0 /\ Interleaved =>
            \A u \in Utterance, l \in Level :
                Cardinality({i \in Rows : PlayedIn(i) = u /\ plan[log[i].slot].level = l}) = 1
    BY ScoredExactlyOnce
  <2>3. QED
    BY <2>1, <2>2 DEF WholeSquare
<1>2. QED
  BY <1>1, Invariance, PTL

-----------------------------------------------------------------------------
(* A set of numbers that is not empty has a least one.                     *)
LEMMA Least ==
    ASSUME NEW T \in SUBSET Nat, T # {}
    PROVE  \E m \in T : \A n \in T : m <= n
<1> DEFINE R == {ss \in Nat \X Nat : ss[1] < ss[2]}
<1>1. IsWellFoundedOn(R, Nat)
  BY NatLessThanWellFounded DEF OpToRel
<1> HIDE DEF R
<1>2. PICK x \in T : \A y \in T : ~ (<<y, x>> \in R)
  BY <1>1, WFMin
<1>3. ASSUME NEW y \in T
      PROVE  x <= y
  <2>1. x \in Nat /\ y \in Nat
    OBVIOUS
  <2>2. ~ (y < x)
    BY <1>2, <2>1 DEF R
  <2>3. QED
    BY <2>1, <2>2
<1>4. QED
  BY <1>3

(* A set with zero and with every number's successor holds all of Nat.     *)
LEMMA Induction ==
    ASSUME NEW S, 0 \in S, \A n \in Nat : n \in S => n + 1 \in S
    PROVE  Nat \subseteq S
<1> DEFINE T == {n \in Nat : n \notin S}
<1> SUFFICES ASSUME T # {} PROVE FALSE
  OBVIOUS
<1>1. PICK m \in T : \A n \in T : m <= n
  BY Least
<1>2. m # 0 /\ m - 1 \in Nat /\ m - 1 \notin T
  BY <1>1
<1>3. QED
  BY <1>2

-----------------------------------------------------------------------------
(* Numbers: fractions with a positive denominator.                         *)
LEMMA Cancelled ==
    ASSUME NEW w \in Nat, w > 0, NEW x \in Int, NEW y \in Int, w * x <= w * y
    PROVE  x <= y
  OBVIOUS

LEMMA Scaled ==
    ASSUME NEW w \in Nat, NEW x \in Int, NEW y \in Int, x <= y
    PROVE  w * x <= w * y
  OBVIOUS

(* s / w <= r / v and r / v <= d / t give s / w <= d / t.                  *)
LEMMA Through ==
    ASSUME NEW s \in Nat, NEW w \in Nat, NEW r \in Nat, NEW v \in Nat, v > 0,
           NEW t \in Nat, NEW d \in Nat, s * v <= r * w, r * t <= v * d
    PROVE  s * t <= w * d
<1>1. t * (s * v) <= t * (r * w)
  BY Scaled
<1>2. w * (r * t) <= w * (v * d)
  BY Scaled
<1>3. v * (s * t) = t * (s * v) /\ v * (w * d) = w * (v * d) /\ t * (r * w) = w * (r * t)
  OBVIOUS
<1>4. v * (s * t) <= v * (w * d)
  BY <1>1, <1>2, <1>3
<1>5. s * t \in Int /\ w * d \in Int
  OBVIOUS
<1>6. QED
  BY <1>4, <1>5, Cancelled

LEMMA ThroughBack ==
    ASSUME NEW s \in Nat, NEW w \in Nat, NEW r \in Nat, NEW v \in Nat, v > 0,
           NEW t \in Nat, NEW d \in Nat, r * w <= s * v, v * d <= r * t
    PROVE  w * d <= s * t
<1>1. t * (r * w) <= t * (s * v)
  BY Scaled
<1>2. w * (v * d) <= w * (r * t)
  BY Scaled
<1>3. v * (s * t) = t * (s * v) /\ v * (w * d) = w * (v * d) /\ t * (r * w) = w * (r * t)
  OBVIOUS
<1>4. v * (w * d) <= v * (s * t)
  BY <1>1, <1>2, <1>3
<1>5. s * t \in Int /\ w * d \in Int
  OBVIOUS
<1>6. QED
  BY <1>4, <1>5, Cancelled

(* Two pools that fall made one: the beginnings of the first, and those of *)
(* the second with all of the first, are no lower than the whole.          *)
LEMMA PooledFront ==
    ASSUME NEW s \in Nat, NEW w \in Nat, NEW r \in Nat, NEW v \in Nat, w > 0,
           r * w <= s * v, NEW t \in Nat, NEW d \in Nat, s * t <= w * d
    PROVE  (s + r) * t <= (w + v) * d
<1>1. (s + r) * w <= s * (w + v)
  <2>1. (s + r) * w = s * w + r * w /\ s * (w + v) = s * w + s * v
    OBVIOUS
  <2>2. QED
    BY <2>1
<1>2. s + r \in Nat /\ w + v \in Nat
  OBVIOUS
<1>3. QED
  BY <1>1, <1>2, Through

LEMMA PooledBack ==
    ASSUME NEW s \in Nat, NEW w \in Nat, NEW r \in Nat, NEW v \in Nat, v > 0,
           r * w <= s * v, NEW t \in 0 .. v, NEW d \in Nat, r * t <= v * d
    PROVE  (s + r) * (w + t) <= (w + v) * (s + d)
<1> DEFINE rest == v - t
           fall == s * v - r * w
<1>1. rest \in Nat /\ fall \in Nat /\ rest * fall >= 0
  OBVIOUS
<1>2. v * ((s + r) * (w + t)) + rest * fall = (w + v) * (s * v + r * t)
  OBVIOUS
<1>3. (w + v) * (s * v + r * t) <= (w + v) * (s * v + v * d)
  <2>1. w + v \in Nat /\ s * v + r * t \in Int /\ s * v + v * d \in Int
    OBVIOUS
  <2>2. s * v + r * t <= s * v + v * d
    OBVIOUS
  <2>3. QED
    BY <2>1, <2>2, Scaled
<1>4. (w + v) * (s * v + v * d) = v * ((w + v) * (s + d))
  OBVIOUS
<1>5. v * ((s + r) * (w + t)) <= v * ((w + v) * (s + d))
  <2>1. /\ v * ((s + r) * (w + t)) \in Int /\ rest * fall \in Int
        /\ (w + v) * (s * v + r * t) \in Int
    OBVIOUS
  <2> HIDE DEF rest, fall
  <2>2. QED
    BY <1>1, <1>2, <1>3, <1>4, <2>1
<1>6. (s + r) * (w + t) \in Int /\ (w + v) * (s + d) \in Int
  OBVIOUS
<1>7. QED
  BY <1>5, <1>6, Cancelled

-----------------------------------------------------------------------------
(* The samples that are done, counted to each of them.                     *)
LEMMA DoneCounted ==
    ASSUME NEW a \in Nat, NEW b \in Nat
    PROVE  SumOf(a, b) \in Nat
<1>1. IsFiniteSet(a .. b)
  BY FS_Interval
<1>2. IsFiniteSet({i \in a .. b : samples[i].done = 1})
  BY <1>1, FS_Subset
<1>3. QED
  BY <1>2, FS_CardinalityType DEF SumOf

LEMMA DoneAdds ==
    ASSUME NEW a \in Nat, NEW b \in Nat, NEW c \in Nat, a <= b + 1, b <= c
    PROVE  SumOf(a, c) = SumOf(a, b) + SumOf(b + 1, c)
<1> DEFINE front == {i \in a .. b : samples[i].done = 1}
           back == {i \in b + 1 .. c : samples[i].done = 1}
<1>1. IsFiniteSet(front) /\ IsFiniteSet(back)
  <2>1. IsFiniteSet(a .. b) /\ IsFiniteSet(b + 1 .. c)
    BY FS_Interval
  <2>2. front \subseteq a .. b /\ back \subseteq b + 1 .. c
    OBVIOUS
  <2>3. QED
    BY <2>1, <2>2, FS_Subset
<1>2. front \cap back = {} /\ front \cup back = {i \in a .. c : samples[i].done = 1}
  OBVIOUS
<1> HIDE DEF front, back
<1>3. Cardinality(front \cup back) = Cardinality(front) + Cardinality(back) - Cardinality({})
  BY <1>1, <1>2, FS_Union
<1>4. Cardinality({}) = 0 /\ Cardinality(front) \in Nat /\ Cardinality(back) \in Nat
  BY <1>1, FS_EmptySet, FS_CardinalityType
<1>5. Cardinality(front \cup back) = Cardinality(front) + Cardinality(back)
  BY <1>3, <1>4
<1>6. QED
  BY <1>2, <1>5 DEF SumOf, front, back

(* What is done between two samples is the difference of the counts.       *)
LEMMA DoneBetween ==
    ASSUME NEW a \in Nat, NEW c \in Nat, a <= c
    PROVE  /\ SumOf(a + 1, c) = SumOf(1, c) - SumOf(1, a)
           /\ SumOf(a + 1, c) \in Nat /\ SumOf(1, c) \in Nat /\ SumOf(1, a) \in Nat
<1>1. SumOf(1, c) = SumOf(1, a) + SumOf(a + 1, c)
  BY DoneAdds
<1>2. QED
  BY <1>1, DoneCounted

\* ends[j] is the last sample of pool j.  A pool tells how many samples it has,
\* how many are done, and the score of the last; no beginning of it has a lower
\* mean than the whole, or it would not have become one.
Pools(ends) ==
    /\ ends \in [0 .. Len(blocks) -> 0 .. Len(samples)]
    /\ ends[0] = 0 /\ ends[Len(blocks)] = Len(samples)
    /\ \A i, j \in 0 .. Len(blocks) : i < j => ends[i] < ends[j]
    /\ \A j \in 1 .. Len(blocks) :
          /\ blocks[j].weight = ends[j] - ends[j - 1]
          /\ blocks[j].sum = SumOf(ends[j - 1] + 1, ends[j])
          /\ blocks[j].x = samples[ends[j]].raw
          /\ \A c \in ends[j - 1] .. ends[j] :
                blocks[j].sum * (c - ends[j - 1])
                    <= blocks[j].weight * SumOf(ends[j - 1] + 1, c)

\* The pools before the one the fit is at rise.
Risen ==
    \A i \in 1 .. Len(blocks) : i < at /\ i < Len(blocks) =>
        LessEq(Mean(blocks[i]), Mean(blocks[i + 1]))

FitInv == Sorted(samples) /\ Risen /\ \E ends : Pools(ends)

(* Before the fit, a pool is a sample.                                     *)
LEMMA FitInitInv ==
    ASSUME NEW s \in Seq(Sample), Sorted(s), FitInit(s)
    PROVE  FitInv
<1>1. /\ samples = s /\ at = 1 /\ blocks = [i \in 1 .. Len(s) |-> Block(s[i])]
      /\ Len(s) \in Nat /\ Len(blocks) = Len(s)
  <2>1. samples = s /\ at = 1 /\ blocks = [i \in DOMAIN s |-> Block(s[i])]
    BY DEF FitInit
  <2>2. DOMAIN s = 1 .. Len(s) /\ Len(s) \in Nat
    OBVIOUS
  <2>3. Len(blocks) = Len(s)
    BY <2>1, <2>2
  <2>4. QED
    BY <2>1, <2>2, <2>3
<1> DEFINE ends == [j \in 0 .. Len(s) |-> j]
<1>2. ASSUME NEW j \in 1 .. Len(s)
      PROVE  /\ blocks[j].weight = 1 /\ blocks[j].sum = SumOf(j, j)
             /\ blocks[j].x = samples[j].raw
  <2>1. s[j] \in Sample /\ blocks[j] = Block(s[j])
    BY <1>1
  <2>2. blocks[j].weight = 1 /\ blocks[j].sum = s[j].done /\ blocks[j].x = s[j].raw
    BY <2>1 DEF Block
  <2>3. s[j].done \in {0, 1}
    BY <2>1 DEF Sample
  <2>4. SumOf(j, j) = s[j].done
    <3>1. j .. j = {j}
      OBVIOUS
    <3>2. CASE s[j].done = 1
      <4>1. {i \in j .. j : samples[i].done = 1} = j .. j
        BY <1>1, <3>1, <3>2
      <4>2. Cardinality(j .. j) = 1
        <5>1. j \in Int
          OBVIOUS
        <5>2. Cardinality(j .. j) = IF j > j THEN 0 ELSE j - j + 1
          BY <5>1, FS_Interval
        <5>3. QED
          BY <5>1, <5>2
      <4>3. QED
        BY <3>2, <4>1, <4>2 DEF SumOf
    <3>3. CASE s[j].done = 0
      <4>1. {i \in j .. j : samples[i].done = 1} = {}
        BY <1>1, <3>1, <3>3
      <4>2. QED
        BY <3>3, <4>1, FS_EmptySet DEF SumOf
    <3>4. QED
      BY <2>3, <3>2, <3>3
  <2>5. QED
    BY <1>1, <2>2, <2>4
<1>3. ASSUME NEW j \in 1 .. Len(s)
      PROVE  /\ blocks[j].weight = ends[j] - ends[j - 1]
             /\ blocks[j].sum = SumOf(ends[j - 1] + 1, ends[j])
             /\ blocks[j].x = samples[ends[j]].raw
             /\ \A c \in ends[j - 1] .. ends[j] :
                   blocks[j].sum * (c - ends[j - 1])
                       <= blocks[j].weight * SumOf(ends[j - 1] + 1, c)
  <2>1. ends[j] = j /\ ends[j - 1] = j - 1 /\ ends[j - 1] + 1 = j /\ j \in Nat
    BY <1>1
  <2> HIDE DEF ends
  <2>2. blocks[j].weight = 1 /\ blocks[j].sum = SumOf(j, j) /\ blocks[j].x = samples[j].raw
    BY <1>2
  <2>3. ASSUME NEW c \in ends[j - 1] .. ends[j]
        PROVE  blocks[j].sum * (c - ends[j - 1])
                   <= blocks[j].weight * SumOf(ends[j - 1] + 1, c)
    <3>1. c \in {j - 1, j} /\ c \in Nat
      BY <2>1
    <3>2. SumOf(j, j) \in Nat /\ SumOf(j, c) \in Nat
      BY <2>1, <3>1, DoneCounted
    <3>3. CASE c = j
      BY <2>1, <2>2, <3>2, <3>3
    <3>4. CASE c = j - 1
      BY <2>1, <2>2, <3>2, <3>4
    <3>5. QED
      BY <3>1, <3>3, <3>4
  <2>4. QED
    BY <2>1, <2>2, <2>3
<1>4. Pools(ends)
  <2>1. /\ ends \in [0 .. Len(s) -> 0 .. Len(s)] /\ ends[0] = 0 /\ ends[Len(s)] = Len(s)
        /\ \A i, j \in 0 .. Len(s) : i < j => ends[i] < ends[j]
    BY <1>1
  <2> HIDE DEF ends
  <2>2. QED
    BY <1>1, <1>3, <2>1 DEF Pools
<1>5. QED
  BY <1>1, <1>4 DEF FitInv, Risen

(* A sequence with two neighbours made one, position by position.          *)
MadeOne(s, i, e) == SubSeq(s, 1, i - 1) \o <<e>> \o SubSeq(s, i + 2, Len(s))

LEMMA MadeOneIs ==
    ASSUME NEW S, NEW s \in Seq(S), NEW i \in Nat, 1 <= i, i < Len(s), NEW e
    PROVE  /\ Len(MadeOne(s, i, e)) = Len(s) - 1
           /\ \A j \in 1 .. Len(s) - 1 :
                 MadeOne(s, i, e)[j] =
                     IF j < i THEN s[j] ELSE IF j = i THEN e ELSE s[j + 1]
<1> DEFINE front == SubSeq(s, 1, i - 1)
           back == SubSeq(s, i + 2, Len(s))
<1>1. /\ front \in Seq(S) /\ Len(front) = i - 1 /\ Len(s) \in Nat
      /\ \A j \in 1 .. i - 1 : front[j] = s[j]
  <2>1. front \in Seq(S) /\ Len(front) = i - 1
    BY SubSeqIs
  <2>2. QED
    BY <2>1
<1>2. /\ back \in Seq(S) /\ Len(back) = Len(s) - i - 1
      /\ \A j \in 1 .. Len(s) - i - 1 : back[j] = s[i + 1 + j]
  <2>1. back \in Seq(S) /\ Len(back) = Len(s) - i - 1
    BY SubSeqIs
  <2>2. QED
    BY <2>1
<1> HIDE DEF front, back
<1>3. /\ front \o <<e>> \in Seq(S \cup {e}) /\ Len(front \o <<e>>) = i
      /\ \A j \in 1 .. i : (front \o <<e>>)[j] = IF j < i THEN s[j] ELSE e
  BY <1>1
<1> DEFINE two == front \o <<e>>
<1> HIDE DEF two
<1>4. /\ Len(two \o back) = Len(s) - 1
      /\ \A j \in 1 .. Len(s) - 1 :
            (two \o back)[j] = IF j <= i THEN two[j] ELSE back[j - i]
  <2>1. two \in Seq(S \cup {e}) /\ back \in Seq(S \cup {e})
    BY <1>2, <1>3 DEF two
  <2>2. Len(two) = i /\ Len(back) = Len(s) - i - 1
    BY <1>2, <1>3 DEF two
  <2>3. Len(two \o back) = Len(two) + Len(back)
    BY <2>1
  <2>4. ASSUME NEW j \in 1 .. Len(two) + Len(back)
        PROVE  (two \o back)[j] = IF j <= Len(two) THEN two[j] ELSE back[j - Len(two)]
    BY <2>1
  <2>5. Len(two) + Len(back) = Len(s) - 1
    BY <1>1, <2>2
  <2>6. QED
    BY <2>2, <2>3, <2>4, <2>5
<1>5. ASSUME NEW j \in 1 .. Len(s) - 1
      PROVE  (two \o back)[j] = IF j < i THEN s[j] ELSE IF j = i THEN e ELSE s[j + 1]
  <2>1. CASE j <= i
    BY <1>3, <1>4, <2>1 DEF two
  <2>2. CASE j > i
    <3>1. j - i \in 1 .. Len(s) - i - 1 /\ i + 1 + (j - i) = j + 1
      BY <1>1, <2>2
    <3>2. back[j - i] = s[j + 1]
      BY <1>2, <3>1
    <3>3. QED
      BY <1>4, <2>2, <3>2
  <2>3. j \in Int /\ i \in Int
    BY <1>1
  <2>4. j <= i \/ j > i
    BY <2>3
  <2>5. QED
    BY <2>1, <2>2, <2>4
<1>6. QED
  BY <1>4, <1>5 DEF MadeOne, two, front, back

(* A step of the fit moves on past two pools that rise, or makes one of two*)
(* that fall.                                                              *)
LEMMA FitStepInv ==
    ASSUME samples \in Seq(Sample), blocks \in Seq(BlockRecord), FitInReach, FitInv, FitStep
    PROVE  FitInv'
<1>1. /\ samples' = samples /\ Sorted(samples) /\ Len(samples) \in Nat
      /\ at \in Nat /\ 1 <= at /\ at < Len(blocks) /\ Len(blocks) \in Nat
  BY DEF FitStep, FitInReach, Fitted, FitInv
<1>2. PICK ends : Pools(ends)
  BY DEF FitInv
<1>3. CASE LessEq(Mean(blocks[at]), Mean(blocks[at + 1]))
  <2>1. at' = at + 1 /\ blocks' = blocks
    BY <1>3 DEF FitStep
  <2>2. Pools(ends)'
    BY <1>1, <1>2, <2>1 DEF Pools, SumOf
  <2>3. Risen'
    <3> SUFFICES ASSUME NEW i \in 1 .. Len(blocks), i < at + 1, i < Len(blocks)
                 PROVE  LessEq(Mean(blocks[i]), Mean(blocks[i + 1]))
      BY <2>1 DEF Risen
    <3>1. CASE i < at
      BY <3>1 DEF FitInv, Risen
    <3>2. CASE i = at
      BY <1>3, <3>2
    <3>3. QED
      BY <1>1, <3>1, <3>2
  <2>4. QED
    BY <1>1, <2>2, <2>3 DEF FitInv, Sorted
<1>4. CASE ~LessEq(Mean(blocks[at]), Mean(blocks[at + 1]))
  <2> DEFINE m == Len(blocks)
             n == Len(samples)
             a == blocks[at]
             b == blocks[at + 1]
  <2>1. /\ at' = StepBack(at)
        /\ blocks' = SubSeq(blocks, 1, at - 1) \o <<Pool(a, b)>> \o SubSeq(blocks, at + 2, m)
    BY <1>4 DEF FitStep
  <2>2. /\ Len(blocks') = m - 1
        /\ \A j \in 1 .. m - 1 :
              blocks'[j] = IF j < at THEN blocks[j]
                           ELSE IF j = at THEN Pool(a, b) ELSE blocks[j + 1]
    <3>1. at \in Nat /\ 1 <= at /\ at < Len(blocks) /\ blocks \in Seq(BlockRecord)
      BY <1>1
    <3>2. blocks' = MadeOne(blocks, at, Pool(a, b))
      BY <2>1 DEF MadeOne
    <3>3. QED
      BY <3>1, <3>2, MadeOneIs
  <2>3. /\ m \in Nat /\ n \in Nat /\ ends \in [0 .. m -> 0 .. n]
        /\ ends[0] = 0 /\ ends[m] = n
        /\ \A i, j \in 0 .. m : i < j => ends[i] < ends[j]
    BY <1>1, <1>2 DEF Pools
  <2>4. \A j \in 1 .. m :
            /\ blocks[j].weight = ends[j] - ends[j - 1]
            /\ blocks[j].sum = SumOf(ends[j - 1] + 1, ends[j])
            /\ blocks[j].x = samples[ends[j]].raw
            /\ \A c \in ends[j - 1] .. ends[j] :
                  blocks[j].sum * (c - ends[j - 1])
                      <= blocks[j].weight * SumOf(ends[j - 1] + 1, c)
    BY <1>2 DEF Pools
  <2> PICK new : new = [j \in 0 .. m - 1 |-> IF j < at THEN ends[j] ELSE ends[j + 1]]
    OBVIOUS
  <2>5. /\ new \in [0 .. m - 1 -> 0 .. n] /\ new[0] = 0 /\ new[m - 1] = n
        /\ \A i, j \in 0 .. m - 1 : i < j => new[i] < new[j]
    BY <1>1, <2>3
  <2>6. /\ new[at - 1] = ends[at - 1] /\ new[at] = ends[at + 1]
        /\ \A j \in 1 .. m - 1 : j < at => new[j] = ends[j] /\ new[j - 1] = ends[j - 1]
        /\ \A j \in 1 .. m - 1 : j > at => new[j] = ends[j + 1] /\ new[j - 1] = ends[j]
    BY <1>1, <2>3
  <2>7. /\ Pool(a, b).weight = ends[at + 1] - ends[at - 1]
        /\ Pool(a, b).sum = SumOf(ends[at - 1] + 1, ends[at + 1])
        /\ Pool(a, b).x = samples[ends[at + 1]].raw
        /\ \A c \in ends[at - 1] .. ends[at + 1] :
              Pool(a, b).sum * (c - ends[at - 1])
                  <= Pool(a, b).weight * SumOf(ends[at - 1] + 1, c)
    <3> DEFINE p == ends[at - 1]
               q == ends[at]
               r == ends[at + 1]
    <3>1. p \in Nat /\ q \in Nat /\ r \in Nat /\ p < q /\ q < r
      <4>1. at - 1 \in 0 .. m /\ at \in 0 .. m /\ at + 1 \in 0 .. m
        BY <1>1
      <4>2. p \in 0 .. n /\ q \in 0 .. n /\ r \in 0 .. n
        BY <2>3, <4>1
      <4>3. p < q /\ q < r
        <5>1. at - 1 < at /\ at < at + 1
          BY <1>1
        <5>2. QED
          BY <2>3, <4>1, <5>1
      <4>4. QED
        BY <4>2, <4>3
    <3>2. /\ a.weight = q - p /\ a.sum = SumOf(p + 1, q)
          /\ b.weight = r - q /\ b.sum = SumOf(q + 1, r) /\ b.x = samples[r].raw
          /\ \A c \in p .. q : a.sum * (c - p) <= a.weight * SumOf(p + 1, c)
          /\ \A c \in q .. r : b.sum * (c - q) <= b.weight * SumOf(q + 1, c)
      <4>1. at \in 1 .. m /\ at + 1 \in 1 .. m /\ (at + 1) - 1 = at
        BY <1>1
      <4>2. QED
        BY <2>4, <4>1
    <3> HIDE DEF a, b, p, q, r
    <3>3. a.sum \in Nat /\ b.sum \in Nat /\ a.weight \in Nat /\ b.weight \in Nat
      <4>1. SumOf(p + 1, q) \in Nat /\ SumOf(q + 1, r) \in Nat
        <5>1. p <= q /\ q <= r
          BY <3>1
        <5>2. QED
          BY <3>1, <5>1, DoneBetween
      <4>2. QED
        BY <3>1, <3>2, <4>1
    <3>4. b.sum * a.weight <= a.sum * b.weight
      <4>1. ~(a.sum * b.weight <= b.sum * a.weight)
        BY <1>4 DEF LessEq, Mean, a, b
      <4>2. a.sum * b.weight \in Int /\ b.sum * a.weight \in Int
        BY <3>3
      <4>3. QED
        BY <4>1, <4>2
    <3>5. /\ Pool(a, b).weight = a.weight + b.weight /\ Pool(a, b).sum = a.sum + b.sum
          /\ Pool(a, b).x = b.x
      BY DEF Pool
    <3>6. SumOf(p + 1, r) = a.sum + b.sum
      BY <3>1, <3>2, DoneAdds
    <3>7. ASSUME NEW c \in p .. r
          PROVE  (a.sum + b.sum) * (c - p) <= (a.weight + b.weight) * SumOf(p + 1, c)
      <4>1. c \in Nat /\ SumOf(p + 1, c) \in Nat
        <5>1. c \in Nat /\ p <= c
          BY <3>1
        <5>2. QED
          BY <3>1, <5>1, DoneBetween
      <4>2. CASE c <= q
        <5>1. c - p \in Nat /\ a.weight > 0
          BY <3>1, <3>2, <4>1
        <5>2. a.sum * (c - p) <= a.weight * SumOf(p + 1, c)
          BY <3>1, <3>2, <4>1, <4>2
        <5>3. QED
          BY <3>3, <3>4, <4>1, <5>1, <5>2, PooledFront
      <4>3. CASE c > q
        <5>1. c - q \in 0 .. b.weight /\ b.weight > 0 /\ SumOf(q + 1, c) \in Nat
          BY <3>1, <3>2, <4>1, <4>3, DoneBetween
        <5>2. b.sum * (c - q) <= b.weight * SumOf(q + 1, c)
          BY <3>1, <3>2, <4>1, <4>3
        <5>3. (a.sum + b.sum) * (a.weight + (c - q))
                  <= (a.weight + b.weight) * (a.sum + SumOf(q + 1, c))
          BY <3>3, <3>4, <5>1, <5>2, PooledBack
        <5>4. a.weight + (c - q) = c - p
          BY <3>1, <3>2, <4>1
        <5>5. SumOf(p + 1, c) = a.sum + SumOf(q + 1, c)
          BY <3>1, <3>2, <4>1, <4>3, DoneAdds
        <5>6. QED
          BY <5>3, <5>4, <5>5
      <4>4. QED
        BY <3>1, <4>1, <4>2, <4>3
    <3>8. Pool(a, b).weight = r - p
      BY <3>1, <3>2, <3>5
    <3>9. QED
      BY <3>2, <3>5, <3>6, <3>7, <3>8 DEF p, q, r
  <2> HIDE DEF a, b
  <2>8. ASSUME NEW j \in 1 .. m - 1
        PROVE  /\ blocks'[j].weight = new[j] - new[j - 1]
               /\ blocks'[j].sum = SumOf(new[j - 1] + 1, new[j])
               /\ blocks'[j].x = samples[new[j]].raw
               /\ \A c \in new[j - 1] .. new[j] :
                     blocks'[j].sum * (c - new[j - 1])
                         <= blocks'[j].weight * SumOf(new[j - 1] + 1, c)
    <3>1. CASE j < at
      <4>1. blocks'[j] = blocks[j] /\ new[j] = ends[j] /\ new[j - 1] = ends[j - 1]
        BY <2>2, <2>6, <3>1
      <4>2. j \in 1 .. m
        BY <1>1
      <4>3. QED
        BY <2>4, <4>1, <4>2
    <3>2. CASE j = at
      <4>1. /\ blocks'[j] = Pool(a, b) /\ new[j] = ends[at + 1] /\ new[j - 1] = ends[at - 1]
        BY <1>1, <2>2, <2>6, <3>2
      <4>2. QED
        BY <2>7, <4>1
    <3>3. CASE j > at
      <4>1. /\ blocks'[j] = blocks[j + 1] /\ new[j] = ends[j + 1]
            /\ new[j - 1] = ends[(j + 1) - 1]
        BY <1>1, <2>2, <2>6, <3>3
      <4>2. j + 1 \in 1 .. m
        BY <1>1
      <4>3. QED
        BY <2>4, <4>1, <4>2
    <3>4. j \in Nat /\ (j < at \/ j = at \/ j > at)
      BY <1>1
    <3>5. QED
      BY <3>1, <3>2, <3>3, <3>4
  <2>9. Pools(new)'
    <3>1. \A c, d : SumOf(c, d)' = SumOf(c, d)
      BY <1>1 DEF SumOf
    <3>2. QED
      BY <1>1, <2>2, <2>5, <2>8, <3>1 DEF Pools
  <2>10. Risen'
    <3> SUFFICES ASSUME NEW i \in 1 .. m - 1, i < at', i < m - 1
                 PROVE  LessEq(Mean(blocks'[i]), Mean(blocks'[i + 1]))
      BY <2>2 DEF Risen, LessEq, Mean
    <3>1. i + 1 < at /\ i + 1 \in 1 .. m - 1
      BY <1>1, <2>1 DEF StepBack
    <3>2. blocks'[i] = blocks[i] /\ blocks'[i + 1] = blocks[i + 1]
      BY <1>1, <2>2, <3>1
    <3>3. LessEq(Mean(blocks[i]), Mean(blocks[i + 1]))
      BY <1>1, <3>1 DEF FitInv, Risen
    <3>4. QED
      BY <3>2, <3>3
  <2>11. QED
    BY <1>1, <2>9, <2>10 DEF FitInv, Sorted
<1>5. QED
  BY <1>3, <1>4

(* Upto() counts to the last sample of a pool.                             *)
LEMMA UptoIsEnd ==
    ASSUME blocks \in Seq(BlockRecord), Len(samples) \in Nat, NEW ends, Pools(ends),
           NEW j \in 0 .. Len(blocks)
    PROVE  Upto(j) = ends[j]
<1>1. /\ ends \in [0 .. Len(blocks) -> 0 .. Len(samples)] /\ ends[0] = 0
      /\ Len(blocks) \in Nat /\ j \in Nat
      /\ \A i \in 1 .. Len(blocks) : blocks[i].weight = ends[i] - ends[i - 1]
  BY DEF Pools
<1> DEFINE Counting(f) ==
               f = [i \in 0 .. j |-> IF i = 0 THEN 0 ELSE f[i - 1] + blocks[i].weight]
           g == [i \in 0 .. j |-> ends[i]]
<1>2. Counting(g)
  <2>1. ASSUME NEW i \in 0 .. j
        PROVE  g[i] = IF i = 0 THEN 0 ELSE g[i - 1] + blocks[i].weight
    <3>1. CASE i = 0
      BY <1>1, <3>1
    <3>2. CASE i # 0
      <4>1. i \in 1 .. Len(blocks) /\ i - 1 \in 0 .. j /\ i \in 0 .. Len(blocks)
            /\ i - 1 \in 0 .. Len(blocks)
        BY <1>1, <3>2
      <4>2. ends[i] \in Int /\ ends[i - 1] \in Int /\ blocks[i].weight = ends[i] - ends[i - 1]
        BY <1>1, <4>1
      <4>3. g[i] = ends[i] /\ g[i - 1] = ends[i - 1]
        BY <4>1
      <4> HIDE DEF g
      <4>4. QED
        BY <3>2, <4>2, <4>3
    <3>3. QED
      BY <3>1, <3>2
  <2>2. QED
    BY <2>1
<1>3. ASSUME NEW f, Counting(f)
      PROVE  f[j] = ends[j]
  <2> DEFINE S == {i \in Nat : i <= j => f[i] = ends[i]}
  <2>1. \A i \in 0 .. j : f[i] = IF i = 0 THEN 0 ELSE f[i - 1] + blocks[i].weight
    BY <1>3
  <2>2. 0 \in S
    BY <1>1, <2>1
  <2>3. ASSUME NEW i \in Nat, i \in S
        PROVE  i + 1 \in S
    <3> SUFFICES ASSUME i + 1 <= j PROVE f[i + 1] = ends[i + 1]
      OBVIOUS
    <3>1. f[i] = ends[i] /\ i + 1 \in 0 .. j /\ (i + 1) - 1 = i /\ i + 1 # 0
      BY <2>3
    <3>2. i + 1 \in 1 .. Len(blocks) /\ i \in 0 .. Len(blocks) /\ i + 1 \in 0 .. Len(blocks)
      BY <1>1, <3>1
    <3>3. ends[i] \in Int /\ ends[i + 1] \in Int
      BY <1>1, <3>2
    <3>4. blocks[i + 1].weight = ends[i + 1] - ends[i]
      BY <1>1, <3>1, <3>2
    <3>5. f[i + 1] = f[i] + blocks[i + 1].weight
      BY <2>1, <3>1
    <3>6. QED
      BY <3>1, <3>3, <3>4, <3>5
  <2> HIDE DEF S
  <2>4. Nat \subseteq S
    BY <2>2, <2>3, Induction
  <2>5. j \in S
    BY <1>1, <2>4
  <2>6. QED
    BY <1>1, <2>5 DEF S
<1> HIDE DEF g
<1>4. PICK W : W = CHOOSE f : Counting(f)
  OBVIOUS
<1>5. Counting(W)
  BY <1>2, <1>4
<1>6. W[j] = ends[j]
  BY <1>3, <1>5
<1>7. QED
  BY <1>4, <1>6 DEF Upto

(* PoolOf() is the pool a sample lies in, and every sample lies in one.    *)
LEMMA PoolIs ==
    ASSUME blocks \in Seq(BlockRecord), Len(samples) \in Nat, NEW ends, Pools(ends),
           NEW k \in 1 .. Len(samples)
    PROVE  /\ PoolOf(k) \in 1 .. Len(blocks)
           /\ ends[PoolOf(k) - 1] < k /\ k <= ends[PoolOf(k)]
           /\ \A j \in 1 .. Len(blocks) : ends[j - 1] < k /\ k <= ends[j] => PoolOf(k) = j
<1>1. /\ ends \in [0 .. Len(blocks) -> 0 .. Len(samples)]
      /\ ends[0] = 0 /\ ends[Len(blocks)] = Len(samples)
      /\ \A i, j \in 0 .. Len(blocks) : i < j => ends[i] < ends[j]
      /\ Len(blocks) \in Nat /\ DOMAIN blocks = 1 .. Len(blocks) /\ k \in Nat
  BY DEF Pools
<1> DEFINE m == Len(blocks)
           In(j) == ends[j - 1] < k /\ k <= ends[j]
           T == {j \in 0 .. m : k <= ends[j]}
<1>2. \E j \in 1 .. m : In(j)
  <2>1. T \in SUBSET Nat /\ m \in T
    BY <1>1
  <2>2. PICK j \in T : \A i \in T : j <= i
    BY <2>1, Least
  <2>3. j \in 0 .. m /\ k <= ends[j]
    BY <2>2
  <2>4. j # 0
    BY <1>1, <2>3
  <2>5. j - 1 \in 0 .. m /\ j \in 1 .. m /\ ~(j <= j - 1)
    BY <1>1, <2>3, <2>4
  <2>6. j - 1 \notin T
    BY <2>2, <2>5
  <2>7. ~(k <= ends[j - 1]) /\ ends[j - 1] \in Int
    BY <1>1, <2>5, <2>6
  <2>8. QED
    BY <1>1, <2>3, <2>5, <2>7
<1>3. ASSUME NEW i \in 1 .. m, NEW j \in 1 .. m, In(i), In(j)
      PROVE  i = j
  <2>1. /\ i \in 0 .. m /\ j \in 0 .. m /\ i - 1 \in 0 .. m /\ j - 1 \in 0 .. m
        /\ ends[i] \in Int /\ ends[j] \in Int /\ ends[i - 1] \in Int /\ ends[j - 1] \in Int
    BY <1>1
  <2>2. ~(i < j)
    <3> SUFFICES ASSUME i < j PROVE FALSE
      OBVIOUS
    <3>1. i = j - 1 \/ i < j - 1
      OBVIOUS
    <3>2. ends[i] <= ends[j - 1]
      <4>1. CASE i = j - 1
        BY <2>1, <4>1
      <4>2. CASE i < j - 1
        <5>1. ends[i] < ends[j - 1]
          BY <1>1, <2>1, <4>2
        <5>2. QED
          BY <2>1, <5>1
      <4>3. QED
        BY <3>1, <4>1, <4>2
    <3>3. QED
      BY <1>1, <1>3, <2>1, <3>2
  <2>3. ~(j < i)
    <3> SUFFICES ASSUME j < i PROVE FALSE
      OBVIOUS
    <3>1. j = i - 1 \/ j < i - 1
      OBVIOUS
    <3>2. ends[j] <= ends[i - 1]
      <4>1. CASE j = i - 1
        BY <2>1, <4>1
      <4>2. CASE j < i - 1
        <5>1. ends[j] < ends[i - 1]
          BY <1>1, <2>1, <4>2
        <5>2. QED
          BY <2>1, <5>1
      <4>3. QED
        BY <3>1, <4>1, <4>2
    <3>3. QED
      BY <1>1, <1>3, <2>1, <3>2
  <2>4. QED
    BY <2>2, <2>3
<1>4. \A j \in 1 .. m : Upto(j - 1) = ends[j - 1] /\ Upto(j) = ends[j]
  <2> SUFFICES ASSUME NEW j \in 1 .. m
               PROVE  Upto(j - 1) = ends[j - 1] /\ Upto(j) = ends[j]
    OBVIOUS
  <2>1. j - 1 \in 0 .. Len(blocks) /\ j \in 0 .. Len(blocks)
    BY <1>1
  <2>2. QED
    BY <2>1, UptoIsEnd
<1> DEFINE Q(j) == Upto(j - 1) < k /\ k <= Upto(j)
<1>5. \A j \in 1 .. m : Q(j) <=> In(j)
  BY <1>4
<1>6. PoolOf(k) = CHOOSE j \in 1 .. m : Q(j)
  BY <1>1 DEF PoolOf
<1> HIDE DEF In, Q, m
<1>7. PoolOf(k) \in 1 .. m /\ In(PoolOf(k))
  BY <1>2, <1>5, <1>6
<1>8. QED
  BY <1>3, <1>7 DEF In, m

(* What a pool is, once the fit has ended.                                 *)
LEMMA PoolFacts ==
    ASSUME NEW ends, Pools(ends), Len(samples) \in Nat, Len(blocks) \in Nat,
           NEW j \in 1 .. Len(blocks)
    PROVE  /\ ends[j - 1] \in Nat /\ ends[j] \in Nat /\ ends[j - 1] < ends[j]
           /\ ends[j] <= Len(samples)
           /\ blocks[j].weight = ends[j] - ends[j - 1] /\ blocks[j].weight \in Nat
           /\ blocks[j].weight > 0 /\ blocks[j].sum \in Nat
           /\ blocks[j].sum = SumOf(ends[j - 1] + 1, ends[j])
           /\ blocks[j].x = samples[ends[j]].raw
           /\ \A c \in ends[j - 1] .. ends[j] :
                 blocks[j].sum * (c - ends[j - 1])
                     <= blocks[j].weight * SumOf(ends[j - 1] + 1, c)
<1>1. j - 1 \in 0 .. Len(blocks) /\ j \in 0 .. Len(blocks) /\ j - 1 < j
  OBVIOUS
<1>2. /\ ends \in [0 .. Len(blocks) -> 0 .. Len(samples)]
      /\ ends[j - 1] < ends[j]
      /\ blocks[j].weight = ends[j] - ends[j - 1]
      /\ blocks[j].sum = SumOf(ends[j - 1] + 1, ends[j])
  BY <1>1 DEF Pools
<1>3. ends[j - 1] \in Nat /\ ends[j] \in Nat /\ ends[j] <= Len(samples)
  BY <1>1, <1>2
<1>4. SumOf(ends[j - 1] + 1, ends[j]) \in Nat
  <2>1. ends[j - 1] <= ends[j]
    BY <1>2, <1>3
  <2>2. QED
    BY <1>3, <2>1, DoneBetween
<1>5. blocks[j].weight \in Nat /\ blocks[j].weight > 0
  BY <1>2, <1>3
<1>6. QED
  BY <1>2, <1>3, <1>4, <1>5 DEF Pools

(* Once all pools rise, the mean of a pool is no more than that of any     *)
(* stretch from its beginning to a later sample.                           *)
LEMMA NoLowerAfter ==
    ASSUME NEW ends, Pools(ends), Risen, Fitted, Len(samples) \in Nat, Len(blocks) \in Nat,
           at \in Nat, NEW j \in 1 .. Len(blocks), NEW i \in 1 .. Len(blocks), j <= i
    PROVE  /\ blocks[j].sum * blocks[i].weight <= blocks[i].sum * blocks[j].weight
           /\ \A c \in ends[i - 1] .. ends[i] :
                 blocks[j].sum * (c - ends[j - 1])
                     <= blocks[j].weight * SumOf(ends[j - 1] + 1, c)
<1> DEFINE m == Len(blocks)
           s == blocks[j].sum
           w == blocks[j].weight
           o == ends[j - 1]
           Holds(h) == /\ o <= ends[h]
                       /\ s * blocks[h].weight <= blocks[h].sum * w
                       /\ \A c \in ends[h - 1] .. ends[h] : s * (c - o) <= w * SumOf(o + 1, c)
           S == {d \in Nat : j + d <= m => Holds(j + d)}
<1>1. s \in Nat /\ w \in Nat /\ w > 0 /\ o \in Nat /\ m \in Nat /\ j \in Nat /\ i \in Nat
  BY PoolFacts
<1>2. 0 \in S
  <2>1. Holds(j)
    <3>1. o <= ends[j]
      BY PoolFacts
    <3>2. s * w <= s * w
      BY <1>1
    <3>3. QED
      BY <3>1, <3>2, PoolFacts
  <2> HIDE DEF Holds
  <2>2. j + 0 = j
    BY <1>1
  <2>3. QED
    BY <2>1, <2>2
<1>3. ASSUME NEW d \in Nat, d \in S
      PROVE  d + 1 \in S
  <2> SUFFICES ASSUME j + (d + 1) <= m PROVE Holds(j + (d + 1))
    OBVIOUS
  <2> PICK h : h = j + d
    OBVIOUS
  <2>1. h \in 1 .. m /\ h + 1 \in 1 .. m /\ (h + 1) - 1 = h /\ h < m /\ j + (d + 1) = h + 1
    BY <1>1
  <2>2. Holds(h)
    BY <1>1, <1>3, <2>1
  <2> DEFINE r == blocks[h].sum
             v == blocks[h].weight
             q == blocks[h + 1].sum
             u == blocks[h + 1].weight
             p == ends[h]
  <2>3. /\ r \in Nat /\ v \in Nat /\ v > 0 /\ q \in Nat /\ u \in Nat /\ u > 0 /\ p \in Nat
        /\ ends[h + 1] \in Nat /\ p < ends[h + 1]
        /\ \A c \in p .. ends[h + 1] : q * (c - p) <= u * SumOf(p + 1, c)
    BY <2>1, PoolFacts
  <2>4. r * u <= q * v
    <3>1. h < at
      BY <2>1 DEF Fitted
    <3>2. QED
      BY <2>1, <3>1 DEF Risen, LessEq, Mean
  <2>5. o <= p /\ s * v <= r * w
    BY <2>2
  <2>6. p \in ends[h - 1] .. ends[h]
    BY <2>1, PoolFacts
  <2>7. s * (p - o) <= w * SumOf(o + 1, p)
    BY <2>2, <2>6
  <2> HIDE DEF s, w, o, r, v, q, u, p, m
  <2>8. s * u <= q * w
    <3>1. q * v = v * q /\ w * q = q * w
      BY <1>1, <2>3
    <3>2. r * u <= v * q
      BY <2>4, <3>1
    <3>3. s * u <= w * q
      BY <1>1, <2>3, <2>5, <3>2, Through
    <3>4. QED
      BY <3>1, <3>3
  <2>9. ASSUME NEW c \in p .. ends[h + 1]
        PROVE  s * (c - o) <= w * SumOf(o + 1, c)
    <3>1. c \in Nat /\ p <= c /\ o <= c
      BY <1>1, <2>3, <2>5
    <3>2. SumOf(p + 1, c) \in Nat /\ SumOf(o + 1, p) \in Nat
      BY <1>1, <2>3, <2>5, <3>1, DoneBetween
    <3>3. SumOf(o + 1, c) = SumOf(o + 1, p) + SumOf(p + 1, c)
      <4>1. o + 1 \in Nat /\ o + 1 <= p + 1
        BY <1>1, <2>3, <2>5
      <4>2. QED
        BY <2>3, <3>1, <4>1, DoneAdds
    <3>4. s * (c - p) <= w * SumOf(p + 1, c)
      <4>1. PICK t : t = c - p
        OBVIOUS
      <4>2. PICK e : e = SumOf(p + 1, c)
        OBVIOUS
      <4>3. t \in Nat /\ e \in Nat /\ q * t <= u * e
        BY <2>3, <3>1, <3>2, <4>1, <4>2
      <4>4. s * t <= w * e
        BY <1>1, <2>3, <2>8, <4>3, Through
      <4>5. QED
        BY <4>1, <4>2, <4>4
    <3>5. /\ s * (c - o) = s * (p - o) + s * (c - p)
          /\ w * (SumOf(o + 1, p) + SumOf(p + 1, c))
                 = w * SumOf(o + 1, p) + w * SumOf(p + 1, c)
      BY <1>1, <2>3, <3>1, <3>2
    <3>6. /\ s * (p - o) \in Int /\ s * (c - p) \in Int
          /\ w * SumOf(o + 1, p) \in Int /\ w * SumOf(p + 1, c) \in Int
      BY <1>1, <2>3, <3>1, <3>2
    <3>7. QED
      BY <2>7, <3>3, <3>4, <3>5, <3>6
  <2>10. o <= ends[h + 1]
    BY <1>1, <2>3, <2>5
  <2>11. Holds(h + 1)
    BY <2>1, <2>8, <2>9, <2>10 DEF p, u, q
  <2>12. QED
    BY <2>1, <2>11
<1> HIDE DEF S, Holds
<1>4. Nat \subseteq S
  BY <1>2, <1>3, Induction
<1>5. i - j \in S /\ j + (i - j) = i /\ i <= m
  BY <1>1, <1>4
<1>6. Holds(i)
  BY <1>5 DEF S
<1>7. QED
  BY <1>6 DEF Holds

(* No end of a pool has a higher mean than the whole.                      *)
LEMMA EndOfPool ==
    ASSUME NEW ends, Pools(ends), Len(samples) \in Nat, Len(blocks) \in Nat,
           NEW j \in 1 .. Len(blocks), NEW c \in ends[j - 1] .. ends[j]
    PROVE  blocks[j].weight * SumOf(c + 1, ends[j]) <= blocks[j].sum * (ends[j] - c)
<1> DEFINE r == blocks[j].sum
           v == blocks[j].weight
           o == ends[j - 1]
           p == ends[j]
<1>1. /\ o \in Nat /\ p \in Nat /\ v = p - o /\ v \in Nat /\ r \in Nat /\ r = SumOf(o + 1, p)
      /\ r * (c - o) <= v * SumOf(o + 1, c)
  BY PoolFacts
<1> HIDE DEF r, v, o, p
<1>2. c \in Nat /\ o <= c /\ c <= p
  BY <1>1 DEF o, p
<1>3. PICK d : d = SumOf(o + 1, c)
  OBVIOUS
<1>4. PICK e : e = SumOf(c + 1, p)
  OBVIOUS
<1>5. d \in Nat /\ e \in Nat
  BY <1>1, <1>2, <1>3, <1>4, DoneBetween
<1>6. r = d + e
  <2>1. o + 1 \in Nat /\ o + 1 <= c + 1
    BY <1>1, <1>2
  <2>2. QED
    BY <1>1, <1>2, <1>3, <1>4, <2>1, DoneAdds
<1>7. r * (c - o) <= v * d
  BY <1>1, <1>3
<1>8. v * e <= r * (p - c)
  <2>1. v * e = v * r - v * d
    <3>1. v * (d + e) = v * d + v * e /\ v * d \in Int /\ v * e \in Int
      BY <1>1, <1>5
    <3>2. v * r = v * d + v * e
      BY <1>6, <3>1
    <3>3. QED
      BY <3>1, <3>2
  <2>2. r * (p - c) = v * r - r * (c - o)
    BY <1>1, <1>2
  <2>3. v * r \in Int /\ v * d \in Int /\ r * (c - o) \in Int
    BY <1>1, <1>2, <1>5
  <2>4. QED
    BY <1>7, <2>1, <2>2, <2>3
<1>9. QED
  BY <1>4, <1>8 DEF r, v, p

(* Nor has a stretch from an earlier sample to the end of the pool.        *)
LEMMA NoHigherBefore ==
    ASSUME NEW ends, Pools(ends), Risen, Fitted, Len(samples) \in Nat, Len(blocks) \in Nat,
           at \in Nat, NEW j \in 1 .. Len(blocks), NEW i \in 1 .. Len(blocks), i <= j
    PROVE  \A c \in ends[i - 1] .. ends[i] :
               blocks[j].weight * SumOf(c + 1, ends[j]) <= blocks[j].sum * (ends[j] - c)
<1> DEFINE s == blocks[j].sum
           w == blocks[j].weight
           z == ends[j]
           Holds(h) == /\ ends[h] <= z
                       /\ \A c \in ends[h - 1] .. ends[h] : w * SumOf(c + 1, z) <= s * (z - c)
           S == {d \in Nat : d < j => Holds(j - d)}
<1>1. s \in Nat /\ w \in Nat /\ w > 0 /\ z \in Nat /\ j \in Nat /\ i \in Nat
  BY PoolFacts
<1>2. 0 \in S
  <2>1. Holds(j)
    <3>1. \A c \in ends[j - 1] .. ends[j] : w * SumOf(c + 1, z) <= s * (z - c)
      BY EndOfPool
    <3>2. ends[j] <= z
      BY <1>1
    <3>3. QED
      BY <3>1, <3>2
  <2> HIDE DEF Holds
  <2>2. j - 0 = j
    BY <1>1
  <2>3. QED
    BY <2>1, <2>2
<1>3. ASSUME NEW d \in Nat, d \in S
      PROVE  d + 1 \in S
  <2> SUFFICES ASSUME d + 1 < j PROVE Holds(j - (d + 1))
    OBVIOUS
  <2>1. PICK h : h = j - (d + 1)
    OBVIOUS
  <2>2. /\ h \in 1 .. Len(blocks) /\ h + 1 \in 1 .. Len(blocks) /\ (h + 1) - 1 = h
        /\ j - d = h + 1 /\ d < j /\ h <= j
    BY <1>1, <2>1
  <2>3. Holds(h + 1)
    BY <1>3, <2>2
  <2> DEFINE r == blocks[h].sum
             v == blocks[h].weight
             p == ends[h]
             o == ends[h - 1]
  <2>4. /\ r \in Nat /\ v \in Nat /\ v > 0 /\ p \in Nat /\ o \in Nat /\ o < p
        /\ p < ends[h + 1] /\ ends[h + 1] \in Nat
    BY <2>2, PoolFacts
  <2>5. r * w <= s * v
    BY <2>2, NoLowerAfter
  <2>6. ends[h + 1] <= z
    BY <2>3
  <2>7. p <= z
    BY <1>1, <2>4, <2>6
  <2>8. w * SumOf(p + 1, z) <= s * (z - p)
    <3>1. p \in ends[(h + 1) - 1] .. ends[h + 1]
      BY <2>2, <2>4
    <3>2. QED
      BY <2>3, <3>1
  <2>9. \A c \in o .. p : v * SumOf(c + 1, p) <= r * (p - c)
    BY <2>2, EndOfPool
  <2> HIDE DEF s, w, z, r, v, p, o
  <2>10. ASSUME NEW c \in o .. p
         PROVE  w * SumOf(c + 1, z) <= s * (z - c)
    <3>1. c \in Nat /\ c <= p /\ c <= z
      BY <1>1, <2>4, <2>7
    <3>2. PICK e : e = SumOf(c + 1, p)
      OBVIOUS
    <3>3. PICK f : f = SumOf(p + 1, z)
      OBVIOUS
    <3>4. PICK t : t = p - c
      OBVIOUS
    <3>5. e \in Nat /\ f \in Nat
      BY <1>1, <2>4, <2>7, <3>1, <3>2, <3>3, DoneBetween
    <3>6. t \in Nat /\ v * e <= r * t
      BY <2>4, <2>9, <3>1, <3>2, <3>4
    <3>7. w * e <= s * t
      BY <1>1, <2>4, <2>5, <3>5, <3>6, ThroughBack
    <3>8. SumOf(c + 1, z) = e + f
      <4>1. c + 1 \in Nat /\ c + 1 <= p + 1
        BY <2>4, <3>1
      <4>2. QED
        BY <1>1, <2>4, <2>7, <3>2, <3>3, <4>1, DoneAdds
    <3>9. w * f <= s * (z - p)
      BY <2>8, <3>3
    <3>10. w * (e + f) = w * e + w * f /\ s * (z - c) = s * t + s * (z - p)
      BY <1>1, <2>4, <3>1, <3>4, <3>5
    <3>11. w * e \in Int /\ w * f \in Int /\ s * t \in Int /\ s * (z - p) \in Int
      BY <1>1, <2>4, <3>5, <3>6
    <3>12. QED
      BY <3>7, <3>8, <3>9, <3>10, <3>11
  <2>11. Holds(h)
    BY <2>7, <2>10 DEF p, o
  <2>12. QED
    BY <2>1, <2>11
<1> HIDE DEF S, Holds
<1>4. Nat \subseteq S
  BY <1>2, <1>3, Induction
<1>5. j - i \in S /\ j - (j - i) = i /\ j - i < j
  BY <1>1, <1>4
<1>6. Holds(i)
  BY <1>5 DEF S
<1>7. QED
  BY <1>6 DEF Holds

(* When the fit ends, each sample's pool has the mean that the max-min     *)
(* formula of a least-squares rising fit gives, and the score of its last. *)
LEMMA EndsInRegression ==
    ASSUME samples \in Seq(Sample), blocks \in Seq(BlockRecord), FitInReach, FitInv
    PROVE  LeastSquares
<1> SUFFICES ASSUME Fitted, NEW k \in DOMAIN samples
             PROVE  /\ IsRegression(k, Mean(blocks[PoolOf(k)]))
                    /\ samples[k].raw <= blocks[PoolOf(k)].x
                    /\ \E m \in DOMAIN samples :
                          PoolOf(m) = PoolOf(k) /\ samples[m].raw = blocks[PoolOf(k)].x
  BY DEF LeastSquares
<1>1. PICK ends : Pools(ends)
  BY DEF FitInv
<1>2. /\ Len(samples) \in Nat /\ Len(blocks) \in Nat /\ at \in Nat /\ Sorted(samples) /\ Risen
      /\ DOMAIN samples = 1 .. Len(samples)
  BY DEF FitInReach, FitInv
<1>3. PICK j : j = PoolOf(k)
  OBVIOUS
<1>4. j \in 1 .. Len(blocks) /\ ends[j - 1] < k /\ k <= ends[j]
  BY <1>1, <1>2, <1>3, PoolIs
<1>5. /\ ends[j - 1] \in Nat /\ ends[j] \in 1 .. Len(samples) /\ k \in Nat /\ j \in Nat
      /\ blocks[j].x = samples[ends[j]].raw
      /\ blocks[j].sum \in Nat /\ blocks[j].weight \in Nat
  BY <1>1, <1>2, <1>4, PoolFacts
<1>6. ASSUME NEW b \in k .. Len(samples)
      PROVE  LessEq(Mean(blocks[j]), Average(ends[j - 1] + 1, b))
  <2>1. b \in 1 .. Len(samples) /\ b \in Nat /\ k <= b
    BY <1>2, <1>5
  <2>2. PICK i : i = PoolOf(b)
    OBVIOUS
  <2>3. i \in 1 .. Len(blocks) /\ ends[i - 1] < b /\ b <= ends[i] /\ i \in Nat
    BY <1>1, <1>2, <2>1, <2>2, PoolIs
  <2>4. ends[i - 1] \in Nat /\ ends[i] \in Nat
    BY <1>1, <1>2, <2>3, PoolFacts
  <2>5. j <= i
    <3> SUFFICES ASSUME i < j PROVE FALSE
      BY <1>5, <2>3
    <3>1. i = j - 1 \/ i < j - 1
      BY <1>5, <2>3
    <3>2. i \in 0 .. Len(blocks) /\ j - 1 \in 0 .. Len(blocks)
      BY <1>2, <1>4, <2>3
    <3>3. ends[i] <= ends[j - 1]
      <4>1. CASE i = j - 1
        BY <1>5, <4>1
      <4>2. CASE i < j - 1
        <5>1. ends[i] < ends[j - 1]
          BY <1>1, <3>2, <4>2 DEF Pools
        <5>2. QED
          BY <1>5, <2>4, <5>1
      <4>3. QED
        BY <3>1, <4>1, <4>2
    <3>4. QED
      BY <1>4, <1>5, <2>1, <2>3, <2>4, <3>3
  <2>6. b \in ends[i - 1] .. ends[i]
    BY <2>1, <2>3, <2>4
  <2>7. blocks[j].sum * (b - ends[j - 1]) <= blocks[j].weight * SumOf(ends[j - 1] + 1, b)
    BY <1>1, <1>2, <1>4, <2>3, <2>5, <2>6, NoLowerAfter
  <2>8. SumOf(ends[j - 1] + 1, b) \in Nat
    <3>1. ends[j - 1] <= b
      BY <1>4, <1>5, <2>1
    <3>2. QED
      BY <1>5, <2>1, <3>1, DoneBetween
  <2>9. b - (ends[j - 1] + 1) + 1 = b - ends[j - 1]
    BY <1>5, <2>1
  <2>10. blocks[j].weight * SumOf(ends[j - 1] + 1, b) = SumOf(ends[j - 1] + 1, b) * blocks[j].weight
    BY <1>5, <2>8
  <2>11. QED
    BY <2>7, <2>9, <2>10 DEF LessEq, Mean, Average
<1>7. ASSUME NEW a \in 1 .. k
      PROVE  LessEq(Average(a, ends[j]), Mean(blocks[j]))
  <2>1. a \in 1 .. Len(samples) /\ a \in Nat /\ a - 1 \in Nat /\ a <= k
    BY <1>2, <1>5
  <2>2. PICK i : i = PoolOf(a)
    OBVIOUS
  <2>3. i \in 1 .. Len(blocks) /\ ends[i - 1] < a /\ a <= ends[i] /\ i \in Nat
    BY <1>1, <1>2, <2>1, <2>2, PoolIs
  <2>4. ends[i - 1] \in Nat /\ ends[i] \in Nat
    BY <1>1, <1>2, <2>3, PoolFacts
  <2>5. i <= j
    <3> SUFFICES ASSUME j < i PROVE FALSE
      BY <1>5, <2>3
    <3>1. j = i - 1 \/ j < i - 1
      BY <1>5, <2>3
    <3>2. j \in 0 .. Len(blocks) /\ i - 1 \in 0 .. Len(blocks)
      BY <1>2, <1>4, <2>3
    <3>3. ends[j] <= ends[i - 1]
      <4>1. CASE j = i - 1
        BY <2>4, <4>1
      <4>2. CASE j < i - 1
        <5>1. ends[j] < ends[i - 1]
          BY <1>1, <3>2, <4>2 DEF Pools
        <5>2. QED
          BY <1>5, <2>4, <5>1
      <4>3. QED
        BY <3>1, <4>1, <4>2
    <3>4. QED
      BY <1>4, <1>5, <2>1, <2>3, <2>4, <3>3
  <2>6. a - 1 \in ends[i - 1] .. ends[i]
    BY <2>1, <2>3, <2>4
  <2>7. blocks[j].weight * SumOf((a - 1) + 1, ends[j]) <= blocks[j].sum * (ends[j] - (a - 1))
    BY <1>1, <1>2, <1>4, <2>3, <2>5, <2>6, NoHigherBefore
  <2>8. (a - 1) + 1 = a /\ ends[j] - (a - 1) = ends[j] - a + 1
    BY <1>5, <2>1
  <2>9. SumOf(a, ends[j]) \in Nat
    <3>1. ends[j] \in Nat
      BY <1>5
    <3>2. QED
      BY <2>1, <3>1, DoneCounted
  <2>10. blocks[j].weight * SumOf(a, ends[j]) = SumOf(a, ends[j]) * blocks[j].weight
    BY <1>5, <2>9
  <2>11. QED
    BY <2>7, <2>8, <2>10 DEF LessEq, Mean, Average
<1>8. IsRegression(k, Mean(blocks[j]))
  <2>1. ends[j - 1] + 1 \in 1 .. k /\ ends[j] \in k .. Len(samples)
    BY <1>2, <1>4, <1>5
  <2>2. QED
    BY <1>6, <1>7, <2>1 DEF IsRegression
<1>9. samples[k].raw <= samples[ends[j]].raw
  <2>1. CASE k = ends[j]
    <3>1. samples[k] \in Sample
      OBVIOUS
    <3>2. samples[k].raw \in Int
      BY <3>1, MaxScoreAssumption DEF Sample, Score
    <3>3. QED
      BY <2>1, <3>2
  <2>2. CASE k < ends[j]
    BY <1>2, <1>5, <2>2 DEF Sorted
  <2>3. QED
    BY <1>4, <1>5, <2>1, <2>2
<1>10. PoolOf(ends[j]) = j
  <2>1. ends[j - 1] < ends[j] /\ ends[j] <= ends[j]
    BY <1>4, <1>5
  <2>2. QED
    BY <1>1, <1>2, <1>4, <1>5, <2>1, PoolIs
<1>11. QED
  BY <1>2, <1>3, <1>5, <1>8, <1>9, <1>10

-----------------------------------------------------------------------------
(* The calibration a run is given is the least-squares rising fit of the   *)
(* partials it was fitted on, each pool at the score of its last sample,   *)
(* for any partials and in any order of pools (fit_isotonic).              *)
THEOREM CalibrationIsWellFitted == Spec => []WellFitted
<1>1. Init => FitInv
  <2> SUFFICES ASSUME Init PROVE FitInv
    OBVIOUS
  <2>1. PICK s \in Seq(Sample) : Sorted(s) /\ FitInit(s)
    <3>1. <<>> \in Seq(Sample) /\ Sorted(<<>>)
      BY DEF Sorted
    <3>2. QED
      BY <3>1, FitsAssumption DEF Init
  <2>2. QED
    BY <2>1, FitInitInv
<1>2. IInv /\ FitInv /\ [Next]_vars => FitInv'
  <2> SUFFICES ASSUME IInv, FitInv, [Next]_vars PROVE FitInv'
    OBVIOUS
  <2>1. CASE Calibrate
    <3>1. samples \in Seq(Sample) /\ blocks \in Seq(BlockRecord) /\ FitInReach
      BY DEF IInv, TypeOK
    <3>2. QED
      BY <2>1, <3>1, FitStepInv DEF Calibrate
  <2>2. CASE UNCHANGED fitVars
    <3>1. samples' = samples /\ blocks' = blocks /\ at' = at
      BY <2>2 DEF fitVars
    <3>2. PICK ends : Pools(ends)
      BY DEF FitInv
    <3>3. Pools(ends)'
      BY <3>1, <3>2 DEF Pools, SumOf
    <3>4. Risen' /\ Sorted(samples)'
      BY <3>1 DEF FitInv, Risen, Sorted, LessEq, Mean
    <3>5. QED
      BY <3>3, <3>4 DEF FitInv
  <2>3. [Next]_vars => Calibrate \/ UNCHANGED fitVars
    BY DEF Next, NextFile, UserStarts, PartialInPlan, PartialScored, PartialPlaced, Decides,
           DraftMeasured, TurnCloses, vars, fitVars
  <2>4. QED
    BY <2>1, <2>2, <2>3
<1>3. IInv /\ FitInv => WellFitted
  BY EndsInRegression DEF IInv, TypeOK, WellFitted
<1>4. QED
  BY <1>1, <1>2, <1>3, Invariance, PTL DEF Spec

-----------------------------------------------------------------------------
(* The blocked plans.  A turn is found in the shuffle of its level, in a   *)
(* block cut from it, and in the order of the blocks: once in each.        *)
Absent(s, x) == \A i \in DOMAIN s : s[i] # x
Once(s, x) == \E i \in DOMAIN s : \A j \in DOMAIN s : s[j] = x <=> j = i

LEMMA JoinedHolds ==
    ASSUME NEW S, NEW a \in Seq(S), NEW b \in Seq(S), NEW x
    PROVE  /\ Absent(a, x) /\ Absent(b, x) => Absent(a \o b, x)
           /\ Once(a, x) /\ Absent(b, x) => Once(a \o b, x)
           /\ Absent(a, x) /\ Once(b, x) => Once(a \o b, x)
<1>1. PICK c : c = a \o b
  OBVIOUS
<1>2. PICK n : n = Len(a)
  OBVIOUS
<1>3. PICK m : m = Len(b)
  OBVIOUS
<1>4. /\ n \in Nat /\ m \in Nat /\ DOMAIN a = 1 .. n /\ DOMAIN b = 1 .. m
      /\ DOMAIN c = 1 .. n + m
      /\ \A i \in 1 .. n : c[i] = a[i]
      /\ \A j \in 1 .. m : c[n + j] = b[j]
  BY <1>1, <1>2, <1>3, Joined
<1>5. \A i \in 1 .. n + m : i \notin 1 .. n => i - n \in 1 .. m /\ c[i] = b[i - n]
  <2> SUFFICES ASSUME NEW i \in 1 .. n + m, i \notin 1 .. n
               PROVE  i - n \in 1 .. m /\ c[i] = b[i - n]
    OBVIOUS
  <2>1. i - n \in 1 .. m /\ i = n + (i - n)
    BY <1>4
  <2>2. QED
    BY <1>4, <2>1
<1>6. Once(a, x) <=> \E i \in 1 .. n : \A j \in 1 .. n : a[j] = x <=> j = i
  <2>1. DOMAIN a = 1 .. n
    BY <1>4
  <2>2. QED
    BY <2>1 DEF Once
<1>7. Once(b, x) <=> \E i \in 1 .. m : \A j \in 1 .. m : b[j] = x <=> j = i
  <2>1. DOMAIN b = 1 .. m
    BY <1>4
  <2>2. QED
    BY <2>1 DEF Once
<1>8. Once(c, x) <=> \E i \in 1 .. n + m : \A j \in 1 .. n + m : c[j] = x <=> j = i
  <2>1. DOMAIN c = 1 .. n + m
    BY <1>4
  <2>2. QED
    BY <2>1 DEF Once
<1>9. ASSUME Absent(a, x), Absent(b, x)
      PROVE  Absent(c, x)
  BY <1>4, <1>5, <1>9 DEF Absent
<1>10. ASSUME Once(a, x), Absent(b, x)
      PROVE  Once(c, x)
  <2>1. PICK i \in 1 .. n : \A j \in 1 .. n : a[j] = x <=> j = i
    BY <1>10, <1>6
  <2>2. i \in 1 .. n + m /\ \A j \in 1 .. n + m : c[j] = x <=> j = i
    <3>1. i \in 1 .. n + m
      BY <1>4
    <3>2. ASSUME NEW j \in 1 .. n + m
          PROVE  c[j] = x <=> j = i
      <4>1. CASE j \in 1 .. n
        BY <1>4, <2>1, <4>1
      <4>2. CASE j \notin 1 .. n
        BY <1>4, <1>5, <1>10, <4>2 DEF Absent
      <4>3. QED
        BY <4>1, <4>2
    <3>3. QED
      BY <3>1, <3>2
  <2>3. QED
    BY <2>2, <1>8
<1>11. ASSUME Absent(a, x), Once(b, x)
      PROVE  Once(c, x)
  <2>1. PICK k \in 1 .. m : \A j \in 1 .. m : b[j] = x <=> j = k
    BY <1>11, <1>7
  <2>2. n + k \in 1 .. n + m /\ \A j \in 1 .. n + m : c[j] = x <=> j = n + k
    <3>1. n + k \in 1 .. n + m /\ n + k \notin 1 .. n
      BY <1>4
    <3>2. ASSUME NEW j \in 1 .. n + m
          PROVE  c[j] = x <=> j = n + k
      <4>1. CASE j \in 1 .. n
        BY <1>4, <1>11, <3>1, <4>1 DEF Absent
      <4>2. CASE j \notin 1 .. n
        <5>1. j - n \in 1 .. m /\ c[j] = b[j - n]
          BY <1>5, <4>2
        <5>2. j - n = k <=> j = n + k
          BY <1>4
        <5>3. QED
          BY <2>1, <5>1, <5>2
      <4>3. QED
        BY <4>1, <4>2
    <3>3. QED
      BY <3>1, <3>2
  <2>3. QED
    BY <2>2, <1>8
<1>12. QED
  BY <1>1, <1>9, <1>10, <1>11

(* Flattening adds one sequence after the other.                           *)
LEMMA FlattenIs ==
    ASSUME NEW seqs, Len(seqs) \in Nat \ {0}
    PROVE  \E f : /\ f[1] = seqs[1]
                  /\ \A i \in 2 .. Len(seqs) : f[i] = f[i - 1] \o seqs[i]
                  /\ FlattenSeq(seqs) = f[Len(seqs)]
<1> DEFINE Next_(g, i) == IF i = 1 THEN seqs[i] ELSE g[i - 1] \o seqs[i]
           Is(g, n) == g = [i \in 1 .. n |-> Next_(g, i)]
           Made == {n \in Nat : \E g : Is(g, n)}
<1>1. PICK m : m = Len(seqs)
  OBVIOUS
<1>2. 0 \in Made
  <2>1. Is(<<>>, 0)
    OBVIOUS
  <2>2. QED
    BY <2>1
<1>3. ASSUME NEW n \in Nat, n \in Made
      PROVE  n + 1 \in Made
  <2>1. PICK g : Is(g, n)
    BY <1>3
  <2>2. DOMAIN g = 1 .. n /\ \A i \in 1 .. n : g[i] = Next_(g, i)
    BY <2>1
  <2> HIDE DEF Next_
  <2> DEFINE h == [i \in 1 .. n + 1 |-> IF i \in 1 .. n THEN g[i] ELSE Next_(g, i)]
  <2>3. \A i \in 1 .. n + 1 : h[i] = Next_(g, i)
    BY <2>2
  <2>4. \A i \in 1 .. n : h[i] = g[i]
    BY <2>2
  <2>5. DOMAIN h = 1 .. n + 1 /\ h = [i \in 1 .. n + 1 |-> h[i]]
    OBVIOUS
  <2> HIDE DEF h
  <2>6. \A i \in 1 .. n + 1 : Next_(h, i) = Next_(g, i)
    <3> SUFFICES ASSUME NEW i \in 1 .. n + 1 PROVE Next_(h, i) = Next_(g, i)
      OBVIOUS
    <3>1. i = 1 \/ i - 1 \in 1 .. n
      OBVIOUS
    <3>2. QED
      BY <2>4, <3>1 DEF Next_
  <2>7. Is(h, n + 1)
    BY <2>3, <2>5, <2>6
  <2>8. QED
    BY <2>7
<1>4. m \in Made
  <2> HIDE DEF Made
  <2>1. Nat \subseteq Made
    BY <1>2, <1>3, Induction
  <2>2. QED
    BY <1>1, <2>1
<1>5. PICK f : f = CHOOSE g : Is(g, m)
  OBVIOUS
<1>6. Is(f, m)
  BY <1>4, <1>5
<1>7. FlattenSeq(seqs) = f[m]
  BY <1>1, <1>5 DEF FlattenSeq
<1>8. f[1] = seqs[1]
  BY <1>1, <1>6
<1>9. ASSUME NEW i \in 2 .. m
      PROVE  f[i] = f[i - 1] \o seqs[i]
  <2>1. i \in 1 .. m /\ i # 1
    BY <1>1
  <2>2. f[i] = Next_(f, i)
    BY <1>6, <2>1
  <2>3. QED
    BY <2>1, <2>2
<1>10. QED
  BY <1>1, <1>7, <1>8, <1>9

(* What is flattened holds what is in one of the sequences.                *)
LEMMA FlattenHolds ==
    ASSUME NEW S, NEW seqs \in Seq(Seq(S)), NEW x, NEW k \in DOMAIN seqs, Once(seqs[k], x),
           \A i \in DOMAIN seqs : i # k => Absent(seqs[i], x)
    PROVE  FlattenSeq(seqs) \in Seq(S) /\ Once(FlattenSeq(seqs), x)
<1>1. PICK m : m = Len(seqs)
  OBVIOUS
<1>2. /\ m \in Nat \ {0} /\ DOMAIN seqs = 1 .. m /\ k \in 1 .. m
      /\ \A i \in 1 .. m : seqs[i] \in Seq(S)
  BY <1>1
<1>3. PICK f : /\ f[1] = seqs[1]
               /\ \A i \in 2 .. m : f[i] = f[i - 1] \o seqs[i]
               /\ FlattenSeq(seqs) = f[m]
  BY <1>1, <1>2, FlattenIs
<1> DEFINE Holds(i) == /\ f[i] \in Seq(S)
                       /\ i < k => Absent(f[i], x)
                       /\ i >= k => Once(f[i], x)
           Held == {n \in Nat : n + 1 <= m => Holds(n + 1)}
<1>4. 0 \in Held
  <2>1. f[1] \in Seq(S) /\ f[1] = seqs[1] /\ 1 \in DOMAIN seqs
    BY <1>2, <1>3
  <2>2. 1 < k => Absent(f[1], x)
    <3>1. 1 < k => 1 # k
      BY <1>2
    <3>2. QED
      BY <2>1, <3>1
  <2>3. 1 >= k => Once(f[1], x)
    <3>1. 1 >= k => k = 1
      BY <1>2
    <3>2. QED
      BY <2>1, <3>1
  <2>4. QED
    BY <2>1, <2>2, <2>3
<1>5. ASSUME NEW n \in Nat, n \in Held
      PROVE  n + 1 \in Held
  <2> SUFFICES ASSUME n + 1 + 1 <= m PROVE Holds(n + 1 + 1)
    OBVIOUS
  <2>1. PICK i : i = n + 1 + 1
    OBVIOUS
  <2>2. i \in 2 .. m /\ i - 1 = n + 1 /\ i - 1 \in 1 .. m
    BY <1>2, <2>1
  <2>3. Holds(i - 1)
    BY <1>5, <2>2
  <2>4. f[i] = f[i - 1] \o seqs[i] /\ f[i - 1] \in Seq(S) /\ seqs[i] \in Seq(S)
    <3>1. f[i] = f[i - 1] \o seqs[i]
      BY <1>3, <2>2
    <3>2. f[i - 1] \in Seq(S)
      BY <2>3
    <3>3. i \in 1 .. m
      BY <1>2, <2>2
    <3>4. QED
      BY <1>2, <3>1, <3>2, <3>3
  <2>5. f[i] \in Seq(S)
    BY <2>4
  <2>6. CASE i < k
    <3>1. Absent(f[i - 1], x) /\ Absent(seqs[i], x)
      BY <1>2, <2>2, <2>3, <2>6
    <3>2. Absent(f[i], x)
      BY <2>4, <3>1, JoinedHolds
    <3>3. QED
      BY <1>2, <2>1, <2>2, <2>5, <2>6, <3>2
  <2>7. CASE i = k
    <3>1. Absent(f[i - 1], x) /\ Once(seqs[i], x)
      BY <1>2, <2>2, <2>3, <2>7
    <3>2. Once(f[i], x)
      BY <2>4, <3>1, JoinedHolds
    <3>3. QED
      BY <1>2, <2>1, <2>2, <2>5, <2>7, <3>2
  <2>8. CASE i > k
    <3>1. Once(f[i - 1], x) /\ Absent(seqs[i], x)
      BY <1>2, <2>2, <2>3, <2>8
    <3>2. Once(f[i], x)
      BY <2>4, <3>1, JoinedHolds
    <3>3. QED
      BY <1>2, <2>1, <2>2, <2>5, <2>8, <3>2
  <2>9. QED
    BY <1>2, <2>2, <2>6, <2>7, <2>8
<1>6. Nat \subseteq Held
  <2> HIDE DEF Held
  <2>1. QED
    BY <1>4, <1>5, Induction
<1>7. m - 1 \in Nat /\ m - 1 + 1 = m
  BY <1>2
<1>8. Holds(m)
  BY <1>6, <1>7
<1>9. QED
  BY <1>2, <1>3, <1>8

(* An order of a set holds each of its elements once.                      *)
LEMMA OrderIs ==
    ASSUME NEW S, IsFiniteSet(S), NEW s \in Orders(S)
    PROVE  s \in Seq(S) /\ Len(s) = Cardinality(S) /\ \A x \in S : Once(s, x)
<1>1. PICK n : n = Cardinality(S)
  OBVIOUS
<1>2. n \in Nat
  BY <1>1, FS_CardinalityType
<1>3. s \in [1 .. n -> S] /\ \A i, j \in 1 .. n : i # j => s[i] # s[j]
  BY <1>1 DEF Orders, SetToSeqs
<1>4. s \in Seq(S) /\ Len(s) = n /\ DOMAIN s = 1 .. n
  BY <1>2, <1>3
<1>5. s \in Injection(1 .. n, S)
  BY <1>3 DEF Injection, IsInjective
<1>6. Cardinality(1 .. n) = n
  <2>1. 1 \in Int /\ n \in Int
    BY <1>2
  <2>2. QED
    BY <1>2, <2>1, FS_Interval
<1>7. s \in Surjection(1 .. n, S)
  BY <1>1, <1>5, <1>6, FS_Injection
<1>8. \A x \in S : \E i \in 1 .. n : s[i] = x
  BY <1>7 DEF Surjection
<1>9. QED
  BY <1>1, <1>3, <1>4, <1>8 DEF Once

(* The turns of a block: its washout, and its utterances as they come.     *)
BlockTurn == {t \in PlannedTurn : t.role = "measured" => t.utterance \in Utterance}

LEMMA BlockTurnsHold ==
    ASSUME NEW l \in Level, NEW utts \in Seq(Utterance), utts # <<>>,
           NEW b, b = [level |-> l, utts |-> utts]
    PROVE  /\ BlockTurns(b) \in Seq(BlockTurn)
           /\ \A u \in Utterance :
                 Once(utts, u) => Once(BlockTurns(b), Planned(l, u, "measured"))
           /\ \A m \in Level, u \in Utterance :
                 m # l \/ Absent(utts, u) => Absent(BlockTurns(b), Planned(m, u, "measured"))
<1>1. Utterance \subseteq Nat
  BY UtterancesAssumption DEF Utterance
<1> DEFINE front == <<Washout(l, utts[1])>>
           body == [i \in DOMAIN utts |-> Planned(l, utts[i], "measured")]
<1>2. PICK n : n = Len(utts)
  OBVIOUS
<1>3. n \in Nat \ {0} /\ DOMAIN utts = 1 .. n /\ \A i \in 1 .. n : utts[i] \in Utterance
  BY <1>2
<1>4. BlockTurns(b) = front \o body
  BY DEF BlockTurns
<1>5. Washout(l, utts[1]) \in BlockTurn /\ Washout(l, utts[1]).role = "washout"
  <2>1. 1 \in 1 .. n
    BY <1>3
  <2>2. utts[1] \in Nat
    BY <1>1, <1>3, <2>1
  <2>3. QED
    BY <2>2 DEF Washout, Planned, PlannedTurn, BlockTurn
<1>6. \A u \in Utterance : Planned(l, u, "measured") \in BlockTurn
  BY <1>1 DEF Planned, PlannedTurn, BlockTurn
<1>7. DOMAIN body = 1 .. n /\ \A i \in 1 .. n : body[i] = Planned(l, utts[i], "measured")
  BY <1>3
<1>8. front \in Seq(BlockTurn) /\ body \in Seq(BlockTurn)
  <2>1. \A i \in 1 .. n : body[i] \in BlockTurn
    BY <1>3, <1>6, <1>7
  <2>2. body \in [1 .. n -> BlockTurn]
    BY <1>3, <2>1
  <2>3. QED
    BY <1>3, <1>5, <2>2
<1>9. DOMAIN front = {1} /\ front[1] = Washout(l, utts[1])
  OBVIOUS
<1> HIDE DEF front, body
<1>10. \A m \in Level, u \in Utterance : Absent(front, Planned(m, u, "measured"))
  BY <1>5, <1>9 DEF Absent, Planned
<1>11. \A m, u, v : Planned(l, v, "measured") = Planned(m, u, "measured") <=> m = l /\ u = v
  BY DEF Planned
<1>12. ASSUME NEW u \in Utterance, Once(utts, u)
       PROVE  Once(front \o body, Planned(l, u, "measured"))
  <2>1. PICK k \in 1 .. n : \A j \in 1 .. n : utts[j] = u <=> j = k
    <3>1. DOMAIN utts = 1 .. n
      BY <1>3
    <3>2. QED
      BY <1>12, <3>1 DEF Once
  <2>2. \A j \in 1 .. n : body[j] = Planned(l, u, "measured") <=> j = k
    BY <1>7, <1>11, <2>1
  <2>3. Once(body, Planned(l, u, "measured"))
    BY <1>7, <2>2 DEF Once
  <2>4. QED
    BY <1>8, <1>10, <2>3, JoinedHolds
<1>13. ASSUME NEW m \in Level, NEW u \in Utterance, m # l \/ Absent(utts, u)
       PROVE  Absent(front \o body, Planned(m, u, "measured"))
  <2>1. \A i \in 1 .. n : body[i] # Planned(m, u, "measured")
    <3> SUFFICES ASSUME NEW i \in 1 .. n PROVE body[i] # Planned(m, u, "measured")
      OBVIOUS
    <3>1. m # l \/ utts[i] # u
      BY <1>3, <1>13 DEF Absent
    <3>2. QED
      BY <1>7, <1>11, <3>1
  <2>2. Absent(body, Planned(m, u, "measured"))
    BY <1>7, <2>1 DEF Absent
  <2>3. QED
    BY <1>8, <1>10, <2>2, JoinedHolds
<1>14. front \o body \in Seq(BlockTurn)
  BY <1>8, Joined
<1>15. QED
  BY <1>4, <1>12, <1>13, <1>14

(* Part of a sequence.                                                     *)
LEMMA PartIs ==
    ASSUME NEW S, NEW s \in Seq(S), NEW first \in 1 .. Len(s), NEW last \in first .. Len(s)
    PROVE  LET part == SubSeq(s, first, last)
           IN  /\ part \in Seq(S) /\ part # <<>> /\ DOMAIN part = 1 .. last - first + 1
               /\ \A i \in 1 .. last - first + 1 : part[i] = s[first + i - 1]
<1>1. PICK part : part = SubSeq(s, first, last)
  OBVIOUS
<1>2. PICK n : n = last - first + 1
  OBVIOUS
<1>3. n \in Nat \ {0} /\ first \in Nat
  BY <1>2
<1>4. DOMAIN part = 1 .. n
  BY <1>1, <1>2, <1>3
<1>5. \A i \in 1 .. n : part[i] = s[first + i - 1]
  BY <1>1, <1>2, <1>3
<1>6. \A i \in 1 .. n : part[i] \in S
  <2> SUFFICES ASSUME NEW i \in 1 .. n PROVE part[i] \in S
    OBVIOUS
  <2>1. first + i - 1 \in 1 .. Len(s)
    BY <1>2
  <2>2. QED
    BY <1>5, <2>1
<1>7. part \in Seq(S)
  <2>1. \A i \in first .. last : s[i] \in S
    OBVIOUS
  <2>2. QED
    BY <1>1, <2>1
<1>8. part # <<>>
  <2>1. 1 \in DOMAIN part
    BY <1>3, <1>4
  <2>2. QED
    BY <2>1
<1>9. QED
  BY <1>1, <1>2, <1>4, <1>5, <1>7, <1>8

(* Where a level's blocks are cut: the b-th begins and ends within it.     *)
LEMMA CutsWithin ==
    ASSUME NEW size \in Nat \ {0}, NEW b \in 1 .. (Utterances + size - 1) \div size
    PROVE  /\ (b - 1) * size + 1 \in 1 .. Utterances
           /\ Fewer(b * size, Utterances) \in (b - 1) * size + 1 .. Utterances
           /\ Fewer(b * size, Utterances) <= b * size
<1>1. Utterances \in Nat \ {0}
  BY UtterancesAssumption
<1>2. PICK q : q = (Utterances + size - 1) \div size
  OBVIOUS
<1>3. /\ q \in Int /\ b \in 1 .. q
      /\ Utterances + size - 1 = size * q + ((Utterances + size - 1) % size)
      /\ (Utterances + size - 1) % size \in 0 .. size - 1
  <2>1. Utterances + size - 1 \in Int
    BY <1>1
  <2>2. QED
    BY <1>2, <2>1, Division
<1>4. size * b <= size * q
  BY <1>3, Scaled
<1>5. PICK p : p = size * b
  OBVIOUS
<1>6. /\ p \in Int /\ b * size = p /\ (b - 1) * size = p - size
  BY <1>5
<1>7. size * 1 <= size * b
  BY <1>3, Scaled
<1>8. size <= p
  BY <1>5, <1>7
<1>9. size * q \in Int
  BY <1>3
<1>10. p <= Utterances + size - 1
  BY <1>1, <1>3, <1>4, <1>5, <1>6, <1>9
<1>11. QED
  BY <1>1, <1>6, <1>8, <1>10 DEF Fewer

(* Every utterance is in one block of a level, and once in it.             *)
LEMMA BlocksHold ==
    ASSUME NEW l \in Level, NEW order \in Orders(Utterance), NEW size \in Nat \ {0}
    PROVE  /\ IsFiniteSet(BlocksOf(l, order, size))
           /\ \A b \in BlocksOf(l, order, size) :
                 /\ b = [level |-> l, utts |-> b.utts]
                 /\ b.utts \in Seq(Utterance) /\ b.utts # <<>>
           /\ \A u \in Utterance : \E b \in BlocksOf(l, order, size) :
                 /\ Once(b.utts, u)
                 /\ \A c \in BlocksOf(l, order, size) : c # b => Absent(c.utts, u)
<1> DEFINE first(b) == (b - 1) * size + 1
           last(b) == Fewer(b * size, Utterances)
           utts(b) == SubSeq(order, first(b), last(b))
           block(b) == [level |-> l, utts |-> utts(b)]
<1>1. PICK n : n = (Utterances + size - 1) \div size
  OBVIOUS
<1>2. Utterances \in Nat \ {0} /\ Utterance = 0 .. Utterances - 1
  BY UtterancesAssumption DEF Utterance
<1>3. /\ order \in Seq(Utterance) /\ Len(order) = Utterances
      /\ \A u \in Utterance : Once(order, u)
  <2>1. 0 \in Int /\ Utterances - 1 \in Int
    BY <1>2
  <2>2. IsFiniteSet(Utterance) /\ Cardinality(Utterance) = Utterances
    BY <1>2, <2>1, FS_Interval
  <2>3. QED
    BY <2>2, OrderIs
<1>4. n \in Int
  <2>1. Utterances + size - 1 \in Int
    BY <1>2
  <2>2. QED
    BY <1>1, <2>1, Division
<1>5. BlocksOf(l, order, size) = {block(b) : b \in 1 .. n}
  BY <1>1 DEF BlocksOf
<1>6. ASSUME NEW b \in 1 .. n
      PROVE  /\ first(b) \in 1 .. Utterances /\ last(b) \in first(b) .. Utterances
             /\ last(b) <= b * size
  BY <1>1, CutsWithin
<1>7. ASSUME NEW b \in 1 .. n
      PROVE  /\ utts(b) \in Seq(Utterance) /\ utts(b) # <<>>
             /\ DOMAIN utts(b) = 1 .. last(b) - first(b) + 1
             /\ \A i \in 1 .. last(b) - first(b) + 1 : utts(b)[i] = order[first(b) + i - 1]
  <2> HIDE DEF first, last
  <2>1. first(b) \in 1 .. Len(order) /\ last(b) \in first(b) .. Len(order)
    BY <1>3, <1>6
  <2>2. QED
    BY <1>3, <2>1, PartIs
<1>8. ASSUME NEW u \in Utterance
      PROVE  \E b \in 1 .. n : /\ Once(utts(b), u)
                               /\ \A c \in 1 .. n : c # b => Absent(utts(c), u)
  <2>1. PICK k \in DOMAIN order : \A j \in DOMAIN order : order[j] = u <=> j = k
    BY <1>3 DEF Once
  <2>2. k \in 1 .. Utterances /\ DOMAIN order = 1 .. Utterances
    BY <1>3
  <2>3. PICK p : p = (k - 1) \div size
    OBVIOUS
  <2>4. PICK r : r = (k - 1) % size
    OBVIOUS
  <2>5. k - 1 = size * p + r /\ p \in Int /\ r \in 0 .. size - 1
    <3>1. k - 1 \in Int
      BY <2>2
    <3>2. QED
      BY <2>3, <2>4, <3>1, Division
  <2>6. p + 1 \in 1 .. n
    <3>1. PICK t : t = (Utterances + size - 1) % size
      OBVIOUS
    <3>2. Utterances + size - 1 = size * n + t /\ t \in 0 .. size - 1
      <4>1. Utterances + size - 1 \in Int
        BY <1>2
      <4>2. QED
        BY <1>1, <3>1, <4>1, Division
    <3>3. size * n \in Int /\ n * size = size * n
      BY <1>4
    <3>4. k - 1 \in 0 .. n * size - 1
      BY <1>2, <2>2, <3>2, <3>3
    <3>5. n \in Nat
      <4>1. ASSUME n <= 0
            PROVE  FALSE
        <5>1. size * n <= size * 0
          BY <1>4, <4>1, Scaled
        <5>2. QED
          BY <1>2, <3>2, <3>3, <5>1
      <4>2. QED
        BY <1>4, <4>1
    <3>6. p \in 0 .. n - 1
      BY <2>5, <3>4, <3>5, QuotientInRange
    <3>7. QED
      BY <1>4, <3>6
  <2>7. /\ first(p + 1) <= k /\ k <= last(p + 1)
        /\ \A c \in 1 .. n : first(c) <= k /\ k <= last(c) => c = p + 1
    <3>1. PICK x : x = size * p
      OBVIOUS
    <3>2. x \in Int /\ p * size = x /\ (p + 1) * size = x + size
      BY <2>5, <3>1
    <3>3. first(p + 1) <= k
      <4>1. p + 1 - 1 = p
        BY <2>5
      <4>2. QED
        BY <2>2, <2>5, <3>1, <3>2, <4>1
    <3>4. k <= last(p + 1)
      BY <1>2, <2>2, <2>5, <3>1, <3>2 DEF Fewer
    <3>5. ASSUME NEW c \in 1 .. n, first(c) <= k, k <= last(c)
          PROVE  c = p + 1
      <4>1. PICK y : y = size * (c - 1)
        OBVIOUS
      <4>2. y \in Int /\ (c - 1) * size = y /\ c * size = y + size /\ c - 1 \in Int
        BY <1>4, <4>1
      <4>3. last(c) <= c * size /\ last(c) \in Int
        BY <1>2, <1>6
      <4>4. k - 1 - y \in 0 .. size - 1
        BY <2>2, <3>5, <4>2, <4>3
      <4>5. size * (c - 1) + (k - 1 - y) = size * p + r
        BY <2>2, <2>5, <4>1, <4>2
      <4>6. c - 1 = p
        BY <2>5, <4>2, <4>4, <4>5, DivisionIsUnique
      <4>7. QED
        BY <1>4, <4>6
    <3>6. QED
      BY <3>3, <3>4, <3>5
  <2> HIDE DEF first, last
  <2>8. ASSUME NEW b \in 1 .. n
        PROVE  \A i \in DOMAIN utts(b) : utts(b)[i] = u <=> first(b) + i - 1 = k
    <3> HIDE DEF utts
    <3>1. first(b) \in Int /\ last(b) \in Int /\ first(b) >= 1 /\ last(b) <= Utterances
      BY <1>2, <1>6
    <3>2. ASSUME NEW i \in 1 .. last(b) - first(b) + 1
          PROVE  first(b) + i - 1 \in 1 .. Utterances
      BY <1>2, <3>1
    <3>3. QED
      BY <1>7, <2>1, <2>2, <3>2
  <2>9. Once(utts(p + 1), u)
    <3> HIDE DEF utts
    <3>1. first(p + 1) \in Int /\ last(p + 1) \in Int /\ k \in Int
      BY <1>2, <1>6, <2>2, <2>6
    <3>2. PICK i : i = k - first(p + 1) + 1
      OBVIOUS
    <3>3. i \in 1 .. last(p + 1) - first(p + 1) + 1
      BY <2>7, <3>1, <3>2
    <3>4. \A j \in 1 .. last(p + 1) - first(p + 1) + 1 : first(p + 1) + j - 1 = k <=> j = i
      BY <3>1, <3>2
    <3>5. DOMAIN utts(p + 1) = 1 .. last(p + 1) - first(p + 1) + 1
      BY <1>7, <2>6
    <3>6. \A j \in DOMAIN utts(p + 1) : utts(p + 1)[j] = u <=> j = i
      BY <2>6, <2>8, <3>4, <3>5
    <3>7. i \in DOMAIN utts(p + 1)
      BY <3>3, <3>5
    <3>8. QED
      BY <3>6, <3>7 DEF Once
  <2>10. ASSUME NEW c \in 1 .. n, c # p + 1
         PROVE  Absent(utts(c), u)
    <3> HIDE DEF utts
    <3>1. first(c) \in Int /\ last(c) \in Int /\ k \in Int
      BY <1>2, <1>6, <2>2
    <3>2. ~(first(c) <= k /\ k <= last(c))
      BY <2>7, <2>10
    <3>3. \A i \in 1 .. last(c) - first(c) + 1 : first(c) + i - 1 # k
      BY <3>1, <3>2
    <3>4. QED
      BY <1>7, <2>8, <3>3 DEF Absent
  <2>11. QED
    BY <2>6, <2>9, <2>10
<1>9. ASSUME NEW b \in BlocksOf(l, order, size)
      PROVE  /\ b = [level |-> l, utts |-> b.utts]
             /\ b.utts \in Seq(Utterance) /\ b.utts # <<>>
  <2>1. PICK i \in 1 .. n : b = block(i)
    BY <1>5
  <2>2. b.utts = utts(i)
    BY <2>1
  <2>3. QED
    BY <1>7, <2>1, <2>2
<1>10. IsFiniteSet(BlocksOf(l, order, size))
  <2> HIDE DEF block
  <2> DEFINE f == [b \in 1 .. n |-> block(b)]
  <2>1. f \in Surjection(1 .. n, BlocksOf(l, order, size))
    BY <1>5 DEF Surjection
  <2>2. IsFiniteSet(1 .. n)
    BY <1>4, FS_Interval
  <2>3. QED
    BY <2>1, <2>2, FS_Surjection
<1>11. ASSUME NEW u \in Utterance
       PROVE  \E b \in BlocksOf(l, order, size) :
                 /\ Once(b.utts, u)
                 /\ \A c \in BlocksOf(l, order, size) : c # b => Absent(c.utts, u)
  <2>1. PICK b \in 1 .. n : /\ Once(utts(b), u)
                            /\ \A c \in 1 .. n : c # b => Absent(utts(c), u)
    BY <1>8
  <2> HIDE DEF utts
  <2>2. block(b) \in BlocksOf(l, order, size) /\ block(b).utts = utts(b)
    BY <1>5
  <2>3. ASSUME NEW c \in BlocksOf(l, order, size), c # block(b)
        PROVE  Absent(c.utts, u)
    <3>1. PICK i \in 1 .. n : c = block(i)
      BY <1>5
    <3>2. i # b /\ c.utts = utts(i)
      BY <2>3, <3>1
    <3>3. QED
      BY <2>1, <3>2
  <2>4. QED
    BY <2>1, <2>2, <2>3
<1>12. QED
  BY <1>9, <1>10, <1>11

(* build_block_schedule(): whatever the shuffles, the order of the blocks  *)
(* and their size, every utterance is measured once at every level.        *)
THEOREM BlocksAreSquare ==
    ASSUME NEW order \in [Level -> Orders(Utterance)], NEW size \in Nat \ {0},
           NEW blocks_ \in Orders(UNION {BlocksOf(l, order[l], size) : l \in Level}),
           NEW w \in Nat
    PROVE  Square(BlockPlan(blocks_, w))
<1> DEFINE All == UNION {BlocksOf(l, order[l], size) : l \in Level}
           head == [i \in 1 .. w |-> Planned((i - 1) % Levels, (i - 1) % Utterances, "warmup")]
           each == [i \in DOMAIN blocks_ |-> BlockTurns(blocks_[i])]
           body == FlattenSeq(each)
<1>1. /\ Levels \in Nat \ {0} /\ Level = 0 .. Levels - 1 /\ 0 \in Level
      /\ Utterances \in Nat \ {0} /\ Utterance = 0 .. Utterances - 1 /\ 0 \in Utterance
  BY Bounds, UtterancesAssumption DEF Utterance
<1>2. \A l \in Level : order[l] \in Orders(Utterance)
  OBVIOUS
<1>3. IsFiniteSet(All)
  <2> DEFINE f == [l \in Level |-> BlocksOf(l, order[l], size)]
             Sets == {BlocksOf(l, order[l], size) : l \in Level}
  <2>1. f \in Surjection(Level, Sets)
    BY DEF Surjection
  <2>2. IsFiniteSet(Level)
    <3>1. 0 \in Int /\ Levels - 1 \in Int
      BY <1>1
    <3>2. QED
      BY <1>1, <3>1, FS_Interval
  <2> HIDE DEF f
  <2>3. IsFiniteSet(Sets)
    BY <2>1, <2>2, FS_Surjection
  <2>4. \A T \in Sets : IsFiniteSet(T)
    BY <1>2, BlocksHold
  <2> HIDE DEF Sets
  <2>5. IsFiniteSet(UNION Sets)
    BY <2>3, <2>4, FS_UNION
  <2>6. QED
    BY <2>5 DEF Sets
<1>4. blocks_ \in Seq(All) /\ \A b \in All : Once(blocks_, b)
  BY <1>3, OrderIs
<1>5. ASSUME NEW b \in All
      PROVE  \E l \in Level : /\ b \in BlocksOf(l, order[l], size)
                              /\ b = [level |-> l, utts |-> b.utts]
                              /\ b.utts \in Seq(Utterance) /\ b.utts # <<>>
  <2> DEFINE Of(l) == /\ b \in BlocksOf(l, order[l], size)
                      /\ b = [level |-> l, utts |-> b.utts]
                      /\ b.utts \in Seq(Utterance) /\ b.utts # <<>>
  <2>1. PICK m \in Level : b \in BlocksOf(m, order[m], size)
    OBVIOUS
  <2>2. order[m] \in Orders(Utterance)
    BY <1>2
  <2>3. Of(m)
    BY <2>1, <2>2, BlocksHold
  <2> HIDE DEF Of
  <2>4. \E l \in Level : Of(l)
    BY <2>3
  <2>5. QED
    BY <2>4 DEF Of
<1>6. \A l \in Level : \A b \in BlocksOf(l, order[l], size) : b \in All
  OBVIOUS
<1> HIDE DEF All
<1>7. PICK n : n = Len(blocks_)
  OBVIOUS
<1>8. n \in Nat /\ DOMAIN blocks_ = 1 .. n /\ \A i \in 1 .. n : blocks_[i] \in All
  BY <1>4, <1>7
<1>9. DOMAIN each = 1 .. n /\ \A i \in 1 .. n : each[i] = BlockTurns(blocks_[i])
  BY <1>8
<1>10. each \in Seq(Seq(BlockTurn))
  <2>1. \A i \in 1 .. n : each[i] \in Seq(BlockTurn)
    <3> SUFFICES ASSUME NEW i \in 1 .. n PROVE BlockTurns(blocks_[i]) \in Seq(BlockTurn)
      BY <1>9
    <3>1. PICK b : b = blocks_[i]
      OBVIOUS
    <3>2. PICK l \in Level : /\ b = [level |-> l, utts |-> b.utts]
                             /\ b.utts \in Seq(Utterance) /\ b.utts # <<>>
      BY <1>5, <1>8, <3>1
    <3>3. QED
      BY <3>1, <3>2, BlockTurnsHold
  <2>2. each = [i \in 1 .. n |-> each[i]]
    BY <1>8
  <2> HIDE DEF each
  <2>3. QED
    BY <1>8, <2>1, <2>2
<1>11. ASSUME NEW u \in Utterance, NEW l \in Level
       PROVE  body \in Seq(BlockTurn) /\ Once(body, Planned(l, u, "measured"))
  <2>1. PICK b \in BlocksOf(l, order[l], size) :
            /\ Once(b.utts, u)
            /\ \A c \in BlocksOf(l, order[l], size) : c # b => Absent(c.utts, u)
    BY <1>2, BlocksHold
  <2>2. b \in All /\ b = [level |-> l, utts |-> b.utts] /\ b.utts \in Seq(Utterance)
        /\ b.utts # <<>>
    BY <1>2, <1>6, BlocksHold
  <2>3. Once(blocks_, b)
    BY <1>4, <2>2
  <2>4. PICK k \in 1 .. n : \A j \in 1 .. n : blocks_[j] = b <=> j = k
    BY <1>8, <2>3 DEF Once
  <2> HIDE DEF each
  <2>5. Once(each[k], Planned(l, u, "measured"))
    <3>1. each[k] = BlockTurns(b)
      BY <1>9, <2>4
    <3>2. QED
      BY <2>1, <2>2, <3>1, BlockTurnsHold
  <2>6. ASSUME NEW i \in 1 .. n, i # k
        PROVE  Absent(each[i], Planned(l, u, "measured"))
    <3>1. PICK c : c = blocks_[i]
      OBVIOUS
    <3>2. c \in All /\ c # b
      BY <1>8, <2>4, <2>6, <3>1
    <3>3. PICK m \in Level : /\ c \in BlocksOf(m, order[m], size)
                             /\ c = [level |-> m, utts |-> c.utts]
                             /\ c.utts \in Seq(Utterance) /\ c.utts # <<>>
      BY <1>5, <3>2
    <3>4. l # m \/ Absent(c.utts, u)
      BY <2>1, <3>2, <3>3
    <3>5. Absent(BlockTurns(c), Planned(l, u, "measured"))
      BY <3>3, <3>4, BlockTurnsHold
    <3>6. QED
      BY <1>9, <3>1, <3>5
  <2>7. k \in DOMAIN each
    BY <1>9
  <2>8. \A i \in DOMAIN each : i # k => Absent(each[i], Planned(l, u, "measured"))
    BY <1>9, <2>6
  <2>9. QED
    BY <1>10, <2>5, <2>7, <2>8, FlattenHolds
<1> HIDE DEF body
<1>12. head \in Seq(BlockTurn) /\ Len(head) = w /\ \A i \in 1 .. w : head[i].role = "warmup"
  <2>1. ASSUME NEW i \in 1 .. w
        PROVE  head[i] \in BlockTurn /\ head[i].role = "warmup"
    <3>1. (i - 1) % Levels \in Level /\ (i - 1) % Utterances \in Nat
      <4>1. i - 1 \in Int
        OBVIOUS
      <4>2. (i - 1) % Levels \in 0 .. Levels - 1 /\ (i - 1) % Utterances \in 0 .. Utterances - 1
        BY <1>1, <4>1, Division
      <4>3. QED
        BY <1>1, <4>2
    <3>2. QED
      BY <3>1 DEF Planned, PlannedTurn, BlockTurn
  <2>2. QED
    BY <2>1
<1>13. BlockPlan(blocks_, w) = head \o body
  BY DEF BlockPlan, body
<1> HIDE DEF head
<1>14. body \in Seq(BlockTurn)
  BY <1>1, <1>11
<1>15. head \o body \in Seq(BlockTurn)
  BY <1>12, <1>14, Joined
<1>16. ASSUME NEW i \in DOMAIN (head \o body), (head \o body)[i].role = "measured"
       PROVE  (head \o body)[i].utterance \in Utterance
  <2>1. (head \o body)[i] \in BlockTurn
    BY <1>15
  <2>2. QED
    BY <1>16, <2>1 DEF BlockTurn
<1>17. ASSUME NEW u \in Utterance, NEW l \in Level
       PROVE  Once(head \o body, Planned(l, u, "measured"))
  <2>1. Absent(head, Planned(l, u, "measured"))
    <3>1. DOMAIN head = 1 .. w
      BY <1>12
    <3>2. QED
      BY <1>12, <3>1 DEF Absent, Planned
  <2>2. QED
    BY <1>11, <1>12, <1>14, <2>1, JoinedHolds
<1>18. Square(head \o body)
  BY <1>16, <1>17 DEF Square, Once
<1>19. QED
  BY <1>13, <1>18

(* A run of build_schedule()'s or build_block_schedule()'s plans, whatever *)
(* the shuffles, scores every utterance once under every level: never twice*)
(* in a blocked run, and exactly once when nothing was odd.                *)
THEOREM BuiltPlansAreScored ==
    ASSUME \A s \in Setups :
               \/ s.design = "straight"
               \/ s.design = "latin" /\ s.plan \in LatinPlans({s.warmup})
               \/ s.design = "blocks" /\ s.plan \in BlockPlans(Nat \ {0}, {s.warmup}),
           DistinctArms
    PROVE  Spec => []WholeSquare
<1>1. ASSUME NEW s \in Setups, s.design # "straight"
      PROVE  Square(s.plan)
  <2>1. s.warmup \in Nat
    BY <1>1, SetupsAssumption
  <2>2. CASE s.plan \in LatinPlans({s.warmup})
    <3>1. PICK rot \in Shuffles(Utterance) : s.plan = LatinPlan(rot, s.warmup)
      BY <2>2 DEF LatinPlans
    <3>2. QED
      BY <2>1, <3>1, LatinIsSquare
  <2>3. CASE s.plan \in BlockPlans(Nat \ {0}, {s.warmup})
    <3> DEFINE Cut(order, size) ==
                 {BlockPlan(b, x) :
                    b \in Orders(UNION {BlocksOf(l, order[l], size) : l \in Level}),
                    x \in {s.warmup}}
    <3> DEFINE Cuts == {Cut(order, size) :
                          order \in [Level -> Orders(Utterance)], size \in Nat \ {0}}
    <3>1. BlockPlans(Nat \ {0}, {s.warmup}) = UNION Cuts
      BY DEF BlockPlans
    <3> HIDE DEF Cut, Cuts
    <3>2. PICK plans \in Cuts : s.plan \in plans
      BY <2>3, <3>1
    <3>3. PICK order \in [Level -> Orders(Utterance)] :
              \E size \in Nat \ {0} : plans = Cut(order, size)
      BY <3>2 DEF Cuts
    <3>4. PICK size \in Nat \ {0} : plans = Cut(order, size)
      BY <3>3
    <3>5. PICK b \in Orders(UNION {BlocksOf(l, order[l], size) : l \in Level}) :
              s.plan = BlockPlan(b, s.warmup)
      BY <3>2, <3>4 DEF Cut
    <3>6. QED
      BY <2>1, <3>5, BlocksAreSquare
  <2>4. QED
    BY <1>1, <2>2, <2>3
<1>2. SquarePlans
  BY <1>1 DEF SquarePlans
<1>3. QED
  BY <1>2, SquareIsScored
================================================================================
