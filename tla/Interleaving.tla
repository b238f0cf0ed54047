----------------------------- MODULE Interleaving -----------------------------
(***************************************************************************)
(* A run that compares arms (run_reactive.py): its plan (Schedule), the    *)
(* turns its files give, which the VAD may split or never open, the        *)
(* decision of the arm at each emitted partial (policy_runner.py, with     *)
(* Policies and Trigger), the record of each turn (turns.py), and which    *)
(* records the analyses score (arm_compare.py).                            *)
(* One arm is told from another by its name; the decodes it starts are     *)
(* those of Speculation.                                                   *)
(***************************************************************************)
EXTENDS Schedule, Policies, Trigger

CONSTANTS Setups,      \* the runs: [plan, design, warmup, arms]
          Fits,        \* what the calibration was fitted on
          Rates,       \* decode rates the driver may observe
          Positions,   \* audio positions of partials
          MaxPartials, \* partials that are decided in a turn
          MaxOdd       \* splits, unheard files, silent and void turns of a run

ASSUME OddAssumption == {MaxPartials, MaxOdd} \subseteq Nat
ASSUME RatesAssumption == Rates \subseteq Nat \ {0} /\ Positions \subseteq Nat
ASSUME FitsAssumption == \A s \in Fits : s \in Seq(Sample) /\ Sorted(s)

\* A run whose plan has levels and arms has one arm for each level, and the
\* turns before the Latin square are its warm-up.
PlannedTurn == [level : Level, utterance : Nat, role : {"warmup", "washout", "measured"}]
ASSUME SetupsAssumption ==
    \A s \in Setups :
        /\ s.plan \in Seq(PlannedTurn) /\ s.arms \in Seq(Kind) /\ s.warmup \in Nat
        /\ s.design \in {"straight", "latin", "blocks"}
        /\ s.design # "straight" /\ s.arms # <<>> => Len(s.arms) = Levels
        /\ s.design = "latin" =>
              \A i \in DOMAIN s.plan :
                  s.plan[i].role = IF i <= s.warmup THEN "warmup" ELSE "measured"

VARIABLES setup,     \* the run as planned
          slot,      \* files_started
          heard,     \* the VAD has opened a turn in this file
          turn,      \* _turn
          open,      \* _clock is not None
          position,  \* _plan_position
          halves,    \* _split_turns
          level,     \* the budget of reset_turn()
          partials,  \* partials of this turn that were decided
          tag,       \* the arm of the turn's first decision, or "none"
          spent,     \* the allocator's _spent_turn
          rate,      \* observed_ms_per_token
          log,       \* the turn records
          decisions, \* the decision records
          odd        \* the bound: what did not go as planned

turnVars == <<turn, open, position, halves, level, partials, tag, log>>
armVars == <<spent, rate, decisions>>
vars == <<setup, slot, heard, turnVars, armVars, odd, fitVars>>

-----------------------------------------------------------------------------
(* A mistake a change could make; the mutant puts it in place.             *)
SlotByTurn == turn

-----------------------------------------------------------------------------
plan == setup.plan
Interleaved == setup.design # "straight"
HasPlan == setup.design = "blocks"
HasRunner == setup.arms # <<>>

\* policy_for() and budget_for(): by playlist position.
ArmAt(s) == IF Interleaved THEN setup.arms[plan[s].level + 1] ELSE setup.arms[1]
BudgetAt(s) == IF Interleaved /\ ~HasRunner THEN plan[s].level ELSE 0

\* T-SEM is built for --policy spec_trigger, never for an interleaved arm; nor
\* is the allocator among interleaved arms given a position.
HasTrigger == ~Interleaved /\ HasRunner /\ setup.arms[1] = "spec_trigger"

plan_slot == IF position > 0 THEN position ELSE turn

PlannedAs(r) ==
    IF HasPlan THEN plan_slot \in DOMAIN plan /\ plan[plan_slot].role = r
    ELSE r = "warmup" /\ turn <= setup.warmup
PlannedUtterance == IF HasPlan THEN plan[plan_slot].utterance ELSE position

Init ==
    /\ setup \in Setups
    /\ IF HasTrigger THEN \E s \in Fits : FitInit(s) ELSE FitInit(<<>>)
    /\ slot = 0 /\ heard = FALSE
    /\ turn = 0 /\ open = FALSE /\ position = 0 /\ halves = {}
    /\ level = 0 /\ partials = 0 /\ tag = "none"
    /\ spent = 0 /\ rate = DecodeMsPerToken
    /\ log = <<>> /\ decisions = {} /\ odd = 0

\* calibrate_trigger.py, before the run.
Calibrate == FitStep /\ UNCHANGED <<setup, slot, heard, turnVars, armVars, odd>>

\* The next file plays when no turn is open, whether or not it was heard.
NextFile ==
    /\ Fitted
    /\ ~open
    /\ slot < Len(plan)
    /\ slot > 0 /\ ~heard => odd < MaxOdd
    /\ odd' = odd + (IF slot > 0 /\ ~heard THEN 1 ELSE 0)
    /\ slot' = slot + 1
    /\ heard' = FALSE
    /\ UNCHANGED <<setup, turnVars, armVars, fitVars>>

\* finish_turn(): a half of a split is never valid.
Record(sound, split) ==
    [turn |-> turn, slot |-> slot, utterance |-> PlannedUtterance,
     warmup |-> PlannedAs("warmup"), washout |-> PlannedAs("washout"),
     valid |-> sound /\ turn \notin split, level |-> level, arm |-> tag]

\* turn_started() and reset_turn(); a turn still open is finished by force.
\* Both halves of a split are turns of one file.
UserStarts ==
    LET split == IF open THEN halves \cup {turn, turn + 1} ELSE halves
    IN  /\ slot > 0
        /\ ~heard \/ (open /\ odd < MaxOdd)
        /\ odd' = odd + (IF open THEN 1 ELSE 0)
        /\ halves' = split
        /\ log' = IF open THEN Append(log, Record(FALSE, split)) ELSE log
        /\ turn' = turn + 1
        /\ open' = TRUE
        /\ heard' = TRUE
        /\ position' = slot
        /\ level' = BudgetAt(slot)
        /\ partials' = 0
        /\ tag' = "none"
        /\ UNCHANGED <<setup, slot, armVars, fitVars>>

\* on_partial(): score, decide, record.  The first decision of a turn is the
\* one an analysis takes the arm from.
Decides(reading, enough, x) ==
    LET arm == ArmAt(plan_slot)
        facts == [enough |-> enough,
                  likely |-> LessEq(Theta, IF HasTrigger THEN PDone(reading) ELSE Never),
                  x |-> x, rate |-> rate, spent |-> spent = turn]
        d == Decide(arm, facts)
    IN  /\ open
        /\ HasRunner
        /\ partials < MaxPartials
        /\ partials' = partials + 1
        /\ tag' = IF tag = "none" THEN arm ELSE tag
        /\ decisions' = decisions \cup
               {[turn |-> turn, slot |-> slot, arm |-> arm, reading |-> reading,
                 x |-> x, rate |-> rate, fires |-> d.speculate, budget |-> d.budget]}
        /\ spent' = IF arm = "allocator" /\ d.budget > 0 THEN turn ELSE spent
        /\ UNCHANGED <<setup, slot, heard, turn, open, position, halves, level, rate, log, odd,
                       fitVars>>

NoReading == [raw |-> 0, failed |-> FALSE]
PartialInPlan == Interleaved /\ tag = "none" /\ Decides(NoReading, TRUE, -1)
PartialScored ==
    /\ HasTrigger
    /\ \/ \E raw \in Score : Decides([raw |-> raw, failed |-> FALSE], TRUE, -1)
       \/ Decides([raw |-> 0, failed |-> TRUE], TRUE, -1)
PartialPlaced ==
    /\ ~Interleaved
    /\ ~HasTrigger
    /\ \E enough \in BOOLEAN, x \in Positions : Decides(NoReading, enough, x)

\* A draft that was decoded is the newest measurement of the rate, which only
\* the allocator is given.
DraftMeasured ==
    /\ ~Interleaved
    /\ \E d \in decisions : d.fires /\ d.arm = "allocator"
    /\ rate' \in Rates
    /\ rate' # rate
    /\ UNCHANGED <<setup, slot, heard, turnVars, spent, decisions, odd, fitVars>>

\* A turn closes, soundly or not; with a runner, one with no partial has no
\* decision to be told by.
TurnCloses ==
    /\ open
    /\ \E sound \in BOOLEAN :
          /\ ~sound \/ (HasRunner /\ tag = "none") => odd < MaxOdd
          /\ odd' = odd + (IF ~sound \/ (HasRunner /\ tag = "none") THEN 1 ELSE 0)
          /\ log' = Append(log, Record(sound, halves))
    /\ open' = FALSE
    /\ UNCHANGED <<setup, slot, heard, turn, position, halves, level, partials, tag, armVars, fitVars>>

Next ==
    \/ Calibrate
    \/ NextFile
    \/ UserStarts
    \/ PartialInPlan
    \/ PartialScored
    \/ PartialPlaced
    \/ DraftMeasured
    \/ TurnCloses

Spec == Init /\ [][Next]_vars

-----------------------------------------------------------------------------
(* What the analyses read from the records.                                *)

Over == slot = Len(plan) /\ heard /\ ~open
Scored(r) == r.valid /\ ~r.warmup /\ ~r.washout
Rows == {i \in DOMAIN log : Scored(log[i])}
PlayedIn(i) == plan[log[i].slot].utterance
PlayedUnder(i) == IF HasRunner THEN ArmAt(log[i].slot) ELSE plan[log[i].slot].level

-----------------------------------------------------------------------------
TurnRecord ==
    [turn : Nat, slot : Nat, utterance : Nat, warmup : BOOLEAN, washout : BOOLEAN,
     valid : BOOLEAN, level : Level, arm : Kind \cup {"none"}]
BlockRecord == [x : Score, sum : Nat, weight : Nat]

TypeOK ==
    /\ setup \in Setups
    /\ slot \in 0 .. Len(plan) /\ position \in 0 .. slot /\ turn \in 0 .. slot + MaxOdd
    /\ {heard, open} \subseteq BOOLEAN
    /\ halves \subseteq 1 .. turn
    /\ level \in Level /\ partials \in 0 .. MaxPartials /\ tag \in Kind \cup {"none"}
    /\ log \in Seq(TurnRecord) /\ \A i \in DOMAIN log : log[i].turn = i
    /\ odd \in 0 .. MaxOdd
    /\ samples \in Seq(Sample) /\ blocks \in Seq(BlockRecord)
    /\ at \in 1 .. Len(samples) + 1

\* The budget, the role, the utterance and the arm of a turn are those planned
\* for the file that was playing, however many turns the files before it gave
\* (TurnManager.plan_slot, policy_for, budget_for).
OwnPlace ==
    /\ \A d \in decisions : Interleaved => d.arm = setup.arms[plan[d.slot].level + 1]
    /\ \A i \in DOMAIN log :
          LET r == log[i] IN
          /\ Interleaved /\ ~HasRunner => r.level = plan[r.slot].level
          /\ HasPlan => /\ r.utterance = plan[r.slot].utterance
                        /\ r.warmup = (plan[r.slot].role = "warmup")
                        /\ r.washout = (plan[r.slot].role = "washout")

\* Every utterance is scored once under every level: never twice in a blocked
\* run, and exactly once in a run that had no odd turn (build_schedule,
\* build_block_schedule and the playlists made of them).
WholeSquare ==
    /\ HasPlan => \A i, j \in Rows :
          i # j => <<PlayedIn(i), PlayedUnder(i)>> # <<PlayedIn(j), PlayedUnder(j)>>
    /\ Over /\ odd = 0 /\ Interleaved =>
          \A u \in Utterance, l \in Level :
              Cardinality({i \in Rows : PlayedIn(i) = u /\ plan[log[i].slot].level = l}) = 1

\* The calibration a run is given is the least-squares rising fit of the
\* partials it was fitted on (fit_isotonic).
WellFitted == slot = 0 => LeastSquares
=============================================================================
