---------------------------- MODULE SpeculationProofs ----------------------------
(***************************************************************************)
(* That nothing speculative runs between turns, that one decode at most    *)
(* runs at a time and that a turn's figures are its own, for any number of *)
(* turns, partials and tokens and for any plan, in a session with none of  *)
(* the overlaps that `excused' remembers.  The tasks of one event loop     *)
(* interleave at their awaits; what keeps them apart is that whoever starts*)
(* a decode has found none in flight.  The last part counts the tokens.    *)
(***************************************************************************)
EXTENDS Speculation, FiniteSetTheorems, WellFoundedInduction, TLAPS

\* The variables the promises are about have the shapes the code gives them.
IsDecode(x) ==
    /\ x = [id |-> x.id, of |-> x.of, state |-> x.state, tokens |-> x.tokens]
    /\ x.state \in {"running", "cancelled", "over"}
IsDecision(d) ==
    /\ d = [id |-> d.id, of |-> d.of, at |-> d.at, arm |-> d.arm, target |-> d.target]
    /\ d.at \in {"scoring", "prefilling", "cancelling", "freeing"}
Shapes ==
    /\ {talking, open, excused} \subseteq BOOLEAN /\ turn \in Nat /\ finals \in Nat
    /\ \A x \in decodes : IsDecode(x)
    /\ \A d \in decisions : IsDecision(d)
    /\ ender.at \in {"none", "asked", "awaiting"} /\ (ender.at = "none" => ender = Idle)

\* Between turns the user is silent, and nothing is left of the last turn.
ClosedIsOver == ~open => ~talking /\ finals = 0 /\ ender = Idle
BeforeTheFirst == turn = 0 => ~open /\ decisions = {} /\ decodes = {}

(* The rest holds while nothing has overlapped.                            *)

\* A turn speaks, then waits for its only final, then ends its speculation.
OneFinal ==
    /\ talking => finals = 0
    /\ finals <= 1
    /\ talking \/ finals = 1 => ender = Idle

\* What is decided is decided before the final, and by a policy.
DecidedInTime ==
    decisions # {} => (talking \/ finals = 1) /\ plan[turn] \in PolicyArm

\* What is in flight is held.
HeldIsAll == \A x \in InFlight : x.id = held

\* One decision at a time replaces the decode; it waits for the one that is
\* held, and then nothing is in flight.
OneCommits ==
    /\ \A d, e \in decisions : Committing(d) /\ Committing(e) => d = e
    /\ \A d \in decisions : d.at = "cancelling" => d.target = held
    /\ \A d \in decisions : d.at = "freeing" => InFlight = {}

\* The task that ends the speculation waits for what is held.
HeldIsAwaited == ender.at = "awaiting" => ender.target = held

\* The arm that starts at the first partial has started nothing before it.
NotBegun == talking /\ plan[turn] = "partial" /\ begun # turn => InFlight = {}

InOrder ==
    /\ OneFinal /\ DecidedInTime /\ HeldIsAll /\ OneCommits /\ HeldIsAwaited /\ NotBegun
    /\ CancelledAtTurnEnd

IInv == Shapes /\ ClosedIsOver /\ BeforeTheFirst /\ (~excused => InOrder)

-----------------------------------------------------------------------------
(* What is idle is not asked to end anything.                              *)
LEMMA IdleIs == Idle.at = "none"
BY DEF Idle

(* To cancel changes no number, and ends nothing.                          *)
LEMMA CancelOnlyMarks ==
    ASSUME NEW S, \A x \in S : IsDecode(x), NEW i
    PROVE  \A y \in CancelIn(S, i) :
              IsDecode(y) /\ \E x \in S : y.id = x.id /\ (y.state = "over" <=> x.state = "over")
<1> SUFFICES ASSUME NEW x \in S,
                    NEW y, y = IF x.id = i /\ x.state = "running"
                               THEN [x EXCEPT !.state = "cancelled"] ELSE x
             PROVE  IsDecode(y) /\ y.id = x.id /\ (y.state = "over" <=> x.state = "over")
  BY DEF CancelIn
<1>1. IsDecode(x)
  OBVIOUS
<1>2. CASE x.id = i /\ x.state = "running"
  <2>1. y = [id |-> x.id, of |-> x.of, state |-> "cancelled", tokens |-> x.tokens]
    BY <1>1, <1>2 DEF IsDecode
  <2>2. QED
    BY <1>2, <2>1 DEF IsDecode
<1>3. CASE ~(x.id = i /\ x.state = "running")
  BY <1>1, <1>3
<1>4. QED
  BY <1>2, <1>3

(* A new decode runs, and what the driver holds is its number.             *)
LEMMA NewDecodeRuns ==
    ASSUME NEW t
    PROVE  IsDecode(NewDecode(t)) /\ NewDecode(t).state = "running"
BY DEF IsDecode, NewDecode

LEMMA StartedAlone ==
    ASSUME Shapes, InFlight = {}, NEW t, StartDecode(t)
    PROVE  (\A x \in decodes' : IsDecode(x)) /\ HeldIsAll'
<1>1. decodes' = CancelIn(decodes, held) \cup {NewDecode(t)} /\ held' = NewDecode(t).id
  BY DEF StartDecode
<1>2. \A x \in decodes : IsDecode(x) /\ x.state = "over"
  BY DEF Shapes, InFlight
<1>3. \A y \in CancelIn(decodes, held) : IsDecode(y) /\ y.state = "over"
  BY <1>2, CancelOnlyMarks
<1>4. IsDecode(NewDecode(t))
  BY NewDecodeRuns
<1>5. \A x \in decodes' : IsDecode(x)
  BY <1>1, <1>3, <1>4
<1>6. HeldIsAll'
  BY <1>1, <1>3 DEF HeldIsAll, InFlight
<1>7. QED
  BY <1>5, <1>6

(* In a step that starts no decode what is in flight was in flight before. *)
LEMMA FlightShrinks ==
    ASSUME held' = held,
           \A y \in decodes' : y.state # "over" =>
               \E x \in decodes : x.state # "over" /\ x.id = y.id
    PROVE  /\ HeldIsAll => HeldIsAll'
           /\ InFlight = {} => InFlight' = {}
BY DEF HeldIsAll, InFlight

(* The open turn has begun.                                                *)
LEMMA OpenTurn ==
    ASSUME Shapes, BeforeTheFirst, open \/ talking \/ finals > 0 \/ decisions # {}, ClosedIsOver
    PROVE  turn # 0
BY DEF Shapes, BeforeTheFirst, ClosedIsOver

LEMMA InitInv == Init => IInv
<1> SUFFICES ASSUME Init PROVE IInv
  OBVIOUS
<1>1. /\ turn = 0 /\ talking = FALSE /\ open = FALSE /\ finals = 0
      /\ decisions = {} /\ decodes = {} /\ ender = Idle /\ excused = FALSE
  BY DEF Init
<1>2. Shapes
  BY <1>1, IdleIs DEF Shapes
<1>3. ClosedIsOver /\ BeforeTheFirst
  BY <1>1 DEF ClosedIsOver, BeforeTheFirst
<1>4. InFlight = {}
  BY <1>1 DEF InFlight
<1>5. InOrder
  BY <1>1, <1>4, IdleIs
  DEF InOrder, OneFinal, DecidedInTime, HeldIsAll, OneCommits, HeldIsAwaited, NotBegun,
      CancelledAtTurnEnd
<1>6. QED
  BY <1>2, <1>3, <1>5 DEF IInv

-----------------------------------------------------------------------------
(* The onset: without an overlap the turn before is over, and so is all that *)
(* was speculated in it.                                                   *)
LEMMA UserStartsKeeps ==
    ASSUME IInv, UserStarts
    PROVE  IInv'
<1>1. Shapes /\ ClosedIsOver /\ BeforeTheFirst /\ (~excused => InOrder)
  BY DEF IInv
<1>2. /\ ~talking /\ turn' = turn + 1 /\ talking' = TRUE /\ open' = TRUE
      /\ excused' = (excused \/ open)
      /\ UNCHANGED <<plan, finals, begun, decisions, ender>>
      /\ IF plan[turn + 1] = "onset" THEN StartDecode(turn + 1) ELSE UNCHANGED <<decodes, held>>
  BY DEF UserStarts
<1>3. turn' \in Nat /\ turn' # 0
  BY <1>1, <1>2 DEF Shapes
<1>4. \A x \in decodes' : IsDecode(x)
  <2>1. CASE plan[turn + 1] = "onset"
    <3>1. decodes' = CancelIn(decodes, held) \cup {NewDecode(turn + 1)}
      BY <1>2, <2>1 DEF StartDecode
    <3>2. \A x \in CancelIn(decodes, held) : IsDecode(x)
      BY <1>1, CancelOnlyMarks DEF Shapes
    <3>3. QED
      BY <3>1, <3>2, NewDecodeRuns
  <2>2. CASE plan[turn + 1] # "onset"
    BY <1>1, <1>2, <2>2 DEF Shapes
  <2>3. QED
    BY <2>1, <2>2
<1>5. Shapes'
  BY <1>1, <1>2, <1>3, <1>4 DEF Shapes
<1>6. ClosedIsOver' /\ BeforeTheFirst'
  BY <1>2, <1>3 DEF ClosedIsOver, BeforeTheFirst
<1>7. ASSUME ~excused'
      PROVE  InOrder'
  <2>1. ~excused /\ ~open /\ InOrder
    BY <1>1, <1>2, <1>7
  <2>2. finals = 0 /\ ender = Idle
    BY <1>1, <2>1 DEF ClosedIsOver
  <2>3. InFlight = {} /\ decisions = {}
    <3>1. CASE turn = 0
      BY <1>1, <3>1 DEF BeforeTheFirst, InFlight
    <3>2. CASE turn # 0
      BY <1>2, <2>1, <2>2, <3>2 DEF InOrder, CancelledAtTurnEnd, Settled, DecidedInTime
    <3>3. QED
      BY <3>1, <3>2
  <2>4. HeldIsAll' /\ (plan[turn + 1] # "onset" => InFlight' = {})
    <3>1. CASE plan[turn + 1] = "onset"
      BY <1>1, <1>2, <2>3, <3>1, StartedAlone
    <3>2. CASE plan[turn + 1] # "onset"
      BY <1>2, <2>3, <3>2 DEF InFlight, HeldIsAll
    <3>3. QED
      BY <3>1, <3>2
  <2>5. NotBegun'
    BY <1>2, <2>4 DEF NotBegun
  <2>6. OneFinal' /\ DecidedInTime' /\ OneCommits' /\ HeldIsAwaited' /\ CancelledAtTurnEnd'
    BY <1>2, <2>2, <2>3, IdleIs
    DEF OneFinal, DecidedInTime, OneCommits, HeldIsAwaited, CancelledAtTurnEnd, Settled
  <2>7. QED
    BY <2>4, <2>5, <2>6 DEF InOrder
<1>8. QED
  BY <1>5, <1>6, <1>7 DEF IInv

(* The endpoint: a final is awaited.                                       *)
LEMMA UserStopsKeeps ==
    ASSUME IInv, UserStops
    PROVE  IInv'
<1>1. Shapes /\ ClosedIsOver /\ BeforeTheFirst /\ (~excused => InOrder)
  BY DEF IInv
<1>2. /\ talking /\ talking' = FALSE /\ finals' = finals + 1
      /\ UNCHANGED <<plan, turn, open, begun, decisions, decodes, held, ender, excused>>
  BY DEF UserStops, taskVars
<1>3. Shapes'
  <2>1. finals' \in Nat
    BY <1>1, <1>2 DEF Shapes
  <2>2. {talking', open', excused'} \subseteq BOOLEAN
    BY <1>1, <1>2 DEF Shapes
  <2>3. QED
    BY <1>1, <1>2, <2>1, <2>2 DEF Shapes
<1>4. ClosedIsOver' /\ BeforeTheFirst'
  BY <1>1, <1>2 DEF ClosedIsOver, BeforeTheFirst
<1>5. ASSUME ~excused'
      PROVE  InOrder'
  <2>1. InOrder
    BY <1>1, <1>2, <1>5
  <2>2. finals' = 1 /\ ender = Idle
    BY <1>2, <2>1 DEF InOrder, OneFinal
  <2>3. HeldIsAll' /\ OneCommits' /\ HeldIsAwaited'
    BY <1>2, <2>1 DEF InOrder, HeldIsAll, OneCommits, Committing, HeldIsAwaited, InFlight
  <2>4. OneFinal' /\ DecidedInTime' /\ NotBegun' /\ CancelledAtTurnEnd'
    BY <1>2, <2>1, <2>2
    DEF InOrder, OneFinal, DecidedInTime, NotBegun, CancelledAtTurnEnd, Settled
  <2>5. QED
    BY <2>3, <2>4 DEF InOrder
<1>6. QED
  BY <1>3, <1>4, <1>5 DEF IInv

(* A partial: the first starts the decode of its arm, when there is none   *)
(* yet; a policy gets one more decision.                                   *)
LEMMA PartialKeeps ==
    ASSUME IInv, PartialArrives
    PROVE  IInv'
<1>1. Shapes /\ ClosedIsOver /\ BeforeTheFirst /\ (~excused => InOrder)
  BY DEF IInv
<1>2. /\ talking /\ UNCHANGED <<plan, turn, talking, open, finals, ender, excused>>
      /\ IF Arm = "partial" /\ begun # turn
         THEN begun' = turn /\ StartDecode(turn) ELSE UNCHANGED <<begun, decodes, held>>
  BY DEF PartialArrives
<1>3. \A d \in decisions' :
          \/ d \in decisions
          \/ Arm \in PolicyArm /\ IsDecision(d) /\ ~Committing(d)
  <2>1. CASE Arm \in PolicyArm
    <3>1. decisions' = decisions \cup
              {[id |-> seen + 1, of |-> turn, at |-> "scoring", arm |-> Arm, target |-> 0]}
      BY <2>1 DEF PartialArrives
    <3>2. QED
      BY <2>1, <3>1 DEF IsDecision, Committing
  <2>2. CASE Arm \notin PolicyArm
    BY <2>2 DEF PartialArrives
  <2>3. QED
    BY <2>1, <2>2
<1>4. turn # 0
  BY <1>1, <1>2, OpenTurn
<1>5. \A x \in decodes' : IsDecode(x)
  <2>1. CASE Arm = "partial" /\ begun # turn
    <3>1. decodes' = CancelIn(decodes, held) \cup {NewDecode(turn)}
      BY <1>2, <2>1 DEF StartDecode
    <3>2. \A x \in CancelIn(decodes, held) : IsDecode(x)
      BY <1>1, CancelOnlyMarks DEF Shapes
    <3>3. QED
      BY <3>1, <3>2, NewDecodeRuns
  <2>2. CASE ~(Arm = "partial" /\ begun # turn)
    BY <1>1, <1>2, <2>2 DEF Shapes
  <2>3. QED
    BY <2>1, <2>2
<1>6. Shapes'
  BY <1>1, <1>2, <1>3, <1>5 DEF Shapes
<1>7. ClosedIsOver' /\ BeforeTheFirst'
  BY <1>1, <1>2, <1>4 DEF ClosedIsOver, BeforeTheFirst
<1>8. ASSUME ~excused'
      PROVE  InOrder'
  <2>1. InOrder
    BY <1>1, <1>2, <1>8
  <2>2. OneFinal' /\ CancelledAtTurnEnd'
    BY <1>2, <2>1 DEF InOrder, OneFinal, CancelledAtTurnEnd, Settled
  <2>3. HeldIsAwaited'
    BY <1>2, <2>1, IdleIs DEF InOrder, OneFinal, HeldIsAwaited
  <2>4. DecidedInTime'
    BY <1>2, <1>3, <2>1 DEF InOrder, DecidedInTime, Arm
  <2>5. CASE Arm = "partial" /\ begun # turn
    <3>1. InFlight = {}
      BY <1>2, <2>1, <2>5 DEF InOrder, NotBegun, Arm
    <3>2. StartDecode(turn) /\ begun' = turn
      BY <1>2, <2>5
    <3>3. HeldIsAll'
      BY <1>1, <3>1, <3>2, StartedAlone
    <3>4. Arm \notin PolicyArm
      BY <2>5 DEF PolicyArm
    <3>5. decisions = {}
      BY <2>1, <3>4 DEF InOrder, DecidedInTime, Arm
    <3>6. decisions' = {}
      BY <1>3, <3>4, <3>5
    <3>7. OneCommits'
      BY <3>6 DEF OneCommits
    <3>8. NotBegun'
      BY <1>2, <3>2 DEF NotBegun
    <3>9. QED
      BY <2>2, <2>3, <2>4, <3>3, <3>7, <3>8 DEF InOrder
  <2>6. CASE ~(Arm = "partial" /\ begun # turn)
    <3>1. UNCHANGED <<begun, decodes, held>>
      BY <1>2, <2>6
    <3>2. HeldIsAll' /\ NotBegun'
      BY <1>2, <2>1, <3>1 DEF InOrder, HeldIsAll, NotBegun, InFlight
    <3>3. OneCommits'
      BY <1>3, <2>1, <3>1 DEF InOrder, OneCommits, Committing, InFlight
    <3>4. QED
      BY <2>2, <2>3, <2>4, <3>2, <3>3 DEF InOrder
  <2>7. QED
    BY <2>5, <2>6
<1>9. QED
  BY <1>6, <1>7, <1>8 DEF IInv

(* The final: without an overlap nothing is left to decide.                *)
LEMMA FinalKeeps ==
    ASSUME IInv, FinalLands
    PROVE  IInv'
<1>1. Shapes /\ ClosedIsOver /\ BeforeTheFirst /\ (~excused => InOrder)
  BY DEF IInv
<1>2. PICK text \in BOOLEAN :
          /\ ender' = IF text THEN [Idle EXCEPT !.at = "asked"] ELSE Idle
          /\ excused' = (excused \/ ~text \/ decisions # {})
  BY DEF FinalLands
<1>3. /\ finals > 0 /\ ender = Idle /\ finals' = finals - 1
      /\ UNCHANGED <<plan, turn, talking, open, begun, decisions, decodes, held>>
  BY DEF FinalLands
<1>4. ender'.at \in {"none", "asked"} /\ (text => ender'.at = "asked" /\ ender' # Idle)
      /\ (ender'.at = "none" => ender' = Idle)
  <2>1. [Idle EXCEPT !.at = "asked"] = [at |-> "asked", target |-> 0]
    BY DEF Idle
  <2>2. QED
    BY <1>2, <2>1, IdleIs
<1>5. Shapes'
  BY <1>1, <1>2, <1>3, <1>4 DEF Shapes
<1>6. open /\ turn # 0
  BY <1>1, <1>3, OpenTurn DEF ClosedIsOver, Shapes
<1>7. ClosedIsOver' /\ BeforeTheFirst'
  BY <1>3, <1>6 DEF ClosedIsOver, BeforeTheFirst
<1>8. ASSUME ~excused'
      PROVE  InOrder'
  <2>1. InOrder /\ text /\ decisions = {}
    BY <1>1, <1>2, <1>8
  <2>2. finals = 1 /\ finals' = 0 /\ ~talking
    BY <1>1, <1>3, <2>1 DEF InOrder, OneFinal, Shapes
  <2>3. HeldIsAll' /\ OneCommits' /\ HeldIsAwaited' /\ DecidedInTime' /\ NotBegun'
    BY <1>3, <1>4, <2>1, <2>2
    DEF InOrder, HeldIsAll, OneCommits, HeldIsAwaited, DecidedInTime, NotBegun, InFlight
  <2>4. OneFinal' /\ CancelledAtTurnEnd'
    BY <1>3, <1>4, <2>1, <2>2 DEF OneFinal, CancelledAtTurnEnd, Settled
  <2>5. QED
    BY <2>3, <2>4 DEF InOrder
<1>9. QED
  BY <1>5, <1>7, <1>8 DEF IInv

LEMMA ClosesKeeps ==
    ASSUME IInv, TurnCloses \/ UNCHANGED vars
    PROVE  IInv'
<1>1. Shapes /\ ClosedIsOver /\ BeforeTheFirst /\ (~excused => InOrder)
  BY DEF IInv
<1>2. /\ UNCHANGED <<plan, turn, talking, finals, begun, decisions, decodes, held, ender, excused>>
      /\ \/ open' = open
         \/ open' = FALSE /\ ~talking /\ finals = 0 /\ ender = Idle
  BY DEF TurnCloses, vars, turnVars, taskVars
<1>3. Shapes' /\ ClosedIsOver' /\ BeforeTheFirst'
  <2>1. {talking', open', excused'} \subseteq BOOLEAN
    BY <1>1, <1>2 DEF Shapes
  <2>2. Shapes'
    BY <1>1, <1>2, <2>1 DEF Shapes
  <2>3. ClosedIsOver' /\ BeforeTheFirst'
    BY <1>1, <1>2 DEF ClosedIsOver, BeforeTheFirst
  <2>4. QED
    BY <2>2, <2>3
<1>4. InOrder => InOrder'
  BY <1>2
  DEF InOrder, OneFinal, DecidedInTime, HeldIsAll, OneCommits, Committing, HeldIsAwaited, NotBegun,
      CancelledAtTurnEnd, Settled, InFlight
<1>5. QED
  BY <1>1, <1>2, <1>3, <1>4 DEF IInv

-----------------------------------------------------------------------------
(* The step of a decision d: it is recorded and gone, or it waits at one of*)
(* its awaits for the decode it names.                                     *)
WaitsAt(d, at, target) ==
    \E m : /\ IsDecision(m) /\ m.at = at /\ m.target = target
           /\ \A e \in decisions' : e \in decisions \ {d} \/ e = m

LEMMA RecordedIsGone ==
    ASSUME NEW d \in decisions, Recorded(d)
    PROVE  \A e \in decisions' : e \in decisions \ {d}
BY DEF Recorded

LEMMA SuspendedWaits ==
    ASSUME Shapes, NEW d \in decisions,
           NEW at \in {"scoring", "prefilling", "cancelling", "freeing"}, NEW target,
           Suspended(d, at, target)
    PROVE  WaitsAt(d, at, target)
<1>1. PICK arm : arm = Arm
  OBVIOUS
<1> DEFINE a == [d EXCEPT !.at = at]
           b == [a EXCEPT !.target = target]
           m == [b EXCEPT !.arm = arm]
<1>2. d = [id |-> d.id, of |-> d.of, at |-> d.at, arm |-> d.arm, target |-> d.target]
  BY DEF Shapes, IsDecision
<1>3. a = [id |-> d.id, of |-> d.of, at |-> at, arm |-> d.arm, target |-> d.target]
  BY <1>2
<1>4. m = [d EXCEPT !.at = at, !.target = target, !.arm = arm]
  OBVIOUS
<1> HIDE DEF a
<1>5. b = [id |-> d.id, of |-> d.of, at |-> at, arm |-> d.arm, target |-> target]
  BY <1>3
<1> HIDE DEF b
<1>6. m = [id |-> d.id, of |-> d.of, at |-> at, arm |-> arm, target |-> target]
  BY <1>5
<1> HIDE DEF m
<1>7. IsDecision(m) /\ m.at = at /\ m.target = target
  BY <1>6 DEF IsDecision
<1>8. decisions' = (decisions \ {d}) \cup {m}
  BY <1>1, <1>4 DEF Suspended
<1>9. QED
  BY <1>7, <1>8 DEF WaitsAt

(* What any step of a decision does.  Without an overlap it starts a decode*)
(* only when none is in flight, and cancels one only when no other decision*)
(* is replacing it.                                                        *)
StartsAlone(d) ==
    /\ \A e \in decisions' : e \in decisions \ {d}
    /\ decodes' = decodes \cup {NewDecode(turn)} /\ held' = NewDecode(turn).id
    /\ \A e \in decisions \ {d} : ~Committing(e)
    /\ InFlight = {}
CancelsAlone(d) ==
    /\ WaitsAt(d, "cancelling", held)
    /\ decodes' = CancelIn(decodes, held) /\ held' = held
    /\ \A e \in decisions \ {d} : ~Committing(e)
Waits(d) ==
    /\ \/ \A e \in decisions' : e \in decisions \ {d}
       \/ WaitsAt(d, "prefilling", 0)
    /\ decodes' = decodes /\ held' = held
Frees(d) ==
    /\ d.at = "cancelling" /\ WaitsAt(d, "freeing", d.target) /\ InFlight = {}
    /\ decodes' = decodes /\ held' = held

LEMMA IssueStarts ==
    ASSUME NEW d \in decisions, Issue(d), \A e \in decisions \ {d} : ~Committing(e), InFlight = {}
    PROVE  StartsAlone(d)
<1>1. decodes' = decodes \cup {NewDecode(turn)} /\ held' = NewDecode(turn).id /\ Recorded(d)
  BY DEF Issue
<1>2. QED
  BY <1>1, RecordedIsGone DEF StartsAlone

LEMMA CommitIsAlone ==
    ASSUME Shapes, HeldIsAll, NEW d \in decisions, NEW resend, Commit(d, resend), ~excused'
    PROVE  StartsAlone(d) \/ CancelsAlone(d) \/ Waits(d)
<1>1. \A e \in decisions \ {d} : ~Committing(e)
  BY DEF Commit
<1>2. CASE ~AlreadyInFlight
  <2>1. InFlight = {}
    BY <1>2 DEF AlreadyInFlight, Busy, HeldIsAll
  <2>2. Issue(d)
    BY <1>2 DEF Commit
  <2>3. QED
    BY <1>1, <2>1, <2>2, IssueStarts
<1>3. CASE AlreadyInFlight /\ ~resend
  <2>1. Recorded(d) /\ UNCHANGED <<decodes, held>>
    BY <1>3 DEF Commit
  <2>2. QED
    BY <2>1, RecordedIsGone DEF Waits
<1>4. CASE AlreadyInFlight /\ resend
  <2>1. /\ decodes' = CancelIn(decodes, held) /\ held' = held
        /\ Suspended(d, "cancelling", held)
    BY <1>4 DEF Commit
  <2>2. WaitsAt(d, "cancelling", held)
    BY <2>1, SuspendedWaits
  <2>3. QED
    BY <1>1, <2>1, <2>2 DEF CancelsAlone
<1>5. QED
  BY <1>2, <1>3, <1>4

LEMMA DecisionSteps ==
    ASSUME Shapes, HeldIsAll, OneCommits, ~excused', NEW d \in decisions,
           Scored(d) \/ Prefilled(d) \/ CancelAwaited(d) \/ SlotFree(d)
    PROVE  StartsAlone(d) \/ CancelsAlone(d) \/ Waits(d) \/ Frees(d)
<1>1. ASSUME NotIssued(d)
      PROVE  Waits(d)
  BY <1>1, RecordedIsGone DEF NotIssued, Waits
<1>2. CASE Scored(d)
  <2>1. \/ NotIssued(d)
        \/ Suspended(d, "prefilling", 0) /\ UNCHANGED <<decodes, held>>
        \/ Commit(d, Arm = "resend")
    BY <1>2 DEF Scored
  <2>2. CASE Suspended(d, "prefilling", 0) /\ UNCHANGED <<decodes, held>>
    BY <2>2, SuspendedWaits DEF Waits
  <2>3. CASE Commit(d, Arm = "resend")
    BY <2>3, CommitIsAlone
  <2>4. QED
    BY <1>1, <2>1, <2>2, <2>3
<1>3. CASE Prefilled(d)
  <2>1. NotIssued(d) \/ Commit(d, d.arm = "resend")
    BY <1>3 DEF Prefilled
  <2>2. QED
    BY <1>1, <2>1, CommitIsAlone
<1>4. CASE CancelAwaited(d)
  <2>1. /\ d.at = "cancelling" /\ Over(d.target) /\ Suspended(d, "freeing", d.target)
        /\ UNCHANGED <<decodes, held>>
    BY <1>4 DEF CancelAwaited
  <2>2. d.target = held
    BY <2>1 DEF OneCommits
  <2>3. InFlight = {}
    BY <2>1, <2>2 DEF Over, HeldIsAll, InFlight
  <2>4. QED
    BY <2>1, <2>3, SuspendedWaits DEF Frees
<1>5. CASE SlotFree(d)
  <2>1. d.at = "freeing" /\ Issue(d)
    BY <1>5 DEF SlotFree
  <2>2. InFlight = {} /\ \A e \in decisions \ {d} : ~Committing(e)
    BY <2>1 DEF OneCommits, Committing
  <2>3. QED
    BY <2>1, <2>2, IssueStarts
<1>6. QED
  BY <1>2, <1>3, <1>4, <1>5

(* With or without an overlap, a decision keeps the shapes.                *)
LEMMA DecideKeepsShapes ==
    ASSUME Shapes, Decide
    PROVE  Shapes'
<1>1. PICK d \in decisions : Scored(d) \/ Prefilled(d) \/ CancelAwaited(d) \/ SlotFree(d)
  BY DEF Decide
<1>2. UNCHANGED <<turnVars, ender>>
  BY DEF Decide
<1>3. /\ \/ Recorded(d)
         \/ \E at \in {"prefilling", "cancelling", "freeing"} : \E target : Suspended(d, at, target)
      /\ \/ decodes' = decodes
         \/ decodes' = CancelIn(decodes, held)
         \/ decodes' = decodes \cup {NewDecode(turn)}
      /\ \/ excused' = excused
         \/ excused' = (excused \/ \E e \in decisions \ {d} : Committing(e))
  <2>1. CASE Scored(d)
    BY <2>1 DEF Scored, NotIssued, Commit, Issue
  <2>2. CASE Prefilled(d)
    BY <2>2 DEF Prefilled, NotIssued, Commit, Issue
  <2>3. CASE CancelAwaited(d)
    BY <2>3 DEF CancelAwaited
  <2>4. CASE SlotFree(d)
    BY <2>4 DEF SlotFree, Issue
  <2>5. QED
    BY <1>1, <2>1, <2>2, <2>3, <2>4
<1>4. \A x \in decodes' : IsDecode(x)
  <2>1. \A x \in decodes : IsDecode(x)
    BY DEF Shapes
  <2>2. QED
    BY <1>3, <2>1, CancelOnlyMarks, NewDecodeRuns
<1>5. \A e \in decisions' : IsDecision(e)
  <2>1. \A e \in decisions : IsDecision(e)
    BY DEF Shapes
  <2>2. CASE Recorded(d)
    BY <2>1, <2>2, RecordedIsGone
  <2>3. CASE \E at \in {"prefilling", "cancelling", "freeing"} :
                \E target : Suspended(d, at, target)
    <3>1. PICK at \in {"prefilling", "cancelling", "freeing"} : \E target : Suspended(d, at, target)
      BY <2>3
    <3>2. PICK target : Suspended(d, at, target)
      BY <3>1
    <3>3. QED
      BY <2>1, <3>2, SuspendedWaits DEF WaitsAt
  <2>4. QED
    BY <1>3, <2>2, <2>3
<1>6. {talking', open', excused'} \subseteq BOOLEAN
  <2>1. talking' = talking /\ open' = open
    BY <1>2 DEF turnVars
  <2>2. excused' \in BOOLEAN
    BY <1>3 DEF Shapes
  <2>3. QED
    BY <2>1, <2>2 DEF Shapes
<1>7. QED
  BY <1>2, <1>4, <1>5, <1>6 DEF Shapes, turnVars


LEMMA DecideKeeps ==
    ASSUME IInv, Decide
    PROVE  IInv'
<1>1. Shapes /\ ClosedIsOver /\ BeforeTheFirst /\ (~excused => InOrder)
  BY DEF IInv
<1>2. PICK d \in decisions : Scored(d) \/ Prefilled(d) \/ CancelAwaited(d) \/ SlotFree(d)
  BY DEF Decide
<1>3. UNCHANGED <<plan, turn, talking, open, finals, begun, ender>>
  BY DEF Decide, turnVars
<1>4. turn # 0
  BY <1>1, <1>2, OpenTurn
<1>5. Shapes' /\ ClosedIsOver' /\ BeforeTheFirst'
  <2>1. Shapes'
    BY <1>1, DecideKeepsShapes
  <2>2. ClosedIsOver' /\ BeforeTheFirst'
    BY <1>1, <1>3, <1>4 DEF ClosedIsOver, BeforeTheFirst
  <2>3. QED
    BY <2>1, <2>2
<1>6. ASSUME ~excused'
      PROVE  InOrder'
  <2>1. ~excused
    BY <1>2, <1>6 DEF Scored, Prefilled, CancelAwaited, SlotFree, Commit, NotIssued
  <2>2. InOrder
    BY <1>1, <2>1
  <2>3. (talking \/ finals = 1) /\ plan[turn] \in PolicyArm /\ ender = Idle
    BY <1>2, <2>2 DEF InOrder, DecidedInTime, OneFinal
  <2>4. plan[turn] # "partial"
    BY <2>3 DEF PolicyArm
  <2>5. OneFinal' /\ DecidedInTime' /\ HeldIsAwaited' /\ NotBegun' /\ CancelledAtTurnEnd'
    BY <1>3, <2>2, <2>3, <2>4, IdleIs
    DEF InOrder, OneFinal, DecidedInTime, HeldIsAwaited, NotBegun, CancelledAtTurnEnd, Settled
  <2>6. StartsAlone(d) \/ CancelsAlone(d) \/ Waits(d) \/ Frees(d)
    BY <1>1, <1>2, <1>6, <2>2, DecisionSteps DEF InOrder
  <2>7. HeldIsAll' /\ OneCommits'
    <3>1. CASE StartsAlone(d)
      <4>1. \A e \in decisions' : ~Committing(e)
        BY <3>1 DEF StartsAlone
      <4>2. OneCommits'
        BY <4>1 DEF OneCommits, Committing
      <4>3. HeldIsAll'
        BY <3>1 DEF StartsAlone, HeldIsAll, InFlight
      <4>4. QED
        BY <4>2, <4>3
    <3>2. CASE CancelsAlone(d)
      <4>1. PICK m :
                /\ m.at = "cancelling" /\ m.target = held
                /\ \A e \in decisions' : e \in decisions \ {d} \/ e = m
        BY <3>2 DEF CancelsAlone, WaitsAt
      <4>2. \A e \in decisions' : Committing(e) => e = m
        BY <3>2, <4>1 DEF CancelsAlone
      <4>3. \A y \in decodes' :
                y.state # "over" => \E x \in decodes : x.state # "over" /\ x.id = y.id
        BY <1>1, <3>2, CancelOnlyMarks DEF CancelsAlone, Shapes
      <4>4. held' = held
        BY <3>2 DEF CancelsAlone
      <4>5. HeldIsAll'
        BY <2>2, <4>3, <4>4, FlightShrinks DEF InOrder
      <4>6. OneCommits'
        <5>1. \A e \in decisions' : Committing(e) => e.at = "cancelling" /\ e.target = held'
          BY <4>1, <4>2, <4>4
        <5>2. QED
          BY <4>2, <5>1 DEF OneCommits, Committing
      <4>7. QED
        BY <4>5, <4>6
    <3>3. CASE Waits(d)
      <4>1. \A e \in decisions' : Committing(e) => e \in decisions
        BY <3>3 DEF Waits, WaitsAt, Committing
      <4>2. decodes' = decodes /\ held' = held
        BY <3>3 DEF Waits
      <4>3. QED
        BY <2>2, <4>1, <4>2 DEF InOrder, HeldIsAll, OneCommits, InFlight, Committing
    <3>4. CASE Frees(d)
      <4>1. decodes' = decodes /\ held' = held /\ InFlight = {}
        BY <3>4 DEF Frees
      <4>2. PICK m :
                /\ m.at = "freeing"
                /\ \A e \in decisions' : e \in decisions \ {d} \/ e = m
        BY <3>4 DEF Frees, WaitsAt
      <4>3. \A e \in decisions' : Committing(e) => e = m
        <5>1. \A e \in decisions \ {d} : ~Committing(e)
          BY <2>2, <3>4 DEF InOrder, OneCommits, Frees, Committing
        <5>2. QED
          BY <4>2, <5>1
      <4>4. HeldIsAll' /\ InFlight' = {}
        BY <4>1 DEF HeldIsAll, InFlight
      <4>5. OneCommits'
        <5>1. \A e \in decisions' : e.at # "cancelling"
          BY <4>2, <4>3 DEF Committing
        <5>2. QED
          BY <4>3, <4>4, <5>1 DEF OneCommits, Committing
      <4>6. QED
        BY <4>4, <4>5
    <3>5. QED
      BY <2>6, <3>1, <3>2, <3>3, <3>4
  <2>8. QED
    BY <2>5, <2>7 DEF InOrder
<1>7. QED
  BY <1>5, <1>6 DEF IInv

-----------------------------------------------------------------------------
(* A token, an end or a landed cancel: the decode keeps its number, and what *)
(* was over stays over.                                                    *)
LEMMA DecodeSteps ==
    ASSUME NEW x, IsDecode(x), x.state # "over", NEW y,
           \/ y = [x EXCEPT !.tokens = @ + 1]
           \/ y = [x EXCEPT !.state = "over"]
    PROVE  IsDecode(y) /\ y.id = x.id
<1>1. x = [id |-> x.id, of |-> x.of, state |-> x.state, tokens |-> x.tokens]
  BY DEF IsDecode
<1>2. CASE y = [x EXCEPT !.tokens = @ + 1]
  <2>1. y = [id |-> x.id, of |-> x.of, state |-> x.state, tokens |-> x.tokens + 1]
    BY <1>1, <1>2
  <2>2. QED
    BY <2>1 DEF IsDecode
<1>3. CASE y = [x EXCEPT !.state = "over"]
  <2>1. y = [id |-> x.id, of |-> x.of, state |-> "over", tokens |-> x.tokens]
    BY <1>1, <1>3
  <2>2. QED
    BY <2>1 DEF IsDecode
<1>4. QED
  BY <1>2, <1>3

LEMMA SpeculateKeeps ==
    ASSUME IInv, Speculate
    PROVE  IInv'
<1>1. Shapes /\ ClosedIsOver /\ BeforeTheFirst /\ (~excused => InOrder)
  BY DEF IInv
<1>2. UNCHANGED <<plan, turn, talking, open, finals, begun, decisions, held, ender, excused>>
  BY DEF Speculate, turnVars
<1>3. PICK x \in decodes : Token(x) \/ Completes(x) \/ CancelLands(x)
  BY DEF Speculate
<1>4. PICK y : /\ decodes' = (decodes \ {x}) \cup {y}
               /\ \/ y = [x EXCEPT !.tokens = @ + 1]
                  \/ y = [x EXCEPT !.state = "over"]
  BY <1>3 DEF Token, Completes, CancelLands
<1>5. IsDecode(x) /\ x.state # "over"
  BY <1>1, <1>3 DEF Shapes, Token, Completes, CancelLands
<1>6. IsDecode(y) /\ y.id = x.id
  BY <1>4, <1>5, DecodeSteps
<1>7. Shapes'
  <2>1. {talking', open', excused'} \subseteq BOOLEAN
    BY <1>1, <1>2 DEF Shapes
  <2>2. \A z \in decodes' : IsDecode(z)
    BY <1>1, <1>4, <1>6 DEF Shapes
  <2>3. QED
    BY <1>1, <1>2, <2>1, <2>2 DEF Shapes
<1>8. ClosedIsOver' /\ BeforeTheFirst'
  BY <1>1, <1>2, <1>3 DEF ClosedIsOver, BeforeTheFirst
<1>9. (HeldIsAll => HeldIsAll') /\ (InFlight = {} => InFlight' = {})
  <2>1. \A z \in decodes' : z.state # "over" =>
            \E w \in decodes : w.state # "over" /\ w.id = z.id
    BY <1>4, <1>5, <1>6
  <2>2. QED
    BY <1>2, <2>1, FlightShrinks
<1>10. InOrder => InOrder'
  <2> SUFFICES ASSUME InOrder
               PROVE  InOrder'
    OBVIOUS
  <2>1. OneFinal' /\ DecidedInTime' /\ HeldIsAwaited'
    BY <1>2 DEF InOrder, OneFinal, DecidedInTime, HeldIsAwaited
  <2>2. HeldIsAll'
    BY <1>9 DEF InOrder
  <2>3. OneCommits'
    BY <1>2, <1>9 DEF InOrder, OneCommits, Committing
  <2>4. NotBegun' /\ CancelledAtTurnEnd'
    BY <1>2, <1>9 DEF InOrder, NotBegun, CancelledAtTurnEnd, Settled
  <2>5. QED
    BY <2>1, <2>2, <2>3, <2>4 DEF InOrder
<1>11. QED
  BY <1>1, <1>2, <1>7, <1>8, <1>10 DEF IInv

(* The end of a turn: the task cancels what is held and waits for it, so   *)
(* that when it lets go nothing is in flight.                              *)
LEMMA EndSpeculationKeeps ==
    ASSUME IInv, EndSpeculation
    PROVE  IInv'
<1>1. Shapes /\ ClosedIsOver /\ BeforeTheFirst /\ (~excused => InOrder)
  BY DEF IInv
<1>2. UNCHANGED <<plan, turn, talking, open, finals, begun, decisions, excused>>
  BY DEF EndSpeculation, turnVars
<1>3. ender # Idle
  BY IdleIs DEF EndSpeculation
<1>4. {talking', open', excused'} \subseteq BOOLEAN
  BY <1>1, <1>2 DEF Shapes
<1>5. open
  BY <1>1, <1>3 DEF ClosedIsOver
<1>6. ClosedIsOver' /\ BeforeTheFirst'
  BY <1>1, <1>2, <1>5 DEF ClosedIsOver, BeforeTheFirst
<1>7. InOrder => ~talking /\ finals = 0 /\ decisions = {}
  BY <1>1, <1>3 DEF InOrder, OneFinal, DecidedInTime, Shapes
<1>8. CASE ender.at = "asked" /\ Busy
  <2>1. /\ decodes' = CancelIn(decodes, held) /\ held' = held
        /\ ender' = [at |-> "awaiting", target |-> held]
    BY <1>8 DEF EndSpeculation
  <2>2. ender'.at = "awaiting" /\ ender'.target = held' /\ ender' # Idle
    BY <2>1, IdleIs
  <2>3. \A y \in decodes' :
            IsDecode(y) /\ \E x \in decodes : y.id = x.id /\ (y.state = "over" <=> x.state = "over")
    BY <1>1, <2>1, CancelOnlyMarks DEF Shapes
  <2>4. Shapes'
    BY <1>1, <1>2, <1>4, <2>2, <2>3 DEF Shapes
  <2>5. ASSUME InOrder
        PROVE  InOrder'
    <3>1. ~talking /\ finals = 0 /\ decisions = {}
      BY <1>7, <2>5
    <3>2. HeldIsAll'
      <4>1. \A y \in decodes' : y.state # "over" =>
                \E x \in decodes : x.state # "over" /\ x.id = y.id
        BY <2>3
      <4>2. QED
        BY <2>1, <2>5, <4>1, FlightShrinks DEF InOrder
    <3>3. OneFinal' /\ DecidedInTime' /\ OneCommits' /\ HeldIsAwaited' /\ NotBegun'
      BY <1>2, <2>2, <3>1
      DEF OneFinal, DecidedInTime, OneCommits, HeldIsAwaited, NotBegun
    <3>4. CancelledAtTurnEnd'
      BY <2>2 DEF CancelledAtTurnEnd, Settled
    <3>5. QED
      BY <3>2, <3>3, <3>4 DEF InOrder
  <2>6. QED
    BY <1>1, <1>2, <1>6, <2>4, <2>5 DEF IInv
<1>9. CASE \/ ender.at = "asked" /\ ~Busy /\ Ended(0)
           \/ ender.at = "awaiting" /\ Over(ender.target) /\ Ended(ender.target)
  <2>1. held' = 0 /\ ender' = Idle /\ decodes' = decodes
    BY <1>9 DEF Ended
  <2>2. Shapes'
    BY <1>1, <1>2, <1>4, <2>1, IdleIs DEF Shapes
  <2>3. ASSUME InOrder
        PROVE  InOrder'
    <3>1. ~talking /\ finals = 0 /\ decisions = {}
      BY <1>7, <2>3
    <3>2. InFlight = {}
      <4>1. CASE ~Busy
        BY <2>3, <4>1 DEF InOrder, HeldIsAll, Busy
      <4>2. CASE ender.at = "awaiting" /\ Over(ender.target)
        BY <2>3, <4>2 DEF InOrder, HeldIsAll, HeldIsAwaited, Over, InFlight
      <4>3. QED
        BY <1>9, <4>1, <4>2
    <3>3. InFlight' = {}
      BY <2>1, <3>2 DEF InFlight
    <3>4. HeldIsAll' /\ CancelledAtTurnEnd' /\ NotBegun'
      BY <3>3 DEF HeldIsAll, CancelledAtTurnEnd, NotBegun
    <3>5. OneFinal' /\ DecidedInTime' /\ OneCommits' /\ HeldIsAwaited'
      BY <1>2, <2>1, <3>1, IdleIs
      DEF OneFinal, DecidedInTime, OneCommits, HeldIsAwaited
    <3>6. QED
      BY <3>4, <3>5 DEF InOrder
  <2>4. QED
    BY <1>1, <1>2, <1>6, <2>2, <2>3 DEF IInv
<1>10. QED
  BY <1>8, <1>9 DEF EndSpeculation

-----------------------------------------------------------------------------
(* The invariant holds in every reachable state.                           *)
THEOREM Invariance == Spec => []IInv
<1>1. Init => IInv
  BY InitInv
<1>2. IInv /\ [Next]_vars => IInv'
  <2> SUFFICES ASSUME IInv, [Next]_vars
               PROVE  IInv'
    OBVIOUS
  <2>1. CASE UserStarts
    BY <2>1, UserStartsKeeps
  <2>2. CASE UserStops
    BY <2>2, UserStopsKeeps
  <2>3. CASE PartialArrives
    BY <2>3, PartialKeeps
  <2>4. CASE FinalLands
    BY <2>4, FinalKeeps
  <2>5. CASE TurnCloses \/ UNCHANGED vars
    BY <2>5, ClosesKeeps
  <2>6. CASE Decide
    BY <2>6, DecideKeeps
  <2>7. CASE Speculate
    BY <2>7, SpeculateKeeps
  <2>8. CASE EndSpeculation
    BY <2>8, EndSpeculationKeeps
  <2>9. QED
    BY <2>1, <2>2, <2>3, <2>4, <2>5, <2>6, <2>7, <2>8 DEF Next
<1>3. QED
  BY <1>1, <1>2, PTL DEF Spec

(* From the end of a turn to the next onset nothing speculative runs, in a *)
(* session without an overlap: end_turn() cancels and awaits what the      *)
(* driver holds (speculation.py), and it holds all there is.               *)
THEOREM NothingBetweenTurns == Spec => []QuietBetweenTurns
<1>1. IInv => QuietBetweenTurns
  BY DEF IInv, InOrder, QuietBetweenTurns
<1>2. QED
  BY <1>1, Invariance, PTL

(* One decode at most runs at a time, and the driver holds it: start_turn()*)
(* and commit() start one only where none is in flight.                    *)
THEOREM OneAtATime == Spec => []OneDecode
<1>1. IInv => OneDecode
  BY DEF IInv, InOrder, HeldIsAll, OneDecode
<1>2. QED
  BY <1>1, Invariance, PTL

-----------------------------------------------------------------------------
\* Until a turn has its reading nothing is in flight and nothing is decided, so
\* that the reading is taken of a quiet rail.
ReadInQuiet ==
    ~excused =>
        /\ estimate # "own"
        /\ estimate = "none" => InFlight = {} /\ decisions = {}

(* A reading is taken once, and of a quiet rail if none had been taken.    *)
LEMMA SampledQuiet ==
    ASSUME NEW e, NEW ours, e # "own", e = "none" => ours = {}
    PROVE  SampleOnce(e, ours) \notin {"none", "own"}
BY DEF SampleOnce

LEMMA OnsetKeepsQuiet ==
    ASSUME IInv, ReadInQuiet, UserStarts
    PROVE  ReadInQuiet'
<1> SUFFICES ASSUME ~excused'
             PROVE  /\ estimate' # "own"
                    /\ estimate' = "none" => InFlight' = {} /\ decisions' = {}
  BY DEF ReadInQuiet
<1>1. /\ ~talking /\ turn < MaxTurns /\ decisions' = decisions
      /\ excused' = (excused \/ open)
      /\ IF plan[turn + 1] = "onset" THEN StartDecode(turn + 1) ELSE UNCHANGED <<decodes, held>>
      /\ estimate' = IF OnsetSession THEN SampleOnce("none", InFlight) ELSE "none"
  BY DEF UserStarts, OnTheRail
<1>2. Shapes /\ ClosedIsOver /\ BeforeTheFirst /\ InOrder /\ ~open
  BY <1>1 DEF IInv
<1>3. InFlight = {} /\ decisions = {}
  <2>1. finals = 0 /\ ender = Idle
    BY <1>2 DEF ClosedIsOver
  <2>2. CASE turn = 0
    BY <1>2, <2>2 DEF BeforeTheFirst, InFlight
  <2>3. CASE turn # 0
    BY <1>1, <1>2, <2>1, <2>3 DEF InOrder, CancelledAtTurnEnd, Settled, DecidedInTime
  <2>4. QED
    BY <2>2, <2>3
<1>4. CASE OnsetSession
  <2>1. estimate' = SampleOnce("none", {})
    BY <1>1, <1>3, <1>4
  <2>2. QED
    BY <2>1, SampledQuiet
<1>5. CASE ~OnsetSession
  <2>1. turn + 1 \in Turn
    BY <1>1, <1>2, BoundsAssumption DEF Shapes, Turn
  <2>2. plan[turn + 1] # "onset"
    BY <1>5, <2>1 DEF OnsetSession
  <2>3. decodes' = decodes
    BY <1>1, <2>2
  <2>4. estimate' = "none"
    BY <1>1, <1>5
  <2>5. QED
    BY <1>1, <1>3, <2>3, <2>4 DEF InFlight
<1>6. QED
  BY <1>4, <1>5

(* Every other step either takes the reading or starts no decode before it.*)
LEMMA StepKeepsQuiet ==
    ASSUME IInv, ReadInQuiet, [Next]_vars
    PROVE  ReadInQuiet'
<1>1. CASE UserStarts
  BY <1>1, OnsetKeepsQuiet
<1>2. CASE UserStops \/ TurnCloses \/ UNCHANGED vars
  <2>1. UNCHANGED <<decisions, decodes, estimate, excused>>
    BY <1>2 DEF UserStops, TurnCloses, vars, taskVars
  <2>2. QED
    BY <2>1 DEF ReadInQuiet, InFlight
<1>3. CASE PartialArrives
  <2>1. excused' = excused /\ estimate' = SampleOnce(estimate, InFlight)
    BY <1>3 DEF PartialArrives, OnTheRail
  <2>2. QED
    BY <2>1, SampledQuiet DEF ReadInQuiet
<1>4. CASE FinalLands
  <2>1. UNCHANGED <<decisions, decodes>> /\ (~excused' => ~excused)
    BY <1>4 DEF FinalLands
  <2>2. estimate' = SampleOnce(estimate, InFlight) \/ estimate' = estimate
    BY <1>4 DEF FinalLands
  <2>3. QED
    BY <2>1, <2>2, SampledQuiet DEF ReadInQuiet, InFlight
<1>5. CASE Decide
  <2>1. PICK d \in decisions : Scored(d) \/ Prefilled(d) \/ CancelAwaited(d) \/ SlotFree(d)
    BY <1>5 DEF Decide
  <2>2. estimate' = SampleOnce(estimate, InFlight) \/ estimate' = estimate
    BY <2>1 DEF Scored, Prefilled, CancelAwaited, SlotFree
  <2>3. ~excused' => ~excused
    BY <2>1 DEF Scored, Prefilled, CancelAwaited, SlotFree, Commit, NotIssued
  <2>4. ~excused => estimate \notin {"none", "own"}
    BY <2>1 DEF ReadInQuiet
  <2>5. QED
    BY <2>2, <2>3, <2>4, SampledQuiet DEF ReadInQuiet
<1>6. CASE Speculate
  <2>1. UNCHANGED <<decisions, held, estimate, excused>>
    BY <1>6 DEF Speculate
  <2>2. InFlight = {} => InFlight' = {}
    <3> SUFFICES ASSUME InFlight = {}
                 PROVE  InFlight' = {}
      OBVIOUS
    <3>1. \A x \in decodes : x.state = "over"
      BY DEF InFlight
    <3>2. FALSE
      BY <1>6, <3>1 DEF Speculate, Token, Completes, CancelLands
    <3>3. QED
      BY <3>2
  <2>3. QED
    BY <2>1, <2>2 DEF ReadInQuiet
<1>7. CASE EndSpeculation
  <2>1. UNCHANGED <<decisions, estimate, excused>>
    BY <1>7 DEF EndSpeculation
  <2>2. InFlight = {} => InFlight' = {}
    <3> SUFFICES ASSUME InFlight = {}
                 PROVE  InFlight' = {}
      OBVIOUS
    <3>1. ~Busy
      BY DEF Busy
    <3>2. decodes' = decodes
      BY <1>7, <3>1 DEF EndSpeculation, Ended
    <3>3. QED
      BY <3>2 DEF InFlight
  <2>3. QED
    BY <2>1, <2>2 DEF ReadInQuiet
<1>8. QED
  BY <1>1, <1>2, <1>3, <1>4, <1>5, <1>6, <1>7 DEF Next

(* The contention estimate a turn is decided on never counts our own       *)
(* decode, for any plan, in a session without an overlap: every arm has its*)
(* reading before its first decode starts ("Never after: a reading taken   *)
(* then includes our own decode", sample_contention in turns.py).          *)
THEOREM NeverOursOnTheRail == Spec => [](~excused => estimate # "own")
<1>1. Init => ReadInQuiet
  BY DEF Init, ReadInQuiet, InFlight
<1>2. IInv /\ ReadInQuiet /\ [Next]_vars => ReadInQuiet'
  BY StepKeepsQuiet
<1>3. ReadInQuiet => (~excused => estimate # "own")
  BY DEF ReadInQuiet
<1>4. QED
  BY <1>1, <1>2, <1>3, Invariance, PTL DEF Spec
-----------------------------------------------------------------------------
(* Sums over a set are folds: functions defined by recursion on the subsets*)
(* of the set.  What such a function computes is found by induction on the *)
(* size of the set, in the form of a set of numbers that holds all of Nat. *)

(* A set of numbers that is not empty has a least one.                     *)
LEMMA Least ==
    ASSUME NEW T \in SUBSET Nat, T # {}
    PROVE  \E m \in T : \A n \in T : m <= n
<1> DEFINE R == {ss \in Nat \X Nat : ss[1] < ss[2]}
<1>1. IsWellFoundedOn(R, Nat)
  BY NatLessThanWellFounded DEF OpToRel
<1> HIDE DEF R
<1>2. PICK x \in T : \A y \in T : ~ (<<y, x>> \in R)
  BY <1>1, WFMin
<1>3. ASSUME NEW y \in T
      PROVE  x <= y
  <2>1. x \in Nat /\ y \in Nat
    OBVIOUS
  <2>2. ~ (y < x)
    BY <1>2, <2>1 DEF R
  <2>3. QED
    BY <2>1, <2>2
<1>4. QED
  BY <1>3

(* A set with zero and with every number's successor holds all of Nat.     *)
LEMMA Induction ==
    ASSUME NEW S, 0 \in S, \A n \in Nat : n \in S => n + 1 \in S
    PROVE  Nat \subseteq S
<1> DEFINE T == {n \in Nat : n \notin S}
<1> SUFFICES ASSUME T # {} PROVE FALSE
  OBVIOUS
<1>1. PICK m \in T : \A n \in T : m <= n
  BY Least
<1>2. m # 0 /\ m - 1 \in Nat /\ m - 1 \notin T
  BY <1>1
<1>3. QED
  BY <1>2

\* A function on the subsets of S that adds the tokens of each element.
Counts(S) == \A x \in S : x.tokens \in Nat
Adds(g, S) ==
    /\ g \in [SUBSET S -> Nat] /\ g[{}] = 0
    /\ \A s \in SUBSET S : \A x \in S \ s : g[s \cup {x}] = g[s] + x.tokens

(* There is such a function on every finite set of decodes.                *)
LEMMA SumExists ==
    ASSUME NEW S, IsFiniteSet(S), Counts(S)
    PROVE  \E g : Adds(g, S)
<1> DEFINE P == {n \in Nat : \A U : IsFiniteSet(U) /\ Counts(U) /\ Cardinality(U) = n
                                     => \E g : Adds(g, U)}
<1>1. 0 \in P
  <2> SUFFICES ASSUME NEW U, IsFiniteSet(U), Cardinality(U) = 0
               PROVE  \E g : Adds(g, U)
    OBVIOUS
  <2>1. U = {}
    BY FS_EmptySet
  <2>2. Adds([s \in SUBSET U |-> 0], U)
    BY <2>1 DEF Adds
  <2>3. QED
    BY <2>2
<1>2. ASSUME NEW n \in Nat, n \in P
      PROVE  n + 1 \in P
  <2> SUFFICES ASSUME NEW U, IsFiniteSet(U), Counts(U), Cardinality(U) = n + 1
               PROVE  \E g : Adds(g, U)
    OBVIOUS
  <2>1. PICK c : c \in U
    BY FS_EmptySet
  <2>2. IsFiniteSet(U \ {c}) /\ Cardinality(U \ {c}) = n /\ Counts(U \ {c})
    <3>1. IsFiniteSet(U \ {c}) /\ Cardinality(U \ {c}) = n
      <4>1. /\ IsFiniteSet(U \ {c})
            /\ Cardinality(U \ {c}) = IF c \in U THEN Cardinality(U) - 1 ELSE Cardinality(U)
        BY FS_RemoveElement
      <4>2. QED
        BY <2>1, <4>1
    <3>2. Counts(U \ {c})
      BY DEF Counts
    <3>3. QED
      BY <3>1, <3>2
  <2>3. PICK g : Adds(g, U \ {c})
    BY <1>2, <2>2
  <2> DEFINE h == [s \in SUBSET U |-> IF c \in s THEN g[s \ {c}] + c.tokens ELSE g[s]]
  <2>4. c.tokens \in Nat
    BY <2>1 DEF Counts
  <2>5. \A s \in SUBSET U : s \ {c} \in SUBSET (U \ {c}) /\ (c \notin s => s \in SUBSET (U \ {c}))
    OBVIOUS
  <2>6. \A s \in SUBSET (U \ {c}) : g[s] \in Nat
    BY <2>3 DEF Adds
  <2>7. h \in [SUBSET U -> Nat] /\ h[{}] = 0
    <3>1. \A s \in SUBSET U : (IF c \in s THEN g[s \ {c}] + c.tokens ELSE g[s]) \in Nat
      BY <2>4, <2>5, <2>6
    <3>2. h[{}] = g[{}]
      OBVIOUS
    <3>3. QED
      BY <2>3, <3>1, <3>2 DEF Adds
  <2>8. ASSUME NEW s \in SUBSET U, NEW x \in U \ s
        PROVE  h[s \cup {x}] = h[s] + x.tokens
    <3>1. s \cup {x} \in SUBSET U
      OBVIOUS
    <3>2. CASE x = c
      <4>1. h[s \cup {x}] = g[(s \cup {x}) \ {c}] + c.tokens
        BY <3>1, <3>2
      <4>2. (s \cup {x}) \ {c} = s /\ h[s] = g[s]
        BY <3>2
      <4>3. QED
        BY <3>2, <4>1, <4>2
    <3>3. CASE x # c /\ c \in s
      <4>1. h[s \cup {x}] = g[(s \cup {x}) \ {c}] + c.tokens /\ h[s] = g[s \ {c}] + c.tokens
        BY <3>1, <3>3
      <4>2. (s \cup {x}) \ {c} = (s \ {c}) \cup {x} /\ x \in (U \ {c}) \ (s \ {c})
        BY <3>3
      <4>3. g[(s \ {c}) \cup {x}] = g[s \ {c}] + x.tokens
        BY <2>3, <2>5, <4>2 DEF Adds
      <4>4. x.tokens \in Nat /\ g[s \ {c}] \in Nat
        BY <2>5, <2>6 DEF Counts
      <4>5. h[s \cup {x}] = (g[s \ {c}] + x.tokens) + c.tokens
        BY <4>1, <4>2, <4>3
      <4>6. \A a, b, d \in Nat : (a + b) + d = (a + d) + b
        OBVIOUS
      <4>7. QED
        BY <2>4, <4>1, <4>4, <4>5, <4>6
    <3>4. CASE x # c /\ c \notin s
      <4>1. h[s \cup {x}] = g[s \cup {x}] /\ h[s] = g[s]
        BY <3>1, <3>4
      <4>2. g[s \cup {x}] = g[s] + x.tokens
        BY <2>3, <2>5, <3>4 DEF Adds
      <4>3. QED
        BY <4>1, <4>2
    <3>5. QED
      BY <3>2, <3>3, <3>4
  <2> HIDE DEF h
  <2>9. Adds(h, U)
    BY <2>7, <2>8 DEF Adds
  <2>10. QED
    BY <2>9
<1> HIDE DEF P
<1>3. Nat \subseteq P
  BY <1>1, <1>2, Induction
<1>4. Cardinality(S) \in P
  BY <1>3, FS_CardinalityType
<1>5. QED
  BY <1>4 DEF P

(* It is what the fold computes, whichever element it takes first.         *)
LEMMA SumIsFold ==
    ASSUME NEW S, IsFiniteSet(S), Counts(S), NEW g, Adds(g, S)
    PROVE  Tokens(S) = g[S]
<1> DEFINE Step(it) == [s \in SUBSET S |-> IF s = {} THEN 0
              ELSE it[s \ {CHOOSE x \in s : TRUE}] + (CHOOSE x \in s : TRUE).tokens]
    it == CHOOSE it : it = Step(it)
<1>1. Tokens(S) = it[S]
  BY DEF Tokens, FoldSet, MapThenFoldSet
<1>2. g = Step(g)
  <2>1. ASSUME NEW s \in SUBSET S, s # {}
        PROVE  g[s] = g[s \ {CHOOSE x \in s : TRUE}] + (CHOOSE x \in s : TRUE).tokens
    <3>1. PICK c : c = CHOOSE x \in s : TRUE
      OBVIOUS
    <3>2. c \in s
      BY <2>1, <3>1
    <3>3. (s \ {c}) \cup {c} = s /\ s \ {c} \in SUBSET S /\ c \in S \ (s \ {c})
      BY <3>2
    <3>4. g[(s \ {c}) \cup {c}] = g[s \ {c}] + c.tokens
      BY <3>3 DEF Adds
    <3>5. QED
      BY <3>1, <3>3, <3>4
  <2>2. g[{}] = 0 /\ g = [s \in SUBSET S |-> g[s]]
    BY DEF Adds
  <2>3. QED
    BY <2>1, <2>2
<1>3. it = Step(it)
  BY <1>2
<1>4. \A s \in SUBSET S : s # {} => 
         it[s] = it[s \ {CHOOSE x \in s : TRUE}] + (CHOOSE x \in s : TRUE).tokens
  BY <1>3
<1>5. it[{}] = 0
  BY <1>3
<1>6. \A s \in SUBSET S : s # {} => 
         g[s] = g[s \ {CHOOSE x \in s : TRUE}] + (CHOOSE x \in s : TRUE).tokens
  BY <1>2
<1> HIDE DEF it, Step
<1> DEFINE Bad == {n \in Nat : \E s \in SUBSET S : Cardinality(s) = n /\ it[s] # g[s]}
<1>7. Bad = {}
  <2> SUFFICES ASSUME Bad # {} PROVE FALSE
    OBVIOUS
  <2>1. PICK m \in Bad : \A n \in Bad : m <= n
    BY Least
  <2>2. PICK s \in SUBSET S : Cardinality(s) = m /\ it[s] # g[s]
    BY <2>1
  <2>3. s # {}
    BY <1>5, <2>2 DEF Adds
  <2>4. PICK c : c = CHOOSE x \in s : TRUE
    OBVIOUS
  <2>5. c \in s
    BY <2>3, <2>4
  <2>6. IsFiniteSet(s)
    BY FS_Subset
  <2>7. Cardinality(s \ {c}) = m - 1 /\ Cardinality(s \ {c}) \in Nat
    BY <2>2, <2>5, <2>6, FS_RemoveElement, FS_CardinalityType
  <2>8. m - 1 \notin Bad
    <3>1. m \in Nat
      BY <2>1
    <3>2. QED
      BY <2>1, <3>1
  <2>9. it[s \ {c}] = g[s \ {c}]
    BY <2>7, <2>8
  <2>10. it[s] = it[s \ {c}] + c.tokens /\ g[s] = g[s \ {c}] + c.tokens
    BY <1>4, <1>6, <2>3, <2>4
  <2>11. QED
    BY <2>2, <2>9, <2>10
<1>8. it[S] = g[S]
  <2>1. Cardinality(S) \in Nat /\ S \in SUBSET S
    BY FS_CardinalityType
  <2>2. QED
    BY <1>7, <2>1
<1>9. QED
  BY <1>1, <1>8

(* The sum of none is zero, and a decode more adds its tokens.             *)
LEMMA TokensOfNone == Tokens({}) = 0
<1>1. IsFiniteSet({}) /\ Counts({})
  BY FS_EmptySet DEF Counts
<1>2. PICK g : Adds(g, {})
  BY <1>1, SumExists
<1>3. QED
  BY <1>1, <1>2, SumIsFold DEF Adds

LEMMA TokensOfMore ==
    ASSUME NEW S, IsFiniteSet(S), Counts(S), NEW x, x \notin S, x.tokens \in Nat
    PROVE  Tokens(S \cup {x}) = Tokens(S) + x.tokens /\ Tokens(S) \in Nat
<1>1. IsFiniteSet(S \cup {x}) /\ Counts(S \cup {x})
  BY FS_AddElement DEF Counts
<1>2. PICK g : Adds(g, S \cup {x})
  BY <1>1, SumExists
<1> DEFINE h == [s \in SUBSET S |-> g[s]]
<1>3. Adds(h, S)
  <2>1. h \in [SUBSET S -> Nat] /\ h[{}] = 0
    BY <1>2 DEF Adds
  <2>2. ASSUME NEW s \in SUBSET S, NEW y \in S \ s
        PROVE  h[s \cup {y}] = h[s] + y.tokens
    <3>1. s \cup {y} \in SUBSET S /\ s \in SUBSET (S \cup {x}) /\ y \in (S \cup {x}) \ s
      OBVIOUS
    <3>2. QED
      BY <1>2, <3>1 DEF Adds
  <2>3. QED
    BY <2>1, <2>2 DEF Adds
<1>4. Tokens(S) = h[S]
  BY <1>3, SumIsFold
<1>5. h[S] = g[S] /\ S \in SUBSET (S \cup {x}) /\ x \in (S \cup {x}) \ S
  OBVIOUS
<1>6. g[S \cup {x}] = g[S] + x.tokens /\ g[S] \in Nat
  BY <1>2, <1>5 DEF Adds
<1>7. Tokens(S \cup {x}) = g[S \cup {x}]
  BY <1>1, <1>2, SumIsFold
<1> HIDE DEF h
<1>8. QED
  BY <1>4, <1>5, <1>6, <1>7

-----------------------------------------------------------------------------
(* The decodes of a session: told apart by their numbers, which count them.*)
Numbered(S) ==
    /\ IsFiniteSet(S)
    /\ \A x \in S : x.tokens \in Nat /\ x.id \in 1 .. Cardinality(S)
    /\ \A x, y \in S : x.id = y.id => x = y
Of(S, t) == {x \in S : x.of = t}

LEMMA OfAreCounted ==
    ASSUME NEW S, Numbered(S), NEW t
    PROVE  IsFiniteSet(Of(S, t)) /\ Counts(Of(S, t))
<1>1. Of(S, t) \subseteq S /\ IsFiniteSet(S)
  BY DEF Of, Numbered
<1>2. QED
  BY <1>1, FS_Subset DEF Counts, Numbered, Of

(* A decode that took another's place, with its number and its turn: the   *)
(* sums of the other turns are what they were.                             *)
LEMMA Replaced ==
    ASSUME NEW S, Numbered(S), NEW x \in S, NEW y, y.id = x.id, y.of = x.of, y.tokens \in Nat,
           NEW T, T = (S \ {x}) \cup {y}
    PROVE  /\ Numbered(T) /\ Cardinality(T) = Cardinality(S)
           /\ \A t : t # x.of => Tokens(Of(T, t)) = Tokens(Of(S, t))
           /\ Tokens(Of(T, x.of)) + x.tokens = Tokens(Of(S, x.of)) + y.tokens
           /\ {Tokens(Of(S, x.of)), Tokens(Of(T, x.of))} \subseteq Nat
<1>1. y \notin S \ {x}
  BY DEF Numbered
<1>2. IsFiniteSet(S \ {x}) /\ Cardinality(S \ {x}) = Cardinality(S) - 1
  BY FS_RemoveElement DEF Numbered
<1>3. Cardinality(S) \in Nat
  BY FS_CardinalityType DEF Numbered
<1>4. IsFiniteSet(T) /\ Cardinality(T) = Cardinality(S)
  <2>1. /\ IsFiniteSet((S \ {x}) \cup {y})
        /\ Cardinality((S \ {x}) \cup {y}) = Cardinality(S \ {x}) + 1
    BY <1>1, <1>2, FS_AddElement
  <2>2. QED
    BY <1>2, <1>3, <2>1
<1>5. Numbered(T)
  BY <1>4 DEF Numbered
<1>6. ASSUME NEW t, t # x.of
      PROVE  Of(T, t) = Of(S, t)
  BY <1>6 DEF Of
<1> DEFINE R == Of(S \ {x}, x.of)
<1>7. Of(T, x.of) = R \cup {y} /\ Of(S, x.of) = R \cup {x} /\ x \notin R /\ y \notin R
  BY <1>1 DEF Of
<1>8. IsFiniteSet(R) /\ Counts(R) /\ x.tokens \in Nat
  <2>1. R \subseteq S
    BY DEF Of
  <2>2. QED
    BY <2>1, FS_Subset DEF Counts, Numbered
<1> HIDE DEF R
<1>9. Tokens(R \cup {x}) = Tokens(R) + x.tokens /\ Tokens(R) \in Nat
  BY <1>7, <1>8, TokensOfMore
<1>10. Tokens(R \cup {y}) = Tokens(R) + y.tokens
  BY <1>7, <1>8, TokensOfMore
<1>11. /\ Tokens(Of(T, x.of)) + x.tokens = Tokens(Of(S, x.of)) + y.tokens
       /\ {Tokens(Of(S, x.of)), Tokens(Of(T, x.of))} \subseteq Nat
  <2>1. PICK a : a = Tokens(R)
    OBVIOUS
  <2>2. PICK b : b = x.tokens
    OBVIOUS
  <2>3. PICK c : c = y.tokens
    OBVIOUS
  <2>4. a \in Nat /\ b \in Nat /\ c \in Nat
    BY <1>8, <1>9, <2>1, <2>2, <2>3
  <2>5. Tokens(Of(T, x.of)) = a + c /\ Tokens(Of(S, x.of)) = a + b
    BY <1>7, <1>9, <1>10, <2>1, <2>2, <2>3
  <2>6. QED
    BY <2>2, <2>3, <2>4, <2>5
<1>12. QED
  BY <1>4, <1>5, <1>6, <1>11

(* A new decode, which has given no token.                                 *)
LEMMA Started ==
    ASSUME NEW S, Numbered(S), NEW x, x.id = Cardinality(S) + 1, x.tokens = 0
    PROVE  /\ Numbered(S \cup {x}) /\ Cardinality(S \cup {x}) = Cardinality(S) + 1
           /\ \A t : Tokens(Of(S \cup {x}, t)) = Tokens(Of(S, t))
<1>1. Cardinality(S) \in Nat
  BY FS_CardinalityType DEF Numbered
<1>2. x \notin S
  BY <1>1 DEF Numbered
<1>3. IsFiniteSet(S \cup {x}) /\ Cardinality(S \cup {x}) = Cardinality(S) + 1
  BY <1>2, FS_AddElement DEF Numbered
<1>4. Numbered(S \cup {x})
  <2>1. \A y \in S : y.id \in 1 .. Cardinality(S) /\ y.id # x.id
    BY <1>1 DEF Numbered
  <2>2. \A y \in S \cup {x} : y.tokens \in Nat /\ y.id \in 1 .. (Cardinality(S) + 1)
    BY <1>1, <2>1 DEF Numbered
  <2>3. \A y, z \in S \cup {x} : y.id = z.id => y = z
    BY <2>1 DEF Numbered
  <2>4. QED
    BY <1>3, <2>2, <2>3 DEF Numbered
<1>5. ASSUME NEW t
      PROVE  Tokens(Of(S \cup {x}, t)) = Tokens(Of(S, t))
  <2>1. CASE x.of = t
    <3>1. Of(S \cup {x}, t) = Of(S, t) \cup {x} /\ x \notin Of(S, t)
      BY <1>2, <2>1 DEF Of
    <3>2. Tokens(Of(S, t) \cup {x}) = Tokens(Of(S, t)) + x.tokens /\ Tokens(Of(S, t)) \in Nat
      BY <3>1, OfAreCounted, TokensOfMore
    <3>3. QED
      BY <3>1, <3>2
  <2>2. CASE x.of # t
    <3>1. Of(S \cup {x}, t) = Of(S, t)
      BY <2>2 DEF Of
    <3>2. QED
      BY <3>1
  <2>3. QED
    BY <2>1, <2>2
<1>6. QED
  BY <1>3, <1>4, <1>5

(* A cancel that is asked for: the tokens are what they were.              *)
LEMMA CancelKeepsTokens ==
    ASSUME NEW S, Numbered(S), \A x \in S : IsDecode(x), NEW i
    PROVE  /\ Numbered(CancelIn(S, i)) /\ Cardinality(CancelIn(S, i)) = Cardinality(S)
           /\ \A t : Tokens(Of(CancelIn(S, i), t)) = Tokens(Of(S, t))
           /\ \A y \in CancelIn(S, i) :
                 \E x \in S : /\ y.id = x.id /\ y.of = x.of /\ y.tokens = x.tokens
                              /\ (y.state = "over" <=> x.state = "over")
<1>1. CASE \A x \in S : ~(x.id = i /\ x.state = "running")
  <2>1. CancelIn(S, i) = S
    BY <1>1 DEF CancelIn
  <2>2. QED
    BY <2>1
<1>2. ASSUME NEW x \in S, x.id = i, x.state = "running"
      PROVE  /\ Numbered(CancelIn(S, i)) /\ Cardinality(CancelIn(S, i)) = Cardinality(S)
             /\ \A t : Tokens(Of(CancelIn(S, i), t)) = Tokens(Of(S, t))
             /\ \A y \in CancelIn(S, i) :
                   \E z \in S : /\ y.id = z.id /\ y.of = z.of /\ y.tokens = z.tokens
                                /\ (y.state = "over" <=> z.state = "over")
  <2>1. PICK y : y = [x EXCEPT !.state = "cancelled"]
    OBVIOUS
  <2>2. x = [id |-> x.id, of |-> x.of, state |-> x.state, tokens |-> x.tokens]
    BY DEF IsDecode
  <2>3. y = [id |-> x.id, of |-> x.of, state |-> "cancelled", tokens |-> x.tokens]
    BY <2>1, <2>2
  <2>4. y.id = x.id /\ y.of = x.of /\ y.tokens = x.tokens /\ y.state = "cancelled"
    BY <2>3
  <2>5. \A z \in S : z.id = i => z = x
    BY <1>2 DEF Numbered
  <2>6. CancelIn(S, i) = (S \ {x}) \cup {y}
    BY <1>2, <2>1, <2>5 DEF CancelIn
  <2>7. y.tokens \in Nat
    BY <2>4 DEF Numbered
  <2>8. PICK T : T = (S \ {x}) \cup {y}
    OBVIOUS
  <2>9. /\ Numbered(T) /\ Cardinality(T) = Cardinality(S)
        /\ \A t : t # x.of => Tokens(Of(T, t)) = Tokens(Of(S, t))
        /\ Tokens(Of(T, x.of)) + x.tokens = Tokens(Of(S, x.of)) + y.tokens
        /\ {Tokens(Of(S, x.of)), Tokens(Of(T, x.of))} \subseteq Nat
    BY <2>4, <2>7, <2>8, Replaced
  <2>10. Tokens(Of(T, x.of)) = Tokens(Of(S, x.of))
    BY <2>4, <2>7, <2>9
  <2>11. \A z \in T : \E w \in S : /\ z.id = w.id /\ z.of = w.of /\ z.tokens = w.tokens
                                   /\ (z.state = "over" <=> w.state = "over")
    BY <1>2, <2>4, <2>8
  <2>12. QED
    BY <2>6, <2>8, <2>9, <2>10, <2>11
<1>3. QED
  BY <1>1, <1>2

-----------------------------------------------------------------------------
Stats == [produced : Nat, discarded : Nat]

\* Every decode of the session was started in one of its turns and is counted.
Accounted ==
    /\ Numbered(decodes) /\ \A x \in decodes : x.of \in 1 .. turn
    /\ turn \in 0 .. MaxTurns /\ stats \in Stats /\ spec \in [Turn -> Stats]

\* What runs in a turn was started in it.
OwnInFlight == \A x \in InFlight : x.of = turn
\* Every token of the turn's decodes is in its figures, and no other.
AllCounted == stats.produced = Tokens(Spent(turn))
\* A decode is discarded once, with what it had produced by then.
DiscardedOnce ==
    /\ stats.discarded <= stats.produced
    /\ \A x \in InFlight : stats.discarded + x.tokens <= stats.produced
\* The arm that starts at the first partial resets figures that are still zero.
NothingToReset == talking /\ plan[turn] = "partial" /\ begun # turn => Spent(turn) = {}
\* The figures are put on the turn's record, and stay as they were put there.
PutOnRecord == Settled => spec[turn] = stats

OwnCount ==
    /\ OwnInFlight /\ AllCounted /\ DiscardedOnce /\ NothingToReset /\ PutOnRecord

FInv == Accounted /\ (~excused => OwnCount)

\* What the steps do to the decodes, seen from their sums.
Recounted(S) ==
    /\ Numbered(S)
    /\ \A t : Tokens(Of(S, t)) = Tokens(Of(decodes, t))
KeptOrCancelled ==
    /\ Recounted(decodes')
    /\ \A y \in decodes' : \E x \in decodes : /\ y.of = x.of /\ y.tokens = x.tokens
                                              /\ (y.state = "over" <=> x.state = "over")
StartedIn(t) ==
    /\ Recounted(decodes')
    /\ \A y \in decodes' :
          \/ y.of = t /\ y.tokens = 0
          \/ \E x \in decodes : /\ y.of = x.of /\ y.tokens = x.tokens
                                /\ (y.state = "over" <=> x.state = "over")

LEMMA UnchangedIsKept ==
    ASSUME Accounted, decodes' = decodes
    PROVE  KeptOrCancelled
BY DEF Accounted, KeptOrCancelled, Recounted

LEMMA CancelIsKept ==
    ASSUME Accounted, Shapes, NEW i, decodes' = CancelIn(decodes, i)
    PROVE  KeptOrCancelled
<1>1. Numbered(decodes) /\ \A x \in decodes : IsDecode(x)
  BY DEF Accounted, Shapes
<1>2. /\ Numbered(CancelIn(decodes, i))
      /\ \A t : Tokens(Of(CancelIn(decodes, i), t)) = Tokens(Of(decodes, t))
      /\ \A y \in CancelIn(decodes, i) :
            \E x \in decodes : /\ y.id = x.id /\ y.of = x.of /\ y.tokens = x.tokens
                               /\ (y.state = "over" <=> x.state = "over")
  BY <1>1, CancelKeepsTokens
<1>3. QED
  BY <1>2 DEF KeptOrCancelled, Recounted

LEMMA NewIsStarted ==
    ASSUME Accounted, NEW t, decodes' = decodes \cup {NewDecode(t)}
    PROVE  StartedIn(t)
<1>1. PICK x : x = NewDecode(t)
  OBVIOUS
<1>2. x.id = Cardinality(decodes) + 1 /\ x.of = t /\ x.tokens = 0
  BY <1>1 DEF NewDecode
<1>3. Numbered(decodes)
  BY DEF Accounted
<1>4. /\ Numbered(decodes \cup {x})
      /\ \A u : Tokens(Of(decodes \cup {x}, u)) = Tokens(Of(decodes, u))
  BY <1>2, <1>3, Started
<1>5. decodes' = decodes \cup {x}
  BY <1>1
<1>6. QED
  BY <1>2, <1>4, <1>5 DEF StartedIn, Recounted

LEMMA StartDecodeStarts ==
    ASSUME Accounted, Shapes, NEW t, StartDecode(t)
    PROVE  StartedIn(t)
<1>1. Numbered(decodes) /\ \A x \in decodes : IsDecode(x)
  BY DEF Accounted, Shapes
<1>2. PICK S : S = CancelIn(decodes, held)
  OBVIOUS
<1>3. /\ Numbered(S) /\ Cardinality(S) = Cardinality(decodes)
      /\ \A u : Tokens(Of(S, u)) = Tokens(Of(decodes, u))
      /\ \A y \in S : \E x \in decodes : /\ y.id = x.id /\ y.of = x.of /\ y.tokens = x.tokens
                                         /\ (y.state = "over" <=> x.state = "over")
  BY <1>1, <1>2, CancelKeepsTokens
<1>4. PICK n : n = NewDecode(t)
  OBVIOUS
<1>5. n.id = Cardinality(S) + 1 /\ n.of = t /\ n.tokens = 0
  BY <1>3, <1>4 DEF NewDecode
<1>6. Numbered(S \cup {n}) /\ \A u : Tokens(Of(S \cup {n}, u)) = Tokens(Of(S, u))
  BY <1>3, <1>5, Started
<1>7. decodes' = S \cup {n}
  BY <1>2, <1>4 DEF StartDecode
<1>8. QED
  BY <1>3, <1>5, <1>6, <1>7 DEF StartedIn, Recounted

(* A decode that is kept is of a turn that was; a new one of the turn that *)
(* starts it.                                                              *)
LEMMA StaysAccounted ==
    ASSUME Accounted, KeptOrCancelled \/ StartedIn(turn'), turn' \in 0 .. MaxTurns,
           turn' = turn \/ turn' = turn + 1, turn' # 0,
           stats' \in Stats, spec' \in [Turn -> Stats]
    PROVE  Accounted'
<1>1. Numbered(decodes')
  BY DEF KeptOrCancelled, StartedIn, Recounted
<1>2. turn \in Nat /\ turn' \in Nat
  BY BoundsAssumption DEF Accounted
<1>3. turn' \in 1 .. turn' /\ \A x \in decodes : x.of \in 1 .. turn'
  BY <1>2 DEF Accounted
<1>4. \A y \in decodes' : y.of \in 1 .. turn'
  BY <1>3 DEF KeptOrCancelled, StartedIn
<1>5. QED
  BY <1>1, <1>4 DEF Accounted

LEMMA NoStatsAreStats == NoStats \in Stats /\ NoStats.produced = 0 /\ NoStats.discarded = 0
BY DEF NoStats, Stats

LEMMA InitFigures == Init => FInv
<1> SUFFICES ASSUME Init PROVE FInv
  OBVIOUS
<1>1. /\ turn = 0 /\ talking = FALSE /\ decodes = {} /\ stats = NoStats
      /\ spec = [t \in Turn |-> NoStats]
  BY DEF Init
<1>2. Accounted
  <2>1. Numbered({})
    BY FS_EmptySet DEF Numbered
  <2>2. turn \in 0 .. MaxTurns
    BY <1>1, BoundsAssumption
  <2>3. QED
    BY <1>1, <2>1, <2>2, NoStatsAreStats DEF Accounted
<1>3. Spent(turn) = {} /\ InFlight = {}
  BY <1>1 DEF Spent, InFlight
<1>4. OwnCount
  BY <1>1, <1>3, TokensOfNone, NoStatsAreStats
  DEF OwnCount, OwnInFlight, AllCounted, DiscardedOnce, NothingToReset, PutOnRecord, Settled
<1>5. QED
  BY <1>2, <1>4 DEF FInv

(* The onset of a turn, when the turn before is over: the figures start at *)
(* zero, and so do the turn's decodes.                                     *)
LEMMA OnsetFigures ==
    ASSUME IInv, FInv, UserStarts
    PROVE  FInv'
<1>1. Shapes /\ ClosedIsOver /\ BeforeTheFirst /\ Accounted
  BY DEF IInv, FInv
<1>2. /\ ~talking /\ turn < MaxTurns /\ turn' = turn + 1 /\ talking' = TRUE
      /\ excused' = (excused \/ open) /\ stats' = NoStats
      /\ UNCHANGED <<plan, finals, begun, decisions, ender, spec>>
      /\ IF plan[turn + 1] = "onset" THEN StartDecode(turn + 1) ELSE UNCHANGED <<decodes, held>>
  BY DEF UserStarts, FreshStats
<1>3. turn' \in 0 .. MaxTurns /\ turn' # 0 /\ turn \in Nat
  BY <1>1, <1>2, BoundsAssumption DEF Accounted
<1>4. /\ plan[turn + 1] = "onset" => StartedIn(turn')
      /\ plan[turn + 1] # "onset" => decodes' = decodes
  BY <1>1, <1>2, StartDecodeStarts
<1>5. KeptOrCancelled \/ StartedIn(turn')
  BY <1>1, <1>4, UnchangedIsKept
<1>6. Accounted'
  BY <1>1, <1>2, <1>3, <1>5, NoStatsAreStats, StaysAccounted DEF Accounted
<1>7. ASSUME ~excused'
      PROVE  OwnCount'
  <2>1. ~open /\ InOrder
    BY <1>2, <1>7 DEF IInv
  <2>2. InFlight = {}
    <3>1. finals = 0 /\ ender = Idle
      BY <1>1, <2>1 DEF ClosedIsOver
    <3>2. CASE turn = 0
      BY <1>1, <3>2 DEF BeforeTheFirst, InFlight
    <3>3. CASE turn # 0
      BY <1>2, <2>1, <3>1, <3>3 DEF InOrder, CancelledAtTurnEnd, Settled
    <3>4. QED
      BY <3>2, <3>3
  <2>3. Of(decodes, turn') = {}
    BY <1>1, <1>2, <1>3 DEF Accounted, Of
  <2>4. Tokens(Of(decodes', turn')) = 0
    BY <1>5, <2>3, TokensOfNone DEF KeptOrCancelled, StartedIn, Recounted
  <2>5. AllCounted'
    BY <1>2, <2>4, NoStatsAreStats DEF AllCounted, Spent, Of
  <2>6. \A y \in InFlight' : y.of = turn' /\ y.tokens = 0
    BY <1>4, <2>2 DEF InFlight, StartedIn
  <2>7. OwnInFlight' /\ DiscardedOnce'
    BY <1>2, <2>6, NoStatsAreStats DEF OwnInFlight, DiscardedOnce
  <2>8. NothingToReset'
    <3>1. CASE plan[turn + 1] = "onset"
      BY <1>2, <3>1 DEF NothingToReset
    <3>2. CASE plan[turn + 1] # "onset"
      BY <1>4, <2>3, <3>2 DEF NothingToReset, Spent, Of
    <3>3. QED
      BY <3>1, <3>2
  <2>9. PutOnRecord'
    BY <1>2 DEF PutOnRecord, Settled
  <2>10. QED
    BY <2>5, <2>7, <2>8, <2>9 DEF OwnCount
<1>8. QED
  BY <1>6, <1>7 DEF FInv

(* A step in which nothing is counted, reset or put on record.             *)
LEMMA NothingCounted ==
    ASSUME FInv, UNCHANGED <<plan, turn, begun, decodes, stats, spec>>,
           ~excused' => ~excused /\ (talking' => talking) /\ (Settled' => Settled)
    PROVE  FInv'
<1>1. Accounted'
  BY DEF FInv, Accounted
<1>2. ASSUME ~excused'
      PROVE  OwnCount'
  <2>1. OwnCount /\ (talking' => talking) /\ (Settled' => Settled)
    BY <1>2 DEF FInv
  <2>2. OwnInFlight' /\ AllCounted' /\ DiscardedOnce'
    BY <2>1 DEF OwnCount, OwnInFlight, AllCounted, DiscardedOnce, InFlight, Spent
  <2>3. NothingToReset' /\ PutOnRecord'
    BY <2>1 DEF OwnCount, NothingToReset, PutOnRecord, Spent
  <2>4. QED
    BY <2>2, <2>3 DEF OwnCount
<1>3. QED
  BY <1>1, <1>2 DEF FInv

(* A partial: its arm resets the figures before its first decode, when     *)
(* there is nothing in them.                                               *)
LEMMA PartialFigures ==
    ASSUME IInv, FInv, PartialArrives
    PROVE  FInv'
<1>1. Shapes /\ ClosedIsOver /\ BeforeTheFirst /\ Accounted
  BY DEF IInv, FInv
<1>2. /\ talking /\ UNCHANGED <<plan, turn, talking, open, finals, ender, spec, excused>>
      /\ IF Arm = "partial" /\ begun # turn
         THEN begun' = turn /\ stats' = NoStats /\ StartDecode(turn)
         ELSE UNCHANGED <<begun, stats, decodes, held>>
  BY DEF PartialArrives, FreshStats
<1>3. turn # 0
  BY <1>1, <1>2, OpenTurn
<1>4. CASE ~(Arm = "partial" /\ begun # turn)
  <2>1. UNCHANGED <<begun, stats, decodes>>
    BY <1>2, <1>4
  <2>2. Settled' => Settled
    BY <1>2 DEF Settled
  <2>3. QED
    BY <1>2, <2>1, <2>2, NothingCounted
<1>5. CASE Arm = "partial" /\ begun # turn
  <2>1. StartedIn(turn) /\ begun' = turn /\ stats' = NoStats
    BY <1>1, <1>2, <1>5, StartDecodeStarts
  <2>2. Accounted'
    BY <1>1, <1>2, <1>3, <2>1, NoStatsAreStats, StaysAccounted DEF Accounted
  <2>3. ASSUME ~excused'
        PROVE  OwnCount'
    <3>1. InOrder /\ OwnCount
      BY <1>2, <2>3 DEF IInv, FInv
    <3>2. InFlight = {} /\ Of(decodes, turn) = {}
      BY <1>2, <1>5, <3>1
      DEF InOrder, NotBegun, OwnCount, NothingToReset, Arm, Spent, Of
    <3>3. Tokens(Of(decodes', turn)) = 0
      BY <2>1, <3>2, TokensOfNone DEF StartedIn, Recounted
    <3>4. AllCounted'
      BY <1>2, <2>1, <3>3, NoStatsAreStats DEF AllCounted, Spent, Of
    <3>5. \A y \in InFlight' : y.of = turn /\ y.tokens = 0
      BY <2>1, <3>2 DEF InFlight, StartedIn
    <3>6. OwnInFlight' /\ DiscardedOnce'
      BY <1>2, <2>1, <3>5, NoStatsAreStats DEF OwnInFlight, DiscardedOnce
    <3>7. NothingToReset' /\ PutOnRecord'
      BY <1>2, <2>1 DEF NothingToReset, PutOnRecord, Settled
    <3>8. QED
      BY <3>4, <3>6, <3>7 DEF OwnCount
  <2>4. QED
    BY <2>2, <2>3 DEF FInv
<1>6. QED
  BY <1>4, <1>5

(* A decision starts a decode of the open turn, when none is in flight, or *)
(* cancels one; it counts nothing.                                         *)
LEMMA DecisionFigures ==
    ASSUME IInv, FInv, Decide
    PROVE  FInv'
<1>1. Shapes /\ ClosedIsOver /\ BeforeTheFirst /\ Accounted
  BY DEF IInv, FInv
<1>2. PICK d \in decisions : Scored(d) \/ Prefilled(d) \/ CancelAwaited(d) \/ SlotFree(d)
  BY DEF Decide
<1>3. UNCHANGED <<plan, turn, talking, open, finals, begun, ender, stats, spec>>
  BY DEF Decide, turnVars
<1>4. turn # 0
  BY <1>1, <1>2, OpenTurn
<1>5. KeptOrCancelled \/ StartedIn(turn)
  <2>1. \/ decodes' = decodes
        \/ decodes' = CancelIn(decodes, held)
        \/ decodes' = decodes \cup {NewDecode(turn)}
    <3>1. CASE Scored(d)
      BY <3>1 DEF Scored, NotIssued, Commit, Issue
    <3>2. CASE Prefilled(d)
      BY <3>2 DEF Prefilled, NotIssued, Commit, Issue
    <3>3. CASE CancelAwaited(d)
      BY <3>3 DEF CancelAwaited
    <3>4. CASE SlotFree(d)
      BY <3>4 DEF SlotFree, Issue
    <3>5. QED
      BY <1>2, <3>1, <3>2, <3>3, <3>4
  <2>2. QED
    BY <1>1, <2>1, UnchangedIsKept, CancelIsKept, NewIsStarted
<1>6. Accounted'
  BY <1>1, <1>3, <1>4, <1>5, StaysAccounted DEF Accounted
<1>7. ASSUME ~excused'
      PROVE  OwnCount'
  <2>1. ~excused
    BY <1>2, <1>7 DEF Scored, Prefilled, CancelAwaited, SlotFree, Commit, NotIssued
  <2>2. InOrder /\ OwnCount
    BY <2>1 DEF IInv, FInv
  <2>3. (talking \/ finals = 1) /\ plan[turn] \in PolicyArm
    BY <1>2, <2>2 DEF InOrder, DecidedInTime
  <2>4. StartsAlone(d) \/ CancelsAlone(d) \/ Waits(d) \/ Frees(d)
    BY <1>1, <1>2, <1>7, <2>2, DecisionSteps DEF InOrder
  <2>5. KeptOrCancelled \/ (StartedIn(turn) /\ InFlight = {})
    BY <1>1, <2>4, UnchangedIsKept, CancelIsKept, NewIsStarted
    DEF StartsAlone, CancelsAlone, Waits, Frees
  <2>6. Tokens(Of(decodes', turn)) = Tokens(Of(decodes, turn))
    BY <2>5 DEF KeptOrCancelled, StartedIn, Recounted
  <2>7. AllCounted'
    BY <1>3, <2>2, <2>6 DEF OwnCount, AllCounted, Spent, Of
  <2>8. \A y \in InFlight' :
            \/ y.of = turn /\ y.tokens = 0
            \/ \E x \in InFlight : y.of = x.of /\ y.tokens = x.tokens
    BY <2>5 DEF KeptOrCancelled, StartedIn, InFlight
  <2>9. OwnInFlight'
    BY <1>3, <2>2, <2>8 DEF OwnCount, OwnInFlight
  <2>10. DiscardedOnce'
    <3>1. stats.discarded \in Nat /\ stats.discarded + 0 = stats.discarded
      BY <1>1 DEF Accounted, Stats
    <3>2. QED
      BY <1>3, <2>2, <2>8, <3>1 DEF OwnCount, DiscardedOnce
  <2>11. NothingToReset' /\ PutOnRecord'
    <3>1. plan[turn] # "partial"
      BY <2>3 DEF PolicyArm
    <3>2. QED
      BY <1>3, <2>3, <3>1 DEF NothingToReset, PutOnRecord, Settled
  <2>12. QED
    BY <2>7, <2>9, <2>10, <2>11 DEF OwnCount
<1>8. QED
  BY <1>6, <1>7 DEF FInv

(* A token is counted once, in the figures of the turn that started its    *)
(* decode; a cancel that lands discards what its decode had, and nothing   *)
(* is in flight then.                                                      *)
LEMMA SpeculateFigures ==
    ASSUME IInv, FInv, Speculate
    PROVE  FInv'
<1>1. Shapes /\ Accounted
  BY DEF IInv, FInv
<1>2. UNCHANGED <<plan, turn, talking, open, finals, begun, held, ender, spec, excused>>
  BY DEF Speculate, turnVars
<1>3. PICK x \in decodes : Token(x) \/ Completes(x) \/ CancelLands(x)
  BY DEF Speculate
<1>4. /\ x = [id |-> x.id, of |-> x.of, state |-> x.state, tokens |-> x.tokens]
      /\ x.state # "over" /\ x.tokens \in Nat /\ x.of \in 1 .. turn
  BY <1>1, <1>3 DEF Shapes, IsDecode, Accounted, Numbered, Token, Completes, CancelLands
<1>5. stats = [produced |-> stats.produced, discarded |-> stats.discarded]
      /\ stats.produced \in Nat /\ stats.discarded \in Nat
  BY <1>1 DEF Accounted, Stats
<1>6. PICK y :
          /\ decodes' = (decodes \ {x}) \cup {y} /\ y.id = x.id /\ y.of = x.of
          /\ \/ /\ y.tokens = x.tokens + 1 /\ y.state = x.state
                /\ stats' = [produced |-> stats.produced + 1, discarded |-> stats.discarded]
             \/ y.tokens = x.tokens /\ y.state = "over" /\ stats' = stats
             \/ /\ y.tokens = x.tokens /\ y.state = "over"
                /\ stats' = [produced |-> stats.produced,
                             discarded |-> stats.discarded + x.tokens]
  <2>1. CASE Token(x)
    <3>1. PICK y : y = [x EXCEPT !.tokens = @ + 1]
      OBVIOUS
    <3>2. y = [id |-> x.id, of |-> x.of, state |-> x.state, tokens |-> x.tokens + 1]
      BY <1>4, <3>1
    <3>3. decodes' = (decodes \ {x}) \cup {y} /\ stats' = [stats EXCEPT !.produced = @ + 1]
      BY <2>1, <3>1 DEF Token
    <3>4. stats' = [produced |-> stats.produced + 1, discarded |-> stats.discarded]
      BY <1>5, <3>3
    <3>5. y.id = x.id /\ y.of = x.of /\ y.tokens = x.tokens + 1 /\ y.state = x.state
      BY <3>2
    <3>6. QED
      BY <3>3, <3>4, <3>5
  <2>2. ASSUME Completes(x) \/ CancelLands(x)
        PROVE  \E y : /\ decodes' = (decodes \ {x}) \cup {y} /\ y.id = x.id /\ y.of = x.of
                      /\ y.tokens = x.tokens /\ y.state = "over"
    <3>1. PICK y : y = [x EXCEPT !.state = "over"]
      OBVIOUS
    <3>2. y = [id |-> x.id, of |-> x.of, state |-> "over", tokens |-> x.tokens]
      BY <1>4, <3>1
    <3>3. decodes' = (decodes \ {x}) \cup {y}
      BY <2>2, <3>1 DEF Completes, CancelLands
    <3>4. QED
      BY <3>2, <3>3
  <2>3. CancelLands(x) => stats' = [produced |-> stats.produced,
                                    discarded |-> stats.discarded + x.tokens]
    BY <1>5 DEF CancelLands, Discarded
  <2>4. Completes(x) => stats' = stats
    BY DEF Completes
  <2>5. QED
    BY <1>3, <2>1, <2>2, <2>3, <2>4
<1>7. y.tokens \in Nat
  BY <1>4, <1>6
<1>8. /\ Numbered(decodes')
      /\ Tokens(Of(decodes', x.of)) + x.tokens = Tokens(Of(decodes, x.of)) + y.tokens
      /\ {Tokens(Of(decodes, x.of)), Tokens(Of(decodes', x.of))} \subseteq Nat
  <2>1. PICK T : T = decodes'
    OBVIOUS
  <2>2. Numbered(decodes) /\ T = (decodes \ {x}) \cup {y} /\ y.id = x.id /\ y.of = x.of
    BY <1>1, <1>6, <2>1 DEF Accounted
  <2>3. /\ Numbered(T)
        /\ Tokens(Of(T, x.of)) + x.tokens = Tokens(Of(decodes, x.of)) + y.tokens
        /\ {Tokens(Of(decodes, x.of)), Tokens(Of(T, x.of))} \subseteq Nat
    BY <1>7, <2>2, Replaced
  <2>4. QED
    BY <2>1, <2>3
<1>9. Accounted'
  <2>1. stats' \in Stats
    BY <1>4, <1>5, <1>6 DEF Stats
  <2>2. \A z \in decodes' : z.of \in 1 .. turn
    BY <1>1, <1>4, <1>6 DEF Accounted
  <2>3. QED
    BY <1>1, <1>2, <1>8, <2>1, <2>2 DEF Accounted
<1>10. ASSUME ~excused'
       PROVE  OwnCount'
  <2>1. InOrder /\ OwnCount
    BY <1>2, <1>10 DEF IInv, FInv
  <2>2. x \in InFlight /\ x.of = turn
    BY <1>4, <2>1 DEF OwnCount, OwnInFlight, InFlight
  <2>3. \A z \in InFlight' : z = y /\ y.state # "over"
    <3>1. \A z \in InFlight : z.id = x.id
      BY <2>1, <2>2 DEF InOrder, HeldIsAll
    <3>2. \A z \in InFlight : z = x
      BY <1>1, <3>1 DEF Accounted, Numbered, InFlight
    <3>3. QED
      BY <1>6, <3>2 DEF InFlight
  <2>4. OwnInFlight'
    BY <1>2, <1>6, <2>2, <2>3 DEF OwnInFlight
  <2>5. stats.produced = Tokens(Of(decodes, turn)) /\ stats.discarded + x.tokens <= stats.produced
    BY <2>1, <2>2 DEF OwnCount, AllCounted, DiscardedOnce, Spent, Of
  <2>6. stats'.produced + x.tokens = stats.produced + y.tokens
    BY <1>4, <1>5, <1>6
  <2>7. stats'.produced = Tokens(Of(decodes', turn))
    <3>1. stats'.produced \in Nat
      BY <1>9 DEF Accounted, Stats
    <3>2. QED
      BY <1>4, <1>5, <1>7, <1>8, <2>2, <2>5, <2>6, <3>1
  <2>8. AllCounted'
    BY <1>2, <2>7 DEF AllCounted, Spent, Of
  <2>9. DiscardedOnce'
    <3>1. stats'.discarded <= stats'.produced
      BY <1>4, <1>5, <1>6, <2>5
    <3>2. y.state # "over" => stats'.discarded + y.tokens <= stats'.produced
      BY <1>4, <1>5, <1>6, <2>5
    <3>3. QED
      BY <2>3, <3>1, <3>2 DEF DiscardedOnce
  <2>10. NothingToReset'
    <3>1. x \in Spent(turn)
      BY <2>2 DEF Spent
    <3>2. QED
      BY <1>2, <2>1, <3>1 DEF OwnCount, NothingToReset
  <2>11. PutOnRecord'
    BY <1>2, <2>1, <2>2 DEF InOrder, CancelledAtTurnEnd, PutOnRecord, Settled
  <2>12. QED
    BY <2>4, <2>8, <2>9, <2>10, <2>11 DEF OwnCount
<1>11. QED
  BY <1>9, <1>10 DEF FInv

(* The end of the turn's speculation puts its figures on the open turn.    *)
LEMMA EndFigures ==
    ASSUME IInv, FInv, EndSpeculation
    PROVE  FInv'
<1>1. Shapes /\ ClosedIsOver /\ BeforeTheFirst /\ Accounted
  BY DEF IInv, FInv
<1>2. UNCHANGED <<plan, turn, talking, open, finals, begun, stats, excused>>
  BY DEF EndSpeculation, turnVars
<1>3. ender # Idle
  BY IdleIs DEF EndSpeculation
<1>4. open /\ turn # 0
  BY <1>1, <1>3, OpenTurn DEF ClosedIsOver
<1>5. turn \in Turn
  BY <1>1, <1>4, BoundsAssumption DEF Accounted, Turn
<1>6. KeptOrCancelled /\ spec' \in [Turn -> Stats] /\ (Settled' => spec'[turn] = stats)
  <2>1. CASE ender.at = "asked" /\ Busy
    <3>1. /\ decodes' = CancelIn(decodes, held) /\ spec' = spec
          /\ ender' = [at |-> "awaiting", target |-> held]
      BY <2>1 DEF EndSpeculation
    <3>2. ender' # Idle
      BY <3>1, IdleIs
    <3>3. QED
      BY <1>1, <3>1, <3>2, CancelIsKept DEF Accounted, Settled
  <2>2. CASE \/ ender.at = "asked" /\ ~Busy /\ Ended(0)
             \/ ender.at = "awaiting" /\ Over(ender.target) /\ Ended(ender.target)
    <3>1. decodes' = decodes /\ spec' = [spec EXCEPT ![turn] = stats]
      BY <1>4, <2>2 DEF Ended
    <3>2. QED
      BY <1>1, <1>5, <3>1, UnchangedIsKept DEF Accounted
  <2>3. QED
    BY <2>1, <2>2 DEF EndSpeculation
<1>7. Accounted'
  BY <1>1, <1>2, <1>4, <1>6, StaysAccounted DEF Accounted
<1>8. ASSUME ~excused'
      PROVE  OwnCount'
  <2>1. InOrder /\ OwnCount
    BY <1>2, <1>8 DEF IInv, FInv
  <2>2. ~talking
    BY <1>3, <2>1 DEF InOrder, OneFinal
  <2>3. AllCounted'
    BY <1>2, <1>6, <2>1
    DEF OwnCount, AllCounted, Spent, Of, KeptOrCancelled, Recounted
  <2>4. \A y \in InFlight' : \E x \in InFlight : y.of = x.of /\ y.tokens = x.tokens
    BY <1>6 DEF KeptOrCancelled, InFlight
  <2>5. OwnInFlight' /\ DiscardedOnce'
    BY <1>2, <2>1, <2>4 DEF OwnCount, OwnInFlight, DiscardedOnce
  <2>6. NothingToReset' /\ PutOnRecord'
    BY <1>2, <1>6, <2>2 DEF NothingToReset, PutOnRecord
  <2>7. QED
    BY <2>3, <2>5, <2>6 DEF OwnCount
<1>9. QED
  BY <1>7, <1>8 DEF FInv

LEMMA FiguresInvariance == Spec => []FInv
<1>1. IInv /\ FInv /\ [Next]_vars => FInv'
  <2> SUFFICES ASSUME IInv, FInv, [Next]_vars
               PROVE  FInv'
    OBVIOUS
  <2>1. CASE UserStarts
    BY <2>1, OnsetFigures
  <2>2. CASE UserStops
    <3>1. /\ UNCHANGED <<plan, turn, begun, decodes, stats, spec, excused>>
          /\ talking' = FALSE /\ finals' = finals + 1 /\ finals \in Nat
      BY <2>2 DEF UserStops, taskVars, recordVars, IInv, Shapes
    <3>2. ~Settled'
      BY <3>1 DEF Settled
    <3>3. QED
      BY <3>1, <3>2, NothingCounted
  <2>3. CASE PartialArrives
    BY <2>3, PartialFigures
  <2>4. CASE FinalLands
    <3>1. PICK text \in BOOLEAN :
              /\ ender' = IF text THEN [Idle EXCEPT !.at = "asked"] ELSE Idle
              /\ excused' = (excused \/ ~text \/ decisions # {})
      BY <2>4 DEF FinalLands
    <3>2. UNCHANGED <<plan, turn, talking, begun, decodes, stats, spec>>
      BY <2>4 DEF FinalLands, recordVars
    <3>3. ~excused' => ender' # Idle
      <4>1. [Idle EXCEPT !.at = "asked"] = [at |-> "asked", target |-> 0]
        BY DEF Idle
      <4>2. QED
        BY <3>1, <4>1, IdleIs
    <3>4. ~excused' => ~excused /\ ~Settled'
      BY <3>1, <3>3 DEF Settled
    <3>5. QED
      BY <3>2, <3>4, NothingCounted
  <2>5. CASE TurnCloses \/ UNCHANGED vars
    <3>1. UNCHANGED <<plan, turn, talking, finals, begun, decodes, ender, stats, spec, excused>>
      BY <2>5 DEF TurnCloses, vars, turnVars, taskVars, recordVars
    <3>2. Settled' => Settled
      BY <3>1 DEF Settled
    <3>3. QED
      BY <3>1, <3>2, NothingCounted
  <2>6. CASE Decide
    BY <2>6, DecisionFigures
  <2>7. CASE Speculate
    BY <2>7, SpeculateFigures
  <2>8. CASE EndSpeculation
    BY <2>8, EndFigures
  <2>9. QED
    BY <2>1, <2>2, <2>3, <2>4, <2>5, <2>6, <2>7, <2>8 DEF Next
<1>2. QED
  BY <1>1, InitFigures, Invariance, PTL DEF Spec

(* A turn's figures are its own, for any plan and any number of tokens, in *)
(* a session without an overlap: its record counts every token of the      *)
(* decodes it started and no other's, no more is discarded than was        *)
(* produced, and the estimate it is decided on is of a quiet rail.         *)
THEOREM FiguresAreOwn == Spec => []OwnFigures
<1>1. FInv /\ (~excused => estimate # "own") => OwnFigures
  BY DEF FInv, OwnCount, AllCounted, DiscardedOnce, PutOnRecord, OwnFigures
<1>2. QED
  BY <1>1, FiguresInvariance, NeverOursOnTheRail, PTL
================================================================================
