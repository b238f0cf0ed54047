------------------------------ MODULE Speculation ------------------------------
(***************************************************************************)
(* Speculative decoding while the user speaks: the driver that holds the   *)
(* decode in flight (speculation.py), the decision task of every partial   *)
(* (policy_runner.py) and the observer that starts and ends them           *)
(* (observer.py).  The tasks of one event loop interleave wherever they    *)
(* await: the trigger's score, the prefill, a cancelled decode, the slot.  *)
(* The server answers in its own time; tokens are only counted.            *)
(***************************************************************************)
EXTENDS Naturals, FiniteSets, FiniteSetsExt

CONSTANTS MaxTurns,    \* turns in a session
          MaxSplits,   \* of them, those that cut the turn before
          MaxPartials, \* partials emitted in a turn
          MaxTokens,   \* tokens streamed by a decode
          Plans        \* what each turn was planned to run

\* Phase 2 starts a decode at the onset or at the first partial, or has a
\* budget of zero; a phase 3 policy decides at every partial.
FixedArm == {"none", "onset", "partial"}
PolicyArm == {"reactive", "prefill", "continue", "resend"}
Turn == 1 .. MaxTurns
Id == 1 .. 2 * MaxTurns * (MaxPartials + 1)

ASSUME BoundsAssumption == {MaxTurns, MaxSplits, MaxPartials, MaxTokens} \subseteq Nat
ASSUME PlansAssumption == Plans \subseteq [Turn -> FixedArm] \cup [Turn -> PolicyArm]

VARIABLES plan,      \* the schedule, by playlist position
          turn,      \* _turn
          talking,   \* its user is speaking
          open,      \* it is not closed
          finals,    \* endpoints whose final has not landed
          splits,    \* turns started before the last one's final
          partials,  \* partials the turn has emitted
          begun,     \* _spec_started_turn
          decisions, \* tasks of on_partial(), and where they are suspended
          seen,      \* partials_seen
          decodes,   \* tasks of _speculate()
          held,      \* _task, or 0
          ender,     \* the task of _end_speculation()
          stats,     \* self.stats: the tokens it has counted
          spec,      \* what each turn's record says was produced and discarded
          estimate,  \* the detector's _held: none, or whether its window was quiet
          decided,   \* history: the turn each decision was recorded on
          excused    \* history: an overlap that undoes the driver's promises

turnVars == <<plan, turn, talking, open, finals, splits, partials, begun>>
taskVars == <<decisions, seen, decodes, held, ender>>
recordVars == <<stats, spec, decided>>
vars == <<turnVars, taskVars, recordVars, estimate, excused>>

-----------------------------------------------------------------------------
(* Mistakes a change could make; the mutants put them in place.            *)
ForgottenTask == FALSE
CheckedBefore == FALSE
KeptStats == stats
SampledAfter(before, after) == after

-----------------------------------------------------------------------------
NoStats == [produced |-> 0, discarded |-> 0]
Idle == [at |-> "none", target |-> 0]

\* A task is done only when it has ended, not when its cancel was asked for.
InFlight == {x \in decodes : x.state # "over"}
Busy == \E x \in InFlight : x.id = held
Over(i) == \A x \in decodes : x.id = i => x.state = "over"
CancelIn(set, i) ==
    {IF x.id = i /\ x.state = "running" THEN [x EXCEPT !.state = "cancelled"] ELSE x : x \in set}
NewDecode(t) ==
    [id |-> Cardinality(decodes) + 1, of |-> t, state |-> "running", tokens |-> 0]

\* ContentionDetector.sample_once(): the first caller of a turn takes the
\* reading, and the decodes that run by then are on the rail.
SampleOnce(estimated, ours) ==
    IF estimated # "none" THEN estimated ELSE IF ours = {} THEN "quiet" ELSE "own"

\* sample_contention() comes before the decode it is beside.
OnTheRail(before, after) == before

\* --spec-onset vad: every turn of the session is sampled at its onset.
OnsetSession == \E t \in Turn : plan[t] = "onset"

Committing(d) == d.at \in {"cancelling", "freeing"}
\* The arm of a decision is looked up when its trigger has been scored.
Arm == plan[turn]

-----------------------------------------------------------------------------
Init ==
    /\ plan \in Plans
    /\ turn = 0 /\ talking = FALSE /\ open = FALSE
    /\ finals = 0 /\ splits = 0 /\ partials = 0 /\ begun = 0
    /\ decisions = {} /\ seen = 0 /\ decodes = {} /\ held = 0 /\ ender = Idle
    /\ stats = NoStats /\ spec = [t \in Turn |-> NoStats]
    /\ estimate = "none"
    /\ decided = [i \in Id |-> 0]
    /\ excused = FALSE

\* start_turn(): the held decode is cancelled, and another is started.
StartDecode(t) ==
    LET x == NewDecode(t)
    IN  /\ decodes' = CancelIn(decodes, held) \cup {x}
        /\ held' = x.id

\* reset_turn(), for every arm at the onset.
FreshStats == NoStats

\* turn_started(), and the decode of an arm that starts one at the onset.  The
\* gate lets a file play when the last turn is closed; a split does not ask it.
UserStarts ==
    /\ ~talking
    /\ turn < MaxTurns
    /\ open => splits < MaxSplits
    /\ turn' = turn + 1
    /\ talking' = TRUE /\ open' = TRUE /\ partials' = 0
    /\ splits' = splits + (IF open THEN 1 ELSE 0)
    /\ excused' = (excused \/ open)
    /\ stats' = FreshStats
    /\ IF plan[turn + 1] = "onset" THEN StartDecode(turn + 1) ELSE UNCHANGED <<decodes, held>>
    /\ estimate' = IF OnsetSession THEN SampleOnce("none", OnTheRail(InFlight, InFlight')) ELSE "none"
    /\ UNCHANGED <<plan, finals, begun, decisions, seen, ender, spec, decided>>

UserStops ==
    /\ talking
    /\ talking' = FALSE
    /\ finals' = finals + 1
    /\ UNCHANGED <<plan, turn, open, splits, partials, begun, taskVars, recordVars, estimate,
                   excused>>

\* An InterimTranscriptionFrame: the first starts the decode of the "partial"
\* arm, with start_turn() and so with its reset; a policy gets a task for each.
PartialArrives ==
    /\ talking
    /\ partials < MaxPartials
    /\ partials' = partials + 1
    /\ IF Arm = "partial" /\ begun # turn
       THEN begun' = turn /\ stats' = FreshStats /\ StartDecode(turn)
       ELSE UNCHANGED <<begun, stats, decodes, held>>
    /\ IF Arm \in PolicyArm
       THEN /\ seen' = seen + 1
            /\ decisions' = decisions \cup
                   {[id |-> seen + 1, of |-> turn, at |-> "scoring", arm |-> Arm, target |-> 0]}
       ELSE UNCHANGED <<seen, decisions>>
    /\ estimate' = SampleOnce(estimate, OnTheRail(InFlight, InFlight'))
    /\ UNCHANGED <<plan, turn, talking, open, finals, splits, ender, spec, decided, excused>>

\* A TranscriptionFrame ends the speculation; a final with no text pushes none.
FinalLands ==
    /\ finals > 0 /\ ender = Idle
    /\ finals' = finals - 1
    /\ \E text \in BOOLEAN :
          /\ ender' = IF text THEN [Idle EXCEPT !.at = "asked"] ELSE Idle
          /\ excused' = (excused \/ ~text \/ decisions # {})
          /\ estimate' = IF text /\ open THEN SampleOnce(estimate, InFlight) ELSE estimate
    /\ UNCHANGED <<plan, turn, talking, open, splits, partials, begun, decisions, seen, decodes,
                   held, recordVars>>

\* The reply is over; it takes longer than to end the speculation.
TurnCloses ==
    /\ open /\ ~talking /\ finals = 0 /\ ender = Idle
    /\ open' = FALSE
    /\ UNCHANGED <<plan, turn, talking, finals, splits, partials, begun, taskVars, recordVars,
                   estimate, excused>>

-----------------------------------------------------------------------------
(* A decision task; between two of its awaits nothing else runs.           *)

\* note_decision() is the last step, on the turn that is open then.
Recorded(d) ==
    /\ decisions' = decisions \ {d}
    /\ decided' = [decided EXCEPT ![d.id] = IF open THEN turn ELSE MaxTurns + 1]

Suspended(d, at, target) ==
    /\ decisions' = (decisions \ {d}) \cup {[d EXCEPT !.at = at, !.target = target, !.arm = Arm]}
    /\ UNCHANGED decided

Issue(d) ==
    /\ LET x == NewDecode(turn) IN decodes' = decodes \cup {x} /\ held' = x.id
    /\ Recorded(d)

\* What commit() reads before it decides to continue, cancel or issue.
AlreadyInFlight == Busy

\* commit(), to its first await.
Commit(d, resend) ==
    /\ excused' = (excused \/ \E e \in decisions \ {d} : Committing(e))
    /\ IF ~AlreadyInFlight THEN Issue(d)
       ELSE IF ~resend THEN Recorded(d) /\ UNCHANGED <<decodes, held>>
       ELSE /\ decodes' = CancelIn(decodes, held)
            /\ Suspended(d, "cancelling", held)
            /\ UNCHANGED held

NotIssued(d) == Recorded(d) /\ UNCHANGED <<decodes, held, excused>>

\* The trigger's score arrives, and the policy decides: not to, when the text
\* is too little, or to prefill, which is skipped beside a decode.  current()
\* samples on demand when the turn it is asked in has no reading.
Scored(d) ==
    /\ d.at = "scoring"
    /\ estimate' = SampleOnce(estimate, InFlight)
    /\ \/ NotIssued(d)
       \/ /\ Arm \in {"prefill", "continue", "resend"}
          /\ IF ~Busy THEN Suspended(d, "prefilling", 0) /\ UNCHANGED <<decodes, held, excused>>
             ELSE IF Arm = "prefill" THEN NotIssued(d)
             ELSE Commit(d, Arm = "resend")

Prefilled(d) ==
    /\ d.at = "prefilling"
    /\ UNCHANGED estimate
    /\ IF d.arm = "prefill" THEN NotIssued(d) ELSE Commit(d, d.arm = "resend")

CancelAwaited(d) ==
    /\ d.at = "cancelling" /\ Over(d.target)
    /\ Suspended(d, "freeing", d.target)
    /\ UNCHANGED <<decodes, held, estimate, excused>>

\* _wait_for_slot() returns, by the server's word, an error or its timeout.
SlotFree(d) ==
    /\ d.at = "freeing"
    /\ Issue(d)
    /\ UNCHANGED <<estimate, excused>>

Decide ==
    /\ \E d \in decisions : Scored(d) \/ Prefilled(d) \/ CancelAwaited(d) \/ SlotFree(d)
    /\ UNCHANGED <<turnVars, seen, ender, stats, spec>>

-----------------------------------------------------------------------------
(* A decode, and its end.                                                  *)

\* count(): into the stats of the turn that is being counted now.
Token(x) ==
    /\ x.state = "running" /\ x.tokens < MaxTokens
    /\ decodes' = (decodes \ {x}) \cup {[x EXCEPT !.tokens = @ + 1]}
    /\ stats' = [stats EXCEPT !.produced = @ + 1]

Completes(x) ==
    /\ x.state = "running"
    /\ decodes' = (decodes \ {x}) \cup {[x EXCEPT !.state = "over"]}
    /\ UNCHANGED stats

\* A cancelled decode's tokens are all discarded.
Discarded(x) == x.tokens
CancelLands(x) ==
    /\ x.state = "cancelled"
    /\ decodes' = (decodes \ {x}) \cup {[x EXCEPT !.state = "over"]}
    /\ stats' = [stats EXCEPT !.discarded = @ + Discarded(x)]

Speculate ==
    /\ \E x \in decodes : Token(x) \/ Completes(x) \/ CancelLands(x)
    /\ UNCHANGED <<turnVars, decisions, seen, held, ender, spec, decided, estimate, excused>>

\* end_turn() drops the handle, whatever it holds by then; what the turn spent
\* is put on the open turn.
Ended(target) ==
    /\ held' = 0 /\ ender' = Idle /\ UNCHANGED decodes
    /\ spec' = IF open THEN [spec EXCEPT ![turn] = stats] ELSE spec

\* end_turn() cancels the decode it finds in flight and awaits it.
EndSpeculation ==
    /\ \/ /\ ender.at = "asked" /\ Busy
          /\ decodes' = CancelIn(decodes, held)
          /\ ender' = [at |-> "awaiting", target |-> held]
          /\ UNCHANGED <<held, spec>>
       \/ ender.at = "asked" /\ ~Busy /\ Ended(0)
       \/ ender.at = "awaiting" /\ Over(ender.target) /\ Ended(ender.target)
    /\ UNCHANGED <<turnVars, decisions, seen, stats, decided, estimate, excused>>

Next ==
    \/ UserStarts \/ UserStops \/ PartialArrives \/ FinalLands \/ TurnCloses
    \/ Decide \/ Speculate \/ EndSpeculation

Spec == Init /\ [][Next]_vars

-----------------------------------------------------------------------------
Decision == [id : Id, of : Turn, at : {"scoring", "prefilling", "cancelling", "freeing"},
             arm : PolicyArm, target : {0} \cup Id]
Decode == [id : Id, of : Turn, state : {"running", "cancelled", "over"}, tokens : 0 .. MaxTokens]

\* Every variable has the shape the code gives it, decodes are told apart, and
\* what is held was issued.
TypeOK ==
    /\ plan \in Plans
    /\ turn \in 0 .. MaxTurns /\ talking \in BOOLEAN /\ open \in BOOLEAN
    /\ finals \in 0 .. MaxTurns /\ splits \in 0 .. MaxSplits
    /\ partials \in 0 .. MaxPartials /\ begun \in 0 .. MaxTurns
    /\ decisions \subseteq Decision /\ decodes \subseteq Decode
    /\ \A x, y \in decodes : x.id = y.id => x = y
    /\ held \in {0} \cup {x.id : x \in decodes}
    /\ ender.at \in {"none", "asked", "awaiting"}
    /\ stats.discarded <= MaxTokens * Cardinality(decodes)
    /\ estimate \in {"none", "quiet", "own"} /\ excused \in BOOLEAN

\* The turn's final has landed and its speculation was ended.
Settled == turn # 0 /\ ~talking /\ finals = 0 /\ ender = Idle

\* "It runs as its own task and is cancelled at turn end" (speculation.py).
CancelledAtTurnEnd == Settled => InFlight = {}

\* The promise holds in a session in which no decision was pending when its
\* final landed, no final was blank, no turn was split, and no two decisions
\* were committing at once: nothing speculative runs from the end of one turn
\* to the next onset, so a turn planned without a decode never has one.
QuietBetweenTurns == ~excused => CancelledAtTurnEnd

\* In such a session one decode at most runs at a time, and the driver holds
\* it: what is cancelled at the end is all there is to cancel.
OneDecode == ~excused => \A x \in InFlight : x.state = "running" => x.id = held

Spent(t) == {x \in decodes : x.of = t}
Tokens(set) == FoldSet(LAMBDA x, sum : sum + x.tokens, 0, set)

\* In such a session a turn's figures are its own: its record counts the tokens
\* of its own decodes, all of them and no other's ("its stats must still be
\* per-turn"), and the estimate it is decided on never counts our own decode,
\* which would report that speculating makes speculation expensive ("Never
\* after: a reading taken then includes our own decode").
OwnFigures ==
    ~excused =>
        /\ estimate # "own"
        /\ Settled => /\ spec[turn].produced = Tokens(Spent(turn))
                      /\ spec[turn].discarded <= spec[turn].produced
================================================================================
