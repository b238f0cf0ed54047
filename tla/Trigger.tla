-------------------------------- MODULE Trigger --------------------------------
(***************************************************************************)
(* T-SEM (trigger.py): the raw score of a partial, and the isotonic        *)
(* calibration that makes it a probability.  fit_isotonic() is run before, *)
(* on the partials of earlier runs (calibrate_trigger.py).  Scores are     *)
(* numbers 0 .. MaxScore; a probability is a fraction, so that means and   *)
(* interpolations are exact where the code rounds.                         *)
(***************************************************************************)
EXTENDS Integers, Sequences, FiniteSets

CONSTANT MaxScore

ASSUME MaxScoreAssumption == MaxScore \in Nat \ {0}

Score == 0 .. MaxScore
Sample == [raw : Score, done : {0, 1}]

VARIABLES samples, \* what is fitted, in the order of the raw scores
          blocks,  \* xs, ys and weights: a pool's last score, its sum and its size
          at       \* i, counted from 1

fitVars == <<samples, blocks, at>>

\* Fractions.
Mean(b) == [num |-> b.sum, den |-> b.weight]
LessEq(p, q) == p.num * q.den <= q.num * p.den

Sorted(s) == \A i, j \in DOMAIN s : i < j => s[i].raw <= s[j].raw
Block(s) == [x |-> s.raw, sum |-> s.done, weight |-> 1]

FitInit(s) ==
    /\ samples = s
    /\ blocks = [i \in DOMAIN s |-> Block(s[i])]
    /\ at = 1

\* Mistakes a change could make; the mutants put them in place.
FirstScore(a, b) == [x |-> a.x, sum |-> a.sum + b.sum, weight |-> a.weight + b.weight]

\* Two neighbours that fall become one, at the score of the second.
Pool(a, b) == [x |-> b.x, sum |-> a.sum + b.sum, weight |-> a.weight + b.weight]
StepBack(i) == IF i > 1 THEN i - 1 ELSE 1

Fitted == at >= Len(blocks)

\* One turn of fit_isotonic()'s loop.
FitStep ==
    /\ ~Fitted
    /\ IF LessEq(Mean(blocks[at]), Mean(blocks[at + 1]))
       THEN at' = at + 1 /\ UNCHANGED blocks
       ELSE /\ blocks' = SubSeq(blocks, 1, at - 1) \o <<Pool(blocks[at], blocks[at + 1])>>
                         \o SubSeq(blocks, at + 2, Len(blocks))
            /\ at' = StepBack(at)
    /\ UNCHANGED samples

\* IsotonicCalibration.__call__(): bisect_left, then the line between two pools.
Before(raw) == Cardinality({i \in DOMAIN blocks : blocks[i].x < raw})
Calibrated(raw) ==
    LET i == Before(raw)
        a == blocks[i]
        b == blocks[i + 1]
        run == raw - a.x
        rise == b.x - a.x
    IN  IF blocks = <<>> THEN [num |-> raw, den |-> MaxScore]
        ELSE IF i = 0 THEN Mean(blocks[1])
        ELSE IF i = Len(blocks) THEN Mean(blocks[i])
        ELSE [num |-> a.sum * b.weight * (rise - run) + b.sum * a.weight * run,
              den |-> a.weight * b.weight * rise]

\* SemanticTrigger.score(): a call that fails says "not done".
Never == [num |-> 0, den |-> 1]
PDone(reading) == IF reading.failed THEN Never ELSE Calibrated(reading.raw)

-----------------------------------------------------------------------------
(* What pool-adjacent-violators is for: the least-squares fit of a rising  *)
(* sequence, by its max-min formula.                                       *)
SumOf(a, b) == Cardinality({i \in a .. b : samples[i].done = 1})
Average(a, b) == [num |-> SumOf(a, b), den |-> b - a + 1]
IsRegression(k, v) ==
    /\ \E a \in 1 .. k : \A b \in k .. Len(samples) : LessEq(v, Average(a, b))
    /\ \A a \in 1 .. k : \E b \in k .. Len(samples) : LessEq(Average(a, b), v)

\* The samples a pool holds.
Upto(j) == LET W[i \in 0 .. j] == IF i = 0 THEN 0 ELSE W[i - 1] + blocks[i].weight IN W[j]
PoolOf(k) == CHOOSE j \in DOMAIN blocks : Upto(j - 1) < k /\ k <= Upto(j)

\* fit_isotonic() ends with pools that are the least-squares rising fit of its
\* samples, each at the score of its last sample.
LeastSquares ==
    Fitted => \A k \in DOMAIN samples :
        /\ IsRegression(k, Mean(blocks[PoolOf(k)]))
        /\ samples[k].raw <= blocks[PoolOf(k)].x
        /\ \E m \in DOMAIN samples : PoolOf(m) = PoolOf(k) /\ samples[m].raw = blocks[PoolOf(k)].x
=============================================================================
