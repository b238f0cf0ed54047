------------------------------- MODULE Schedule -------------------------------
(***************************************************************************)
(* Which level (a budget, or a policy arm) each file of an interleaved run *)
(* is played under: the Latin square and the randomized blocks of          *)
(* schedule.py, and the playlists run_reactive.py makes of them.           *)
(* Utterances and levels are counted from 0, turns from 1, as in the code. *)
(* rng.shuffle is a choice over all permutations.                          *)
(***************************************************************************)
EXTENDS Integers, Sequences, SequencesExt, Functions

CONSTANTS Utterances, Levels

ASSUME UtterancesAssumption == Utterances \in Nat \ {0}
ASSUME LevelsAssumption == Levels \in Nat \ {0}

Utterance == 0 .. Utterances - 1
Level == 0 .. Levels - 1

Shuffles(S) == Bijection(S, S)
Orders(S) == SetToSeqs(S)
Fewer(a, b) == IF a < b THEN a ELSE b

\* A turn's place in a run.
Planned(l, u, r) == [level |-> l, utterance |-> u, role |-> r]

\* Mistakes a change could make; the mutants put them in place.
PinnedRotation(rot, p, u) == rot[u] % Levels

\* Utterance u starts at rotation rot[u] and advances one level per pass.
LatinLevel(rot, p, u) == (rot[u] + p) % Levels

\* build_schedule() beside the playlist it is run with, base_wavs[:warmup] and
\* then one pass per level; the warm-up turns cycle the levels.
LatinPlan(rot, warmup) ==
    [i \in 1 .. warmup |-> Planned((i - 1) % Levels, i - 1, "warmup")]
    \o [i \in 1 .. Levels * Utterances |->
          LET p == (i - 1) \div Utterances
              u == (i - 1) % Utterances
          IN  Planned(LatinLevel(rot, p, u), u, "measured")]

\* The blocks of one level: its shuffled utterances cut to block_size.
BlocksOf(l, order, size) ==
    LET count == (Utterances + size - 1) \div size
    IN  {[level |-> l,
          utts |-> SubSeq(order, (b - 1) * size + 1, Fewer(b * size, Utterances))] : b \in 1 .. count}

Washout(l, u) == Planned(l, u, "washout")

\* A block is preceded by a turn of its own arm.
BlockTurns(b) ==
    <<Washout(b.level, b.utts[1])>>
    \o [i \in DOMAIN b.utts |-> Planned(b.level, b.utts[i], "measured")]

\* build_block_schedule(), for each level's order and the order of the blocks.
BlockPlan(blocks, warmup) ==
    [i \in 1 .. warmup |-> Planned((i - 1) % Levels, (i - 1) % Utterances, "warmup")]
    \o FlattenSeq([i \in DOMAIN blocks |-> BlockTurns(blocks[i])])

\* What a plan is for: every utterance is measured once at every level.
Square(plan) ==
    /\ \A i \in DOMAIN plan : plan[i].role = "measured" => plan[i].utterance \in Utterance
    /\ \A u \in Utterance, l \in Level :
          \E i \in DOMAIN plan : \A j \in DOMAIN plan :
              plan[j] = Planned(l, u, "measured") <=> j = i

LatinPlans(warmups) == {LatinPlan(rot, w) : rot \in Shuffles(Utterance), w \in warmups}
BlockPlans(sizes, warmups) ==
    UNION {{BlockPlan(blocks, w) :
              blocks \in Orders(UNION {BlocksOf(l, order[l], size) : l \in Level}), w \in warmups} :
           order \in [Level -> Orders(Utterance)], size \in sizes}
=============================================================================
