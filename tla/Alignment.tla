------------------------------- MODULE Alignment -------------------------------
(***************************************************************************)
(* The turns of a run laid on the files it played by what was transcribed  *)
(* (p7_score.py, pass2_score.py): turns and files keep their order, every  *)
(* file takes at least one turn, and the total error of the words is       *)
(* least.  cost[i][j] is the error of turn i against the text of file j.   *)
(***************************************************************************)
EXTENDS Naturals, Sequences

\* Of two ways to reach a cell the one that opens a new file is preferred.
Prefers(opening, continuing) == opening <= continuing

\* dp: the least error of laying i turns on the first j files, for the cells
\* the last one is reached from.
Table(cost, n, m) ==
    LET Cells == {c \in (1 .. n) \X (1 .. m) : c[2] <= c[1] /\ c[1] - c[2] <= n - m}
        dp[c \in Cells] ==
            LET opening == dp[<<c[1] - 1, c[2] - 1>>]
                continuing == dp[<<c[1] - 1, c[2]>>]
                before == CASE c[1] = 1 -> 0
                            [] c[1] > 1 /\ c[1] = c[2] -> opening
                            [] c[1] > 1 /\ c[2] = 1 -> continuing
                            [] OTHER -> IF Prefers(opening, continuing) THEN opening
                                        ELSE continuing
            IN  before + cost[c[1]][c[2]]
    IN  dp

\* back: turn i opens file j.
Opens(dp, i, j) == i = j \/ (j > 1 /\ Prefers(dp[<<i - 1, j - 1>>], dp[<<i - 1, j>>]))

\* align_positions(): the file of each turn, or of none of them when there are
\* fewer turns than files.
Aligned(cost, n, m) ==
    LET dp == Table(cost, n, m)
        at[i \in 1 .. n] ==
            IF i = n THEN m
            ELSE at[i + 1] - (IF Opens(dp, i + 1, at[i + 1]) THEN 1 ELSE 0)
    IN  IF n < m THEN <<>> ELSE at
=============================================================================
