---------------------------- MODULE MCInterleaving ----------------------------
(* Runs of two utterances under two levels: every Latin square and every   *)
(* blocked plan, for budgets and for policies; and runs of one arm.        *)
EXTENDS Interleaving

MCWarmups == {0, 1}
MCArms == <<"reactive", "spec_continue">>
MCAlone == {"spec_always_pg", "spec_trigger", "allocator", "budget_r", "prefill_always"}

Setup(p, d, w, a) == [plan |-> p, design |-> d, warmup |-> w, arms |-> a]
MCLatin == UNION {{Setup(p, "latin", w, <<>>) : p \in LatinPlans({w})} : w \in MCWarmups}
MCBlocked ==
    UNION {{Setup(p, "blocks", w, a) : p \in BlockPlans({1, 2}, {w}), a \in {<<>>, MCArms}} :
           w \in MCWarmups}
MCFiles(n) == [i \in 1 .. n |-> Planned(0, i - 1, "measured")]
MCStraight ==
    {Setup(MCFiles(IF k = "allocator" THEN 2 ELSE 1), "straight", 0, <<k>>) : k \in MCAlone}
MCSetups == MCLatin \cup MCBlocked \cup MCStraight

MCTheta == [num |-> 1, den |-> 2]
MCFits == {s \in UNION {[1 .. n -> Sample] : n \in 0 .. 4} : Sorted(s)}
=============================================================================
