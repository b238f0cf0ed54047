----------------------------- MODULE MCSpeculation -----------------------------
(***************************************************************************)
(* Instances of Speculation: a decode at the onset or at the first partial *)
(* beside a turn with none, and two turns of every pair of policies.       *)
(***************************************************************************)
EXTENDS Speculation

MCPlans ==
    {<<"onset", "onset">>, <<"onset", "none">>, <<"partial", "partial">>, <<"partial", "none">>}
        \cup {<<p, q>> : p, q \in PolicyArm}
================================================================================
