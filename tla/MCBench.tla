------------------------------- MODULE MCBench -------------------------------
(* Two runs, one after the other or at once, on a board that starts free or*)
(* pinned, with and without a baseline.                                    *)
EXTENDS Bench

MCOptions ==
    {[clocks |-> c, watchdog |-> w, soak |-> s, adversary |-> TRUE] : c, w, s \in BOOLEAN}
=============================================================================
