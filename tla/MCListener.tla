------------------------------ MODULE MCListener ------------------------------
(* The listening service under every commit configuration that is shipped  *)
(* with a hypothesis process (src/configs/commit_wl_{stop,stop_a2,kill,proc, *)
(* proc1}.yaml).                                                           *)
EXTENDS Listener

Design(atEndpoint, workers, cont) ==
    [atEndpoint |-> atEndpoint, workers |-> workers, contAtTurnOpen |-> cont]
Shipped == {Design("stop", 1, FALSE), Design("stop", 1, TRUE), Design("kill", 2, FALSE),
            Design("race", 2, FALSE), Design("race", 1, FALSE)}
===============================================================================
