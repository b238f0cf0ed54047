----------------------------- MODULE MCTwoTier -----------------------------
(* TwoTier in each of its configurations.                                  *)
EXTENDS TwoTier

MCMode ==
    [two : BOOLEAN, endpoint : {"race", "wait"}, rule : {"controlled"}, prior : {0, 6}]
    \cup [two : BOOLEAN, endpoint : {"race"}, rule : {"naive"}, prior : {0}]
=============================================================================
