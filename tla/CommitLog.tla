------------------------------ MODULE CommitLog ------------------------------
(***************************************************************************)
(* What the listener promises about one turn's committed transcript        *)
(* (commit.py, module docstring): words are appended and never revisited,  *)
(* the audio behind them is never read again, and the next turn starts     *)
(* from nothing.  It says nothing of hypotheses, agreement or guards:      *)
(* LocalAgreement is shown to implement it.                                *)
(***************************************************************************)
EXTENDS Words

VARIABLES committed,     \* the words kept so far, in order
          committedEnd   \* how much of the turn's audio they stand for

vars == <<committed, committedEnd>>

Init == committed = <<>> /\ committedEnd = 0

\* Some words are added, in order, all of them past the audio already
\* accounted for; those already there are left alone.
Keep ==
    /\ committed' \in Seq(Word)
    /\ Len(committed') > Len(committed)
    /\ \A i \in DOMAIN committed : committed'[i] = committed[i]
    /\ Timed(committed')
    /\ committed'[Len(committed) + 1].start >= committedEnd
    /\ committedEnd' = committed'[Len(committed')].end

NewTurn == committed' = <<>> /\ committedEnd' = 0

Next == Keep \/ NewTurn

Spec == Init /\ [][Next]_vars
==============================================================================
