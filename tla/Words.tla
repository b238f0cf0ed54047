-------------------------------- MODULE Words --------------------------------
(* The decoded words of one turn, timed in the turn's audio (commit.py,    *)
(* Word).  Time is in integer ticks, so the 1e-9 slack the code puts on its*)
(* float comparisons is plain <=.                                          *)
EXTENDS Integers, Sequences

CONSTANTS Key,      \* what two decodes compare: case- and punctuation-free tokens
          MaxTime   \* the longest turn, in ticks of audio

ASSUME MaxTimeAssumption == MaxTime \in Nat

Time == 0 .. MaxTime
Word == {w \in [key : Key, start : Time, end : Time] : w.start < w.end}

\* Words in the order they were spoken, none overlapping the next.
Timed(ws) == \A i, j \in DOMAIN ws : i < j => ws[i].end <= ws[j].start
==============================================================================
