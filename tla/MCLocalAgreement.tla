-------------------------- MODULE MCLocalAgreement --------------------------
(* LocalAgreement on short turns: every timed hypothesis over two tokens.  *)
EXTENDS LocalAgreement, TLC

MCKey == {"the", "cat"}

\* Every timed word sequence of at most MaxTime ticks (words last >= 1 tick).
MCHyp ==
    {h \in UNION {[1 .. n -> {w \in [key : MCKey, start : Time, end : Time] : w.start < w.end}]
                  : n \in 0 .. MaxTime} : Timed(h)}

\* StartingFrom is the code's list comprehension, word by word.
ASSUME SuffixIsFilter ==
    \A h \in MCHyp, t \in Time :
        StartingFrom(h, t) = SelectSeq(h, LAMBDA w : w.start >= t)
=============================================================================
