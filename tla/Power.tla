-------------------------------- MODULE Power --------------------------------
(***************************************************************************)
(* What is computed from the recent samples of tegrastats (telemetry.py).  *)
(* rows is a deque, oldest first, of [at |-> time, mw |-> power].  Energy  *)
(* is twice the joules in units of a tick, so that it stays an integer;    *)
(* Unmeasured is the code's -1.0.                                          *)
(***************************************************************************)
EXTENDS Integers, Sequences, FiniteSets, FiniteSetsExt

CONSTANT MinIdleSamples  \* MIN_IDLE_SAMPLES

ASSUME MinIdleSamplesAssumption == MinIdleSamples \in Nat \ {0}

Unmeasured == -1

LastOf(rows, n) == SubSeq(rows, (IF Len(rows) > n THEN Len(rows) - n ELSE 0) + 1, Len(rows))

\* Where in rows the samples of a window are.
Between(rows, from, to) == {i \in 1 .. Len(rows) : from <= rows[i].at /\ rows[i].at <= to}

\* The trapezoids between neighbours among the samples taken.
Trapezoids(rows, taken) ==
    LET After(i) == Min({j \in taken : j > i})
    IN  MapThenSumSet(
            LAMBDA i : (rows[i].mw + rows[After(i)].mw) * (rows[After(i)].at - rows[i].at),
            {i \in taken : \E j \in taken : j > i})

\* energy_j(): over the samples of the window that a deque of kept samples has.
Energy(rows, kept, from, to) ==
    LET inside == {i \in Between(rows, from, to) : i > Len(rows) - kept}
    IN  IF Cardinality(inside) < 2 THEN Unmeasured ELSE Trapezoids(rows, inside)

\* vals[len(vals) // 2] of the sorted values.
UpperMedian(rows, taken) ==
    LET AtMost(v) == {i \in taken : rows[i].mw <= v}
    IN  Min({v \in {rows[i].mw : i \in taken} :
                Cardinality(AtMost(v)) > Cardinality(taken) \div 2})

\* idle_mw(): the median of the window before a turn, bounded by the instant
\* from which the pipeline is known to be quiet.
IdleMw(rows, before, window, quietSince) ==
    LET from == Max({before - window, quietSince})
        vals == Between(rows, from, before - 1)
    IN  IF Cardinality(vals) < MinIdleSamples THEN Unmeasured ELSE UpperMedian(rows, vals)
=============================================================================
