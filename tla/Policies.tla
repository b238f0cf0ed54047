------------------------------- MODULE Policies -------------------------------
(***************************************************************************)
(* What each arm decides at a partial (policies.py).  A decision is of the *)
(* partial, of p_done and of the turn; a driver that is not attached and a *)
(* position that is not known are the code's own defaults.  Times are      *)
(* milliseconds, audio positions seconds, probabilities millionths.        *)
(***************************************************************************)
EXTENDS Integers, Sequences, FiniteSets, FiniteSetsExt

CONSTANTS FixedBudget, \* --spec-tokens, for the arms that have one
          Theta,       \* spec_trigger's threshold, a fraction
          Expected     \* expected_duration_s

ASSUME FixedBudgetAssumption == FixedBudget \in Nat \ {0}
ASSUME ThetaAssumption == Theta.num \in Nat /\ Theta.den \in Nat \ {0}
ASSUME ExpectedAssumption == Expected \in Nat

Kind == {"reactive", "spec_always", "spec_always_pg", "spec_continue", "spec_trigger",
         "allocator", "budget_r", "prefill_always"}

\* Measured numbers the code carries.
DecodeMsPerToken == 34
MedianWindowMs == 588
MarginMs == 250
BudgetArms == {0, 16, 32, 48, 64, 96}
BreakEven == 141207
Curve == <<[f |-> 250, p |-> 13000], [f |-> 500, p |-> 25000],
           [f |-> 750, p |-> 62000], [f |-> 900, p |-> 188000]>>

Draft(b) == [speculate |-> TRUE, budget |-> b, resend |-> FALSE, prefill |-> FALSE]
Resend(b) == [Draft(b) EXCEPT !.resend = TRUE]
Nothing == [speculate |-> FALSE, budget |-> 0, resend |-> FALSE, prefill |-> FALSE]
PrefillOnly == [Nothing EXCEPT !.prefill = TRUE]

\* BudgetR.feasible_budget().
Feasible(remaining, rate) ==
    LET usable == remaining - MarginMs
        fits == {b \in BudgetArms : b > 0 /\ b * rate <= usable}
    IN  IF usable <= 0 \/ rate <= 0 \/ fits = {} THEN 0 ELSE Max(fits)

\* p_usable_hat(): the measured curve, clamped at its ends.
PUsable(f) ==
    LET above == {i \in DOMAIN Curve : Curve[i].f >= f}
        j == Min(above)
        a == Curve[j - 1]
        b == Curve[j]
    IN  IF above = {} THEN Curve[Len(Curve)].p
        ELSE IF j = 1 THEN Curve[1].p
        ELSE a.p + ((b.p - a.p) * (f - a.f)) \div (b.f - a.f)

\* window_model_ms(): the speech left when the partial at x has been decoded.
WindowMs(x) == (Expected - x) * 1000 - 1410 - (152 * x) \div 10

\* WindowAllocator.decide(), at the audio position of the last partial.
Allocated(x, rate) ==
    IF PUsable((x * 1000) \div Expected) < BreakEven THEN 0 ELSE Feasible(WindowMs(x), rate)

\* decide(), with the facts the runner has: is there enough text, has p_done
\* reached theta, the position (-1 when it is not known), the driver's rate,
\* and whether the allocator has spent on this turn.  The runner calls BudgetR
\* with neither a window nor a rate.
Decide(kind, facts) ==
    CASE kind = "reactive" -> Nothing
      [] kind = "spec_trigger" -> IF facts.likely THEN Draft(FixedBudget) ELSE Nothing
      [] kind = "allocator" ->
            IF facts.x < 0 \/ Expected <= 0 \/ facts.spent \/ Allocated(facts.x, facts.rate) = 0
            THEN Nothing ELSE Draft(Allocated(facts.x, facts.rate))
      [] kind \in {"spec_always", "spec_continue", "spec_always_pg", "budget_r", "prefill_always"} ->
            IF ~facts.enough THEN Nothing
            ELSE CASE kind = "spec_always_pg" -> Resend(FixedBudget)
                   [] kind \in {"spec_always", "spec_continue"} -> Draft(FixedBudget)
                   [] kind = "prefill_always" -> PrefillOnly
                   [] kind = "budget_r" ->
                        LET b == Feasible(MedianWindowMs, DecodeMsPerToken)
                        IN  IF b = 0 THEN Nothing ELSE Draft(b)
=============================================================================
