------------------------------- MODULE Pacing -------------------------------
(***************************************************************************)
(* When the listener may start its next decode (pacing.py), and which one  *)
(* (twotier.py, choose_job).  Durations are in ticks and duty_max is the   *)
(* fraction DutyNum / DutyDen, so that every comparison is of integers.    *)
(***************************************************************************)
EXTENDS Integers

CONSTANTS DutyNum, DutyDen,  \* duty_max
          MinUncommitted,    \* min_uncommitted_s
          AgreementN,        \* agreement_n
          Intercept, Slope   \* PARTIAL_INTERCEPT_MS, PARTIAL_MS_PER_S

ASSUME DutyAssumption == DutyNum \in Nat \ {0} /\ DutyDen \in Nat /\ DutyNum <= DutyDen
ASSUME MinUncommittedAssumption == MinUncommitted \in Nat \ {0}
ASSUME AgreementNAssumption == AgreementN \in Nat \ {0}
ASSUME DecodeCostAssumption == Intercept \in Nat \ {0} /\ Slope \in Nat

AtLeast(a, b) == IF a < b THEN b ELSE a

\* The cost of the next decode: what the last one took, or the model before
\* this turn has measured one.
Expected(last, buffer) == IF last # 0 THEN last ELSE Intercept + Slope * buffer

\* idle_ms < required_idle_ms: the rest owed is (1/duty - 1) x D.
RestOwed(last, buffer, idle) ==
    idle * DutyNum < (DutyDen - DutyNum) * Expected(last, buffer)

\* remaining < time_to_commit_s: the k decodes LocalAgreement still needs, at
\* the duty target, span ((k - 1)/duty + 1) x D.
Infeasible(prior, last, buffer, elapsed, agreed) ==
    LET k == AtLeast(1, AgreementN - agreed)
        remaining == AtLeast(0, prior - elapsed)
    IN  /\ prior > 0
        /\ remaining * DutyNum < ((k - 1) * DutyDen + DutyNum) * Expected(last, buffer)

\* Mistakes a change could make; the mutants put them in place.
UnpacedRule(prior, last, inFlight, idle, buffer, elapsed, agreed) ==
    IF inFlight THEN "in_flight"
    ELSE IF buffer < MinUncommitted THEN "too_little_audio" ELSE "issue"

\* SelfPacedIssuer.decide(): the reason it gives, "issue" being the one that
\* issues.  The caller's uncommitted_s and buffer_s are the same number.
SelfPaced(prior, last, inFlight, idle, buffer, elapsed, agreed) ==
    CASE inFlight -> "in_flight"
      [] ~inFlight /\ buffer < MinUncommitted -> "too_little_audio"
      [] ~inFlight /\ buffer >= MinUncommitted ->
            IF Infeasible(prior, last, buffer, elapsed, agreed) THEN "infeasible"
            ELSE IF RestOwed(last, buffer, idle) THEN "duty" ELSE "issue"

\* FixedTickIssuer.decide(): tick_s is not read.
FixedTick(inFlight) == IF inFlight THEN "in_flight" ELSE "tick"

\* note_decode(): the measurement replaces the estimate outright.
NoteDecode(last, took) == IF took > 0 THEN took ELSE last

\* choose_job(): nothing beside another decode, nothing before the debt is
\* paid, a pending span before a new hypothesis.
ChooseJob(inFlight, dutySatisfied, spanReady, wanted) ==
    CASE inFlight \/ ~dutySatisfied -> "none"
      [] ~inFlight /\ dutySatisfied /\ spanReady -> "base"
      [] ~inFlight /\ dutySatisfied /\ ~spanReady -> IF wanted THEN "tiny" ELSE "none"
=============================================================================
