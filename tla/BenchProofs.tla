------------------------------ MODULE BenchProofs ------------------------------
(***************************************************************************)
(* Bench, for any number of runs, every command line and every teardown    *)
(* time: one run holds the board at a time, the baseline is free, a run    *)
(* that set its clocks is measured with them set, and a run that ends by   *)
(* itself leaves a complete log and no worker.                             *)
(***************************************************************************)
EXTENDS Bench, TLAPS

\* Who holds .run.lock is the run that is alive, and there is one at most.
OneHolder ==
    /\ lock = {r \in Runs : Alive(r)}
    /\ \A r, s \in Runs : Alive(r) /\ Alive(s) => r = s

\* A watchdog clears the board for a run it has killed.
ClearsTheDead == \A u \in Uses : dog[u] = "clearing" => pc[u[1]] = "gone"

\* Between its set_clocks() and its restore() a run is owed one, and the
\* clocks are its own until another run's watchdog restores them.
Holding ==
    {"setup", "presoak", "soaking", "warming", "measuring", "closing", "closed",
     "cancelling", "draining", "hung", "leaving", "unwinding"}
ClocksHeld(r) ==
    pc[r] \in Holding /\ opt[r].clocks =>
        r \in owed /\ (r \notin late => clocks = "pinned")

\* The log is opened by the pipeline's runner, and is complete before
\* whatever may hang.
LogKept(r) ==
    /\ pc[r] \in {"new", "locked", "based", "setup", "presoak", "soaking", "warming"} =>
          log[r] = "none"
    /\ pc[r] \in {"closed", "cancelling", "draining", "hung", "leaving", "exiting"} =>
          log[r] = "complete"
    /\ pc[r] \in {"unwinding", "tearing"} => log[r] # "open"

\* The workers of a run are started by it and stopped before its teardown;
\* those of a soak that failed only when the interpreter ends.
NoneRuns(r) == <<r, "run">> \notin workers /\ <<r, "soak">> \notin workers
WorkersKept(r) ==
    /\ pc[r] \in {"new", "locked", "based", "setup", "closed", "cancelling", "draining", "hung",
                  "leaving", "exiting"} => NoneRuns(r)
    /\ pc[r] \in {"presoak", "warming", "measuring", "closing"} => <<r, "soak">> \notin workers

\* A run says how it ended when it has, and then it has left nothing.
Ended(r) ==
    /\ left[r] # "no" => pc[r] = "gone"
    /\ left[r] = "self" => log[r] # "open"
    /\ left[r] \in {"self", "breach"} => NoneRuns(r)

RunFine(r) == ClocksHeld(r) /\ LogKept(r) /\ WorkersKept(r) /\ Ended(r)

IInv ==
    /\ TypeOK /\ BaselineFree /\ OneHolder /\ ClearsTheDead
    /\ \A r \in Runs : RunFine(r)

-----------------------------------------------------------------------------
\* What a step of one run leaves of the others: their logs and workers, and no
\* watchdog starts to clear.
OthersAlone(r) ==
    /\ \A s \in Runs \ {r} : log'[s] = log[s]
    /\ \A u \in workers' : u \in workers \/ u[1] = r
    /\ \A u \in Uses : dog'[u] = "clearing" => dog[u] = "clearing" \/ u[1] = r
    /\ UNCHANGED opt

\* A run that has not started or is over stays as it is.
LEMMA Elsewhere ==
    ASSUME IInv, NEW r \in Runs, NEW s \in Runs, r # s, OthersAlone(r),
           pc[s] \in {"new", "gone"}, pc'[s] = pc[s], left'[s] = left[s]
    PROVE  RunFine(s)'
<1>1. NoneRuns(s) => NoneRuns(s)'
  BY DEF OthersAlone, NoneRuns
<1>2. RunFine(s) /\ log'[s] = log[s]
  BY DEF IInv, OthersAlone
<1>3. QED
  BY <1>1, <1>2 DEF RunFine, ClocksHeld, Holding, LogKept, WorkersKept, Ended

\* A step of a run to a place where it is still alive.
LEMMA Moves ==
    ASSUME IInv, NEW r \in Runs, Alive(r), NEW l \in Label \ {"new", "gone"}, Goto(r, l),
           UNCHANGED endVars, OthersAlone(r), \A u \in Uses : u[1] = r => dog'[u] # "clearing"
    PROVE  /\ pc' \in [Runs -> Label] /\ pc'[r] = l
           /\ OneHolder' /\ ClearsTheDead'
           /\ \A s \in Runs \ {r} : RunFine(s)'
<1>1. pc \in [Runs -> Label] /\ OneHolder /\ ClearsTheDead
  BY DEF IInv, TypeOK
<1>2. pc' \in [Runs -> Label] /\ pc'[r] = l /\ \A s \in Runs \ {r} : pc'[s] = pc[s]
  BY <1>1 DEF Goto
<1>3. \A s \in Runs \ {r} : pc[s] \in {"new", "gone"}
  BY <1>1 DEF OneHolder, Alive
<1>4. OneHolder'
  <2>1. \A s \in Runs : Alive(s)' <=> Alive(s)
    BY <1>2 DEF Alive
  <2>2. QED
    BY <1>1, <2>1 DEF OneHolder, endVars
<1>5. ClearsTheDead'
  BY <1>1, <1>2 DEF ClearsTheDead, OthersAlone, Uses
<1>6. \A s \in Runs \ {r} : RunFine(s)'
  BY <1>2, <1>3, Elsewhere DEF endVars
<1>7. QED
  BY <1>2, <1>4, <1>5, <1>6

\* A process that ends.
LEMMA Ending ==
    ASSUME IInv, NEW r \in Runs, Alive(r), NEW how \in {"self", "breach", "killed"},
           Ends(r, how), OthersAlone(r)
    PROVE  /\ pc' \in [Runs -> Label] /\ pc'[r] = "gone"
           /\ left' \in [Runs -> {"no", "refused", "self", "breach", "killed"}] /\ left'[r] = how
           /\ lock' \subseteq Runs
           /\ OneHolder' /\ ClearsTheDead'
           /\ \A s \in Runs \ {r} : RunFine(s)'
<1>1. /\ pc \in [Runs -> Label] /\ lock \subseteq Runs /\ OneHolder /\ ClearsTheDead
      /\ left \in [Runs -> {"no", "refused", "self", "breach", "killed"}]
  BY DEF IInv, TypeOK
<1>2. /\ pc' \in [Runs -> Label] /\ pc'[r] = "gone"
      /\ left' \in [Runs -> {"no", "refused", "self", "breach", "killed"}] /\ left'[r] = how
      /\ \A s \in Runs \ {r} : pc'[s] = pc[s] /\ left'[s] = left[s]
      /\ lock' = lock \ {r}
  BY <1>1 DEF Ends, Goto, Label
<1>3. \A s \in Runs \ {r} : pc[s] \in {"new", "gone"}
  BY <1>1 DEF OneHolder, Alive
<1>4. OneHolder'
  <2>1. \A s \in Runs : Alive(s)' <=> Alive(s) /\ s # r
    BY <1>2 DEF Alive
  <2>2. lock' = {s \in Runs : Alive(s)'} /\ \A s, t \in Runs : Alive(s)' /\ Alive(t)' => s = t
    BY <1>1, <1>2, <2>1 DEF OneHolder
  <2>3. QED
    BY <2>2 DEF OneHolder
<1>5. ClearsTheDead'
  BY <1>1, <1>2 DEF ClearsTheDead, OthersAlone, Uses
<1>6. \A s \in Runs \ {r} : RunFine(s)'
  BY <1>2, <1>3, Elsewhere
<1>7. QED
  BY <1>1, <1>2, <1>4, <1>5, <1>6

-----------------------------------------------------------------------------
LEMMA InitEstablishes == Init => IInv
<1> SUFFICES ASSUME Init PROVE IInv
  OBVIOUS
<1>1. TypeOK
  BY OptionsAssumption, KillsAssumption DEF Init, TypeOK, Label
<1>2. OneHolder
  BY DEF Init, OneHolder, Alive
<1>3. BaselineFree /\ ClearsTheDead
  BY DEF Init, BaselineFree, ClearsTheDead, Uses
<1>4. \A r \in Runs : RunFine(r)
  BY DEF Init, RunFine, ClocksHeld, Holding, LogKept, WorkersKept, NoneRuns, Ended
<1>5. QED
  BY <1>1, <1>2, <1>3, <1>4 DEF IInv

\* The lock is free, and then nobody is alive; or the run is refused.
LEMMA AcquirePreserves == ASSUME IInv, NEW r \in Runs, Acquire(r) PROVE IInv'
<1>1. /\ pc \in [Runs -> Label] /\ pc[r] = "new" /\ OneHolder
      /\ UNCHANGED <<opt, clockVars, workers, dog, tj, runVars, kills>>
  BY DEF Acquire, IInv, TypeOK
<1>2. \E l \in {"locked", "gone"} :
         /\ pc' = [pc EXCEPT ![r] = l] /\ (l = "locked" => lock = {})
         /\ lock' = IF l = "locked" THEN {r} ELSE lock \ {r}
         /\ left' = IF l = "locked" THEN left ELSE [left EXCEPT ![r] = "refused"]
  BY DEF Acquire, Ends, Goto
<1>3. PICK l \in {"locked", "gone"} :
         /\ pc' = [pc EXCEPT ![r] = l] /\ (l = "locked" => lock = {})
         /\ lock' = IF l = "locked" THEN {r} ELSE lock \ {r}
         /\ left' = IF l = "locked" THEN left ELSE [left EXCEPT ![r] = "refused"]
  BY <1>2
<1>4. /\ pc' \in [Runs -> Label] /\ pc'[r] = l
      /\ \A s \in Runs \ {r} : pc'[s] = pc[s]
  BY <1>1, <1>3 DEF Label
<1>5. TypeOK' /\ BaselineFree'
  BY <1>1, <1>3, <1>4 DEF IInv, TypeOK, BaselineFree, clockVars, runVars
<1>6. OneHolder'
  BY <1>1, <1>3, <1>4 DEF OneHolder, Alive
<1>7. ClearsTheDead'
  BY <1>1, <1>4 DEF IInv, ClearsTheDead, Uses
<1>8. ASSUME NEW s \in Runs PROVE RunFine(s)'
  <2>1. /\ RunFine(s) /\ left'[s] \in {left[s], "refused"}
        /\ pc'[s] \in {pc[s], "locked", "gone"} /\ (pc'[s] # pc[s] => s = r)
        /\ left'[s] # left[s] => pc'[s] = "gone"
    BY <1>1, <1>3, <1>4 DEF IInv, TypeOK
  <2>2. QED
    BY <1>1, <2>1 DEF RunFine, ClocksHeld, Holding, LogKept, WorkersKept, NoneRuns, Ended,
                      clockVars, runVars
<1>9. QED
  BY <1>5, <1>6, <1>7, <1>8 DEF IInv

LEMMA EnsureBaselinePreserves == ASSUME IInv, NEW r \in Runs, EnsureBaseline(r) PROVE IInv'
<1>1. pc[r] = "locked" /\ Alive(r) /\ OthersAlone(r) /\ RunFine(r)
  BY DEF EnsureBaseline, Alive, OthersAlone, runVars, IInv
<1>2. CASE Goto(r, "based") /\ UNCHANGED endVars
  <2>1. /\ pc' \in [Runs -> Label] /\ pc'[r] = "based" /\ OneHolder' /\ ClearsTheDead'
        /\ \A s \in Runs \ {r} : RunFine(s)'
    BY <1>1, <1>2, Moves DEF Label, EnsureBaseline, IInv, ClearsTheDead
  <2>2. TypeOK' /\ BaselineFree'
    BY <1>2, <2>1 DEF EnsureBaseline, Ends, IInv, TypeOK, BaselineFree, endVars, runVars
  <2>3. RunFine(r)'
    BY <1>1, <1>2, <2>1 DEF EnsureBaseline, RunFine, ClocksHeld, Holding, LogKept, WorkersKept,
                            NoneRuns, Ended, endVars, runVars
  <2>4. QED
    BY <2>1, <2>2, <2>3 DEF IInv
<1>3. CASE Ends(r, "self") /\ UNCHANGED baseline
  <2>1. /\ pc' \in [Runs -> Label] /\ pc'[r] = "gone"
        /\ left' \in [Runs -> {"no", "refused", "self", "breach", "killed"}] /\ left'[r] = "self"
        /\ lock' \subseteq Runs /\ OneHolder' /\ ClearsTheDead'
        /\ \A s \in Runs \ {r} : RunFine(s)'
    BY <1>1, <1>3, Ending
  <2>2. TypeOK' /\ BaselineFree'
    BY <1>3, <2>1 DEF EnsureBaseline, IInv, TypeOK, BaselineFree, runVars
  <2>3. RunFine(r)'
    BY <1>1, <2>1 DEF EnsureBaseline, RunFine, ClocksHeld, Holding, LogKept, WorkersKept,
                      NoneRuns, Ended, runVars
  <2>4. QED
    BY <2>1, <2>2, <2>3 DEF IInv
<1>4. QED
  BY <1>2, <1>3 DEF EnsureBaseline

\* Nobody else is alive to hold the clocks, whatever they are set to.
LEMMA SetClocksPreserves == ASSUME IInv, NEW r \in Runs, SetClocks(r) PROVE IInv'
<1>1. pc[r] = "based" /\ Alive(r) /\ OthersAlone(r) /\ RunFine(r) /\ UNCHANGED dog
  BY DEF SetClocks, Alive, OthersAlone, runVars, IInv
<1>2. CASE /\ clocks' = IF opt[r].clocks THEN "pinned" ELSE clocks
           /\ owed' = IF opt[r].clocks THEN owed \cup {r} ELSE owed
           /\ Goto(r, "setup") /\ UNCHANGED endVars
  <2>1. /\ pc' \in [Runs -> Label] /\ pc'[r] = "setup" /\ OneHolder' /\ ClearsTheDead'
        /\ \A s \in Runs \ {r} : RunFine(s)'
    BY <1>1, <1>2, Moves DEF Label, IInv, ClearsTheDead
  <2>2. TypeOK' /\ BaselineFree'
    BY <1>2, <2>1 DEF SetClocks, IInv, TypeOK, BaselineFree, endVars, runVars
  <2>3. RunFine(r)'
    BY <1>1, <1>2, <2>1 DEF SetClocks, RunFine, ClocksHeld, LogKept, WorkersKept, NoneRuns,
                            Ended, endVars, runVars
  <2>4. QED
    BY <2>1, <2>2, <2>3 DEF IInv
<1>3. CASE Ends(r, "self") /\ UNCHANGED <<clocks, owed>>
  <2>1. /\ pc' \in [Runs -> Label] /\ pc'[r] = "gone"
        /\ left' \in [Runs -> {"no", "refused", "self", "breach", "killed"}] /\ left'[r] = "self"
        /\ lock' \subseteq Runs /\ OneHolder' /\ ClearsTheDead'
        /\ \A s \in Runs \ {r} : RunFine(s)'
    BY <1>1, <1>3, Ending
  <2>2. TypeOK' /\ BaselineFree'
    BY <1>3, <2>1 DEF SetClocks, IInv, TypeOK, BaselineFree, runVars
  <2>3. RunFine(r)'
    BY <1>1, <2>1 DEF SetClocks, RunFine, ClocksHeld, Holding, LogKept, WorkersKept, NoneRuns,
                      Ended, runVars
  <2>4. QED
    BY <2>1, <2>2, <2>3 DEF IInv
<1>4. QED
  BY <1>2, <1>3 DEF SetClocks

\* A run that goes from one place to another without touching the clocks, its
\* workers growing only where it may have them.
LEMMA PhasePreserves ==
    ASSUME IInv, NEW r \in Runs, Alive(r), NEW l \in Label \ {"new", "gone"}, Goto(r, l),
           UNCHANGED <<opt, endVars, clockVars, tj, parse_error, kills>>,
           spent' \in [Runs -> Nat], log' \in [Runs -> {"none", "open", "complete"}],
           workers' \subseteq Uses, dog' \in [Uses -> {"off", "polling", "clearing"}],
           \A u \in Uses : dog'[u] = "clearing" => dog[u] = "clearing",
           OthersAlone(r), pc[r] \in Holding, LogKept(r)', WorkersKept(r)'
    PROVE  IInv'
<1>1. RunFine(r) /\ \A u \in Uses : u[1] = r => dog'[u] # "clearing"
  BY DEF IInv, ClearsTheDead, Alive
<1>2. /\ pc' \in [Runs -> Label] /\ pc'[r] = l /\ OneHolder' /\ ClearsTheDead'
      /\ \A s \in Runs \ {r} : RunFine(s)'
  BY <1>1, Moves
<1>3. TypeOK' /\ BaselineFree'
  BY <1>2 DEF IInv, TypeOK, BaselineFree, endVars, clockVars
<1>4. left'[r] = "no"
  BY <1>1 DEF RunFine, Ended, Alive, endVars
<1>5. RunFine(r)'
  BY <1>1, <1>2, <1>4 DEF RunFine, ClocksHeld, Ended, clockVars
<1>6. QED
  BY <1>2, <1>3, <1>5 DEF IInv

LEMMA SetUpPreserves == ASSUME IInv, NEW r \in Runs, SetUp(r) PROVE IInv'
<1>1. /\ pc[r] = "setup" /\ Alive(r) /\ pc[r] \in Holding /\ LogKept(r) /\ WorkersKept(r)
      /\ pc \in [Runs -> Label] /\ workers \subseteq Uses
      /\ dog \in [Uses -> {"off", "polling", "clearing"}]
      /\ spent \in [Runs -> Nat] /\ log \in [Runs -> {"none", "open", "complete"}]
  BY DEF SetUp, Alive, Holding, IInv, RunFine, TypeOK
<1>2. PICK l \in {"unwinding", "presoak", "warming"} : Goto(r, l)
  BY DEF SetUp
<1>3. pc'[r] = l /\ l \in Label \ {"new", "gone"}
  BY <1>1, <1>2 DEF Goto, Label
<1>4. /\ UNCHANGED <<opt, endVars, clockVars, tj, parse_error, kills>>
      /\ workers' \subseteq workers \cup {<<r, "run">>}
  BY DEF SetUp, runVars
<1>5. /\ dog' \in [Uses -> {"off", "polling", "clearing"}]
      /\ \A u \in Uses : dog'[u] = "clearing" => dog[u] = "clearing"
  BY <1>1 DEF SetUp
<1>6. /\ spent' \in [Runs -> Nat] /\ log' \in [Runs -> {"none", "open", "complete"}]
      /\ \A s \in Runs \ {r} : log'[s] = log[s]
  BY <1>1 DEF SetUp, runVars
<1>7. LogKept(r)'
  BY <1>1, <1>2, <1>3 DEF SetUp, LogKept, runVars
<1>8. WorkersKept(r)'
  BY <1>1, <1>2, <1>3, <1>4 DEF SetUp, WorkersKept, NoneRuns
<1>9. workers' \subseteq Uses /\ OthersAlone(r)
  BY <1>1, <1>4, <1>5, <1>6 DEF OthersAlone, Uses
<1>10. QED
  BY <1>1, <1>2, <1>3, <1>4, <1>5, <1>6, <1>7, <1>8, <1>9, PhasePreserves

LEMMA SoakStartsPreserves == ASSUME IInv, NEW r \in Runs, SoakStarts(r) PROVE IInv'
<1>1. /\ pc[r] = "presoak" /\ Alive(r) /\ pc[r] \in Holding /\ LogKept(r) /\ WorkersKept(r)
      /\ pc \in [Runs -> Label] /\ workers \subseteq Uses
      /\ dog \in [Uses -> {"off", "polling", "clearing"}]
      /\ spent \in [Runs -> Nat] /\ log \in [Runs -> {"none", "open", "complete"}]
  BY DEF SoakStarts, Alive, Holding, IInv, RunFine, TypeOK
<1>2. PICK l \in {"soaking", "unwinding"} : Goto(r, l)
  BY DEF SoakStarts
<1>3. pc'[r] = l /\ l \in Label \ {"new", "gone"}
  BY <1>1, <1>2 DEF Goto, Label
<1>4. /\ UNCHANGED <<opt, endVars, clockVars, tj, parse_error, kills>>
      /\ workers' \subseteq workers \cup {<<r, "soak">>}
  BY DEF SoakStarts, runVars
<1>5. /\ dog' \in [Uses -> {"off", "polling", "clearing"}]
      /\ \A u \in Uses : dog'[u] = "clearing" => dog[u] = "clearing"
  BY <1>1 DEF SoakStarts
<1>6. /\ spent' \in [Runs -> Nat] /\ log' \in [Runs -> {"none", "open", "complete"}]
      /\ \A s \in Runs \ {r} : log'[s] = log[s]
  BY <1>1 DEF SoakStarts, runVars
<1>7. LogKept(r)'
  BY <1>1, <1>2, <1>3 DEF SoakStarts, LogKept, runVars
<1>8. WorkersKept(r)'
  BY <1>1, <1>2, <1>3, <1>4 DEF SoakStarts, WorkersKept, NoneRuns
<1>9. workers' \subseteq Uses /\ OthersAlone(r)
  BY <1>1, <1>4, <1>5, <1>6 DEF OthersAlone, Uses
<1>10. QED
  BY <1>1, <1>2, <1>3, <1>4, <1>5, <1>6, <1>7, <1>8, <1>9, PhasePreserves

LEMMA SoakEndsPreserves == ASSUME IInv, NEW r \in Runs, SoakEnds(r) PROVE IInv'
<1>1. /\ pc[r] = "soaking" /\ Alive(r) /\ pc[r] \in Holding /\ LogKept(r) /\ WorkersKept(r)
      /\ pc \in [Runs -> Label] /\ workers \subseteq Uses
      /\ dog \in [Uses -> {"off", "polling", "clearing"}]
      /\ spent \in [Runs -> Nat] /\ log \in [Runs -> {"none", "open", "complete"}]
  BY DEF SoakEnds, Alive, Holding, IInv, RunFine, TypeOK
<1>2. PICK l \in {"warming", "unwinding"} : Goto(r, l)
  BY DEF SoakEnds
<1>3. pc'[r] = l /\ l \in Label \ {"new", "gone"}
  BY <1>1, <1>2 DEF Goto, Label
<1>4. /\ UNCHANGED <<opt, endVars, clockVars, tj, parse_error, kills>>
      /\ workers' \subseteq workers
  BY DEF SoakEnds, runVars
<1>5. /\ dog' \in [Uses -> {"off", "polling", "clearing"}]
      /\ \A u \in Uses : dog'[u] = "clearing" => dog[u] = "clearing"
  BY <1>1 DEF SoakEnds, Terminate
<1>6. /\ spent' \in [Runs -> Nat] /\ log' \in [Runs -> {"none", "open", "complete"}]
      /\ \A s \in Runs \ {r} : log'[s] = log[s]
  BY <1>1 DEF SoakEnds, runVars
<1>7. LogKept(r)'
  BY <1>1, <1>2, <1>3 DEF SoakEnds, LogKept, runVars
<1>8. WorkersKept(r)'
  BY <1>1, <1>2, <1>3, <1>4 DEF SoakEnds, WorkersKept, NoneRuns, Goto
<1>9. workers' \subseteq Uses /\ OthersAlone(r)
  BY <1>1, <1>4, <1>5, <1>6 DEF OthersAlone, Uses
<1>10. QED
  BY <1>1, <1>2, <1>3, <1>4, <1>5, <1>6, <1>7, <1>8, <1>9, PhasePreserves

LEMMA WarmUpPreserves == ASSUME IInv, NEW r \in Runs, WarmUp(r) PROVE IInv'
<1>1. /\ pc[r] = "warming" /\ Alive(r) /\ pc[r] \in Holding /\ LogKept(r) /\ WorkersKept(r)
      /\ pc \in [Runs -> Label] /\ workers \subseteq Uses
      /\ dog \in [Uses -> {"off", "polling", "clearing"}]
      /\ spent \in [Runs -> Nat] /\ log \in [Runs -> {"none", "open", "complete"}]
  BY DEF WarmUp, Alive, Holding, IInv, RunFine, TypeOK
<1>2. PICK l \in {"unwinding", "measuring"} : Goto(r, l)
  BY DEF WarmUp
<1>3. pc'[r] = l /\ l \in Label \ {"new", "gone"}
  BY <1>1, <1>2 DEF Goto, Label
<1>4. /\ UNCHANGED <<opt, endVars, clockVars, tj, parse_error, kills>>
      /\ workers' \subseteq workers
  BY DEF WarmUp, runVars
<1>5. /\ dog' \in [Uses -> {"off", "polling", "clearing"}]
      /\ \A u \in Uses : dog'[u] = "clearing" => dog[u] = "clearing"
  BY <1>1 DEF WarmUp
<1>6. /\ spent' \in [Runs -> Nat] /\ log' \in [Runs -> {"none", "open", "complete"}]
      /\ \A s \in Runs \ {r} : log'[s] = log[s]
  BY <1>1 DEF WarmUp, runVars
<1>7. LogKept(r)'
  BY <1>1, <1>2, <1>3 DEF WarmUp, LogKept, Goto, runVars
<1>8. WorkersKept(r)'
  BY <1>1, <1>2, <1>3, <1>4 DEF WarmUp, WorkersKept, NoneRuns
<1>9. workers' \subseteq Uses /\ OthersAlone(r)
  BY <1>1, <1>4, <1>5, <1>6 DEF OthersAlone, Uses
<1>10. QED
  BY <1>1, <1>2, <1>3, <1>4, <1>5, <1>6, <1>7, <1>8, <1>9, PhasePreserves

LEMMA MeasuredOverPreserves == ASSUME IInv, NEW r \in Runs, MeasuredOver(r) PROVE IInv'
<1>1. /\ pc[r] = "measuring" /\ Alive(r) /\ pc[r] \in Holding /\ LogKept(r) /\ WorkersKept(r)
      /\ pc \in [Runs -> Label] /\ workers \subseteq Uses
      /\ dog \in [Uses -> {"off", "polling", "clearing"}]
      /\ spent \in [Runs -> Nat] /\ log \in [Runs -> {"none", "open", "complete"}]
  BY DEF MeasuredOver, Alive, Holding, IInv, RunFine, TypeOK
<1>2. PICK l \in {"closing"} : Goto(r, l)
  BY DEF MeasuredOver
<1>3. pc'[r] = l /\ l \in Label \ {"new", "gone"}
  BY <1>1, <1>2 DEF Goto, Label
<1>4. /\ UNCHANGED <<opt, endVars, clockVars, tj, parse_error, kills>>
      /\ workers' \subseteq workers
  BY DEF MeasuredOver, runVars
<1>5. /\ dog' \in [Uses -> {"off", "polling", "clearing"}]
      /\ \A u \in Uses : dog'[u] = "clearing" => dog[u] = "clearing"
  BY <1>1 DEF MeasuredOver, Terminate
<1>6. /\ spent' \in [Runs -> Nat] /\ log' \in [Runs -> {"none", "open", "complete"}]
      /\ \A s \in Runs \ {r} : log'[s] = log[s]
  BY <1>1 DEF MeasuredOver, runVars
<1>7. LogKept(r)'
  BY <1>1, <1>2, <1>3 DEF MeasuredOver, LogKept, runVars
<1>8. WorkersKept(r)'
  BY <1>1, <1>2, <1>3, <1>4 DEF MeasuredOver, WorkersKept, NoneRuns
<1>9. workers' \subseteq Uses /\ OthersAlone(r)
  BY <1>1, <1>4, <1>5, <1>6 DEF OthersAlone, Uses
<1>10. QED
  BY <1>1, <1>2, <1>3, <1>4, <1>5, <1>6, <1>7, <1>8, <1>9, PhasePreserves

\* The workers are stopped and the log is complete before anything may hang.
LEMMA CloseRecordsPreserves == ASSUME IInv, NEW r \in Runs, CloseRecords(r) PROVE IInv'
<1>1. /\ pc[r] = "closing" /\ Alive(r) /\ pc[r] \in Holding /\ LogKept(r) /\ WorkersKept(r)
      /\ pc \in [Runs -> Label] /\ workers \subseteq Uses
      /\ dog \in [Uses -> {"off", "polling", "clearing"}]
      /\ spent \in [Runs -> Nat] /\ log \in [Runs -> {"none", "open", "complete"}]
  BY DEF CloseRecords, Alive, Holding, IInv, RunFine, TypeOK
<1>2. PICK l \in {"closed"} : Goto(r, l)
  BY DEF CloseRecords
<1>3. pc'[r] = l /\ l \in Label \ {"new", "gone"}
  BY <1>1, <1>2 DEF Goto, Label
<1>4. /\ UNCHANGED <<opt, endVars, clockVars, tj, parse_error, kills>>
      /\ workers' \subseteq workers
  BY DEF CloseRecords, runVars
<1>5. /\ dog' \in [Uses -> {"off", "polling", "clearing"}]
      /\ \A u \in Uses : dog'[u] = "clearing" => dog[u] = "clearing"
  BY <1>1 DEF CloseRecords
<1>6. /\ spent' \in [Runs -> Nat] /\ log' \in [Runs -> {"none", "open", "complete"}]
      /\ \A s \in Runs \ {r} : log'[s] = log[s]
  BY <1>1 DEF CloseRecords, runVars
<1>7. LogKept(r)'
  BY <1>1, <1>2, <1>3 DEF CloseRecords, LogKept, runVars
<1>8. WorkersKept(r)'
  BY <1>1, <1>2, <1>3, <1>4 DEF CloseRecords, WorkersKept, NoneRuns
<1>9. workers' \subseteq Uses /\ OthersAlone(r)
  BY <1>1, <1>4, <1>5, <1>6 DEF OthersAlone, Uses
<1>10. QED
  BY <1>1, <1>2, <1>3, <1>4, <1>5, <1>6, <1>7, <1>8, <1>9, PhasePreserves

LEMMA StopSamplerPreserves == ASSUME IInv, NEW r \in Runs, StopSampler(r) PROVE IInv'
<1>1. /\ pc[r] = "closed" /\ Alive(r) /\ pc[r] \in Holding /\ LogKept(r) /\ WorkersKept(r)
      /\ pc \in [Runs -> Label] /\ workers \subseteq Uses
      /\ dog \in [Uses -> {"off", "polling", "clearing"}]
      /\ spent \in [Runs -> Nat] /\ log \in [Runs -> {"none", "open", "complete"}]
  BY DEF StopSampler, Alive, Holding, IInv, RunFine, TypeOK
<1>2. PICK l \in {"unwinding", "cancelling"} : Goto(r, l)
  BY DEF StopSampler
<1>3. pc'[r] = l /\ l \in Label \ {"new", "gone"}
  BY <1>1, <1>2 DEF Goto, Label
<1>4. /\ UNCHANGED <<opt, endVars, clockVars, tj, parse_error, kills>>
      /\ workers' \subseteq workers
  BY DEF StopSampler, runVars
<1>5. /\ dog' \in [Uses -> {"off", "polling", "clearing"}]
      /\ \A u \in Uses : dog'[u] = "clearing" => dog[u] = "clearing"
  BY <1>1 DEF StopSampler
<1>6. /\ spent' \in [Runs -> Nat] /\ log' \in [Runs -> {"none", "open", "complete"}]
      /\ \A s \in Runs \ {r} : log'[s] = log[s]
  BY <1>1 DEF StopSampler, runVars
<1>7. LogKept(r)'
  BY <1>1, <1>2, <1>3 DEF StopSampler, LogKept, runVars
<1>8. WorkersKept(r)'
  BY <1>1, <1>2, <1>3, <1>4 DEF StopSampler, WorkersKept, NoneRuns
<1>9. workers' \subseteq Uses /\ OthersAlone(r)
  BY <1>1, <1>4, <1>5, <1>6 DEF OthersAlone, Uses
<1>10. QED
  BY <1>1, <1>2, <1>3, <1>4, <1>5, <1>6, <1>7, <1>8, <1>9, PhasePreserves

LEMMA CancelPreserves == ASSUME IInv, NEW r \in Runs, Cancel(r) PROVE IInv'
<1>1. /\ pc[r] = "cancelling" /\ Alive(r) /\ pc[r] \in Holding /\ LogKept(r) /\ WorkersKept(r)
      /\ pc \in [Runs -> Label] /\ workers \subseteq Uses
      /\ dog \in [Uses -> {"off", "polling", "clearing"}]
      /\ spent \in [Runs -> Nat] /\ log \in [Runs -> {"none", "open", "complete"}]
  BY DEF Cancel, Alive, Holding, IInv, RunFine, TypeOK
<1>2. PICK l \in {"draining", "leaving", "hung"} : Goto(r, l)
  BY DEF Cancel
<1>3. pc'[r] = l /\ l \in Label \ {"new", "gone"}
  BY <1>1, <1>2 DEF Goto, Label
<1>4. /\ UNCHANGED <<opt, endVars, clockVars, tj, parse_error, kills>>
      /\ workers' \subseteq workers
  BY DEF Cancel, runVars
<1>5. /\ dog' \in [Uses -> {"off", "polling", "clearing"}]
      /\ \A u \in Uses : dog'[u] = "clearing" => dog[u] = "clearing"
  BY <1>1 DEF Cancel
<1>6. /\ spent' \in [Runs -> Nat] /\ log' \in [Runs -> {"none", "open", "complete"}]
      /\ \A s \in Runs \ {r} : log'[s] = log[s]
  BY <1>1, TimesAssumption DEF Cancel, runVars
<1>7. LogKept(r)'
  BY <1>1, <1>2, <1>3 DEF Cancel, LogKept, runVars
<1>8. WorkersKept(r)'
  BY <1>1, <1>2, <1>3, <1>4 DEF Cancel, WorkersKept, NoneRuns
<1>9. workers' \subseteq Uses /\ OthersAlone(r)
  BY <1>1, <1>4, <1>5, <1>6 DEF OthersAlone, Uses
<1>10. QED
  BY <1>1, <1>2, <1>3, <1>4, <1>5, <1>6, <1>7, <1>8, <1>9, PhasePreserves

LEMMA DrainPreserves == ASSUME IInv, NEW r \in Runs, Drain(r) PROVE IInv'
<1>1. /\ pc[r] = "draining" /\ Alive(r) /\ pc[r] \in Holding /\ LogKept(r) /\ WorkersKept(r)
      /\ pc \in [Runs -> Label] /\ workers \subseteq Uses
      /\ dog \in [Uses -> {"off", "polling", "clearing"}]
      /\ spent \in [Runs -> Nat] /\ log \in [Runs -> {"none", "open", "complete"}]
  BY DEF Drain, Alive, Holding, IInv, RunFine, TypeOK
<1>2. PICK l \in {"leaving"} : Goto(r, l)
  BY DEF Drain
<1>3. pc'[r] = l /\ l \in Label \ {"new", "gone"}
  BY <1>1, <1>2 DEF Goto, Label
<1>4. /\ UNCHANGED <<opt, endVars, clockVars, tj, parse_error, kills>>
      /\ workers' \subseteq workers
  BY DEF Drain, runVars
<1>5. /\ dog' \in [Uses -> {"off", "polling", "clearing"}]
      /\ \A u \in Uses : dog'[u] = "clearing" => dog[u] = "clearing"
  BY <1>1 DEF Drain
<1>6. /\ spent' \in [Runs -> Nat] /\ log' \in [Runs -> {"none", "open", "complete"}]
      /\ \A s \in Runs \ {r} : log'[s] = log[s]
  BY <1>1, TimesAssumption DEF Drain, runVars
<1>7. LogKept(r)'
  BY <1>1, <1>2, <1>3 DEF Drain, LogKept, runVars
<1>8. WorkersKept(r)'
  BY <1>1, <1>2, <1>3, <1>4 DEF Drain, WorkersKept, NoneRuns
<1>9. workers' \subseteq Uses /\ OthersAlone(r)
  BY <1>1, <1>4, <1>5, <1>6 DEF OthersAlone, Uses
<1>10. QED
  BY <1>1, <1>2, <1>3, <1>4, <1>5, <1>6, <1>7, <1>8, <1>9, PhasePreserves

\* restore(): only the clocks change, and nobody else is alive to hold them.
LEMMA RestorePreserves ==
    ASSUME IInv, NEW r \in Runs, RestoreClocks(r), OthersAlone(r),
           \/ pc[r] = "leaving" /\ Goto(r, "exiting")
           \/ pc[r] = "unwinding" /\ Goto(r, "tearing"),
           UNCHANGED <<opt, endVars, workers, dog, tj, runVars, kills>>
    PROVE  IInv'
<1>1. PICK l \in {"exiting", "tearing"} : Goto(r, l) /\ (l = "exiting" => pc[r] = "leaving")
  OBVIOUS
<1>2. /\ Alive(r) /\ RunFine(r) /\ l \in Label \ {"new", "gone"}
      /\ \A u \in Uses : u[1] = r => dog[u] # "clearing"
  BY DEF Alive, IInv, Label, ClearsTheDead
<1>3. /\ pc' \in [Runs -> Label] /\ pc'[r] = l /\ OneHolder' /\ ClearsTheDead'
      /\ \A s \in Runs \ {r} : RunFine(s)'
  BY <1>1, <1>2, Moves
<1>4. TypeOK' /\ BaselineFree'
  <2>1. clocks' \in {"free", "pinned"} /\ owed' \subseteq Runs /\ UNCHANGED <<baseline, late>>
    BY DEF IInv, TypeOK, BaselineFree, RestoreClocks, Restored
  <2>2. QED
    BY <1>3, <2>1 DEF IInv, TypeOK, BaselineFree, endVars, runVars
<1>5. RunFine(r)'
  BY <1>1, <1>2, <1>3 DEF RunFine, ClocksHeld, Holding, LogKept, WorkersKept, NoneRuns, Ended,
                          Alive, endVars, runVars
<1>6. QED
  BY <1>3, <1>4, <1>5 DEF IInv

LEMMA LeavePreserves == ASSUME IInv, NEW r \in Runs, Leave(r) \/ Unwind(r) PROVE IInv'
<1>1. OthersAlone(r)
  BY DEF Leave, Unwind, OthersAlone, runVars
<1>2. QED
  BY <1>1, RestorePreserves DEF Leave, Unwind

\* The process ends and leaves what it left before, or less.
LEMMA EndPreserves ==
    ASSUME IInv, NEW r \in Runs, Alive(r), NEW how \in {"self", "breach", "killed"}, Ends(r, how),
           UNCHANGED <<opt, clockVars, tj, runVars>>, kills' \in 0 .. MaxKills,
           workers' \subseteq workers, dog' \in [Uses -> {"off", "polling", "clearing"}],
           \A u \in Uses : dog'[u] = "clearing" => dog[u] = "clearing" \/ u[1] = r,
           how = "self" => log[r] # "open",
           how \in {"self", "breach"} => NoneRuns(r)'
    PROVE  IInv'
<1>1. OthersAlone(r)
  BY DEF OthersAlone, runVars
<1>2. /\ pc' \in [Runs -> Label] /\ pc'[r] = "gone"
      /\ left' \in [Runs -> {"no", "refused", "self", "breach", "killed"}] /\ left'[r] = how
      /\ lock' \subseteq Runs /\ OneHolder' /\ ClearsTheDead'
      /\ \A s \in Runs \ {r} : RunFine(s)'
  BY <1>1, Ending
<1>3. TypeOK' /\ BaselineFree'
  BY <1>2 DEF IInv, TypeOK, BaselineFree, clockVars, runVars
<1>4. RunFine(r)'
  BY <1>2 DEF RunFine, ClocksHeld, Holding, LogKept, WorkersKept, Ended, runVars
<1>5. QED
  BY <1>2, <1>3, <1>4 DEF IInv

LEMMA HardExitPreserves == ASSUME IInv, NEW r \in Runs, HardExit(r) \/ Exit(r) PROVE IInv'
<1>1. pc[r] \in {"hung", "draining", "exiting"} /\ Ends(r, "self")
  BY DEF HardExit, HardExitDue, Exit
<1>2. UNCHANGED <<opt, clockVars, workers, dog, tj, runVars, kills>>
  BY DEF HardExit, Exit
<1>3. /\ Alive(r) /\ log[r] # "open" /\ NoneRuns(r)
      /\ kills \in 0 .. MaxKills /\ dog \in [Uses -> {"off", "polling", "clearing"}]
  BY <1>1 DEF Alive, IInv, TypeOK, RunFine, LogKept, WorkersKept
<1>4. NoneRuns(r)'
  BY <1>2, <1>3 DEF NoneRuns
<1>5. QED
  BY <1>1, <1>2, <1>3, <1>4, EndPreserves

LEMMA KillPreserves == ASSUME IInv, NEW r \in Runs, Kill(r) PROVE IInv'
<1>1. kills' \in 0 .. MaxKills /\ dog \in [Uses -> {"off", "polling", "clearing"}]
  BY KillsAssumption DEF Kill, IInv, TypeOK
<1>2. QED
  BY <1>1, EndPreserves DEF Kill

LEMMA TearDownPreserves == ASSUME IInv, NEW r \in Runs, TearDown(r) PROVE IInv'
<1>1. /\ pc[r] = "tearing" /\ Alive(r) /\ RunFine(r) /\ log[r] # "open"
      /\ UNCHANGED <<opt, clockVars, dog, tj, runVars, kills>>
      /\ kills \in 0 .. MaxKills /\ dog \in [Uses -> {"off", "polling", "clearing"}]
  BY DEF TearDown, Alive, IInv, RunFine, LogKept, TypeOK
<1>2. CASE Ends(r, "self") /\ workers' = workers \ ({r} \X {"run", "soak"})
  <2>1. NoneRuns(r)' /\ workers' \subseteq workers
    BY <1>2 DEF NoneRuns
  <2>2. QED
    BY <1>1, <1>2, <2>1, EndPreserves
<1>3. CASE Goto(r, "stuck") /\ UNCHANGED <<endVars, workers>>
  <2>1. OthersAlone(r) /\ \A u \in Uses : u[1] = r => dog[u] # "clearing"
    BY <1>1, <1>3 DEF OthersAlone, runVars, IInv, ClearsTheDead
  <2>2. /\ pc' \in [Runs -> Label] /\ pc'[r] = "stuck" /\ OneHolder' /\ ClearsTheDead'
        /\ \A s \in Runs \ {r} : RunFine(s)'
    BY <1>1, <1>3, <2>1, Moves DEF Label
  <2>3. TypeOK' /\ BaselineFree'
    BY <1>1, <1>3, <2>2 DEF IInv, TypeOK, BaselineFree, endVars, clockVars, runVars
  <2>4. RunFine(r)'
    BY <1>1, <1>3, <2>2 DEF RunFine, ClocksHeld, Holding, LogKept, WorkersKept, Ended, endVars
  <2>5. QED
    BY <2>2, <2>3, <2>4 DEF IInv
<1>4. QED
  BY <1>2, <1>3 DEF TearDown

\* A process that is measured goes on where it is.
LEMMA RecordsPreserve ==
    ASSUME IInv, NEW r \in Runs, AbortRecords(r) \/ BadLine(r) PROVE IInv'
<1>1. /\ UNCHANGED <<pc, opt, endVars, clockVars, workers, dog, tj, spent, kills>>
      /\ log' \in [Runs -> {"none", "open", "complete"}] /\ parse_error' \in [Runs -> BOOLEAN]
      /\ \A s \in Runs : log'[s] = log[s] \/ (pc[s] = "measuring" /\ log'[s] = "complete")
  BY DEF AbortRecords, BadLine, IInv, TypeOK
<1>2. TypeOK' /\ BaselineFree' /\ OneHolder' /\ ClearsTheDead'
  BY <1>1 DEF IInv, TypeOK, BaselineFree, OneHolder, Alive, ClearsTheDead, endVars, clockVars
<1>3. \A s \in Runs : RunFine(s)'
  BY <1>1 DEF IInv, RunFine, ClocksHeld, LogKept, WorkersKept, NoneRuns, Ended, endVars, clockVars
<1>4. QED
  BY <1>2, <1>3 DEF IInv

LEMMA DogPollsPreserves == ASSUME IInv, NEW u \in Uses, DogPolls(u) PROVE IInv'
<1>1. /\ u[1] \in Runs /\ dog[u] = "polling"
      /\ dog \in [Uses -> {"off", "polling", "clearing"}] /\ kills \in 0 .. MaxKills
  BY DEF Uses, DogPolls, IInv, TypeOK
<1>2. CASE ~Alive(u[1])
  <2>1. /\ dog' \in [Uses -> {"off", "polling", "clearing"}]
        /\ \A v \in Uses : dog'[v] = "clearing" => dog[v] = "clearing"
        /\ UNCHANGED <<pc, opt, endVars, clockVars, workers, tj, runVars, kills>>
    BY <1>1, <1>2 DEF DogPolls
  <2>2. TypeOK' /\ BaselineFree' /\ OneHolder' /\ ClearsTheDead'
    BY <2>1 DEF IInv, TypeOK, BaselineFree, OneHolder, Alive, ClearsTheDead, endVars, clockVars,
                runVars
  <2>3. \A s \in Runs : RunFine(s)'
    BY <2>1 DEF IInv, RunFine, ClocksHeld, LogKept, WorkersKept, NoneRuns, Ended, endVars,
                clockVars, runVars
  <2>4. QED
    BY <2>2, <2>3 DEF IInv
<1>3. CASE Alive(u[1])
  <2>1. /\ Ends(u[1], "breach") /\ workers' = workers \ ({u[1]} \X {"run", "soak"})
        /\ dog' = [dog EXCEPT ![u] = "clearing"]
        /\ UNCHANGED <<opt, clockVars, tj, runVars, kills>>
    BY <1>3 DEF DogPolls
  <2>2. NoneRuns(u[1])' /\ workers' \subseteq workers
    BY <2>1 DEF NoneRuns
  <2>3. /\ dog' \in [Uses -> {"off", "polling", "clearing"}]
        /\ \A v \in Uses : dog'[v] = "clearing" => dog[v] = "clearing" \/ v[1] = u[1]
    BY <1>1, <2>1
  <2>4. QED
    BY <1>1, <1>3, <2>1, <2>2, <2>3, EndPreserves
<1>4. QED
  BY <1>2, <1>3

\* The watchdog of a run that is gone takes its restore, and whatever another
\* run holds is late from then on.
LEMMA DogClearsPreserves == ASSUME IInv, NEW u \in Uses, DogClears(u) PROVE IInv'
<1>1. /\ u[1] \in Runs /\ pc[u[1]] = "gone"
      /\ dog \in [Uses -> {"off", "polling", "clearing"}]
      /\ UNCHANGED <<pc, opt, endVars, baseline, tj, runVars, kills>>
  BY DEF Uses, DogClears, IInv, TypeOK, ClearsTheDead
<1>2. /\ workers' = {} /\ clocks' \in {"free", "pinned"}
      /\ owed' = owed \ {u[1]} /\ late' = late \cup (owed \ {u[1]})
      /\ dog' \in [Uses -> {"off", "polling", "clearing"}]
      /\ \A v \in Uses : dog'[v] = "clearing" => dog[v] = "clearing"
  BY <1>1 DEF DogClears, Restored, IInv, TypeOK, BaselineFree
<1>3. TypeOK' /\ BaselineFree' /\ OneHolder' /\ ClearsTheDead'
  <2>1. TypeOK'
    BY <1>1, <1>2 DEF IInv, TypeOK, endVars, runVars
  <2>2. BaselineFree' /\ OneHolder' /\ ClearsTheDead'
    BY <1>1, <1>2 DEF IInv, BaselineFree, OneHolder, Alive, ClearsTheDead, endVars
  <2>3. QED
    BY <2>1, <2>2
<1>4. ASSUME NEW s \in Runs PROVE RunFine(s)'
  <2>1. RunFine(s) /\ NoneRuns(s)'
    BY <1>2 DEF IInv, NoneRuns
  <2>2. ClocksHeld(s)'
    BY <1>1, <1>2, <2>1 DEF RunFine, ClocksHeld, Holding
  <2>3. LogKept(s)' /\ WorkersKept(s)' /\ Ended(s)'
    BY <1>1, <1>2, <2>1 DEF RunFine, LogKept, WorkersKept, NoneRuns, Ended, endVars, runVars
  <2>4. QED
    BY <2>2, <2>3 DEF RunFine
<1>5. QED
  BY <1>3, <1>4 DEF IInv

LEMMA QuietPreserves == ASSUME IInv, Heat \/ UNCHANGED vars PROVE IInv'
<1>1. /\ UNCHANGED <<pc, opt, endVars, clockVars, workers, dog, runVars, kills>>
      /\ tj' \in {"cool", "warm", "over"}
  BY DEF Heat, vars, IInv, TypeOK
<1>2. TypeOK' /\ BaselineFree' /\ OneHolder' /\ ClearsTheDead'
  BY <1>1 DEF IInv, TypeOK, BaselineFree, OneHolder, Alive, ClearsTheDead, endVars, clockVars,
              runVars
<1>3. \A s \in Runs : RunFine(s)'
  BY <1>1 DEF IInv, RunFine, ClocksHeld, LogKept, WorkersKept, NoneRuns, Ended, endVars, clockVars,
              runVars
<1>4. QED
  BY <1>2, <1>3 DEF IInv

LEMMA NextPreserves == IInv /\ [Next]_vars => IInv'
<1> SUFFICES ASSUME IInv, [Next]_vars PROVE IInv'
  OBVIOUS
<1>1. ASSUME NEW r \in Runs, RunStep(r) PROVE IInv'
  BY <1>1, AcquirePreserves, EnsureBaselinePreserves, SetClocksPreserves, SetUpPreserves,
     SoakStartsPreserves, SoakEndsPreserves, WarmUpPreserves, MeasuredOverPreserves DEF RunStep
<1>2. ASSUME NEW r \in Runs, Teardown(r) PROVE IInv'
  BY <1>2, CloseRecordsPreserves, StopSamplerPreserves, CancelPreserves, DrainPreserves,
     LeavePreserves, HardExitPreserves, TearDownPreserves DEF Teardown
<1>3. ASSUME NEW r \in Runs, HardExit(r) \/ AbortRecords(r) \/ BadLine(r) \/ Kill(r) PROVE IInv'
  BY <1>3, HardExitPreserves, RecordsPreserve, KillPreserves
<1>4. ASSUME NEW u \in Uses, DogPolls(u) \/ DogClears(u) PROVE IInv'
  BY <1>4, DogPollsPreserves, DogClearsPreserves
<1>5. QED
  BY <1>1, <1>2, <1>3, <1>4, QuietPreserves DEF Next

-----------------------------------------------------------------------------
THEOREM Invariance == Spec => []IInv
<1>1. QED
  BY InitEstablishes, NextPreserves, PTL DEF Spec

\* Every variable has the shape the run driver, clocks.py, soak.py and the
\* watchdog give it, in every reachable state of every board.
THEOREM TypeCorrect == Spec => []TypeOK
<1>1. IInv => TypeOK
  BY DEF IInv
<1>2. QED
  BY <1>1, Invariance, PTL

\* However many runs are started, refused, killed or cleared away, no two of
\* them are past acquire_singleton() at the same time.
THEOREM OneRunAtATime == Spec => [](\A r, s \in Runs : Alive(r) /\ Alive(s) => r = s)
<1>1. IInv => \A r, s \in Runs : Alive(r) /\ Alive(s) => r = s
  BY DEF IInv, OneHolder
<1>2. QED
  BY <1>1, Invariance, PTL

\* No history of kills, refused sudo and watchdogs makes ensure_baseline()
\* store pinned clocks as what to restore from.
THEOREM BaselineIsFree == Spec => []BaselineFree
<1>1. IInv => BaselineFree
  BY DEF IInv
<1>2. QED
  BY <1>1, Invariance, PTL

\* A run is measured with the clocks it set, for as long as no other run's
\* watchdog clears the board under it: a run's own restore() never comes
\* between another's set_clocks() and its measurement.
THEOREM MeasuredAsSet == Spec => []SetMeansPinned
<1>1. IInv => SetMeansPinned
  BY DEF IInv, RunFine, ClocksHeld, Holding, SetMeansPinned
<1>2. QED
  BY <1>1, Invariance, PTL

\* Whatever its teardown does, a run that ends by itself has closed its log if
\* it opened one and leaves no bandwidth worker, and one killed for heat
\* leaves no worker either.
THEOREM NothingLeftBehind == Spec => []LeavesNothing
<1>1. ASSUME IInv, NEW r \in Runs
      PROVE  /\ left[r] = "self" /\ log[r] # "none" => log[r] = "complete"
             /\ left[r] \in {"self", "breach"} => {u \in workers : u[1] = r} = {}
  <2>1. Ended(r) /\ workers \subseteq Uses /\ log[r] \in {"none", "open", "complete"}
    BY <1>1 DEF IInv, RunFine, TypeOK
  <2>2. NoneRuns(r) => {u \in workers : u[1] = r} = {}
    BY <2>1 DEF NoneRuns, Uses
  <2>3. QED
    BY <2>1, <2>2 DEF Ended
<1>2. IInv => LeavesNothing
  BY <1>1 DEF LeavesNothing
<1>3. QED
  BY <1>2, Invariance, PTL
===============================================================================
