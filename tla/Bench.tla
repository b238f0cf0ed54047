--------------------------------- MODULE Bench ---------------------------------
(***************************************************************************)
(* The board that measured runs share, one after the other: the singleton  *)
(* lock, the clocks and their baseline file, the bandwidth workers, and    *)
(* the thermal watchdogs (run_reactive.run, clocks.py, soak.py,            *)
(* adversary.py, telemetry.py, thermal_watchdog.py).  A run is a process:  *)
(* it ends by itself, is killed by one of its watchdogs, or is killed from *)
(* outside.  What it measures between is the other modules' subject.       *)
(***************************************************************************)
EXTENDS Integers, FiniteSets

CONSTANTS Runs,
          Options,    \* command lines: [clocks, watchdog, soak, adversary]
          TEARDOWN_TIMEOUT_S, DEVICE_SETTLE_S,
          Lags,       \* seconds a step of the teardown may take
          MaxKills    \* runs killed from outside

ASSUME OptionsAssumption == Options \subseteq [{"clocks", "watchdog", "soak", "adversary"} -> BOOLEAN]
ASSUME TimesAssumption ==
    /\ {TEARDOWN_TIMEOUT_S, DEVICE_SETTLE_S} \subseteq Nat \ {0}
    /\ Lags \subseteq 0 .. TEARDOWN_TIMEOUT_S
ASSUME KillsAssumption == MaxKills \in Nat

\* A run may have two watchdogs, and two sets of bandwidth workers.
Uses == Runs \X {"run", "soak"}

VARIABLES pc, opt,
          lock,      \* who holds .run.lock: no run, or one
          clocks,    \* "free" or "pinned"
          baseline,  \* what clocks.baseline stores, or "none"
          owed,      \* runs that have pinned the clocks and not restored them
          late,      \* runs whose clocks another run's watchdog restored
          workers,   \* bandwidth workers that are alive
          dog,       \* each watchdog: "off", "polling" or "clearing"
          tj,        \* "cool" (a soak may start), "warm" or "over" the ceiling
          parse_error, \* the sampler met a line it cannot parse
          log,       \* "none" before the turns, then "open", then "complete"
          spent,     \* seconds since the hard exit was armed
          left,      \* how the run ended
          kills

clockVars == <<clocks, baseline, owed, late>>
runVars == <<parse_error, log, spent>>
endVars == <<lock, left>>
vars == <<pc, opt, endVars, clockVars, workers, dog, tj, runVars, kills>>

-----------------------------------------------------------------------------
(* Mistakes a change could make; the mutants put them in place.            *)
HungForever(r) == pc[r] = "draining" /\ spent[r] > 0

-----------------------------------------------------------------------------
Goto(r, l) == pc' = [pc EXCEPT ![r] = l]
Alive(r) == pc[r] \notin {"new", "gone"}
Restored == IF baseline = "none" THEN clocks ELSE baseline

\* The process ends; the kernel drops its flock.
Ends(r, how) ==
    /\ Goto(r, "gone")
    /\ left' = [left EXCEPT ![r] = how]
    /\ lock' = lock \ {r}

Terminate(uses) == dog' = [u \in Uses |-> IF u \in uses THEN "off" ELSE dog[u]]

Init ==
    /\ pc = [r \in Runs |-> "new"]
    /\ opt \in [Runs -> Options]
    /\ lock = {}
    /\ clocks \in {"free", "pinned"} /\ baseline \in {"none", "free"}
    /\ owed = {} /\ late = {} /\ workers = {}
    /\ dog = [u \in Uses |-> "off"]
    /\ tj \in {"cool", "warm"}
    /\ parse_error = [r \in Runs |-> FALSE]
    /\ log = [r \in Runs |-> "none"]
    /\ spent = [r \in Runs |-> 0]
    /\ left = [r \in Runs |-> "no"]
    /\ kills = 0

\* Mistakes again: no lock, a baseline per run, the log closed too late.
AcquireAnyway(r) ==
    /\ pc[r] = "new"
    /\ lock' = lock \cup {r}
    /\ Goto(r, "locked")
    /\ UNCHANGED <<opt, left, clockVars, workers, dog, tj, runVars, kills>>
StoreAsFound(r) ==
    /\ pc[r] = "locked"
    /\ baseline' = clocks
    /\ Goto(r, "based")
    /\ UNCHANGED <<opt, endVars, clocks, owed, late, workers, dog, tj, runVars, kills>>
CloseLater(r) ==
    /\ pc[r] = "closing"
    /\ workers' = workers \ {<<r, "run">>}
    /\ Goto(r, "closed")
    /\ UNCHANGED <<opt, endVars, clockVars, dog, tj, runVars, kills>>

\* acquire_singleton().
Acquire(r) ==
    /\ pc[r] = "new"
    /\ IF lock = {} THEN lock' = {r} /\ Goto(r, "locked") /\ UNCHANGED left
       ELSE Ends(r, "refused")
    /\ UNCHANGED <<opt, clockVars, workers, dog, tj, runVars, kills>>

\* ensure_baseline(): a baseline is never taken from pinned clocks.
EnsureBaseline(r) ==
    /\ pc[r] = "locked"
    /\ \/ baseline # "none" /\ Goto(r, "based") /\ UNCHANGED <<baseline, endVars>>
       \/ baseline = "none" /\ clocks = "pinned" /\ Ends(r, "self") /\ UNCHANGED baseline
       \/ /\ baseline = "none" /\ clocks # "pinned"
          /\ baseline' = clocks
          /\ Goto(r, "based")
          /\ UNCHANGED endVars
    /\ UNCHANGED <<opt, clocks, owed, late, workers, dog, tj, runVars, kills>>

\* set_clocks(), before the try whose finally restores them; sudo may refuse.
SetClocks(r) ==
    /\ pc[r] = "based"
    /\ \/ /\ clocks' = IF opt[r].clocks THEN "pinned" ELSE clocks
          /\ owed' = IF opt[r].clocks THEN owed \cup {r} ELSE owed
          /\ Goto(r, "setup")
          /\ UNCHANGED endVars
       \/ opt[r].clocks /\ Ends(r, "self") /\ UNCHANGED <<clocks, owed>>
    /\ UNCHANGED <<opt, baseline, late, workers, dog, tj, runVars, kills>>

\* The sampler, the adversary and the run's watchdog start; what stands before
\* them (llama_pid, the wavs, the policy's demands) may end the run.
SetUp(r) ==
    /\ pc[r] = "setup"
    /\ \/ Goto(r, "unwinding") /\ UNCHANGED <<workers, dog>>
       \/ /\ workers' = IF opt[r].adversary THEN workers \cup {<<r, "run">>} ELSE workers
          /\ dog' = IF opt[r].watchdog THEN [dog EXCEPT ![<<r, "run">>] = "polling"] ELSE dog
          /\ Goto(r, IF opt[r].soak THEN "presoak" ELSE "warming")
    /\ UNCHANGED <<opt, endVars, clockVars, tj, runVars, kills>>

\* soak(): its own watchdog is started first; SoakTooHot on a board that is
\* not cool; its workers with --soak-cpus.
SoakStarts(r) ==
    /\ pc[r] = "presoak"
    /\ IF tj = "cool"
       THEN /\ dog' = [dog EXCEPT ![<<r, "soak">>] = "polling"]
            /\ workers' = workers \cup {<<r, "soak">>}
            /\ Goto(r, "soaking")
       ELSE Goto(r, "unwinding") /\ UNCHANGED <<workers, dog>>
    /\ UNCHANGED <<opt, endVars, clockVars, tj, runVars, kills>>

\* At its target, its time or its ceiling; or no server is there; or a request
\* fails, and nobody stops the workers.
SoakEnds(r) ==
    /\ pc[r] = "soaking"
    /\ Terminate({<<r, "soak">>})
    /\ \/ workers' = workers \ {<<r, "soak">>} /\ (Goto(r, "warming") \/ Goto(r, "unwinding"))
       \/ UNCHANGED workers /\ Goto(r, "unwinding")
    /\ UNCHANGED <<opt, endVars, clockVars, tj, runVars, kills>>

\* The warm-up of every stage; then the pipeline's runner.
WarmUp(r) ==
    /\ pc[r] = "warming"
    /\ \/ Goto(r, "unwinding") /\ UNCHANGED log
       \/ Goto(r, "measuring") /\ log' = [log EXCEPT ![r] = "open"]
    /\ UNCHANGED <<opt, endVars, clockVars, workers, dog, tj, parse_error, spent, kills>>

\* abort_on_invariant(): record first, cancel second.
AbortRecords(r) ==
    /\ pc[r] = "measuring"
    /\ log[r] = "open"
    /\ log' = [log EXCEPT ![r] = "complete"]
    /\ UNCHANGED <<pc, opt, endVars, clockVars, workers, dog, tj, parse_error, spent, kills>>

\* TegrastatsSampler._pump(): one bad line ends the stream.
BadLine(r) ==
    /\ pc[r] \in {"presoak", "soaking", "warming", "measuring", "closing", "closed"}
    /\ ~parse_error[r]
    /\ parse_error' = [parse_error EXCEPT ![r] = TRUE]
    /\ UNCHANGED <<pc, opt, endVars, clockVars, workers, dog, tj, log, spent, kills>>

-----------------------------------------------------------------------------
(* The end of a run.                                                       *)

\* The measured phase is over: the watchdog is disarmed before the teardown.
MeasuredOver(r) ==
    /\ pc[r] = "measuring"
    /\ Terminate({<<r, "run">>})
    /\ Goto(r, "closing")
    /\ UNCHANGED <<opt, endVars, clockVars, workers, tj, runVars, kills>>

\* The adversary is stopped and the log closed before anything that may hang.
CloseRecords(r) ==
    /\ pc[r] = "closing"
    /\ workers' = workers \ {<<r, "run">>}
    /\ log' = [log EXCEPT ![r] = "complete"]
    /\ Goto(r, "closed")
    /\ UNCHANGED <<opt, endVars, clockVars, dog, tj, parse_error, spent, kills>>

\* sampler.stop() raises if the stream had ended, and then nothing is armed.
StopSampler(r) ==
    /\ pc[r] = "closed"
    /\ Goto(r, IF parse_error[r] THEN "unwinding" ELSE "cancelling")
    /\ UNCHANGED <<opt, endVars, clockVars, workers, dog, tj, runVars, kills>>

\* task.cancel() under wait_for(): done, timed out, or hung beyond wait_for.
Cancel(r) ==
    /\ pc[r] = "cancelling"
    /\ \/ \E s \in Lags :
             /\ spent' = [spent EXCEPT ![r] = s]
             /\ Goto(r, IF s < TEARDOWN_TIMEOUT_S THEN "draining" ELSE "leaving")
       \/ Goto(r, "hung") /\ UNCHANGED spent
    /\ UNCHANGED <<opt, endVars, clockVars, workers, dog, tj, parse_error, log, kills>>

\* The wait for the runner, at most TEARDOWN_TIMEOUT_S more.
Drain(r) ==
    /\ pc[r] = "draining"
    /\ \E s \in Lags :
          /\ spent[r] + s < TEARDOWN_TIMEOUT_S + DEVICE_SETTLE_S
          /\ spent' = [spent EXCEPT ![r] = @ + s]
    /\ Goto(r, "leaving")
    /\ UNCHANGED <<opt, endVars, clockVars, workers, dog, tj, parse_error, log, kills>>

\* The guard of arm_hard_exit(), TEARDOWN_TIMEOUT_S and DEVICE_SETTLE_S later.
HardExitDue(r) ==
    \/ pc[r] = "hung"
    \/ /\ pc[r] = "draining"
       /\ \E s \in Lags : spent[r] + s >= TEARDOWN_TIMEOUT_S + DEVICE_SETTLE_S
HardExit(r) ==
    /\ HardExitDue(r)
    /\ Ends(r, "self")
    /\ UNCHANGED <<opt, clockVars, workers, dog, tj, runVars, kills>>

RestoreClocks(r) ==
    /\ clocks' = IF opt[r].clocks THEN Restored ELSE clocks
    /\ owed' = owed \ {r}
    /\ UNCHANGED <<baseline, late>>

\* restore() and then os._exit(), which runs nothing at exit.
Leave(r) ==
    /\ pc[r] = "leaving"
    /\ RestoreClocks(r)
    /\ Goto(r, "exiting")
    /\ UNCHANGED <<opt, endVars, workers, dog, tj, runVars, kills>>
Exit(r) ==
    /\ pc[r] = "exiting"
    /\ Ends(r, "self")
    /\ UNCHANGED <<opt, clockVars, workers, dog, tj, runVars, kills>>

\* The outer finally, for a run that failed.
Unwind(r) ==
    /\ pc[r] = "unwinding"
    /\ RestoreClocks(r)
    /\ Goto(r, "tearing")
    /\ UNCHANGED <<opt, endVars, workers, dog, tj, runVars, kills>>

\* asyncio.run() cancels what is left, which may hang once the pipeline runs;
\* the interpreter then terminates its daemon processes.
TearDown(r) ==
    /\ pc[r] = "tearing"
    /\ \/ Ends(r, "self") /\ workers' = workers \ ({r} \X {"run", "soak"})
       \/ log[r] # "none" /\ Goto(r, "stuck") /\ UNCHANGED <<endVars, workers>>
    /\ UNCHANGED <<opt, clockVars, dog, tj, runVars, kills>>

-----------------------------------------------------------------------------
(* What a run does not do itself.                                          *)

\* thermal_watchdog.py: the guarded process is gone, or too hot: SIGTERM and
\* SIGKILL to its group, which its workers are in.
DogPolls(u) ==
    /\ dog[u] = "polling"
    /\ IF ~Alive(u[1])
       THEN dog' = [dog EXCEPT ![u] = "off"] /\ UNCHANGED <<pc, endVars, workers>>
       ELSE /\ tj = "over"
            /\ Ends(u[1], "breach")
            /\ workers' = workers \ ({u[1]} \X {"run", "soak"})
            /\ dog' = [dog EXCEPT ![u] = "clearing"]
    /\ UNCHANGED <<opt, clockVars, tj, runVars, kills>>

\* Seconds later: pkill takes every worker on the board, whoever started it,
\* and the clocks are restored, whoever has pinned them.
DogClears(u) ==
    /\ dog[u] = "clearing"
    /\ workers' = {}
    /\ clocks' = Restored
    /\ owed' = owed \ {u[1]}
    /\ late' = late \cup (owed \ {u[1]})
    /\ dog' = [dog EXCEPT ![u] = "off"]
    /\ UNCHANGED <<pc, opt, endVars, baseline, tj, runVars, kills>>

\* Killed from outside: nothing is restored and its workers run on.
Kill(r) ==
    /\ Alive(r)
    /\ kills < MaxKills
    /\ kills' = kills + 1
    /\ Ends(r, "killed")
    /\ UNCHANGED <<opt, clockVars, workers, dog, tj, runVars>>

Heat ==
    /\ \E r \in Runs : Alive(r)
    /\ tj' \in {"cool", "warm", "over"} \ {tj}
    /\ UNCHANGED <<pc, opt, endVars, clockVars, workers, dog, runVars, kills>>

RunStep(r) ==
    \/ Acquire(r) \/ EnsureBaseline(r) \/ SetClocks(r)
    \/ SetUp(r) \/ SoakStarts(r) \/ SoakEnds(r) \/ WarmUp(r)
    \/ MeasuredOver(r)
Teardown(r) ==
    \/ CloseRecords(r) \/ StopSampler(r) \/ Cancel(r) \/ Drain(r)
    \/ Leave(r) \/ Exit(r) \/ Unwind(r) \/ TearDown(r)

Next ==
    \/ \E r \in Runs : RunStep(r) \/ Teardown(r) \/ HardExit(r)
                       \/ AbortRecords(r) \/ BadLine(r) \/ Kill(r)
    \/ \E u \in Uses : DogPolls(u) \/ DogClears(u)
    \/ Heat

\* The teardown runs by itself, and the hard exit on a thread of its own.
Fairness == \A r \in Runs : WF_vars(Teardown(r)) /\ WF_vars(HardExit(r))
Spec == Init /\ [][Next]_vars /\ Fairness

-----------------------------------------------------------------------------
Label ==
    {"new", "locked", "based", "setup", "presoak", "soaking", "warming", "measuring", "closing",
     "closed", "cancelling", "draining", "hung", "leaving", "exiting", "unwinding", "tearing",
     "stuck", "gone"}

TypeOK ==
    /\ pc \in [Runs -> Label] /\ opt \in [Runs -> Options]
    /\ lock \subseteq Runs
    /\ clocks \in {"free", "pinned"} /\ baseline \in {"none", "free", "pinned"}
    /\ {owed, late} \subseteq SUBSET Runs
    /\ workers \subseteq Uses
    /\ dog \in [Uses -> {"off", "polling", "clearing"}]
    /\ tj \in {"cool", "warm", "over"}
    /\ parse_error \in [Runs -> BOOLEAN]
    /\ log \in [Runs -> {"none", "open", "complete"}]
    /\ spent \in [Runs -> Nat]
    /\ left \in [Runs -> {"no", "refused", "self", "breach", "killed"}]
    /\ kills \in 0 .. MaxKills

\* Whatever run was killed before it restored the clocks, and whatever clocks
\* the board was found with, what every run restores from was stored while the
\* board was not pinned (clocks.ensure_baseline).
BaselineFree == baseline # "pinned"

\* A run that says its clocks are set is measured under pinned clocks: no run
\* that ends restores them under it, unless it is the watchdog of a run killed
\* for heat, which still clears the board after the lock was passed on
\* (acquire_singleton, restore, thermal_watchdog).
SetMeansPinned ==
    \A r \in Runs : pc[r] = "measuring" /\ opt[r].clocks /\ r \notin late => clocks = "pinned"

\* A run that ends by itself has written run_complete if it had turns, and
\* leaves no worker to load the next run; nor does one killed for heat
\* (CloseRecords before the teardown that may hang, os._exit, kill_tree).
LeavesNothing ==
    \A r \in Runs :
        /\ left[r] = "self" /\ log[r] # "none" => log[r] = "complete"
        /\ left[r] \in {"self", "breach"} => {u \in workers : u[1] = r} = {}

\* However its teardown hangs, a run whose telemetry did not fail leaves the
\* board to the next one (arm_hard_exit).
Leaves == \A r \in Runs : pc[r] = "closing" ~> (pc[r] = "gone" \/ parse_error[r])

\* Not so in the code: the hard exit ends the process before restore().
ClocksRestored == \A r \in Runs : left[r] = "self" => r \notin owed
=============================================================================
