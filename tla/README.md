# Think-while-listening, in TLA+

A verification project for the voice agent in `src/src/twl`, the driver that
records its runs, `src/src/scripts/run_reactive.py`, and the part of the analysis
that decides which records count. It models what the program decides - which
words are kept, which decode runs beside which, when a turn opens and closes,
under which arm it runs, which record is valid, what energy it is charged, when a
run is void, what a run leaves on the board - and leaves out audio, text and
statistics. Paths below are relative to `src/src/twl` unless they name a directory.

## The system

A run plays a list of audio files, or a microphone, through a cascade:
recognizer, language model, speech synthesis. The recognizer decodes while the
user is still speaking, so that at the endpoint only a short tail is left; the
language model may be set to work on what was heard so far. Every turn is
timed, and the log must never hold a number that belongs to another turn, nor
one taken while something else was loading the cores.

| Component | State | Operations | Talks to |
|---|---|---|---|
| Committer (`commit.py`) | committed words, `committed_end_s`, unagreed remainders | `offer`, `reset` | called by the listening service |
| Workers (`hypothesis_worker.py`) | per child: loaded, busy, stopped, stale requests, spawning; the active one | `decode`, kill and promote, freeze, continue, respawn | executor threads wait on its pipes |
| Listening service (`stt.py`) | the hypothesis or partial task, decodes in flight, the pending final, freeze bookkeeping | VAD frames, hypothesis loop, final, `_maybe_cont` | marks stages on the turn manager, is called back at `audio_out_first` and `playback_done` |
| Two-tier listener (`twotier.py`) | spans the small engine committed, what the large one transcribed of them | `on_commit`, `ready_batch`, `complete_batch`, `reset`, `choose_job` | driven by the hypothesis loop |
| Pacing (`pacing.py`) | last decode's cost, its prior | `decide`, `note_decode` | asked by the hypothesis loop |
| Turn manager (`turns.py`) | the open turn's clock, its partial records, split flags, inherited doubt, `invariant_error`, the plan, the log | `turn_started`, `mark`, `note_*`, `close_if_current`, `finish_turn`, `close` | marked by every service, closed by the observer |
| Observer (`observer.py`) | time of the last audio out, a deferred close | pipeline frames, the watchdog | reads `busy` of recognizer and model; starts and ends speculation |
| Reply services (`services.py`) | the generation task, text not yet synthesized | start or drop a reply, cut chunks, synthesize | mark `llm_done`, `audio_out_first` |
| Speculation (`speculation.py`, `policy_runner.py`) | the decode in flight, the turn's spend | `start_turn`, `speculate_on`, `commit`, `end_turn`, `on_partial` | a decision task per partial, the model server |
| Policies and trigger (`policies.py`, `trigger.py`) | the calibration, the allocator's spent turn | `decide`, `score`, `fit_isotonic` | asked by the runner |
| Schedule (`schedule.py`) | - | the Latin square, the randomized blocks | made before the run, read by position |
| Contention detector (`contention.py`) | one estimate per turn, the last good one | `begin_turn`, `sample_once`, `close_turn`, `turn_dict` | four callers of the observer and the driver; reads the telemetry stream |
| Telemetry (`telemetry.py`) | three deques of recent samples | the reader thread; `recent_soc_mw`, `energy_j`, `energy_j_interp`, `idle_mw`, `temps_since` | read by the turn manager and the detector, from the loop and from decode threads |
| File source and gate (`transport.py`, `run_reactive.py`) | the file playing, where files ended | pump, `turn_gate`, abort, end of run | wait for the turn manager and the observer |
| Board (`clocks.py`, `soak.py`, `adversary.py`, `thermal_watchdog.py`, `run_reactive.py`) | the lock, the clocks, the stored baseline, bandwidth workers, the guard process | acquire, pin, soak, measure, tear down, hard exit, restore | one run after another, or at once |
| Scorers (`src/src/scripts`) | - | which records count, how turns are laid on files | read a finished log |

What is hard about it:

* **Concurrency.** One event loop, a pool of threads that outlive the tasks
  which started them, and child processes that are killed or frozen while they
  work. A decode can be in flight with no task, no lock and no result wanted.
* **Ordering.** Stages land on whichever turn is open. Finals are decoded one
  after the other, replies are dropped while another is generated, and the
  VAD may split one utterance into several turns, so final, reply, turn and
  playlist position need not be of the same speech.
* **Failure.** A final may be empty, a request may fail, a child may die, a
  decode may hang, a teardown may hang, a run may be killed for heat.
* **Shared data.** The sampler's thread appends to deques that the loop and the
  decode threads walk without a lock; the workers' threads report freezes and
  discards after they have let go of the lock that ordered them.
* **Time.** Quiet times, silence limits, a gate timeout and a hard exit race
  with work that is merely slow.

What makes each part correct: the committer never commits a word twice, nor one
the buffer cut, nor one too few decodes heard; the listening service joins a
final to words of its own utterance and keeps the cores quiet while it decodes;
the two-tier transcript loses and repeats no audio; the turn manager and the
gate keep every final and reply on its own turn, or flag the turn, or void the
run; nothing speculative outlives its turn; a turn runs, is recorded and is
scored under what was planned for the file it heard; and every run ends and
leaves the board as the next one needs it.

## The modules

| Module | Of | What it holds |
|---|---|---|
| `Words` | `commit.py`, `Word` | words timed in ticks |
| `CommitLog` | the docstring of `commit.py` | the abstract promise: an append-only log |
| `LocalAgreement` | `commit.py` | `Offer` is `offer()`, `Reset` is `reset()`; `AgreedPrefix`, `Kept`, `EndAfter`, `RemaindersAfter` are its steps |
| `WorkerPool` | `hypothesis_worker.py` | the children, the parent's flags, and the threads on the pipes; actions for the operations the service calls |
| `Listener` | `stt.py` with worker processes, and the turn and reply it depends on | EXTENDS `WorkerPool` and says when its operations are called; `design` is one of the shipped configurations |
| `Pacing` | `pacing.py`, `choose_job` | `SelfPaced`, `FixedTick`, `NoteDecode`, `ChooseJob` |
| `TwoTier` | `stt.py` with in-process engines, `twotier.py` | EXTENDS `Pacing`; hypotheses, batches, the endpoint's flush and wait, orphans |
| `Partials` | the fixed-offset partials of `stt.py`, their records in `turns.py` | threads, cancelled tasks, locks, the look-up and the fill of a record, the flush, and the reply or the watchdog that closes a turn, perhaps while its user speaks |
| `Turns` | `turns.py`, `observer.py`, `transport.py`, `run_reactive.py`, `services.py` | a recorded run: files, gate, turns, finals, replies, watchdog, log |
| `Reply` | `services.py`, `observer.py` | one reply from deltas through the TTS buffer to the speaker, and what closes its turn |
| `Speculation` | `speculation.py`, `policy_runner.py`, `observer.py`, `contention.py` | decision tasks, decodes, the handle, the end of a turn, its spend and its estimate |
| `Schedule` | `schedule.py` | `LatinPlan`, `BlockPlan` over every shuffle |
| `Policies` | `policies.py` | `Decide` for each kind, the allocator's arithmetic in integers |
| `Trigger` | `trigger.py`, `calibrate_trigger.py` | `FitStep` is one turn of `fit_isotonic()`'s loop; `Calibrated`, `PDone` |
| `Interleaving` | `run_reactive.py`, `policy_runner.py`, `turns.py`, `arm_compare.py` | EXTENDS the three above: a planned run, its records, and which of them are scored |
| `Alignment` | `p7_score.py`, `pass2_score.py` | the table that lays turns on files, as a recursive function |
| `Scores` | the scorers `p9`, `p9b`, `p9c`, `p2k`, `p1r`, `fstar`, `p7` | EXTENDS `Turns` and `Alignment`: which records of a run are counted |
| `Power` | `telemetry.py` | what is computed from the samples: `Energy` of a window and `IdleMw`, in integers |
| `Telemetry` | `telemetry.py`, `contention.py`, `turns.py` | EXTENDS `Power`: the sampler's thread between the reads of an opening and a closing turn, the detector, the record |
| `Energy` | `turns.py`, `hypothesis_worker.py`, `run_reactive.py`, `observer.py` | EXTENDS `Power`: the idle baseline, the gate's quiet time, replies that outlast or miss their turn, and the window a discarded decode is charged |
| `Bench` | `clocks.py`, `soak.py`, `thermal_watchdog.py`, `run_reactive.py` | runs on one board from the lock to the last process, and the guard of each |
| `LocalAgreementProofs`, `TwoTierProofs`, `ListenerProofs`, `TurnsProofs`, `SpeculationProofs`, `InterleavingProofs`, `EnergyProofs`, `BenchProofs` | - | theorems, each module of the one it is named for (`TurnsProofs` of `Scores` too) |
| `MC*` | - | the instances of the constants for TLC |

Each handler is one action, with everything it changes. Where a coroutine
awaits, the action ends: what it read before is kept in the state and used
after, as the code does. In `Listener`, a VAD frame is queued when the VAD fires
and handled when the service reaches it: the final decode holds the handler, so
a second onset waits behind it, while the turn manager hears of it at once. A
decode passes through the states of `job`: submitted, taken by a thread, sent to
the child, answered or cut off; cancelling the task reaches only the first. In
`Partials` a report from the thread is two steps, the look-up of the record and
the fill, with the loop's flush possible between them. In `Speculation` a
decision task rests at the score, the prefill, the cancelled decode and the
slot. In `Reply` the text is a sequence of symbols that know their turn and
place, so that what the TTS voices can be compared with what the model sent. In
`Bench` a run's place in the driver is `pc`, and each wait of its teardown may
take any of `Lags` or hang.

In `Telemetry` a walk over a deque begins when its phase does and ends with the
action that uses it; a sample that comes in between and changes the deque sets
`mutated`, and the walk then raises. In `Energy` the worker's lock and the report
of what was done under it are separate steps (`telling`, `discarding`).

In `Turns`, the n-th onset names turn, utterance, final and reply n, and a mark
keeps whose it is: that is how a record can be asked whether it holds its own
final. `plain` remembers whether each file was one turn that ended near the
file's end, and no decode hung.

The definitions named for mistakes (`KeptAgain`, `IdleModel`, `SlotByTurn` ...)
are variants of single definitions. Putting one in place of its original must
break a property; no action uses them. Definitions whose comment begins "Not so
in the code" state what a comment, a docstring or a test says and the code does
not keep. `DrainsAfterAbnormal` is a run; TLC refutes the others when they are
named in the configuration of their module.

### What the models leave out

* *Words.* Times are integer ticks, so the code's 1e-9 slack is plain `<=`. The
  engine is assumed to report words in order without overlap, each at least one
  tick long (a word of no length could be kept twice).
* *Workers and listener.* An engine takes seconds to load, so `Loaded` waits
  until a thread cut off by the previous process has read its end-of-file; the
  thread that respawns a worker starts promptly; the time between submitting the
  final and its thread starting is none; a cancelled decode that no thread has
  taken is gone by the event loop's next turn (`Settled`); decodes that hang for
  60 s are in `Turns` and not in `Listener`. `InFlightNone` is all that is kept
  of the pacing rule there: the rule itself is in `TwoTier`. An utterance
  outside a split starts only when the gate would let it.
* *Two-tier.* Time is counted in ticks, of audio, rest and decoding alike; a
  reading is named by its engine and span, not by its words.
* *Partials.* Offsets are numbered; how long the final waits is not kept. A reply is
  generated, then spoken; a turn is stuck (`STUCK_MS`) only while nothing is under
  way, and hung (`DECODE_HANG_MS`) at any moment of a decode.
* *Turns.* Every file is heard by the VAD, is shorter than `DECODE_HANG_MS`, and
  is followed by a gap longer than `stop_secs`; an endpoint near the file's end
  leaves no time for another whole turn in it; marks of a speaking user and
  syntheses are more frequent than `STUCK_MS`; the abort (polled every 0.2 s)
  comes before the gate opens (after 1 s at least); the gate times out only on a
  hung decode; the 60 s the driver waits at the end are not reached; memory and
  swap reasons for an invalid record are left out. A deferred close is the
  watchdog's, which takes it over within 0.1 s (`Reply` has it in full).
  `audio_out_first` is marked when audio enters the output queue.
* *Speculation.* Tokens are counted, not read; the trigger's reading is free
  there and computed in `Interleaving`.
* *Interleaving.* Files may be unheard, silent, split or void, at most `MaxOdd`
  of these in a run. The decodes an arm starts are those of `Speculation`.
* *Scores.* A transcript is the whole of its file, a part of it or empty, and
  costs accordingly; a part costs less than another file's text; an empty one is
  the first fragment of a split, which is what `p7_score.py` says of it.
* *Telemetry.* One reading stands for both rails, and a sample is one tick. No
  watchdog is there: a turn takes at most `LongestTurn`, which is shorter than the
  deque.
* *Energy.* One worker; the service handles a frame as the observer sees it
  (`Listener` has the delay); every final has a text, the model answers each text it
  takes, and no turn is given up as stuck or hung (`Turns` has these). Finals,
  generations and replies take as long as they like: none of them is interrupted by
  an onset, and a reply may close another turn than its own, or sound when none is
  open. Power is quiet or loud.
  `GateAssumption` is what the defaults satisfy: the gate's second and the VAD's
  0.2 s of onset outlast half of the 2 s window.
* *Bench.* Temperatures are three values, seconds are the few that order the
  timeouts. A run marked `late` was hit by the guard of an earlier run that was
  killed for heat, after the lock was passed on (`thermal_watchdog.py:100-108`);
  one with `parse_error` has lost its telemetry: its teardown may hang before
  the hard exit is armed. Both are states of the model, and the properties say
  where they are excluded.

## The runs

| Run | Shows | Bounds |
|---|---|---|
| `LocalAgreement2` | no word committed twice (`CommittedOnce`), cut (`ClearOfTheEdge`) or unheard (`AgreedByN`); implements `CommitLog` (`ImplementsLog`) | 2 tokens, turns of 4 ticks, guard of 1 |
| `Listener` | `OwnWords`, `BusyCoversCompute`, `QuietFinal`, `FrozenThroughReply`, `OwnFreeze`, `SpawnedApart`, and the liveness `Thawed` | each of the 5 shipped designs (freeze, freeze and thaw at the next turn, kill and promote, race with 2 workers or 1), 3 utterances, 1 split, 1 crash |
| `TwoTier` | `SpansTile`, `DutyHeld`; implements `CommitLog` (`ImplementsLog`) | 1 engine or 2, race or wait, naive or controlled issuer, 2 turns, 8 ticks, costs up to 3 |
| `Partials` | `OwnRecord`, `IssuedWritten` | 3 turns, 1 split, 2 offsets, 1 engine or 2 |
| `Turns` (of `Scores`) | `OwnReply`, `NoFalseAlarm`, `NoStrandedFinal`, `BothHalves`, `ScoredOnItsOwn`, `WholeKept`, and the liveness `RunCompletes` | 3 files, 1 split, 1 hung decode |
| `TurnsDrain` | **violated** `DrainsAfterAbnormal` | 2 files, no split, 1 hung decode |
| `Reply` | `ClosedComplete`, `NeverGivenUp`, and the liveness `TurnCloses` | 2 turns, 5 deltas |
| `Speculation` | `QuietBetweenTurns`, `OneDecode`, `OwnFigures` | 2 turns, 1 split, 2 partials, 1 token; 4 phase-2 plans and every pair of policy arms |
| `Interleaving` | `OwnPlace`, `WholeSquare`, `WellFitted` | 2 utterances, 2 levels, every Latin square and block plan, 5 policies alone, 2 odd turns, fits of up to 4 samples |
| `Telemetry` | `OwnEstimate`, `EnergyIsIntegral` | 2 turns of up to 3 samples, 5 samples, 2 levels |
| `Energy` | `QuietBaseline`, `ChargedToFreezer` | 8 samples, 3 turns, 1 split, 2 decodes of up to 4, window 5, gate 2 and onset 1 |
| `Bench` | `BaselineFree`, `SetMeansPinned`, `LeavesNothing`, and the liveness `Leaves` | 2 runs, all 8 option sets, waits of 0, 4 and 5 s, 1 kill |

*Why the bounds are enough.* A hypothesis disturbs the committer through its
window of one remainder and the committed end; four ticks leave room for a
committed word, an agreed one, a cut one and a disagreement. In `Listener` an
utterance can be disturbed by the one before it (its frozen or escaped decode,
its late reply) and by a split; three utterances give a predecessor that itself
had one. In `TwoTier` eight ticks hold two batches and an uncommitted tail, and
a second turn sees what the first left running. In `Turns` three files give
every order of the gate against what the first leaves behind, and a file after
the one it disturbed, which is as far as the doubt of a drift is inherited. Two
splits of one file are the case in which a valid record can hold another turn's
final; with two files, two splits and a hung decode (6.3 million states, too
many to keep with the liveness) the invariants of the run hold as well. In
`Partials` a decode can outlive its turn by two; two splits are the case
reported below. In `Interleaving` two odd turns can cancel out (a split after an
unheard file), which is when turn numbers agree with positions by accident. In
`Telemetry` a turn can open, close and be read while the stream is not yet
running, runs, or is over, and the deque drops samples of the turn before. In
`Energy` two decodes are what `OwnWindow` takes, and a decode of 4 after a reply
outlasts the settling time and fills most of the window; eight samples hold a turn,
the gate's three, and a frozen decode or a stray reply in the window that follows.
In `Partials` a split is also what lets a turn be closed while its user speaks. In
`Bench` 4 and 5 s
are on either side of the point at which two waits together outlast the hard
exit, and a second run is all that the lock, the baseline and the guard can be
handed to. A second split beside three files and a third run in `Bench` are
beyond what TLC does in minutes.

*Deadlock* is not checked: a session ends when the user has nothing left to
say, a run when its log is closed, a board when its runs are over. `LocalAgreement2`
has no end and is checked for it.

*Fairness.* Weak fairness only, on what runs by itself. In `Listener`, `Turns`
and `Reply` the event loop runs what is ready and the watchdog polls;
threads are scheduled; a child that is not frozen finishes; requests and
syntheses are bounded by timeouts; playback is paced by the clock; who speaks
stops. Nothing makes a user speak, a child crash, or a decode hang, and nothing
makes a hung decode return: `RunCompletes` covers it through the watchdog and
the gate's timeout. In `Bench` the teardown of a run proceeds and the thread of
the hard exit is scheduled; a wait that hangs is a state in which no step of the
teardown is enabled, so `Leaves` is owed to the hard exit alone.

*What the properties are about.* `OwnWords`, `OwnRecord`, `OwnReply`, `OwnFigures`,
`OwnPlace` and `ScoredOnItsOwn` are one question asked at six places: is what
stands on a record the record's own, when threads, finals, replies, decodes,
files and analyses each have an order of their own?
`QuietFinal`, `SpawnedApart`, `FrozenThroughReply`, `QuietBetweenTurns`,
`OneDecode`, `OwnFigures` and `SetMeansPinned` are the other one: was
anything else running when a number was taken? `OwnEstimate`, `ChargedToFreezer`
and `QuietBaseline` ask both of the estimates and energies.

Three of them are careful about splits. A split leaves two finals and two replies
for one file, no reply is interrupted by the onset that splits, and a reply closes
whichever turn is open. `Thawed` says that what is frozen *while a turn is open* is
thawed, in every session; an endpoint that comes after its turn was closed freezes
until a later turn is closed. `IssuedWritten` is about what was noted in a turn, and
a partial issued after the close is only an orphan mark. `QuietBaseline` excepts one
case, by name: after a split, a reply that sounds with no turn open and inside the
window of the next baseline (`beside`). Without a split the case does not arise.

### What does not hold

`TurnsDrain`: the gate reads the last close's reason before that close happens,
so a turn that is closed abnormally while the gate waits is not followed by the
drain (`run_reactive.py:413`).

Found with the same modules and kept as definitions, each with the line it
contradicts:

* `Bench.ClocksRestored`: the hard exit falls due after 8 s, the two waits it bounds
  may take 10, and the clocks are restored only after them, so a run can leave the
  board pinned (`clocks.py:1`).
* `Telemetry.ClosedIsWritten`: `finish_turn` drops the clock and then walks deques
  the sampler's thread appends to; the walk may raise, and the turn has no record
  (`turns.py:891`). `Telemetry.MinIsFresh`: the last samples of a stream that is over
  are read again every turn and labelled a fresh floor (`contention.py:72`).
* `Energy.OwnWindow`: a decode that had answered before it was frozen leaves its
  continuation behind, which opens the window of a later one (`turns.py:345`).
  `Energy.AlwaysQuietBaseline`: after a split the first half's reply closes the second
  half's turn, so the second half's reply sounds with no turn open. It moves no
  `playback_done` (`turns.py:459`), the gate, which asks the recognizer and the model
  only, lets the next file in beside it (`run_reactive.py:427`), and that file's
  baseline has the reply in it.
* `Listener.ThawedOfItself`: an endpoint whose turn was closed early in this way
  freezes its decode with no turn open, and no `playback_done` follows until a later
  turn is closed (`stt.py:832`).
* `LocalAgreement` with `N = 3` breaks `AgreedByN`: remainders are cut at
  different points and compared by place. No configuration uses three.
* `Listener.NothingBesideFinal`: a decode between its thread's start and its
  request escapes the kill and shares the cores with the final. `QuietFinal`
  states what remains true.
* `Turns.SplitNeverVoids`: the second half of a split, closed by the first half's
  reply before its own final, voids the run. `Turns.ReasonTravels`: the run can
  become void while its log is closed, and its notes do not say so. After two
  splits of one file a record can even be valid on another turn's final in a run
  that is not void; `ScoredOnItsOwn` shows that no scorer that counts an item's
  turns takes it. `p2_score.py` does not count them (`turn_rows`). The same is
  not true of replies: the gate does not wait for the TTS, and a slow reply of
  one half can be marked on the next file's turn.
* `Reply.SpokenOnce`: the buffer is cut by the length of a stripped chunk
  (`services.py:289`). `Reply.LastLoud`: the instant `playback_done` is backdated to
  may precede the last audio.
* `TwoTier.DebtPaid`: an issuer that refuses for want of audio or time has not
  looked at the duty debt, and the batch starts. `TwoTier.TextIsBase`: the flush
  finds the buffer already taken and keeps the small engine's words.
* `Partials.OwnRecord` holds with one split in a session and not with two: the
  service, held by two finals, then handles an onset after the next turn has
  opened, and a partial issued there is filed under that turn.
  `Partials.FinalAlone`: the cancelled partial gives its lock back and goes on
  decoding beside the final. `Partials.NoneDropped`: a report between look-up and
  fill can be lost to a flush.
* `Speculation.CancelledAtTurnEnd`: four events (`excused`) undo the driver's
  promise: a decision still pending when the final lands, a blank final, a split,
  and two decisions that commit at once.

Read while modelling, and not stated as properties:

* `BudgetR.feasible_budget` is called with neither window nor rate, so it always uses
  588 ms at 34 ms a token and never drafts 16 tokens; a `spec_trigger` arm of an
  interleaved run is given no trigger, and its allocator no position; the
  trigger's failed reading counts as not done.
* In an unblocked run `interleaved.py:57` finds a turn's utterance by its number,
  which a split or an unheard file has shifted; `arm_compare.py` counts a turn with
  no decision as reactive.
* `base_wavs[:warmup]` shifts the plan when there are more warm-ups than files; the
  warm-up flag of an unblocked run goes by turn number and drifts after a split;
  `interleaved.py` does not exclude washouts; `budget_fit.py` finds no pairs in an
  unblocked run, whose recorded utterance is the playlist position.
* `fit_isotonic` depends on the order of samples with equal scores (the models
  give it every order).
* In `pass2_score.py` an empty turn is aligned like any other, so a whole turn
  beside one can be dropped; it has no fragment threshold, so an unheard file and
  a split of its neighbour together score a fragment as that file.
  `p7_score.py` corrects both, except for an empty *last* fragment.
* The clairvoyant bound charges both of its decodes the whole buffer
  (`planner_sim.py:482`), and the simulation only what is uncommitted
  (`planner_sim.py:313`): a planner that commits early can beat the bound.
* `idle_mw` may raise as a turn opens, which skips `begin_turn`: the turn then keeps
  the estimate of the one before (`turns.py:441`). `OwnEstimate` excludes it.
* The watchdog's zone reading of 0 never breaches; an external SIGKILL leaves the
  bandwidth workers running.

## The theorems

Proved for every value of the constants, from the named assumptions of the
modules (`NAssumption`, `FilesAssumption`, `OptionsAssumption` ...): bounds are
numbers, sets of inputs have the shapes the code gives them, hypotheses are timed
words. A theorem that needs more states it as its hypothesis, and the paragraphs
below say why: `AgreedByTwo` (`N <= 2`), `FreezesItsOwn` (one worker where the
design freezes), `SquareIsScored` and `BuiltPlansAreScored` (arms with names of
their own), `EnergyIsWhole` (a turn fits the sampler's deque) and `RecordIsOwn`
(one split at most). Each module defines an inductive invariant and draws the
rest from it; TLC has checked them on their component's runs, except where a conjunct has no
finite range to try (`FitInv`). Such an invariant says what the property leaves open: mostly, what a task, thread, process or frame
that is on its way may still be. Every safety invariant of the passing runs has its
theorem.

Three components share a module with the one they belong to, as an instance:
`Telemetry` (`Tele`) in `EnergyProofs`, for both read the samples of `Power`;
`Partials` (`Part`) in `ListenerProofs`, the other mode of the same service;
`Reply` (`Rep`) in `TurnsProofs`, the reply half of a turn.

| Module | Theorems | Properties of the runs they state |
|---|---|---|
| `LocalAgreementProofs` | `TypeCorrect`, `NeverCommittedTwice`, `NeverCutByTheEdge`, `AgreedByTwo`, `Refinement` | `CommittedOnce`, `ClearOfTheEdge`, `AgreedByN` (`N <= 2`), `ImplementsLog` |
| `TwoTierProofs` | `TypeCorrect`, `SpansAlwaysTile`, `DutyIsHeld`, `Refinement` | `SpansTile`, `DutyHeld`, `ImplementsLog` |
| `ListenerProofs` | `TypeCorrect`, `FinalsKeepTheirWords`, `ComputeIsSeen`, `FinalsAreQuiet`, `FreezeOutlastsReply`, `EnginesLoadApart`, `FreezesItsOwn` | `OwnWords`, `BusyCoversCompute`, `QuietFinal`, `FrozenThroughReply`, `SpawnedApart`, `OwnFreeze` |
| … of `Partials` | `IssuedIsOnFile`, `RecordIsOwn` | `IssuedWritten`, `OwnRecord` |
| `TurnsProofs` | `TypeCorrect`, `SplitsAreInvalid`, `GateHolds`, `RepliesAreTheirOwn`, `PlainIsNeverVoid`, `ScoresAreTheirOwn`, `WholeTurnsAreKept` | `BothHalves`, `NoStrandedFinal`, `OwnReply`, `NoFalseAlarm`, `ScoredOnItsOwn`, `WholeKept` |
| … of `Reply` | `RepliesAreComplete`, `HeardIsNotStuck` | `ClosedComplete`, `NeverGivenUp` |
| `SpeculationProofs` | `NothingBetweenTurns`, `OneAtATime`, `NeverOursOnTheRail`, `FiguresAreOwn` | `QuietBetweenTurns`, `OneDecode`, `OwnFigures` |
| `InterleavingProofs` | `TypeCorrect`, `PlacesAreTheirOwn`, `LatinIsSquare`, `BlocksAreSquare`, `SquareIsScored`, `BuiltPlansAreScored`, `CalibrationIsWellFitted` | `OwnPlace`, `WholeSquare`, `WellFitted` |
| `EnergyProofs` | `TypeCorrect`, `FreezerPays`, `BaselineIsOfIdle` | `ChargedToFreezer`, `QuietBaseline` |
| … of `Telemetry` | `EstimateIsOwn`, `EnergyIsWhole` | `OwnEstimate`, `EnergyIsIntegral` |
| `BenchProofs` | `TypeCorrect`, `OneRunAtATime`, `BaselineIsFree`, `MeasuredAsSet`, `NothingLeftBehind` | `BaselineFree`, `SetMeansPinned`, `LeavesNothing` |

`LocalAgreementProofs`. Lemmas give what `Leading`, `StartingFrom`, `Newest`, `Kept`
and `EndAfter` return. `IInv` is `TypeOK`, `CommittedOnce` and `ClearOfTheEdge`
together: the order of the words needs the committed end to cover them all (the
second half of `CommittedOnce`), and the guard needs the buffer not to shrink.
The committer implements `CommitLog` by `OfferAppends`. `AgreedByTwo` needs one
more fact, `Aligned` (`OfferAligns`), which ties what `remainders` holds to the
hypotheses in `offered`; it holds for `N <= 2`, and then committed words were heard
by N decodes. The restriction is real: TLC refutes the claim for 3.

`TwoTierProofs`. That the spans tile is not inductive: a decode in flight will pop
the first spans of the queue, so it must still read the audio they cover and no
more than there is (`DecodeInReach`), the commitment must stay inside the utterance
even when a task outlives it (`LeftOver`), and the two ends must be ordered as the
lists are (`SpansOrdered`, `TailMarked`). A decode counts the spans it pops, and
`Complete` drops as many; `CompleteInFront` shows that these are the spans it read.
`DutyIsHeld` has an invariant of its own, `Paid`: outside a decode, what was spent
before the last one is within the target of the time before it. For the
refinement, every step appends to the log or leaves it.

`ListenerProofs`. The service handles a VAD frame later than the turn manager
does, and `FramesInOrder` says by how much: frames alternate, and their number is
the distance between the two. `OneAsker` ties a waiting thread to its worker: no
two ask one process, and a thread that was cut off has a dead one.
`DecodesOfUtterances` says what a decode may be doing before and after its
endpoint, `FinalAlone` that beside a final it is frozen or killed, `OneByOne` what
is over when a session is orderly, `FrozenUntilClosed` and `LeftStale` what a
frozen decode waits for. `FreezesItsOwn` assumes that a design which freezes has
one worker. The shipped configurations satisfy it, and `config.py:286` does not
require it: with two workers and two splits, TLC finds an endpoint that freezes
another utterance's decode.

Of `Partials`: a turn may be closed while it is heard, and partials issued after that
have no record. What was noted in the open turn has its record, or is on file
already (`Filed`), also while the flush is between two records. With one split at most, the service is one utterance behind the turn manager and no
more (`OneAhead`), and decodes, records and files are of one turn (`OwnTurns`). With
two the count breaks, and TLC finds the record of another turn: so the run has one
split, and the hypothesis of `RecordIsOwn` is needed.

`TurnsProofs`. `TypeOK` says already that the log holds one record of each turn
but the open one. `IInv` adds two facts. `FlagsSettled`: no turn beyond the newest
is flagged, a cut record and its successor are flagged, flagged records are
invalid; it is needed because the second record of a split is written long after
the flag is set, and another split may set more flags in between. `OneFile`: the
open turn, the speaking user and every final still to land are of the file
being played; `NoStrandedFinal` alone is not inductive, since it says nothing of
a final that has not landed. `FinishFacts` and `ClosePreserves` treat the
closing of a turn once for its five callers. `PlainTurns` is what a run of plain
turns keeps: turn and file go together (`OneTurnAFile`), and what is decoded,
generated, synthesized or heard is the open turn's (`OneReplyATurn`). It gives
`OwnReply` and `NoFalseAlarm`. `FinalsOfTheirFiles` follows a final into the log,
and past the close that makes a run void without noting it; a scorer counts
an item's turns, so that the file settles the turn, and `ScoredOnItsOwn` follows.

`WholeTurnsAreKept` is about the scoring by text. Turns hear the files one after the
other, and every file is heard (`FilesInOrder`). Of the turns that have words, each
costs less on its own file than on any other, where it is all error (`Telling`).
Then in each row of the table the cell of the turn's own file is the least
(`LeastInRow`, by induction over the rows), so that going back from the last cell
follows the files the turns were heard in (`OwnFiles`). Turns without words, which
are laid with their successors, share no position with a turn that is whole.

Of `Reply`: a reply is at rest, asked for, streamed or streamed to its end
(`OneReply`), and what the model streamed has been said, is being said, or waits in
the buffer or in a frame (`ReplyKept`). A turn that closes as it should is at rest.

`SpeculationProofs`. The promises hold while nothing overlaps (`excused`), and
`InOrder` says what order that is: a turn speaks, awaits its only final, and ends
its speculation (`OneFinal`); it decides before the final (`DecidedInTime`); what
is in flight is held (`HeldIsAll`), so that whoever finds the handle idle starts
alone; one decision at a time replaces it and waits for the held decode
(`OneCommits`), and so does the task of `end_turn` (`HeldIsAwaited`).
`DecisionSteps` reduces the steps of a decision to four kinds. `NeverOursOnTheRail`
adds `ReadInQuiet`: until a turn has its reading, nothing is in flight and nothing
is decided. The numbers of decodes play no part, and so `IInv` says the shapes of
the variables and not the bounds on identifiers in `TypeOK`. `FiguresAreOwn` counts the tokens: a decode's
tokens are in its turn's count from the moment they are produced (`AllCounted`),
only the open turn has decodes in flight (`OwnInFlight`), a decode is discarded
once (`DiscardedOnce`), a reset finds nothing to forget (`NothingToReset`), and a
turn that has settled has its count on record (`PutOnRecord`).

`InterleavingProofs`. A turn is of the file that plays (`Placed`), turns and records
are counted against files and odd turns (`Counted`), the valid records of a file
are one at most (`OneOfAFile`), and a run without odd turns has one of each
(`NothingOdd`). `LatinIsSquare` is arithmetic on quotient and remainder.
`SquareIsScored` assumes that the plans are squares and that no policy is named
twice: `run_reactive.py` does not refuse `--interleave-policies a,a`, and two levels
with one arm cannot be told apart in the log. `BuiltPlansAreScored` needs no assumption
that plans are squares: `LatinIsSquare` and `BlocksAreSquare` prove it of what
`schedule.py` builds. For a blocked plan, a turn is found once in the shuffle of its
level, in one of the blocks cut from it, in the order of the blocks, and so in
what flattening them gives (`FlattenHolds`).

`CalibrationIsWellFitted`: the pools cut the samples, and each is no lower at any of its
beginnings than as a whole (`Pools`); the pools the fit has passed rise (`Risen`).
Pooling two that fall keeps the first, and goes back one place, which keeps the
second. When the last is passed, all rise, and then the mean of a sample's pool is
the max-min of means that the definition of the fit asks for (`EndsInRegression`).

`EnergyProofs`. The loop's thread and the decode's thread report out of order: the
owner of a decode may be noted after its result was discarded. `Fresh`,
`OwnersFroze` and `ReportsOfNow` say what is known of a request before any report,
of an owner on record, and of a freeze still to be reported; `PipeOfOne` that a
result still to be reported has left the pipe. Baselines and times play
no part in that. `BaselineIsOfIdle` is about them alone: the last samples, as many
as the gate has found the board idle for, are quiet, but for those up to the last in
which a reply sounded with no turn open (`IdleRows`). While a session has no split,
what is generated or sounds belongs to the open turn (`Unsplit`, by `Speech`), so
that there is no such sample, and the exception of `QuietBaseline` asks for a split.
The gate's quiet and the onset's delay outlast half of the baseline's
window (`GateAssumption`: by default 1000 ms and 200 ms, of 2 s), and where most
values are quiet so is the median. `--gate-quiet-ms` below 800 is not covered.
`TypeCorrect` adds the bounds (`Bounded`): a baseline is a power that was sampled, if
it was measured, and a freeze is reported of a turn.

Of `Telemetry`: `Readings` says that a reading that was taken is of the open turn,
whatever the sampler's thread does meanwhile, unless the opening was cut short;
closing takes it along. `Measured` says that samples are numbered by the clock,
that no turn lasts longer than the watchdog lets it (`ByTheClock`), and that the
energy on record is of all samples of its window (`OfTheWindow`). The deque holds
more samples than a turn can last (`TurnFits`, the half of `KeptAssumption` that the
theorem needs), so that none of the window was dropped.

`BenchProofs`. `OneHolder`: who holds the lock is the run that is alive.
`ClearsTheDead`: a watchdog that clears the board has killed its run, so it is late
at most for the runs after it. `ClocksHeld`, `LogKept`, `WorkersKept` and `Ended` say,
of every place in the driver, what a run owes, has written and has running there.
To say it, `late` holds only runs that had clocks to restore.

*Sums, tables, medians and pools.* What a fold or a recursive function computes is
proved by induction on its argument: a set of numbers that is not empty has a
least one (`Least`), so that a property which holds of 0 and is handed on holds of
all (`Induction`), and a recursive function is shown to exist before it is unfolded
(`FlattenIs`). The same is done for the sums of `Speculation` and `Telemetry`, the
table of `Alignment` and the pools of the fit.

*Only model-checked.* Liveness under fairness (`RunCompletes`, `Thawed`,
`TurnCloses`, `Leaves`) and ENABLED are beyond the prover. What the run
`TurnsDrain` refutes is false, as are the definitions kept under "What does not
hold"; `AgreedByN` for more than two, `OwnRecord` for more than one split and
`OwnFreeze` for two workers are refuted by TLC too. The `TypeOK` of `Speculation`,
`Partials`, `Telemetry` and `Reply` were checked by TLC while the modules were
written; the proofs use the shapes they need (`Shapes`, `PartialShapes`,
`ReplyShapes`) and not the bounds.

## Plan

1. Proofs: the type invariants just named.
2. Models: the greedy verifier, the teardown of workers.

## Not modelled, and why

About sixteen per cent of the repository's implementation lines are named by a
definition. Two thirds of the lines are scripts under `src/src/scripts` that read
finished logs: statistics, tables, figures, audits and benchmarks with no state
of their own. Of these only what selects records or lays them on files is modelled.
In `src/src/twl` nearly all control is mapped; what is left is record layouts,
docstrings and imports, the loading of engines, probes and parsers.

* `energy_j_interp`, the energy of a discarded decode: `Energy` says which window and
  which turn it is charged to, not how many joules.
* Device set-up, parsing and probes (the rest of `telemetry.py`, `device.py`,
  `hugepages.py`, `provenance.py`, `audio_device.py`): I/O and formats.
* Engines, the HTTP client, the VAD (`stt_engine.py`, `llm.py`, `vad.py`): third-party
  code, modelled by the outcomes its callers handle.
* Configuration, wiring, metrics, the plan gate (`config.py`, `pipeline.py`,
  `metrics.py`, `wer.py`, `planning.py`): computed once, before or after.
* In modelled components: live mode and diagnostics of the driver, argument
  handling, segment files and pre-roll of the listener, prompts and answer modes,
  span records and memory probes of the turn manager.
* The planner simulation (`planner_sim.py`): an offline comparison of issue schedules
  over costs fitted to logs; the gate it simulates is the issuer's, in `Pacing`.
