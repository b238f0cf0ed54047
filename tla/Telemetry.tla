------------------------------ MODULE Telemetry ------------------------------
(***************************************************************************)
(* The sampler's thread (telemetry.py), the contention detector that reads *)
(* its stream (contention.py), and the turn manager that reads both at the *)
(* two ends of a turn (turns.py).  The thread runs between any two samples *)
(* a reader looks at.  One reading stands for both rails.                  *)
(***************************************************************************)
EXTENDS Power

CONSTANTS MaxTime,        \* ticks in a session
          MaxTurns,       \* turns in a session
          LongestTurn,    \* ticks a turn may take: the watchdog closes it by then
          SocKept,        \* maxlen of _recent_soc
          PowerKept,      \* maxlen of _recent_power
          NSamples,       \* n_samples
          NCloseSamples,  \* n_close_samples
          Levels,         \* what a rail may read
          ThresholdMw     \* threshold_mw

ASSUME BoundsAssumption == {MaxTime, MaxTurns, LongestTurn} \subseteq Nat
ASSUME KeptAssumption ==
    /\ {SocKept, PowerKept, NSamples, NCloseSamples} \subseteq Nat \ {0}
    /\ NSamples <= SocKept /\ NCloseSamples <= SocKept
    /\ LongestTurn < PowerKept
ASSUME LevelsAssumption == Levels \subseteq Nat \ {0} /\ ThresholdMw \in Nat

Turn == 1 .. MaxTurns
Time == 0 .. MaxTime
NoRead == 0   \* a direct read of a rail that does not answer

VARIABLES now,       \* the clock, in samples
          stream,    \* tegrastats and the thread that reads it: running, or over
          rows,      \* every sample the stream has given
          turn,      \* _turn
          phase,     \* of the open turn
          mutated,   \* the deque has changed under the reader
          openedAt,  \* the turn's origin
          audioAt,   \* its audio_out_first, or None
          held,      \* _held
          lastGood,  \* _last_good
          closing,   \* turn_dict(), between close_turn() and the record
          record,    \* the last turn record written
          raised     \* history: turns whose opening or closing raised

turnVars == <<turn, phase, openedAt, audioAt>>
detectorVars == <<held, lastGood, closing>>
vars == <<now, stream, rows, turnVars, mutated, detectorVars, record, raised>>

-----------------------------------------------------------------------------
(* The detector.  A reading's of and samples say where it came from.       *)

None == -1
NoReading == [taken |-> "unsampled", contended |-> FALSE, samples |-> <<>>, of |-> 0]
NoRecord == [turn |-> 0, estimate |-> NoReading, stale |-> FALSE,
             energy |-> Unmeasured, from |-> 0, to |-> None]
NoClosing == [reading |-> NoReading, stale |-> FALSE, samples |-> <<>>]

Recent(kept, n) == LastOf(LastOf(rows, kept), n)
Valid(samples) == SelectSeq(samples, LAMBDA r : r.mw > 0)
Floor(samples) == Min({samples[i].mw : i \in 1 .. Len(samples)})

\* The stream's samples if it has given any, or direct reads one after another.
SamplesOf(n) ==
    IF rows # <<>> THEN {Recent(SocKept, n)}
    ELSE {[i \in 1 .. n |-> [at |-> now, mw |-> v]] : v \in Levels \cup {NoRead}}

\* sample_quiescent(): the floor of the readings, or the last good one.
Quiescent(samples) ==
    IF Valid(samples) # <<>>
    THEN [taken |-> "min", contended |-> Floor(Valid(samples)) > ThresholdMw,
          samples |-> Valid(samples), of |-> turn]
    ELSE IF lastGood = NoReading
    THEN [taken |-> "none", contended |-> FALSE, samples |-> <<>>, of |-> turn]
    ELSE [lastGood EXCEPT !.taken = "carried", !.of = turn]

(* Mistakes a change could make; the mutants put them in place.            *)
KeptEstimate == held
OneShortWindow(from, to) == Energy(rows, SocKept - 1, from, to)

\* close_turn(): a floor over a wider window.
EndContended(samples) == Valid(samples) # <<>> /\ Floor(Valid(samples)) > ThresholdMw

\* turn_dict(): stale when contention has arrived after the estimate.
TurnDict(samples) ==
    [reading |-> held,
     stale |-> held # NoReading /\ EndContended(samples) /\ ~held.contended,
     samples |-> samples]

-----------------------------------------------------------------------------
(* The sampler's thread.                                                   *)

Init ==
    /\ now = 0 /\ stream = "running" /\ rows = <<>>
    /\ turn = 0 /\ phase = "none" /\ openedAt = 0 /\ audioAt = None /\ mutated = FALSE
    /\ held = NoReading /\ lastGood = NoReading /\ closing = NoClosing
    /\ record = NoRecord /\ raised = {}

\* A sample every tick while the stream runs.  One that comes when a reader is
\* in the middle of a deque, and not yet about to start, changes it under him.
Pump ==
    /\ now < MaxTime
    /\ phase # "none" => now - openedAt < LongestTurn
    /\ now' = now + 1
    /\ IF stream = "running"
       THEN /\ \E mw \in Levels : rows' = Append(rows, [at |-> now', mw |-> mw])
            /\ mutated' \in {mutated, (phase \in {"opening", "temps", "energy"})}
       ELSE UNCHANGED <<rows, mutated>>
    /\ UNCHANGED <<stream, turnVars, detectorVars, record, raised>>

\* A line that does not parse is noted and ends the thread; the end of
\* tegrastats ends it without a word.
StreamEnds ==
    /\ stream = "running"
    /\ stream' = "over"
    /\ UNCHANGED <<now, rows, turnVars, mutated, detectorVars, record, raised>>

-----------------------------------------------------------------------------
(* The turn manager.                                                       *)

\* turn_started(), up to the idle baseline.
TurnStarts ==
    /\ phase = "none" /\ turn < MaxTurns
    /\ turn' = turn + 1
    /\ phase' = "opening" /\ mutated' = FALSE
    /\ openedAt' = now /\ audioAt' = None
    /\ UNCHANGED <<now, stream, rows, detectorVars, record, raised>>

\* begin_turn()
EstimateAtOpen == NoReading

\* The baseline is read; the detector is told of the turn after it, and is not
\* when the read raises.  The observer goes on with the next frame.
TurnOpens ==
    /\ phase = "opening"
    /\ phase' = "open"
    /\ IF mutated
       THEN raised' = raised \cup {turn} /\ UNCHANGED held
       ELSE held' = EstimateAtOpen /\ UNCHANGED raised
    /\ UNCHANGED <<now, stream, rows, turn, openedAt, audioAt, mutated, lastGood, closing, record>>

\* sample_contention(): the first caller of the turn takes the estimate.
SampleContention ==
    /\ phase = "open" /\ held = NoReading
    /\ \E samples \in SamplesOf(NSamples) :
           /\ held' = Quiescent(samples)
           /\ lastGood' = IF Valid(samples) # <<>> THEN held' ELSE lastGood
    /\ UNCHANGED <<now, stream, rows, turnVars, mutated, closing, record, raised>>

\* mark("audio_out_first", once)
FirstAudio ==
    /\ phase = "open" /\ audioAt = None
    /\ audioAt' = now
    /\ UNCHANGED <<now, stream, rows, turn, phase, openedAt, mutated, detectorVars, record, raised>>

\* finish_turn(): the clock is dropped first, the rail read again, and the
\* temperatures are the first thing the record reads.
TurnFinishes ==
    /\ phase = "open"
    /\ \E samples \in SamplesOf(NCloseSamples) : closing' = TurnDict(samples)
    /\ phase' = "temps" /\ mutated' = FALSE
    /\ UNCHANGED <<now, stream, rows, turn, openedAt, audioAt, held, lastGood, record, raised>>

\* temps_since() has read its deque, or raises: the record is not written.
TempsRead ==
    /\ phase = "temps"
    /\ IF mutated
       THEN phase' = "none" /\ raised' = raised \cup {turn} /\ closing' = NoClosing
       ELSE phase' = "energy" /\ UNCHANGED <<raised, closing>>
    /\ mutated' = FALSE
    /\ UNCHANGED <<now, stream, rows, turn, openedAt, audioAt, held, lastGood, record>>

\* energy_j(), over what its deque still holds.
WindowEnergy(from, to) == Energy(rows, PowerKept, from, to)

\* _turn_energy_j()
TurnEnergy ==
    IF audioAt = None THEN Unmeasured ELSE WindowEnergy(openedAt, audioAt)

\* energy_j() has read its deque and the record is written, or it raises.
RecordWritten ==
    /\ phase = "energy"
    /\ IF mutated /\ audioAt # None
       THEN raised' = raised \cup {turn} /\ UNCHANGED record
       ELSE /\ record' = [turn |-> turn, estimate |-> closing.reading, stale |-> closing.stale,
                          energy |-> TurnEnergy, from |-> openedAt, to |-> audioAt]
            /\ UNCHANGED raised
    /\ phase' = "none" /\ mutated' = FALSE /\ closing' = NoClosing
    /\ UNCHANGED <<now, stream, rows, turn, openedAt, audioAt, held, lastGood>>

Next ==
    \/ Pump
    \/ StreamEnds
    \/ TurnStarts
    \/ TurnOpens
    \/ SampleContention
    \/ FirstAudio
    \/ TurnFinishes
    \/ TempsRead
    \/ RecordWritten

Spec == Init /\ [][Next]_vars

-----------------------------------------------------------------------------
(* Properties.                                                             *)

Reading ==
    [taken : {"unsampled", "min", "carried", "none"}, contended : BOOLEAN,
     samples : Seq([at : Time, mw : Nat]), of : 0 .. MaxTurns]

TypeOK ==
    /\ now \in Time /\ stream \in {"running", "over"}
    /\ rows \in Seq([at : Time, mw : Levels])
    /\ turn \in 0 .. MaxTurns /\ phase \in {"none", "opening", "open", "temps", "energy"}
    /\ mutated \in BOOLEAN
    /\ openedAt \in Time /\ audioAt \in Time \cup {None}
    /\ held \in Reading /\ lastGood \in Reading
    /\ closing \in [reading : Reading, stale : BOOLEAN, samples : Seq([at : Time, mw : Nat])]
    /\ raised \subseteq Turn

\* The estimate a record shows was made in its own turn, whatever happened in
\* the turns before, unless the opening of a turn was cut short.
OwnEstimate ==
    record.estimate.taken # "unsampled" /\ 1 .. record.turn \cap raised = {} =>
        record.estimate.of = record.turn

\* A measured energy is the integral over the whole window, however much later
\* the record is written and whatever the deque has dropped since, while the
\* stream lasted the window out.
EnergyIsIntegral ==
    record.energy # Unmeasured /\ rows[Len(rows)].at >= record.to =>
        record.energy = Trapezoids(rows, Between(rows, record.from, record.to))

\* The docstring of finish_turn(): a turn that is closed has its record.  The
\* code drops the clock first, and a sample that arrives while temps_since() or
\* energy_j() walks its deque makes the walk raise.
ClosedIsWritten == phase = "none" => record.turn = turn

\* contention.py: a reading called "min" was taken this turn, "carried" is the
\* word for one that was not.  The code takes the last samples the stream gave,
\* whenever that was: once the stream is over, every later turn gets the same.
MinIsFresh ==
    phase = "open" /\ held.taken = "min" /\ held.of = turn =>
        \E i \in 1 .. Len(held.samples) : held.samples[i].at >= openedAt
=============================================================================
