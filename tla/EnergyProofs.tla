------------------------------ MODULE EnergyProofs ------------------------------
(***************************************************************************)
(* That a frozen decode is charged to the turn that froze it, and that the *)
(* idle baseline of a gated turn is of an idle board, for any number of    *)
(* turns, splits and decodes of any length.                                *)
(* The loop's thread and the decode's thread report out of order: the      *)
(* owner of a decode may be noted after its result was discarded, and a    *)
(* charge be made before its owner is known.  What holds throughout is in  *)
(* Fresh, OwnersFroze and ReportsOfNow.  The times and the baselines play  *)
(* no part in that, so nothing is assumed of them there; the baseline      *)
(* needs that the gate waits for more than half of the window it is the    *)
(* median of, and the count of finals and replies that shows that without  *)
(* a split no reply sounds beside its turn.                                *)
(* Then that every variable of Energy stays within its bounds.             *)
(* At the end, of the records of Telemetry, which are built on the same    *)
(* samples: that a turn's contention estimate is its own, and that its     *)
(* energy is the integral over the whole turn, for any stream of samples.  *)
(***************************************************************************)
EXTENDS Energy, FiniteSetTheorems, WellFoundedInduction, TLAPS

(* The request n has not been frozen and cannot have been reported: it is  *)
(* still to be made, or it is being computed and its result is wanted.     *)
Untouched(n) == n > seq \/ (n = seq /\ inPipe.busy /\ seq \notin stale)

\* Nothing is on record of a request that is untouched.
Fresh ==
    /\ \A n \in Seq1 : Untouched(n) => owner[n].turn = None
    /\ \A n \in Seq1 : Untouched(n) => \A c \in charges : c.of # n

\* The owner on record of a decode, if there is one, is the turn that froze it.
OwnersFroze == \A n \in Seq1 : owner[n].turn # None => owner[n].turn = frozeIn[n]

\* A freeze that is still to be reported is of the turn that is open, and of a
\* request that is no longer wanted.
ReportsOfNow ==
    telling.event = "stop" =>
        /\ telling.of \in 1 .. seq
        /\ frozeIn[telling.of] = turn
        /\ telling.of = seq /\ inPipe.busy => seq \in stale

\* The result that is still to be reported has left the pipe.
PipeOfOne ==
    /\ inPipe.busy => seq \in Seq1
    /\ discarding # None => ~inPipe.busy /\ discarding \in 1 .. seq

IInv == WorkerTypeOK /\ Fresh /\ OwnersFroze /\ ReportsOfNow /\ PipeOfOne /\ ChargedToFreezer

(* What the numbers are.                                                   *)
LEMMA Bounds ==
    /\ MaxTurns \in Nat
    /\ MaxDecodes \in Nat
    /\ LongestDecode \in Nat
    /\ Seq1 = 1 .. MaxDecodes
    /\ None = 0
    /\ Silent.event = "none"
    /\ Silent \in [event : {"none", "stop", "cont"}, of : 0 .. MaxDecodes]
    /\ Free \in [busy : BOOLEAN, left : 0 .. LongestDecode]
    /\ ~Free.busy
<1>1. MaxTurns \in Nat /\ MaxDecodes \in Nat /\ LongestDecode \in Nat
  BY BoundsAssumption
<1>2. QED
  BY <1>1 DEF Seq1, None, Silent, Free

LEMMA InitInv == Init => IInv
<1> SUFFICES ASSUME Init PROVE IInv
  OBVIOUS
<1>1. /\ turn = 0 /\ seq = 0 /\ inPipe = Free /\ stopped = FALSE
      /\ stale = {} /\ telling = Silent /\ discarding = None
      /\ owner = [n \in Seq1 |-> NoOwner] /\ frozeIn = [n \in Seq1 |-> None] /\ charges = {}
  BY DEF Init
<1>2. WorkerTypeOK
  <2>1. inPipe \in [busy : BOOLEAN, left : 0 .. LongestDecode] /\ turn \in 0 .. MaxTurns
    BY <1>1, Bounds
  <2>2. telling \in [event : {"none", "stop", "cont"}, of : 0 .. MaxDecodes]
    BY <1>1, Bounds
  <2>3. DOMAIN owner = Seq1 /\ \A n \in Seq1 : owner[n].turn \in 0 .. MaxTurns
    BY <1>1, Bounds DEF NoOwner
  <2>4. DOMAIN frozeIn = Seq1 /\ discarding \in 0 .. MaxDecodes /\ seq \in 0 .. MaxDecodes
    BY <1>1, Bounds
  <2>5. stopped \in BOOLEAN /\ stale \subseteq Seq1 /\ \A c \in charges : c.of \in Seq1
    BY <1>1
  <2>6. QED
    BY <1>1, <2>1, <2>2, <2>3, <2>4, <2>5 DEF WorkerTypeOK
<1>3. Fresh /\ OwnersFroze /\ ReportsOfNow /\ PipeOfOne /\ ChargedToFreezer
  BY <1>1, Bounds DEF Fresh, OwnersFroze, ReportsOfNow, PipeOfOne, ChargedToFreezer, NoOwner
<1>4. QED
  BY <1>2, <1>3 DEF IInv

(* A step that leaves the records and what is to be reported alone, and does *)
(* not make a request untouched again.                                     *)
LEMMA RecordsRest ==
    ASSUME IInv, WorkerTypeOK',
           owner' = owner, frozeIn' = frozeIn, charges' = charges,
           \A n \in Seq1 : Untouched(n)' => Untouched(n)
    PROVE  Fresh' /\ OwnersFroze' /\ ChargedToFreezer'
<1>1. Fresh /\ OwnersFroze /\ ChargedToFreezer
  BY DEF IInv
<1>2. Fresh'
  BY <1>1 DEF Fresh
<1>3. OwnersFroze'
  BY <1>1 DEF OwnersFroze
<1>4. ChargedToFreezer'
  BY <1>1 DEF ChargedToFreezer
<1>5. QED
  BY <1>2, <1>3, <1>4

(* A step of the clock computes a little more of the decode.               *)
LEMMA TickKeeps ==
    ASSUME IInv, Tick
    PROVE  IInv'
<1>1. WorkerTypeOK /\ ReportsOfNow /\ PipeOfOne
  BY DEF IInv
<1>2. /\ inPipe' = IF Computing THEN [inPipe EXCEPT !.left = @ - 1] ELSE inPipe
      /\ UNCHANGED <<turn, seq, stopped, stale, telling, discarding, recordVars>>
  BY DEF Tick, turnVars
<1>3. inPipe \in [busy : BOOLEAN, left : 0 .. LongestDecode]
  BY <1>1 DEF WorkerTypeOK
<1>4. /\ inPipe' \in [busy : BOOLEAN, left : 0 .. LongestDecode]
      /\ inPipe'.busy = inPipe.busy
  <2>1. CASE Computing
    <3>1. inPipe' = [inPipe EXCEPT !.left = @ - 1] /\ inPipe.left > 0
      BY <1>2, <2>1 DEF Computing
    <3>2. inPipe.left - 1 \in 0 .. LongestDecode
      BY <1>3, <3>1, Bounds
    <3>3. QED
      BY <1>3, <3>1, <3>2
  <2>2. CASE ~Computing
    BY <1>2, <1>3, <2>2
  <2>3. QED
    BY <2>1, <2>2
<1>5. WorkerTypeOK'
  BY <1>1, <1>2, <1>4 DEF WorkerTypeOK, recordVars
<1>6. \A n \in Seq1 : Untouched(n)' => Untouched(n)
  BY <1>2, <1>4 DEF Untouched
<1>7. Fresh' /\ OwnersFroze' /\ ChargedToFreezer'
  BY <1>2, <1>5, <1>6, RecordsRest DEF recordVars
<1>8. ReportsOfNow' /\ PipeOfOne'
  BY <1>1, <1>2, <1>4 DEF ReportsOfNow, PipeOfOne, recordVars
<1>9. QED
  BY <1>5, <1>7, <1>8 DEF IInv

(* A turn opens when nothing is left to report.                            *)
LEMMA TurnStartsKeeps ==
    ASSUME IInv, TurnStarts
    PROVE  IInv'
<1>1. WorkerTypeOK /\ PipeOfOne
  BY DEF IInv
<1>2. /\ telling = Silent /\ turn < MaxTurns /\ turn' = turn + 1
      /\ UNCHANGED <<workerVars, telling, discarding, recordVars>>
  BY DEF TurnStarts
<1>3. turn' \in 0 .. MaxTurns
  BY <1>1, <1>2, Bounds DEF WorkerTypeOK
<1>4. WorkerTypeOK'
  BY <1>1, <1>2, <1>3 DEF WorkerTypeOK, workerVars, recordVars
<1>5. \A n \in Seq1 : Untouched(n)' => Untouched(n)
  BY <1>2 DEF Untouched, workerVars
<1>6. Fresh' /\ OwnersFroze' /\ ChargedToFreezer'
  BY <1>2, <1>4, <1>5, RecordsRest DEF recordVars
<1>7. ReportsOfNow' /\ PipeOfOne'
  BY <1>1, <1>2, Bounds DEF ReportsOfNow, PipeOfOne, workerVars
<1>8. QED
  BY <1>4, <1>6, <1>7 DEF IInv

(* A request takes the next number.                                        *)
LEMMA AskKeeps ==
    ASSUME IInv, Ask
    PROVE  IInv'
<1>1. WorkerTypeOK /\ PipeOfOne
  BY DEF IInv
<1>2. /\ telling = Silent /\ discarding = None /\ seq < MaxDecodes /\ seq' = seq + 1
      /\ \E n \in 1 .. LongestDecode : inPipe' = [busy |-> TRUE, left |-> n]
      /\ UNCHANGED <<turn, stopped, stale, telling, discarding, recordVars>>
  BY DEF Ask, turnVars
<1>3. seq \in 0 .. MaxDecodes /\ seq' \in Seq1
  BY <1>1, <1>2, Bounds DEF WorkerTypeOK
<1>4. inPipe' \in [busy : BOOLEAN, left : 0 .. LongestDecode]
  BY <1>2, Bounds
<1>5. WorkerTypeOK'
  BY <1>1, <1>2, <1>3, <1>4, Bounds DEF WorkerTypeOK, recordVars
<1>6. \A n \in Seq1 : Untouched(n)' => Untouched(n)
  BY <1>2, <1>3, Bounds DEF Untouched
<1>7. Fresh' /\ OwnersFroze' /\ ChargedToFreezer'
  BY <1>2, <1>5, <1>6, RecordsRest DEF recordVars
<1>8. ReportsOfNow' /\ PipeOfOne'
  BY <1>2, <1>3, Bounds DEF ReportsOfNow, PipeOfOne
<1>9. QED
  BY <1>5, <1>7, <1>8 DEF IInv

(* The freeze: of a request that was untouched, so that no owner and no    *)
(* charge of it is on record.                                              *)
LEMMA EndpointKeeps ==
    ASSUME IInv, Endpoint
    PROVE  IInv'
<1>1. WorkerTypeOK /\ Fresh /\ OwnersFroze /\ PipeOfOne /\ ChargedToFreezer
  BY DEF IInv
<1>2. /\ telling = Silent
      /\ UNCHANGED <<turn, seq, inPipe, discarding, owner, contNs, charges>>
  BY DEF Endpoint, turnVars
<1>3. PipeOfOne'
  BY <1>1, <1>2 DEF PipeOfOne
<1>4. CASE inPipe.busy /\ ~stopped /\ seq \notin stale
  <2>1. /\ stopped' = TRUE /\ stale' = stale \cup {seq}
        /\ telling' = [event |-> "stop", of |-> seq]
        /\ frozeIn' = [frozeIn EXCEPT ![seq] = turn]
    BY <1>4 DEF Endpoint
  <2>2. seq \in Seq1 /\ Untouched(seq)
    BY <1>1, <1>4 DEF PipeOfOne, Untouched
  <2>3. telling' \in [event : {"none", "stop", "cont"}, of : 0 .. MaxDecodes]
    BY <2>1, <2>2, Bounds
  <2>4. DOMAIN owner = Seq1 /\ DOMAIN frozeIn = Seq1
    BY <1>1 DEF WorkerTypeOK
  <2>5. WorkerTypeOK'
    BY <1>1, <1>2, <2>1, <2>2, <2>3, <2>4 DEF WorkerTypeOK
  <2>6. frozeIn'[seq] = turn /\ \A n \in Seq1 \ {seq} : frozeIn'[n] = frozeIn[n]
    BY <2>1, <2>2, <2>4
  <2>7. owner[seq].turn = None /\ \A c \in charges : c.of # seq
    BY <1>1, <2>2 DEF Fresh
  <2>8. Fresh'
    BY <1>1, <1>2, <2>1 DEF Fresh, Untouched
  <2>9. OwnersFroze'
    BY <1>1, <1>2, <2>6, <2>7 DEF OwnersFroze
  <2>10. ReportsOfNow'
    BY <1>2, <2>1, <2>2, <2>6, Bounds DEF ReportsOfNow
  <2>11. ChargedToFreezer'
    <3> SUFFICES ASSUME NEW c \in charges, c.turn # None
                 PROVE  c.turn = frozeIn'[c.of]
      BY <1>2 DEF ChargedToFreezer
    <3>1. c.of \in Seq1 /\ c.of # seq
      BY <1>1, <2>7 DEF WorkerTypeOK
    <3>2. QED
      BY <1>1, <2>6, <3>1 DEF ChargedToFreezer
  <2>12. QED
    BY <1>3, <2>5, <2>8, <2>9, <2>10, <2>11 DEF IInv
<1>5. CASE ~(inPipe.busy /\ ~stopped /\ seq \notin stale)
  <2>1. UNCHANGED <<stopped, stale, telling, frozeIn>>
    BY <1>5 DEF Endpoint
  <2>2. WorkerTypeOK'
    BY <1>1, <1>2, <2>1 DEF WorkerTypeOK
  <2>3. \A n \in Seq1 : Untouched(n)' => Untouched(n)
    BY <1>2, <2>1 DEF Untouched
  <2>4. Fresh' /\ OwnersFroze' /\ ChargedToFreezer'
    BY <1>2, <2>1, <2>2, <2>3, RecordsRest
  <2>5. ReportsOfNow'
    BY <1>2, <2>1, Bounds DEF ReportsOfNow
  <2>6. QED
    BY <1>3, <2>2, <2>4, <2>5 DEF IInv
<1>6. QED
  BY <1>4, <1>5

(* The owner is noted while the turn that froze the decode is the newest.  *)
LEMMA NoteStopKeeps ==
    ASSUME IInv, NoteStop
    PROVE  IInv'
<1>1. WorkerTypeOK /\ Fresh /\ OwnersFroze /\ ReportsOfNow /\ PipeOfOne /\ ChargedToFreezer
  BY DEF IInv
<1>2. /\ telling.event = "stop" /\ telling' = Silent
      /\ owner' = [owner EXCEPT ![telling.of] = [turn |-> turn, idle |-> idle[turn]]]
      /\ UNCHANGED <<turn, workerVars, discarding, frozeIn, charges>>
  BY DEF NoteStop, turnVars
<1>3. /\ telling.of \in Seq1 /\ frozeIn[telling.of] = turn
      /\ ~Untouched(telling.of)
  <2>1. telling.of \in 1 .. seq /\ seq \in 0 .. MaxDecodes
    BY <1>1, <1>2 DEF ReportsOfNow, WorkerTypeOK
  <2>2. QED
    BY <1>1, <1>2, <2>1, Bounds DEF ReportsOfNow, Untouched
<1>4. DOMAIN owner = Seq1
  BY <1>1 DEF WorkerTypeOK
<1>5. /\ owner'[telling.of].turn = turn
      /\ \A n \in Seq1 \ {telling.of} : owner'[n] = owner[n]
      /\ DOMAIN owner' = Seq1
  BY <1>2, <1>3, <1>4
<1>6. turn \in 0 .. MaxTurns
  BY <1>1 DEF WorkerTypeOK
<1>7. \A n \in Seq1 : owner'[n].turn \in 0 .. MaxTurns
  BY <1>1, <1>5, <1>6 DEF WorkerTypeOK
<1>8. WorkerTypeOK'
  BY <1>1, <1>2, <1>5, <1>7, Bounds DEF WorkerTypeOK, workerVars
<1>9. \A n \in Seq1 : Untouched(n)' <=> Untouched(n)
  BY <1>2 DEF Untouched, workerVars
<1>10. Fresh'
  BY <1>1, <1>2, <1>3, <1>5, <1>9 DEF Fresh
<1>11. OwnersFroze'
  BY <1>1, <1>2, <1>3, <1>5 DEF OwnersFroze
<1>12. ReportsOfNow' /\ PipeOfOne' /\ ChargedToFreezer'
  BY <1>1, <1>2, Bounds DEF ReportsOfNow, PipeOfOne, ChargedToFreezer, workerVars
<1>13. QED
  BY <1>8, <1>10, <1>11, <1>12 DEF IInv

(* A final lands, a reply is generated and is heard, and the worker goes on.*)
LEMMA ReplyKeeps ==
    ASSUME IInv, FinalLands \/ ReplySounds \/ LlmEnds \/ ReplyEnds \/ NoteCont
    PROVE  IInv'
<1>1. WorkerTypeOK /\ ReportsOfNow /\ PipeOfOne
  BY DEF IInv
<1>2. /\ UNCHANGED <<turn, seq, inPipe, stale, discarding, owner, frozeIn, charges>>
      /\ stopped' \in BOOLEAN
  BY <1>1 DEF FinalLands, ReplySounds, LlmEnds, ReplyEnds, NoteCont, MaybeCont, WorkerTypeOK,
              turnVars, workerVars, recordVars
<1>3. \/ telling' = telling
      \/ telling' = Silent
      \/ telling' = [event |-> "cont", of |-> seq]
  BY DEF FinalLands, ReplySounds, LlmEnds, ReplyEnds, NoteCont, MaybeCont
<1>4. telling' \in [event : {"none", "stop", "cont"}, of : 0 .. MaxDecodes]
  <2>1. CASE telling' = telling
    BY <1>1, <2>1 DEF WorkerTypeOK
  <2>2. CASE telling' = Silent
    BY <2>2, Bounds
  <2>3. CASE telling' = [event |-> "cont", of |-> seq]
    BY <1>1, <2>3 DEF WorkerTypeOK
  <2>4. QED
    BY <1>3, <2>1, <2>2, <2>3
<1>5. WorkerTypeOK'
  BY <1>1, <1>2, <1>4 DEF WorkerTypeOK
<1>6. \A n \in Seq1 : Untouched(n)' => Untouched(n)
  BY <1>2 DEF Untouched
<1>7. Fresh' /\ OwnersFroze' /\ ChargedToFreezer'
  BY <1>2, <1>5, <1>6, RecordsRest
<1>8. ReportsOfNow' /\ PipeOfOne'
  BY <1>1, <1>2, <1>3, Bounds DEF ReportsOfNow, PipeOfOne
<1>9. QED
  BY <1>5, <1>7, <1>8 DEF IInv

(* The result leaves the pipe: from then on the request cannot be frozen.  *)
LEMMA ReceiveKeeps ==
    ASSUME IInv, Receive
    PROVE  IInv'
<1>1. WorkerTypeOK /\ ReportsOfNow /\ PipeOfOne
  BY DEF IInv
<1>2. /\ inPipe.busy /\ inPipe' = Free
      /\ stale' = stale \ {seq}
      /\ discarding' = IF seq \in stale THEN seq ELSE None
      /\ UNCHANGED <<turn, seq, stopped, telling, recordVars>>
  BY DEF Receive, turnVars
<1>3. seq \in Seq1 /\ discarding' \in {seq, None}
  BY <1>1, <1>2 DEF PipeOfOne
<1>4. WorkerTypeOK'
  BY <1>1, <1>2, <1>3, Bounds DEF WorkerTypeOK, recordVars
<1>5. \A n \in Seq1 : Untouched(n)' => Untouched(n)
  BY <1>2, Bounds DEF Untouched
<1>6. Fresh' /\ OwnersFroze' /\ ChargedToFreezer'
  BY <1>2, <1>4, <1>5, RecordsRest DEF recordVars
<1>7. ReportsOfNow' /\ PipeOfOne'
  BY <1>1, <1>2, <1>3, Bounds DEF ReportsOfNow, PipeOfOne, recordVars
<1>8. QED
  BY <1>4, <1>6, <1>7 DEF IInv

(* The charge: to the owner on record, or to no turn.                      *)
LEMMA NoteDiscardedKeeps ==
    ASSUME IInv, NoteDiscarded
    PROVE  IInv'
<1>1. WorkerTypeOK /\ Fresh /\ OwnersFroze /\ ReportsOfNow /\ PipeOfOne /\ ChargedToFreezer
  BY DEF IInv
<1> DEFINE charge == [of |-> discarding, turn |-> OwnerOf(discarding).turn,
                      from |-> contNs, to |-> now]
<1>2. /\ discarding # None /\ discarding' = None
      /\ charges' = charges \cup {charge}
      /\ owner' = [owner EXCEPT ![discarding] = NoOwner]
      /\ UNCHANGED <<turn, workerVars, telling, frozeIn>>
  BY DEF NoteDiscarded, turnVars
<1>3. /\ discarding \in Seq1 /\ ~Untouched(discarding)
  <2>1. discarding \in 1 .. seq /\ ~inPipe.busy /\ seq \in 0 .. MaxDecodes
    BY <1>1, <1>2 DEF PipeOfOne, WorkerTypeOK
  <2>2. QED
    BY <2>1, Bounds DEF Untouched
<1>4. DOMAIN owner = Seq1
  BY <1>1 DEF WorkerTypeOK
<1>5. /\ owner'[discarding].turn = None
      /\ \A n \in Seq1 \ {discarding} : owner'[n] = owner[n]
      /\ DOMAIN owner' = Seq1
  BY <1>2, <1>3, <1>4 DEF NoOwner
<1>6. charge.of = discarding /\ charge.turn = owner[discarding].turn
  BY DEF OwnerOf
<1>7. \A n \in Seq1 : owner'[n].turn \in 0 .. MaxTurns
  BY <1>1, <1>5, Bounds DEF WorkerTypeOK
<1>8. \A c \in charges' : c.of \in Seq1
  BY <1>1, <1>2, <1>3, <1>6 DEF WorkerTypeOK
<1>9. WorkerTypeOK'
  BY <1>1, <1>2, <1>5, <1>7, <1>8, Bounds DEF WorkerTypeOK, workerVars
<1>10. \A n \in Seq1 : Untouched(n)' <=> Untouched(n)
  BY <1>2 DEF Untouched, workerVars
<1>11. Fresh'
  BY <1>1, <1>2, <1>3, <1>5, <1>6, <1>10 DEF Fresh
<1>12. OwnersFroze'
  BY <1>1, <1>2, <1>3, <1>5 DEF OwnersFroze
<1>13. ChargedToFreezer'
  BY <1>1, <1>2, <1>3, <1>6 DEF ChargedToFreezer, OwnersFroze
<1>14. ReportsOfNow' /\ PipeOfOne'
  BY <1>1, <1>2 DEF ReportsOfNow, PipeOfOne, workerVars
<1>15. QED
  BY <1>9, <1>11, <1>12, <1>13, <1>14 DEF IInv

-----------------------------------------------------------------------------
(* Energy's IInv is inductive: whatever the order in which the loop and the*)
(* decode's thread report (turns.py, note_worker_event and the worker's    *)
(* stop_if_busy, cont and decode).                                         *)
THEOREM Invariance == Spec => []IInv
<1>1. Init => IInv
  BY InitInv
<1>2. IInv /\ [Next]_vars => IInv'
  <2> SUFFICES ASSUME IInv, [Next]_vars PROVE IInv'
    OBVIOUS
  <2>1. CASE Tick
    BY <2>1, TickKeeps
  <2>2. CASE TurnStarts
    BY <2>2, TurnStartsKeeps
  <2>3. CASE Ask
    BY <2>3, AskKeeps
  <2>4. CASE Endpoint
    BY <2>4, EndpointKeeps
  <2>5. CASE NoteStop
    BY <2>5, NoteStopKeeps
  <2>6. CASE FinalLands \/ ReplySounds \/ LlmEnds \/ ReplyEnds \/ NoteCont
    BY <2>6, ReplyKeeps
  <2>7. CASE Receive
    BY <2>7, ReceiveKeeps
  <2>8. CASE NoteDiscarded
    BY <2>8, NoteDiscardedKeeps
  <2>9. CASE UNCHANGED vars
    BY <2>9 DEF IInv, WorkerTypeOK, Fresh, Untouched, OwnersFroze, ReportsOfNow, PipeOfOne,
                ChargedToFreezer, vars, turnVars, workerVars, recordVars
  <2>10. QED
    BY <2>1, <2>2, <2>3, <2>4, <2>5, <2>6, <2>7, <2>8, <2>9 DEF Next
<1>3. QED
  BY <1>1, <1>2, PTL DEF Spec

(* A discarded decode is charged to the turn whose endpoint froze it, with *)
(* any number of turns, splits and decodes: the owner is kept by request   *)
(* (_stale_owner), and not read from the turn that is open when the result *)
(* comes.                                                                  *)
THEOREM FreezerPays == Spec => []ChargedToFreezer
<1>1. IInv => ChargedToFreezer
  BY DEF IInv
<1>2. QED
  BY <1>1, Invariance, PTL

-----------------------------------------------------------------------------
(* The baseline.  The gate lets a turn in when everything has been idle for*)
(* more than half of the baseline's window, so that most of its samples are*)
(* of an idle board, whatever ran before, but for the replies the gate does*)
(* not wait for.                                                           *)

\* Before the first turn.
AtRest ==
    /\ idleFor = now /\ strayAt = None
    /\ ~open /\ ~talking /\ finals = 0 /\ ~generating /\ ~sounding /\ ~inPipe.busy

\* The last samples, as many as the gate has found everything idle for, are
\* those of an idle board, except where a reply has sounded with no turn open.
IdleRows ==
    /\ now \in Nat /\ Len(rows) = now /\ idleFor \in 0 .. now /\ strayAt \in 0 .. now
    /\ \A i \in 1 .. now : rows[i].at = i /\ rows[i].mw \in {Quiet, Loud}
    /\ \A i \in 1 .. now : i > now - idleFor => rows[i].mw = Quiet \/ i <= strayAt
    /\ turn = 0 => AtRest

\* Every final is of an endpoint, and each reply of a final.
Speech ==
    /\ {open, llmDone, talking, played, generating, sounding} \subseteq BOOLEAN
    /\ finals \in Nat /\ splits \in Nat
    /\ finals <= splits + 1 /\ (talking => finals <= splits)

\* Without a split there is one utterance at a time, and its turn stays open
\* until its reply has ended.
Unsplit ==
    splits = 0 =>
        /\ talking => finals = 0 /\ ~generating
        /\ finals > 0 => finals = 1 /\ ~generating
        /\ ~open \/ llmDone => ~talking /\ finals = 0 /\ ~generating
        /\ ~open => ~sounding
        /\ strayAt = None /\ beside = {}

Baselines ==
    /\ rows \in Seq([at : Nat, mw : {Quiet, Loud}]) /\ lastDone \in Nat
    /\ turn \in 0 .. MaxTurns /\ DOMAIN idle = Turn
    /\ beside \subseteq gated /\ gated \subseteq 1 .. turn
    /\ QuietBaseline

BInv == IdleRows /\ Speech /\ Unsplit /\ Baselines

(* The larger of two numbers.                                              *)
LEMMA LargerOf ==
    ASSUME NEW a \in Int, NEW b \in Int
    PROVE  Max({a, b}) \in Int /\ Max({a, b}) >= a /\ Max({a, b}) >= b
<1>1. \E x \in {a, b} : \A y \in {a, b} : x >= y
  <2>1. CASE a >= b
    BY <2>1
  <2>2. CASE b >= a
    BY <2>2
  <2>3. QED
    BY <2>1, <2>2
<1>2. Max({a, b}) \in {a, b} /\ \A y \in {a, b} : Max({a, b}) >= y
  BY <1>1 DEF Max
<1>3. QED
  BY <1>2

(* The upper median of a window is quiet when most of its samples are.     *)
LEMMA MostlyQuiet ==
    ASSUME NEW samples, NEW taken, \A i \in taken : samples[i].mw \in {Quiet, Loud},
           2 * Cardinality({i \in taken : samples[i].mw = Quiet}) > Cardinality(taken),
           IsFiniteSet(taken), taken # {}
    PROVE  UpperMedian(samples, taken) = Quiet
<1> DEFINE AtMost(v) == {i \in taken : samples[i].mw <= v}
           Medians == {v \in {samples[i].mw : i \in taken} :
                           Cardinality(AtMost(v)) > Cardinality(taken) \div 2}
<1>1. AtMost(Quiet) = {i \in taken : samples[i].mw = Quiet}
  BY DEF Quiet, Loud
<1>2. IsFiniteSet(AtMost(Quiet))
  BY FS_Subset
<1>3. Cardinality(AtMost(Quiet)) \in Nat /\ Cardinality(taken) \in Nat
  BY <1>2, FS_CardinalityType
<1>4. Cardinality(AtMost(Quiet)) > Cardinality(taken) \div 2
  <2>1. \A a, b \in Nat : 2 * a > b => a > b \div 2
    OBVIOUS
  <2> HIDE DEF AtMost
  <2>2. 2 * Cardinality(AtMost(Quiet)) > Cardinality(taken)
    BY <1>1
  <2>3. QED
    BY <1>3, <2>1, <2>2
<1>5. Quiet \in {samples[i].mw : i \in taken}
  <2>1. AtMost(Quiet) # {}
    <3>1. Cardinality(AtMost(Quiet)) # 0
      <4>1. Cardinality(taken) \div 2 >= 0
        BY <1>3
      <4>2. QED
        BY <1>3, <1>4, <4>1
    <3>2. QED
      BY <3>1, FS_EmptySet
  <2>2. QED
    BY <1>1, <2>1
<1>6. Quiet \in Medians /\ Medians \subseteq {Quiet, Loud}
  BY <1>4, <1>5
<1>7. UpperMedian(samples, taken) = Min(Medians)
  BY DEF UpperMedian
<1> HIDE DEF Medians
<1>8. \A x \in Medians : (\A y \in Medians : x <= y) <=> x = Quiet
  BY <1>6 DEF Quiet, Loud
<1>9. Min(Medians) = Quiet
  BY <1>6, <1>8 DEF Min
<1>10. QED
  BY <1>7, <1>9

(* A baseline read when the board has been idle for more than half of the  *)
(* window, or always, and no reply has sounded unseen in the window, is not*)
(* a loud one.                                                             *)
LEMMA BaselineIsQuiet ==
    ASSUME IdleRows, NEW since \in Int, NEW window \in Nat,
           window < 2 * idleFor \/ idleFor = now,
           strayAt = None \/ strayAt < (now + 1) - window
    PROVE  IdleMw(rows, now + 1, window, since) # Loud
<1> DEFINE from == Max({(now + 1) - window, since})
           taken == Between(rows, from, (now + 1) - 1)
           m == IF from > 1 THEN from ELSE 1
           k == (now - idleFor) + 1
           q == IF k > m THEN k ELSE m
<1>1. now \in Nat /\ idleFor \in 0 .. now /\ Len(rows) = now /\ strayAt \in 0 .. now
  BY DEF IdleRows
<1>2. from \in Int /\ from >= (now + 1) - window
  <2>1. (now + 1) - window \in Int
    BY <1>1
  <2>2. QED
    BY <2>1, LargerOf
<1>3. taken = m .. now
  <2>1. taken = {i \in 1 .. now : from <= i /\ i <= now}
    BY <1>1 DEF Between, IdleRows
  <2> HIDE DEF from
  <2>2. \A i \in Int : (i \in 1 .. now /\ from <= i /\ i <= now) <=> i \in m .. now
    BY <1>1, <1>2
  <2>3. m \in Int
    BY <1>2
  <2> HIDE DEF m
  <2>4. {i \in 1 .. now : from <= i /\ i <= now} = m .. now
    BY <1>1, <2>2, <2>3
  <2>5. QED
    BY <2>1, <2>4
<1> HIDE DEF from
<1>4. m \in Int /\ m >= 1 /\ m >= (now + 1) - window /\ k \in Int /\ q \in Int /\ q >= m /\ q >= k
  BY <1>1, <1>2
<1>5. IdleMw(rows, now + 1, window, since) =
          IF Cardinality(taken) < MinIdleSamples THEN Unmeasured ELSE UpperMedian(rows, taken)
  BY DEF IdleMw, from
<1>6. q .. now \subseteq {i \in taken : rows[i].mw = Quiet}
  <2> SUFFICES ASSUME NEW i \in q .. now
               PROVE  i \in m .. now /\ rows[i].mw = Quiet
    BY <1>3
  <2>1. i \in 1 .. now /\ i > now - idleFor /\ i \in m .. now /\ ~(i <= strayAt)
    BY <1>1, <1>4 DEF None
  <2>2. QED
    BY <2>1 DEF IdleRows
<1>7. \A i \in taken : rows[i].mw \in {Quiet, Loud}
  BY <1>1, <1>3, <1>4 DEF IdleRows
<1>8. IsFiniteSet(taken) /\ Cardinality(taken) = IF m > now THEN 0 ELSE (now - m) + 1
  <2>1. m \in Int /\ now \in Int
    BY <1>1, <1>4
  <2> HIDE DEF m, taken
  <2>2. IsFiniteSet(m .. now) /\ Cardinality(m .. now) = IF m > now THEN 0 ELSE now - m + 1
    BY <2>1, FS_Interval
  <2>3. QED
    BY <1>3, <2>2
<1>9. Cardinality(q .. now) = IF q > now THEN 0 ELSE (now - q) + 1
  <2>1. q \in Int /\ now \in Int
    BY <1>1, <1>4
  <2> HIDE DEF q
  <2>2. QED
    BY <2>1, FS_Interval
<1>10. CASE taken = {}
  <2>1. Cardinality(taken) = 0
    BY <1>10, FS_EmptySet
  <2>2. QED
    BY <1>5, <2>1, MinIdleSamplesAssumption DEF Unmeasured, Loud
<1>11. CASE taken # {}
  <2>1. m <= now
    BY <1>1, <1>3, <1>4, <1>11
  <2>2. q <= now /\ 2 * ((now - q) + 1) > (now - m) + 1
    <3>1. CASE k <= m
      <4>1. q = m
        BY <1>4, <3>1
      <4>2. QED
        BY <1>1, <1>4, <2>1, <4>1
    <3>2. CASE k > m
      <4>1. q = k /\ (now - q) + 1 = idleFor
        BY <1>1, <1>4, <3>2
      <4>2. idleFor # now
        BY <1>1, <1>4, <3>2
      <4>3. QED
        BY <1>1, <1>4, <4>1, <4>2
    <3>3. QED
      BY <1>4, <3>1, <3>2
  <2>3. 2 * Cardinality(q .. now) > Cardinality(taken)
    BY <1>8, <1>9, <2>1, <2>2, <1>1, <1>4
  <2>4. PICK quiet : quiet = {i \in taken : rows[i].mw = Quiet}
    OBVIOUS
  <2>5. /\ IsFiniteSet(quiet) /\ Cardinality(quiet) \in Nat /\ Cardinality(q .. now) \in Nat
        /\ Cardinality(q .. now) <= Cardinality(quiet) /\ Cardinality(taken) \in Nat
    <3>1. quiet \subseteq taken /\ q .. now \subseteq quiet
      BY <1>6, <2>4
    <3>2. IsFiniteSet(quiet)
      BY <1>8, <3>1, FS_Subset
    <3>3. IsFiniteSet(q .. now) /\ Cardinality(q .. now) <= Cardinality(quiet)
      BY <3>1, <3>2, FS_Subset
    <3>4. QED
      BY <1>8, <3>2, <3>3, FS_CardinalityType
  <2>6. 2 * Cardinality(quiet) > Cardinality(taken)
    BY <2>3, <2>5
  <2>7. UpperMedian(rows, taken) = Quiet
    BY <1>7, <1>8, <1>11, <2>4, <2>6, MostlyQuiet
  <2>8. QED
    BY <1>5, <2>7 DEF Unmeasured, Quiet, Loud
<1>12. QED
  BY <1>10, <1>11

LEMMA BaselineInit == Init => BInv
<1> SUFFICES ASSUME Init PROVE BInv
  OBVIOUS
<1>1. /\ now = 0 /\ rows = <<>> /\ turn = 0 /\ lastDone = None /\ idleFor = 0 /\ strayAt = None
      /\ idle = [t \in Turn |-> Unmeasured] /\ gated = {} /\ beside = {} /\ inPipe = Free
      /\ open = FALSE /\ llmDone = FALSE /\ talking = FALSE /\ played = TRUE
      /\ generating = FALSE /\ sounding = FALSE /\ finals = 0 /\ splits = 0
  BY DEF Init
<1>2. IdleRows
  BY <1>1, Bounds DEF IdleRows, AtRest
<1>3. Speech
  <2>1. {open, llmDone, talking, played, generating, sounding} \subseteq BOOLEAN
    BY <1>1, Zenon
  <2>2. finals \in Nat /\ splits \in Nat /\ finals <= splits + 1 /\ finals <= splits
    BY <1>1
  <2>3. QED
    BY <2>1, <2>2 DEF Speech
<1>4. Unsplit
  BY <1>1 DEF Unsplit
<1>5. Baselines
  BY <1>1, BoundsAssumption DEF Baselines, QuietBaseline, None
<1>6. QED
  BY <1>2, <1>3, <1>4, <1>5 DEF BInv

(* What an utterance goes through, step by step.                           *)
LEMMA SpeechInStep ==
    ASSUME IdleRows, Speech, Unsplit, Baselines, [Next]_vars
    PROVE  Speech' /\ Unsplit'
<1>1. /\ open \in BOOLEAN /\ llmDone \in BOOLEAN /\ talking \in BOOLEAN /\ played \in BOOLEAN
      /\ generating \in BOOLEAN /\ sounding \in BOOLEAN /\ finals \in Nat /\ splits \in Nat
      /\ finals <= splits + 1 /\ (talking => finals <= splits)
  BY DEF Speech
<1>2. CASE Tick
  <2>1. UNCHANGED <<open, splits, llmDone, beside, talking, finals, played, generating, sounding>>
        /\ strayAt' = IF sounding /\ ~open THEN now' ELSE strayAt
    BY <1>2 DEF Tick, turnVars, speechVars
  <2>2. Speech'
    BY <2>1 DEF Speech
  <2>3. Unsplit'
    BY <2>1 DEF Unsplit
  <2>4. QED
    BY <2>2, <2>3
<1>3. CASE TurnStarts
  <2>1. /\ ~talking /\ talking' /\ open' /\ ~llmDone'
        /\ {open', llmDone', talking'} \subseteq BOOLEAN
        /\ UNCHANGED <<strayAt, finals, played, generating, sounding>>
    BY <1>3 DEF TurnStarts
  <2>2. CASE GateOpens /\ UNCHANGED splits
                /\ beside' = beside \cup
                     (IF strayAt # None /\ strayAt >= WindowStart THEN {turn + 1} ELSE {})
    <3>1. ~open /\ finals = 0 /\ ~generating
      <4>1. turn \in Nat
        BY BoundsAssumption DEF Baselines
      <4>2. CASE turn = 0
        BY <4>2 DEF IdleRows, AtRest
      <4>3. CASE turn # 0
        BY <1>1, <2>2, <4>1, <4>3 DEF GateOpens, Busy
      <4>4. QED
        BY <4>2, <4>3
    <3>2. Speech'
      BY <1>1, <2>1, <2>2, <3>1 DEF Speech
    <3>3. Unsplit'
      BY <2>1, <2>2, <3>1 DEF Unsplit
    <3>4. QED
      BY <3>2, <3>3
  <2>3. CASE splits' = splits + 1
    <3>1. Speech'
      BY <1>1, <2>1, <2>3 DEF Speech
    <3>2. splits' # 0
      BY <1>1, <2>3
    <3>3. QED
      BY <3>1, <3>2 DEF Unsplit
  <2>4. QED
    BY <1>3, <2>2, <2>3 DEF TurnStarts
<1>4. CASE Endpoint
  <2>1. /\ talking /\ ~talking' /\ talking' \in BOOLEAN /\ finals' = finals + 1
        /\ played' \in {played, FALSE}
        /\ UNCHANGED <<strayAt, open, splits, llmDone, beside, generating, sounding>>
    BY <1>4 DEF Endpoint, clockVars, turnVars
  <2>2. finals' \in Nat /\ finals' <= splits' + 1 /\ splits' \in Nat
    <3>1. finals <= splits
      BY <1>1, <2>1, Zenon
    <3>2. QED
      BY <1>1, <2>1, <3>1
  <2>3. Speech'
    <3>1. {open, llmDone, talking, played, generating, sounding}' \subseteq BOOLEAN
      BY <1>1, <2>1, Zenon
    <3>2. QED
      BY <2>1, <2>2, <3>1 DEF Speech
  <2>4. Unsplit'
    BY <1>1, <2>1 DEF Unsplit
  <2>5. QED
    BY <2>3, <2>4
<1>5. CASE FinalLands
  <2>1. /\ finals > 0 /\ finals' = finals - 1 /\ generating' /\ generating' \in BOOLEAN
        /\ UNCHANGED <<strayAt, open, splits, llmDone, beside, talking, played, sounding>>
    BY <1>5 DEF FinalLands, clockVars, turnVars
  <2>2. Speech'
    BY <1>1, <2>1 DEF Speech
  <2>3. Unsplit'
    BY <1>1, <2>1 DEF Unsplit
  <2>4. QED
    BY <2>2, <2>3
<1>6. CASE ReplySounds
  <2>1. /\ generating /\ sounding' = TRUE
        /\ UNCHANGED <<strayAt, open, splits, llmDone, beside, talking, finals, played, generating>>
    BY <1>6 DEF ReplySounds, clockVars, turnVars
  <2>2. Speech'
    BY <1>1, <2>1 DEF Speech
  <2>3. Unsplit'
    BY <2>1 DEF Unsplit
  <2>4. QED
    BY <2>2, <2>3
<1>7. CASE LlmEnds
  <2>1. /\ generating /\ generating' = FALSE /\ llmDone' = (llmDone \/ open)
        /\ sounding' \in BOOLEAN
        /\ UNCHANGED <<strayAt, open, splits, beside, talking, finals, played>>
    BY <1>1, <1>7 DEF LlmEnds, clockVars
  <2>2. Speech'
    BY <1>1, <2>1 DEF Speech
  <2>3. Unsplit'
    BY <1>1, <2>1 DEF Unsplit
  <2>4. QED
    BY <2>2, <2>3
<1>8. CASE ReplyEnds
  <2>1. /\ sounding' = FALSE /\ UNCHANGED <<strayAt, splits, beside, talking, finals, generating>>
        /\ played' \in {played, TRUE}
        /\ \/ open /\ llmDone /\ open' = FALSE /\ llmDone' = FALSE
           \/ UNCHANGED <<open, llmDone>>
    BY <1>8 DEF ReplyEnds, clockVars
  <2>2. Speech'
    BY <1>1, <2>1 DEF Speech
  <2>3. Unsplit'
    BY <2>1 DEF Unsplit
  <2>4. QED
    BY <2>2, <2>3
<1>9. CASE Ask \/ NoteStop \/ NoteCont \/ Receive \/ NoteDiscarded \/ UNCHANGED vars
  <2>1. UNCHANGED <<open, splits, llmDone, beside, talking, finals, played, generating, sounding,
                    strayAt>>
    BY <1>9 DEF Ask, NoteStop, NoteCont, Receive, NoteDiscarded, vars, clockVars, turnVars,
                speechVars
  <2>2. QED
    BY <2>1 DEF Speech, Unsplit
<1>10. QED
  BY <1>2, <1>3, <1>4, <1>5, <1>6, <1>7, <1>8, <1>9 DEF Next

(* A tick adds a sample: if the gate counts it, of an idle board or of a   *)
(* reply that sounds with no turn open.                                    *)
LEMMA TickAddsARow ==
    ASSUME IdleRows, Baselines, Tick
    PROVE  IdleRows' /\ Baselines'
<1>2. PICK row : row = [at |-> now + 1, mw |-> IF Loaded THEN Loud ELSE Quiet]
  OBVIOUS
<1>3. /\ now' = now + 1 /\ rows' = Append(rows, row)
      /\ idleFor' = IF open \/ talking \/ Busy THEN 0 ELSE idleFor + 1
      /\ strayAt' = IF sounding /\ ~open THEN now' ELSE strayAt
      /\ inPipe' = IF Computing THEN [inPipe EXCEPT !.left = @ - 1] ELSE inPipe
      /\ UNCHANGED <<open, turn, splits, lastDone, idle, gated, beside, talking, finals, generating,
                     sounding>>
  BY <1>2 DEF Tick, turnVars, speechVars
<1>4. row.at = now + 1 /\ row.mw \in {Quiet, Loud}
  BY <1>2
<1>5. row \in [at : Nat, mw : {Quiet, Loud}]
  BY <1>2, <1>4 DEF IdleRows
<1>6. ~(open \/ talking \/ Busy) => row.mw = Quiet \/ strayAt' = now'
  BY <1>2, <1>3 DEF Busy, Computing, Loaded
<1>7. /\ Len(rows') = now' /\ rows'[now'] = row /\ \A i \in 1 .. now : rows'[i] = rows[i]
      /\ rows' \in Seq([at : Nat, mw : {Quiet, Loud}])
  BY <1>3, <1>5 DEF IdleRows, Baselines
<1>8. /\ now \in Nat /\ idleFor \in 0 .. now /\ idleFor' \in {0, idleFor + 1}
      /\ strayAt \in 0 .. now /\ strayAt' \in 0 .. now' /\ strayAt' >= strayAt
  BY <1>3 DEF IdleRows
<1>9. IdleRows'
  <2>1. now' \in Nat /\ idleFor' \in 0 .. now'
    BY <1>3, <1>8
  <2>2. \A i \in 1 .. now' : rows'[i].at = i /\ rows'[i].mw \in {Quiet, Loud}
    BY <1>3, <1>4, <1>7, <1>8 DEF IdleRows
  <2>3. ASSUME NEW i \in 1 .. now', i > now' - idleFor'
        PROVE  rows'[i].mw = Quiet \/ i <= strayAt'
    <3>1. ~(open \/ talking \/ Busy) /\ idleFor' = idleFor + 1
      BY <1>3, <1>8, <2>3
    <3>2. i = now' \/ (i \in 1 .. now /\ i > now - idleFor)
      BY <1>3, <1>8, <2>3, <3>1
    <3>3. CASE i = now'
      BY <1>6, <1>7, <1>8, <3>1, <3>3
    <3>4. CASE i \in 1 .. now /\ i > now - idleFor
      <4>1. rows[i].mw = Quiet \/ i <= strayAt
        BY <3>4 DEF IdleRows
      <4>2. QED
        BY <1>7, <1>8, <3>4, <4>1
    <3>5. QED
      BY <3>2, <3>3, <3>4
  <2>4. turn' = 0 => AtRest'
    <3> SUFFICES ASSUME turn = 0
                 PROVE  AtRest'
      BY <1>3
    <3>1. AtRest
      BY DEF IdleRows
    <3>2. ~Busy /\ ~Computing
      BY <3>1 DEF AtRest, Busy, Computing
    <3>3. QED
      BY <1>3, <3>1, <3>2 DEF AtRest
  <2>5. QED
    BY <1>7, <1>8, <2>1, <2>2, <2>3, <2>4 DEF IdleRows
<1>10. Baselines'
  BY <1>3, <1>7 DEF Baselines, QuietBaseline
<1>11. QED
  BY <1>9, <1>10

(* A turn the gate let in takes the baseline of an idle board, if no reply *)
(* has sounded beside it; one that splits another is not let in by the     *)
(* gate.                                                                   *)
LEMMA TurnTakesBaseline ==
    ASSUME IdleRows, Speech, Unsplit, Baselines, TurnStarts
    PROVE  IdleRows' /\ Baselines'
<1>2. /\ turn < MaxTurns /\ turn' = turn + 1 /\ idleFor' = 0
      /\ idle' = [idle EXCEPT ![turn + 1] = IdleMw(rows, now + 1, IdleWindow, QuietSince)]
      /\ UNCHANGED <<now, rows, strayAt, lastDone>>
      /\ \/ /\ GateOpens /\ gated' = gated \cup {turn + 1} /\ splits' = splits
            /\ beside' = beside \cup
                  (IF strayAt # None /\ strayAt >= WindowStart THEN {turn + 1} ELSE {})
         \/ gated' = gated /\ beside' = beside /\ splits' = splits + 1
  BY DEF TurnStarts
<1>3. /\ turn \in Nat /\ turn' \in 0 .. MaxTurns /\ turn + 1 \in Turn /\ turn + 1 \notin gated
      /\ splits \in Nat
  BY <1>2, BoundsAssumption DEF Baselines, Turn, Speech
<1>4. IdleRows'
  BY <1>2, <1>3 DEF IdleRows
<1>5. ASSUME turn + 1 \in gated', idle'[turn + 1] = Loud
      PROVE  turn + 1 \in beside' /\ splits' > 0
  <2>1. /\ GateOpens /\ splits' = splits
        /\ beside' = beside \cup
              (IF strayAt # None /\ strayAt >= WindowStart THEN {turn + 1} ELSE {})
    BY <1>2, <1>3, <1>5
  <2>2. IdleMw(rows, now + 1, IdleWindow, QuietSince) = Loud
    BY <1>2, <1>3, <1>5 DEF Baselines
  <2>3. QuietSince \in Int /\ IdleWindow \in Nat
    BY GateAssumption DEF QuietSince, Baselines
  <2>4. IdleWindow < 2 * idleFor \/ idleFor = now
    <3>1. CASE turn = 0
      BY <3>1 DEF IdleRows, AtRest
    <3>2. CASE turn # 0
      <4>1. idleFor >= GateQuiet + OnsetDelay /\ idleFor \in Nat
        BY <1>3, <2>1, <3>2 DEF IdleRows, GateOpens
      <4>2. {GateQuiet, OnsetDelay} \subseteq Nat /\ IdleWindow < 2 * (GateQuiet + OnsetDelay)
        BY GateAssumption
      <4>3. QED
        BY <2>3, <4>1, <4>2
    <3>3. QED
      BY <3>1, <3>2
  <2>5. ~(strayAt = None \/ strayAt < (now + 1) - IdleWindow)
    BY <2>2, <2>3, <2>4, BaselineIsQuiet
  <2>6. turn + 1 \in beside'
    BY <2>1, <2>3, <2>5 DEF WindowStart, IdleRows
  <2>7. splits # 0
    BY <2>5 DEF Unsplit
  <2>8. QED
    BY <1>3, <2>1, <2>6, <2>7
<1>6. \A t \in gated : idle'[t] = idle[t]
  BY <1>2, <1>3 DEF Baselines
<1>7. QuietBaseline'
  <2> SUFFICES ASSUME NEW t \in gated', idle'[t] = Loud
               PROVE  t \in beside' /\ splits' > 0
    BY DEF QuietBaseline
  <2>1. CASE t = turn + 1
    BY <1>5, <2>1
  <2>2. CASE t # turn + 1
    <3>1. t \in gated /\ idle[t] = Loud
      BY <1>2, <1>6, <2>2
    <3>2. t \in beside /\ splits > 0
      BY <3>1 DEF Baselines, QuietBaseline
    <3>3. QED
      BY <1>2, <1>3, <3>2
  <2>3. QED
    BY <2>1, <2>2
<1>8. gated' \subseteq 1 .. turn' /\ DOMAIN idle' = Turn /\ beside' \subseteq gated'
  <2>1. beside \subseteq gated /\ gated \subseteq 1 .. turn /\ DOMAIN idle = Turn
    BY DEF Baselines
  <2>2. gated' \subseteq 1 .. turn'
    <3>1. gated' \subseteq gated \cup {turn + 1} /\ turn' = turn + 1
      BY <1>2
    <3>2. 1 .. turn \subseteq 1 .. (turn + 1) /\ turn + 1 \in 1 .. (turn + 1)
      BY <1>3
    <3>3. QED
      BY <2>1, <3>1, <3>2
  <2>3. beside' \subseteq gated'
    <3>1. CASE gated' = gated \cup {turn + 1}
      <4>1. beside' \subseteq beside \cup {turn + 1}
        BY <1>2
      <4>2. QED
        BY <2>1, <3>1, <4>1
    <3>2. CASE gated' = gated /\ beside' = beside
      BY <2>1, <3>2
    <3>3. QED
      BY <1>2, <3>1, <3>2
  <2>4. QED
    BY <1>2, <2>1, <2>2, <2>3
<1>9. Baselines'
  BY <1>2, <1>3, <1>7, <1>8 DEF Baselines
<1>10. QED
  BY <1>4, <1>9

(* The other steps take no sample and no baseline, and nothing is asked of *)
(* anyone before the first turn.                                           *)
LEMMA OthersKeepBaselines ==
    ASSUME IdleRows, Baselines,
           \/ Ask \/ Endpoint \/ NoteStop \/ FinalLands \/ ReplySounds \/ LlmEnds \/ ReplyEnds
           \/ NoteCont \/ Receive \/ NoteDiscarded \/ UNCHANGED vars
    PROVE  IdleRows' /\ Baselines'
<1>2. UNCHANGED <<now, rows, idleFor, strayAt, turn, splits, idle, gated, beside>>
  BY DEF Ask, Endpoint, NoteStop, FinalLands, ReplySounds, LlmEnds, ReplyEnds, NoteCont, Receive,
         NoteDiscarded, vars, clockVars, turnVars
<1>3. ASSUME AtRest
      PROVE  AtRest'
  <2>1. idleFor = now /\ strayAt = None /\ ~open /\ ~talking /\ ~(finals > 0) /\ ~generating
        /\ ~sounding /\ ~inPipe.busy /\ finals = 0
    BY <1>3 DEF AtRest
  <2>2. \/ NoteStop \/ NoteCont \/ NoteDiscarded \/ UNCHANGED vars
    BY <2>1 DEF Ask, Endpoint, FinalLands, ReplySounds, LlmEnds, ReplyEnds, Receive
  <2>3. UNCHANGED <<open, talking, finals, generating, sounding, inPipe>>
    BY <2>2 DEF NoteStop, NoteCont, NoteDiscarded, vars, turnVars, speechVars, workerVars
  <2>4. QED
    BY <1>2, <2>1, <2>3 DEF AtRest
<1>4. lastDone' \in Nat
  <2>1. lastDone' = lastDone \/ lastDone' \in {now - back : back \in {0, 1} \cap 0 .. now}
    BY DEF Ask, Endpoint, NoteStop, FinalLands, ReplySounds, LlmEnds, ReplyEnds, NoteCont, Receive,
           NoteDiscarded, vars, turnVars
  <2>2. QED
    BY <2>1 DEF Baselines, IdleRows
<1>5. IdleRows'
  BY <1>2, <1>3 DEF IdleRows
<1>6. Baselines'
  BY <1>2, <1>4 DEF Baselines, QuietBaseline
<1>7. QED
  BY <1>5, <1>6

LEMMA BaselinesInStep == BInv /\ [Next]_vars => BInv'
<1> SUFFICES ASSUME BInv, [Next]_vars PROVE BInv'
  OBVIOUS
<1>1. IdleRows /\ Speech /\ Unsplit /\ Baselines
  BY DEF BInv
<1>2. Speech' /\ Unsplit'
  BY <1>1, SpeechInStep
<1>3. CASE Tick
  BY <1>1, <1>2, <1>3, TickAddsARow DEF BInv
<1>4. CASE TurnStarts
  BY <1>1, <1>2, <1>4, TurnTakesBaseline DEF BInv
<1>5. CASE \/ Ask \/ Endpoint \/ NoteStop \/ FinalLands \/ ReplySounds \/ LlmEnds \/ ReplyEnds
           \/ NoteCont \/ Receive \/ NoteDiscarded \/ UNCHANGED vars
  BY <1>1, <1>2, <1>5, OthersKeepBaselines DEF BInv
<1>6. QED
  BY <1>3, <1>4, <1>5 DEF Next

(* The baseline of a turn the gate let in is of an idle board, unless there*)
(* was a split and a reply sounded with no turn open in its window: for any*)
(* number of turns, splits and decodes, any lengths of finals, replies and *)
(* decodes and any window shorter than twice the gate's quiet and the      *)
(* onset's delay (idle_mw in telemetry.py, turn_gate in run_reactive.py).  *)
THEOREM BaselineIsOfIdle == Spec => []QuietBaseline
<1>1. BInv /\ [Next]_vars => BInv'
  BY BaselinesInStep
<1>2. BInv => QuietBaseline
  BY DEF BInv, Baselines
<1>3. QED
  BY <1>1, <1>2, BaselineInit, PTL DEF Spec

(* A baseline is one of the sampled powers, if it is measured.             *)
LEMMA BaselineIsSampled ==
    ASSUME IdleRows, NEW since \in Int, NEW window \in Nat
    PROVE  IdleMw(rows, now + 1, window, since) \in {Unmeasured, Quiet, Loud}
<1> DEFINE from == Max({(now + 1) - window, since})
<1>1. PICK taken : taken = Between(rows, from, (now + 1) - 1)
  OBVIOUS
<1>2. IdleMw(rows, now + 1, window, since) =
          IF Cardinality(taken) < MinIdleSamples THEN Unmeasured ELSE UpperMedian(rows, taken)
  BY <1>1 DEF IdleMw
<1>3. now \in Nat /\ taken \subseteq 1 .. now /\ \A i \in taken : rows[i].mw \in {Quiet, Loud}
  BY <1>1 DEF Between, IdleRows
<1>4. IsFiniteSet(taken) /\ Cardinality(taken) \in Nat
  <2>1. 1 \in Int /\ now \in Int
    BY <1>3
  <2>2. IsFiniteSet(1 .. now)
    BY <2>1, FS_Interval
  <2>3. IsFiniteSet(taken)
    BY <1>3, <2>2, FS_Subset
  <2>4. QED
    BY <2>3, FS_CardinalityType
<1>5. CASE Cardinality(taken) < MinIdleSamples
  BY <1>2, <1>5
<1>6. CASE ~(Cardinality(taken) < MinIdleSamples)
  <2> DEFINE AtMost(v) == {i \in taken : rows[i].mw <= v}
             Medians == {v \in {rows[i].mw : i \in taken} :
                             Cardinality(AtMost(v)) > Cardinality(taken) \div 2}
  <2>1. Cardinality(taken) > 0
    BY <1>4, <1>6, MinIdleSamplesAssumption
  <2>2. Cardinality(taken) > Cardinality(taken) \div 2
    BY <1>4, <2>1
  <2>3. Medians \subseteq {Quiet, Loud}
    BY <1>3
  <2>4. UpperMedian(rows, taken) = Min(Medians)
    BY DEF UpperMedian
  <2>5. CASE \E i \in taken : rows[i].mw = Loud
    <3>1. AtMost(Loud) = taken
      BY <1>3 DEF Quiet, Loud
    <3>2. Loud \in Medians
      BY <2>2, <2>5, <3>1
    <3> HIDE DEF Medians
    <3>3. \E x \in Medians : \A y \in Medians : x <= y
      BY <2>3, <3>2 DEF Quiet, Loud
    <3>4. Min(Medians) \in Medians
      BY <3>3 DEF Min
    <3>5. QED
      BY <1>2, <1>6, <2>3, <2>4, <3>4
  <2>6. CASE \A i \in taken : rows[i].mw # Loud
    <3>1. \A i \in taken : rows[i].mw = Quiet
      BY <1>3, <2>6
    <3>2. AtMost(Quiet) = taken
      BY <3>1 DEF Quiet
    <3>3. taken # {}
      BY <2>1, FS_EmptySet
    <3>4. Quiet \in Medians
      BY <2>2, <3>1, <3>2, <3>3
    <3> HIDE DEF Medians
    <3>5. \E x \in Medians : \A y \in Medians : x <= y
      BY <2>3, <3>4 DEF Quiet, Loud
    <3>6. Min(Medians) \in Medians
      BY <3>5 DEF Min
    <3>7. QED
      BY <1>2, <1>6, <2>3, <2>4, <3>6
  <2>7. QED
    BY <2>5, <2>6
<1>7. QED
  BY <1>5, <1>6

\* What the type invariant says beyond the shapes above: the bounds, and that
\* baselines are sampled powers.
Powers == {Unmeasured, Quiet, Loud}
Bounded ==
    /\ now <= MaxTime /\ splits \in 0 .. MaxSplits /\ lastDone <= now
    /\ idle \in [Turn -> Powers] /\ \A n \in Seq1 : owner[n].idle \in Powers
    /\ telling.event = "stop" => turn # 0

LEMMA BoundedInStep ==
    ASSUME IInv, BInv, Bounded, [Next]_vars
    PROVE  Bounded'
<1>1. WorkerTypeOK /\ ReportsOfNow /\ IdleRows /\ Baselines
  BY DEF IInv, BInv
<1>2. /\ MaxTime \in Nat /\ MaxSplits \in Nat /\ MaxTurns \in Nat
      /\ now \in Nat /\ lastDone \in Nat /\ turn \in 0 .. MaxTurns
      /\ now <= MaxTime /\ splits \in 0 .. MaxSplits /\ lastDone <= now
      /\ idle \in [Turn -> Powers] /\ DOMAIN owner = Seq1
      /\ \A n \in Seq1 : owner[n].idle \in Powers
      /\ telling.event = "stop" => turn # 0
  BY <1>1, BoundsAssumption DEF Bounded, IdleRows, Baselines, WorkerTypeOK
<1>3. CASE Tick
  <2>1. /\ now < MaxTime /\ now' = now + 1
        /\ UNCHANGED <<splits, lastDone, idle, owner, turn, telling>>
    BY <1>3 DEF Tick, turnVars, recordVars
  <2>2. QED
    BY <1>2, <2>1 DEF Bounded
<1>4. CASE TurnStarts
  <2>1. /\ turn < MaxTurns /\ turn' = turn + 1 /\ UNCHANGED <<now, lastDone, owner>>
        /\ splits' = splits \/ (splits < MaxSplits /\ splits' = splits + 1)
        /\ idle' = [idle EXCEPT ![turn + 1] = IdleMw(rows, now + 1, IdleWindow, QuietSince)]
    BY <1>4 DEF TurnStarts, recordVars
  <2>2. splits' \in 0 .. MaxSplits
    BY <1>2, <2>1
  <2>3. QuietSince \in Int /\ IdleWindow \in Nat
    BY <1>2, GateAssumption DEF QuietSince
  <2>4. IdleMw(rows, now + 1, IdleWindow, QuietSince) \in Powers
    BY <1>1, <2>3, BaselineIsSampled DEF Powers
  <2>5. idle' \in [Turn -> Powers]
    BY <1>2, <2>1, <2>4
  <2>6. QED
    BY <1>2, <2>1, <2>2, <2>5 DEF Bounded
<1>5. CASE NoteStop
  <2>1. /\ UNCHANGED <<now, splits, lastDone, idle>> /\ telling.event = "stop"
        /\ telling' = Silent
        /\ owner' = [owner EXCEPT ![telling.of] = [turn |-> turn, idle |-> idle[turn]]]
    BY <1>5 DEF NoteStop, clockVars, turnVars
  <2>2. turn \in Turn
    BY <1>2, <2>1 DEF Turn
  <2>3. idle[turn] \in Powers
    BY <1>2, <2>2
  <2>4. \A n \in Seq1 : owner'[n].idle \in Powers
    BY <1>2, <2>1, <2>3
  <2>5. QED
    BY <1>2, <2>1, <2>4 DEF Bounded, Silent
<1>6. CASE ReplyEnds
  <2>1. /\ UNCHANGED <<now, splits, idle, owner, turn>>
        /\ telling' \in {telling, Silent, [event |-> "cont", of |-> seq]}
    BY <1>6 DEF ReplyEnds, MaybeCont, clockVars, recordVars
  <2>2. lastDone' = lastDone \/ lastDone' \in {now - back : back \in {0, 1} \cap 0 .. now}
    BY <1>6 DEF ReplyEnds
  <2>3. lastDone' <= now
    BY <1>2, <2>2
  <2>4. QED
    BY <1>2, <2>1, <2>3 DEF Bounded, Silent
<1>7. CASE NoteDiscarded
  <2>1. /\ UNCHANGED <<now, splits, lastDone, idle, turn, telling>>
        /\ owner' = [owner EXCEPT ![discarding] = NoOwner]
    BY <1>7 DEF NoteDiscarded, clockVars, turnVars
  <2>2. \A n \in Seq1 : owner'[n].idle \in Powers
    BY <1>2, <2>1 DEF NoOwner, Powers
  <2>3. QED
    BY <1>2, <2>1, <2>2 DEF Bounded
<1>8. CASE Endpoint
  <2>1. UNCHANGED <<now, splits, lastDone, idle, owner, turn>> /\ talking
    BY <1>8 DEF Endpoint, clockVars, turnVars
  <2>2. turn # 0
    BY <1>1, <2>1 DEF IdleRows, AtRest
  <2>3. QED
    BY <1>2, <2>1, <2>2 DEF Bounded
<1>9. CASE \/ Ask \/ FinalLands \/ ReplySounds \/ LlmEnds \/ NoteCont \/ Receive
           \/ UNCHANGED vars
  <2>1. /\ UNCHANGED <<now, splits, lastDone, idle, owner, turn>>
        /\ telling' \in {telling, Silent, [event |-> "cont", of |-> seq]}
    BY <1>9 DEF Ask, FinalLands, ReplySounds, LlmEnds, NoteCont, Receive, MaybeCont, vars,
                clockVars, turnVars, recordVars
  <2>2. QED
    BY <1>2, <2>1 DEF Bounded, Silent
<1>10. QED
  BY <1>3, <1>4, <1>5, <1>6, <1>7, <1>8, <1>9 DEF Next

(* What the elements of a sequence are, and a sequence from its elements.  *)
LEMMA ElementIs ==
    ASSUME NEW S, NEW s \in Seq(S), NEW i \in 1 .. Len(s)
    PROVE  s[i] \in S
OBVIOUS

LEMMA SequenceOf ==
    ASSUME NEW S, NEW n \in Nat, NEW s \in [1 .. n -> S]
    PROVE  s \in Seq(S)
OBVIOUS

(* The type invariant: every variable stays within its bounds.             *)
THEOREM TypeCorrect == Spec => []TypeOK
<1>1. Init => Bounded
  <2> SUFFICES ASSUME Init PROVE Bounded
    OBVIOUS
  <2>1. /\ now = 0 /\ splits = 0 /\ lastDone = None /\ idle = [t \in Turn |-> Unmeasured]
        /\ owner = [n \in Seq1 |-> NoOwner]
    BY DEF Init
  <2>2. QED
    BY <2>1, BoundsAssumption DEF Bounded, Powers, None, NoOwner, Init, Silent
<1>2. BInv /\ [Next]_vars => BInv'
  BY BaselinesInStep
<1>3. IInv /\ BInv /\ Bounded => TypeOK
  <2> SUFFICES ASSUME IInv, BInv, Bounded PROVE TypeOK
    OBVIOUS
  <2>1. WorkerTypeOK /\ IdleRows /\ Speech /\ Baselines
    BY DEF IInv, BInv
  <2>2. now \in 0 .. MaxTime /\ lastDone \in 0 .. MaxTime /\ idleFor \in 0 .. MaxTime
        /\ strayAt \in 0 .. MaxTime
    BY <2>1, BoundsAssumption DEF Bounded, IdleRows, Baselines
  <2>3. rows \in Seq([at : 1 .. MaxTime, mw : {Quiet, Loud}])
    <3>1. rows \in Seq([at : Nat, mw : {Quiet, Loud}]) /\ Len(rows) = now
      BY <2>1 DEF IdleRows, Baselines
    <3>2. DOMAIN rows = 1 .. now /\ rows = [i \in 1 .. now |-> rows[i]]
      BY <3>1
    <3>3. ASSUME NEW i \in 1 .. now
          PROVE  rows[i] \in [at : 1 .. MaxTime, mw : {Quiet, Loud}]
      <4>1. rows[i] \in [at : Nat, mw : {Quiet, Loud}]
        BY <3>1, ElementIs
      <4>2. rows[i].at = i
        BY <2>1 DEF IdleRows
      <4>3. i \in 1 .. MaxTime
        BY <2>2, BoundsAssumption
      <4>4. QED
        BY <4>1, <4>2, <4>3
    <3>4. rows \in [1 .. now -> [at : 1 .. MaxTime, mw : {Quiet, Loud}]]
      BY <3>2, <3>3
    <3>5. now \in Nat
      BY <2>1 DEF IdleRows
    <3>6. QED
      BY <3>4, <3>5, SequenceOf
  <2>4. beside \subseteq gated /\ gated \subseteq Turn
    BY <2>1, BoundsAssumption DEF Baselines, Turn
  <2>5. finals \in 0 .. (MaxSplits + 1)
    BY <2>1, BoundsAssumption DEF Bounded, Speech
  <2>6. {open, llmDone, talking, played, generating, sounding} \subseteq BOOLEAN
    BY <2>1 DEF Speech
  <2>7. QED
    BY <2>1, <2>2, <2>3, <2>4, <2>5, <2>6 DEF TypeOK, Bounded, Powers
<1>4. QED
  BY <1>1, <1>2, <1>3, BaselineInit, BoundedInStep, Invariance, PTL DEF Spec

-----------------------------------------------------------------------------
(* The records of Telemetry, whose turn manager reads the same samples.    *)
(* Tele has its clock, its samples and its turns in the variables that     *)
(* Energy has them in; nothing below is of Energy's steps.                 *)

CONSTANTS LongestTurn, SocKept, PowerKept, NSamples, NCloseSamples, Levels, ThresholdMw
VARIABLES phase, stream, mutated, openedAt, audioAt, held, lastGood, closing, record, raised

Tele == INSTANCE Telemetry

\* A reading that was made at all is of the turn that is open, unless the
\* opening of a turn was cut short.
IsReading(r) == r = [taken |-> r.taken, contended |-> r.contended,
                     samples |-> r.samples, of |-> r.of]
OfThisTurn(r) == r.taken # "unsampled" /\ 1 .. turn \cap raised = {} => r.of = turn

Readings ==
    /\ turn \in Nat /\ record.turn \in 0 .. turn
    /\ phase \in {"none", "opening", "open", "temps", "energy"}
    /\ phase # "none" => turn # 0
    /\ IsReading(held) /\ IsReading(lastGood)
    /\ phase = "open" => OfThisTurn(held)
    /\ phase \in {"temps", "energy"} => OfThisTurn(closing.reading)
    /\ Tele!OwnEstimate

LEMMA ReadingsInit == Tele!Init => Readings
<1> SUFFICES ASSUME Tele!Init PROVE Readings
  OBVIOUS
<1>1. IsReading(Tele!NoReading) /\ Tele!NoReading.taken = "unsampled"
  BY DEF IsReading, Tele!NoReading
<1>2. /\ turn = 0 /\ phase = "none" /\ held = Tele!NoReading /\ lastGood = Tele!NoReading
      /\ record = Tele!NoRecord
  BY DEF Tele!Init
<1>3. record.turn = 0 /\ record.estimate = Tele!NoReading
  BY <1>2 DEF Tele!NoRecord
<1>4. QED
  BY <1>1, <1>2, <1>3 DEF Readings, Tele!OwnEstimate

LEMMA QuiescentIsOfThisTurn ==
    ASSUME IsReading(lastGood), NEW samples
    PROVE  /\ IsReading(Tele!Quiescent(samples))
           /\ Tele!Quiescent(samples).of = turn
<1>1. CASE Tele!Valid(samples) # <<>>
  BY <1>1 DEF Tele!Quiescent, IsReading
<1>2. CASE ~(Tele!Valid(samples) # <<>>) /\ lastGood = Tele!NoReading
  BY <1>2 DEF Tele!Quiescent, IsReading
<1>3. CASE ~(Tele!Valid(samples) # <<>>) /\ lastGood # Tele!NoReading
  <2>1. PICK r : r = [lastGood EXCEPT !.taken = "carried"]
    OBVIOUS
  <2>2. r = [taken |-> "carried", contended |-> lastGood.contended,
             samples |-> lastGood.samples, of |-> lastGood.of]
    BY <2>1 DEF IsReading
  <2>3. PICK q : q = [r EXCEPT !.of = turn]
    OBVIOUS
  <2>4. q = [taken |-> "carried", contended |-> lastGood.contended,
             samples |-> lastGood.samples, of |-> turn]
    BY <2>2, <2>3
  <2>5. Tele!Quiescent(samples) = q
    BY <1>3, <2>1, <2>3 DEF Tele!Quiescent
  <2>6. QED
    BY <2>4, <2>5 DEF IsReading
<1>4. QED
  BY <1>1, <1>2, <1>3

LEMMA ReadingsStep == Readings /\ [Tele!Next]_(Tele!vars) => Readings'
<1> SUFFICES ASSUME Readings, [Tele!Next]_(Tele!vars) PROVE Readings'
  OBVIOUS
<1>1. /\ turn \in Nat /\ record.turn \in 0 .. turn
      /\ phase \in {"none", "opening", "open", "temps", "energy"}
      /\ phase # "none" => turn # 0
      /\ IsReading(held) /\ IsReading(lastGood)
      /\ phase = "open" => OfThisTurn(held)
      /\ phase \in {"temps", "energy"} => OfThisTurn(closing.reading)
      /\ Tele!OwnEstimate
  BY DEF Readings
<1>2. CASE UNCHANGED <<turn, phase, held, lastGood, closing, record, raised>>
  BY <1>2 DEF Readings, IsReading, OfThisTurn, Tele!OwnEstimate
<1>3. CASE UNCHANGED Tele!vars
  BY <1>2, <1>3 DEF Tele!vars, Tele!turnVars, Tele!detectorVars
<1>4. CASE Tele!Pump \/ Tele!StreamEnds
  BY <1>2, <1>4 DEF Tele!Pump, Tele!StreamEnds, Tele!turnVars, Tele!detectorVars
<1>5. CASE Tele!FirstAudio
  BY <1>2, <1>5 DEF Tele!FirstAudio, Tele!detectorVars
<1>6. CASE Tele!TurnStarts
  <2>1. /\ turn' = turn + 1 /\ phase' = "opening"
        /\ UNCHANGED <<held, lastGood, closing, record, raised>>
    BY <1>6 DEF Tele!TurnStarts, Tele!detectorVars
  <2>2. Tele!OwnEstimate'
    BY <1>1, <2>1 DEF Tele!OwnEstimate
  <2>3. record'.turn \in 0 .. turn'
    BY <1>1, <2>1
  <2>4. QED
    BY <1>1, <2>1, <2>2, <2>3 DEF Readings, IsReading
<1>7. CASE Tele!TurnOpens
  <2>1. /\ phase = "opening" /\ phase' = "open"
        /\ UNCHANGED <<turn, lastGood, closing, record>>
        /\ IF mutated THEN raised' = raised \cup {turn} /\ UNCHANGED held
           ELSE held' = Tele!NoReading /\ UNCHANGED raised
    BY <1>7 DEF Tele!TurnOpens, Tele!EstimateAtOpen
  <2>2. Tele!OwnEstimate'
    BY <1>1, <2>1 DEF Tele!OwnEstimate
  <2>3. IsReading(held)' /\ OfThisTurn(held)'
    <3>1. CASE mutated
      <4>1. turn \in 1 .. turn' \cap raised'
        BY <1>1, <2>1, <3>1
      <4>2. QED
        BY <1>1, <2>1, <3>1, <4>1 DEF IsReading, OfThisTurn
    <3>2. CASE ~mutated
      BY <2>1, <3>2 DEF IsReading, OfThisTurn, Tele!NoReading
    <3>3. QED
      BY <3>1, <3>2
  <2>4. QED
    BY <1>1, <2>1, <2>2, <2>3 DEF Readings, IsReading
<1>8. CASE Tele!SampleContention
  <2>1. PICK samples \in Tele!SamplesOf(NSamples) :
            /\ held' = Tele!Quiescent(samples)
            /\ lastGood' = IF Tele!Valid(samples) # <<>> THEN held' ELSE lastGood
    BY <1>8 DEF Tele!SampleContention
  <2>2. phase = "open" /\ UNCHANGED <<turn, phase, closing, record, raised>>
    BY <1>8 DEF Tele!SampleContention, Tele!turnVars
  <2>3. IsReading(held') /\ held'.of = turn
    BY <1>1, <2>1, QuiescentIsOfThisTurn
  <2>4. IsReading(lastGood')
    BY <1>1, <2>1, <2>3
  <2>5. Tele!OwnEstimate'
    BY <1>1, <2>2 DEF Tele!OwnEstimate
  <2>6. IsReading(held)' /\ IsReading(lastGood)' /\ OfThisTurn(held)'
    BY <2>2, <2>3, <2>4 DEF IsReading, OfThisTurn
  <2>7. QED
    BY <1>1, <2>2, <2>5, <2>6 DEF Readings
<1>9. CASE Tele!TurnFinishes
  <2>1. PICK samples \in Tele!SamplesOf(NCloseSamples) : closing' = Tele!TurnDict(samples)
    BY <1>9 DEF Tele!TurnFinishes
  <2>2. /\ phase = "open" /\ phase' = "temps"
        /\ UNCHANGED <<turn, held, lastGood, record, raised>>
    BY <1>9 DEF Tele!TurnFinishes
  <2>3. closing'.reading = held
    BY <2>1 DEF Tele!TurnDict
  <2>4. OfThisTurn(closing.reading)'
    BY <1>1, <2>2, <2>3 DEF OfThisTurn
  <2>5. Tele!OwnEstimate'
    BY <1>1, <2>2 DEF Tele!OwnEstimate
  <2>6. QED
    BY <1>1, <2>2, <2>4, <2>5 DEF Readings, IsReading
<1>10. CASE Tele!TempsRead
  <2>1. /\ phase = "temps" /\ UNCHANGED <<turn, held, lastGood, record>>
        /\ IF mutated THEN phase' = "none" /\ raised' = raised \cup {turn}
           ELSE phase' = "energy" /\ UNCHANGED <<raised, closing>>
    BY <1>10 DEF Tele!TempsRead
  <2>2. Tele!OwnEstimate'
    BY <1>1, <2>1 DEF Tele!OwnEstimate
  <2>3. phase' \in {"temps", "energy"} => OfThisTurn(closing.reading)'
    BY <1>1, <2>1 DEF OfThisTurn
  <2>4. QED
    BY <1>1, <2>1, <2>2, <2>3 DEF Readings, IsReading
<1>11. CASE Tele!RecordWritten
  <2>1. /\ phase = "energy" /\ phase' = "none" /\ UNCHANGED <<turn, held, lastGood>>
        /\ IF mutated /\ audioAt # Tele!None
           THEN raised' = raised \cup {turn} /\ UNCHANGED record
           ELSE /\ record' = [turn |-> turn, estimate |-> closing.reading,
                              stale |-> closing.stale, energy |-> Tele!TurnEnergy,
                              from |-> openedAt, to |-> audioAt]
                /\ UNCHANGED raised
    BY <1>11 DEF Tele!RecordWritten
  <2>2. Tele!OwnEstimate' /\ record'.turn \in 0 .. turn
    <3>1. CASE mutated /\ audioAt # Tele!None
      BY <1>1, <2>1, <3>1 DEF Tele!OwnEstimate
    <3>2. CASE ~(mutated /\ audioAt # Tele!None)
      <4>1. record'.turn = turn /\ record'.estimate = closing.reading /\ raised' = raised
        BY <2>1, <3>2
      <4>2. OfThisTurn(closing.reading)
        BY <1>1, <2>1
      <4>3. QED
        BY <1>1, <4>1, <4>2 DEF Tele!OwnEstimate, OfThisTurn
    <3>3. QED
      BY <3>1, <3>2
  <2>3. QED
    BY <1>1, <2>1, <2>2 DEF Readings, IsReading
<1>12. QED
  BY <1>3, <1>4, <1>5, <1>6, <1>7, <1>8, <1>9, <1>10, <1>11 DEF Tele!Next

\* For any detector, any samples and any interruption of a reader by the
\* sampler's thread, the estimate on a record was made in the record's turn,
\* unless the opening of a turn was cut short (contention.py, turns.py).
THEOREM EstimateIsOwn == Tele!Spec => []Tele!OwnEstimate
<1>1. Readings => Tele!OwnEstimate
  BY DEF Readings
<1>2. QED
  BY <1>1, ReadingsInit, ReadingsStep, PTL DEF Tele!Spec

(* A set of numbers that is not empty has a least one.                     *)
LEMMA Least ==
    ASSUME NEW T \in SUBSET Nat, T # {}
    PROVE  \E m \in T : \A n \in T : m <= n
<1> DEFINE R == {ss \in Nat \X Nat : ss[1] < ss[2]}
<1>1. IsWellFoundedOn(R, Nat)
  BY NatLessThanWellFounded DEF OpToRel
<1> HIDE DEF R
<1>2. PICK x \in T : \A y \in T : ~ (<<y, x>> \in R)
  BY <1>1, WFMin
<1>3. ASSUME NEW y \in T
      PROVE  x <= y
  <2>1. x \in Nat /\ y \in Nat
    OBVIOUS
  <2>2. ~ (y < x)
    BY <1>2, <2>1 DEF R
  <2>3. QED
    BY <2>1, <2>2
<1>4. QED
  BY <1>3

\* The samples of the stream are numbered by the clock, and no turn lasts
\* longer than the watchdog lets it.
ByTheClock ==
    /\ now \in Nat /\ rows \in Seq([at : Nat, mw : Levels])
    /\ Len(rows) <= now /\ (stream = "running" => Len(rows) = now)
    /\ \A i \in 1 .. Len(rows) : rows[i].at = i
    /\ openedAt \in Nat /\ openedAt <= now
    /\ audioAt # Tele!None => audioAt \in Nat /\ audioAt <= now
    /\ phase # "none" => now - openedAt <= LongestTurn

\* The energy on record is of every sample the stream gave in its window.
OfTheWindow ==
    record.energy # Tele!Unmeasured =>
        /\ record.to \in Nat /\ record.to <= now
        /\ record.energy = Tele!Trapezoids(rows, Tele!Between(rows, record.from, record.to))

Measured == ByTheClock /\ OfTheWindow

\* The trapezoids are of the samples taken, whatever else has been sampled.
LEMMA TrapezoidsOfTaken ==
    ASSUME NEW some, NEW all, NEW taken, \A i \in taken : some[i] = all[i],
           taken \subseteq Nat
    PROVE  Tele!Trapezoids(some, taken) = Tele!Trapezoids(all, taken)
<1> DEFINE After(i) == Tele!Min({j \in taken : j > i})
           S == {i \in taken : \E j \in taken : j > i}
           f(i) == (some[i].mw + some[After(i)].mw) * (some[After(i)].at - some[i].at)
           g(i) == (all[i].mw + all[After(i)].mw) * (all[After(i)].at - all[i].at)
           F(it) == [s \in SUBSET S |-> IF s = {} THEN 0
                       ELSE f(CHOOSE x \in s : TRUE) + it[s \ {CHOOSE x \in s : TRUE}]]
           G(it) == [s \in SUBSET S |-> IF s = {} THEN 0
                       ELSE g(CHOOSE x \in s : TRUE) + it[s \ {CHOOSE x \in s : TRUE}]]
<1>1. ASSUME NEW i \in S
      PROVE  f(i) = g(i)
  <2>1. PICK T : T = {j \in taken : j > i}
    OBVIOUS
  <2>2. T \in SUBSET Nat /\ T # {}
    BY <2>1
  <2>3. \E m \in T : \A n \in T : m <= n
    BY <2>2, Least
  <2>4. Tele!Min(T) \in T
    BY <2>3 DEF Tele!Min
  <2>5. After(i) \in taken /\ i \in taken
    BY <2>1, <2>4
  <2> HIDE DEF After
  <2>6. some[After(i)] = all[After(i)] /\ some[i] = all[i]
    BY <2>5
  <2>7. QED
    BY <2>6
<1> HIDE DEF f, g
<1>2. ASSUME NEW it
      PROVE  F(it) = G(it)
  <2>1. ASSUME NEW s \in SUBSET S, s # {}
        PROVE  f(CHOOSE x \in s : TRUE) = g(CHOOSE x \in s : TRUE)
    <3>1. (CHOOSE x \in s : TRUE) \in S
      BY <2>1
    <3>2. QED
      BY <1>1, <3>1
  <2> HIDE DEF S
  <2>2. QED
    BY <2>1
<1>3. Tele!Trapezoids(some, taken) = (CHOOSE it : it = F(it))[S]
  BY DEF Tele!Trapezoids, Tele!MapThenSumSet, Tele!MapThenFoldSet, f, After
<1>4. Tele!Trapezoids(all, taken) = (CHOOSE it : it = G(it))[S]
  BY DEF Tele!Trapezoids, Tele!MapThenSumSet, Tele!MapThenFoldSet, g, After
<1> HIDE DEF F, G
<1>5. (CHOOSE it : it = F(it)) = (CHOOSE it : it = G(it))
  BY <1>2
<1>6. QED
  BY <1>3, <1>4, <1>5

\* What Telemetry assumes of its numbers (KeptAssumption): the deque of the
\* power holds more samples than a turn can last.
TurnFits == LongestTurn \in Nat /\ PowerKept \in Nat /\ LongestTurn < PowerKept

LEMMA MeasuredInit == Tele!Init => Measured
<1> SUFFICES ASSUME Tele!Init PROVE Measured
  OBVIOUS
<1>1. /\ now = 0 /\ rows = <<>> /\ phase = "none" /\ openedAt = 0 /\ audioAt = Tele!None
      /\ record = Tele!NoRecord
  BY DEF Tele!Init
<1>2. ByTheClock
  BY <1>1 DEF ByTheClock
<1>3. OfTheWindow
  BY <1>1 DEF OfTheWindow, Tele!NoRecord
<1>4. QED
  BY <1>2, <1>3 DEF Measured

\* All samples of a turn's window are in the deque as the turn's record is
\* written.
LEMMA DequeHasTheWindow ==
    ASSUME TurnFits, ByTheClock, phase # "none", NEW to
    PROVE  LET window == Tele!Between(rows, openedAt, to)
           IN  {i \in window : i > Len(rows) - PowerKept} = window
<1> SUFFICES ASSUME NEW i \in Tele!Between(rows, openedAt, to)
             PROVE  i > Len(rows) - PowerKept
  OBVIOUS
<1>1. i \in 1 .. Len(rows) /\ openedAt <= rows[i].at
  BY DEF Tele!Between
<1>2. /\ rows[i].at = i /\ Len(rows) \in Nat /\ Len(rows) <= now /\ now - openedAt <= LongestTurn
      /\ now \in Nat /\ openedAt \in Nat /\ i \in Nat
  BY <1>1 DEF ByTheClock
<1>3. openedAt <= i
  BY <1>1, <1>2
<1>4. QED
  BY <1>2, <1>3 DEF TurnFits

LEMMA WindowRests ==
    ASSUME ByTheClock, NEW s, NEW from, NEW to \in Nat, to <= now, s.at = now + 1
    PROVE  /\ Tele!Between(Append(rows, s), from, to) = Tele!Between(rows, from, to)
           /\ Tele!Trapezoids(Append(rows, s), Tele!Between(rows, from, to))
                 = Tele!Trapezoids(rows, Tele!Between(rows, from, to))
<1> DEFINE more == Append(rows, s)
<1>1. now \in Nat /\ rows \in Seq([at : Nat, mw : Levels]) /\ Len(rows) \in Nat
  BY DEF ByTheClock
<1>2. /\ Len(more) = Len(rows) + 1 /\ more[Len(rows) + 1] = s
      /\ \A i \in 1 .. Len(rows) : more[i] = rows[i]
  BY <1>1
<1> HIDE DEF more
<1>3. \A i \in 1 .. Len(more) : i \in 1 .. Len(rows) \/ i = Len(rows) + 1
  BY <1>1, <1>2
<1>4. ~(more[Len(rows) + 1].at <= to)
  BY <1>1, <1>2
<1>5. Tele!Between(more, from, to) = Tele!Between(rows, from, to)
  <2>1. \A i \in Tele!Between(more, from, to) : i \in Tele!Between(rows, from, to)
    BY <1>2, <1>3, <1>4 DEF Tele!Between
  <2>2. \A i \in 1 .. Len(rows) : i \in 1 .. Len(more)
    BY <1>1, <1>2
  <2>3. \A i \in Tele!Between(rows, from, to) : i \in Tele!Between(more, from, to)
    BY <1>2, <2>2 DEF Tele!Between
  <2>4. QED
    BY <2>1, <2>3
<1>6. Tele!Trapezoids(more, Tele!Between(rows, from, to))
         = Tele!Trapezoids(rows, Tele!Between(rows, from, to))
  <2>1. PICK taken : taken = Tele!Between(rows, from, to)
    OBVIOUS
  <2>2. taken \subseteq Nat /\ \A i \in taken : more[i] = rows[i]
    BY <1>2, <2>1 DEF Tele!Between
  <2>3. QED
    BY <2>1, <2>2, TrapezoidsOfTaken
<1>7. QED
  BY <1>5, <1>6 DEF more

LEMMA MeasuredStep ==
    ASSUME TurnFits
    PROVE  Measured /\ [Tele!Next]_(Tele!vars) => Measured'
<1> SUFFICES ASSUME Measured, [Tele!Next]_(Tele!vars) PROVE Measured'
  OBVIOUS
<1>1. /\ ByTheClock /\ OfTheWindow
      /\ now \in Nat /\ rows \in Seq([at : Nat, mw : Levels])
      /\ Len(rows) <= now /\ (stream = "running" => Len(rows) = now)
      /\ \A i \in 1 .. Len(rows) : rows[i].at = i
      /\ openedAt \in Nat /\ openedAt <= now
      /\ audioAt # Tele!None => audioAt \in Nat /\ audioAt <= now
      /\ phase # "none" => now - openedAt <= LongestTurn
  BY DEF Measured, ByTheClock
<1>2. ASSUME UNCHANGED <<now, rows, record>>
      PROVE  OfTheWindow'
  BY <1>1, <1>2 DEF OfTheWindow
<1>3. ASSUME UNCHANGED <<now, rows, stream, openedAt, audioAt>>, phase # "none" \/ phase' = "none"
      PROVE  ByTheClock'
  BY <1>1, <1>3 DEF ByTheClock
<1>4. CASE UNCHANGED Tele!vars
  BY <1>2, <1>3, <1>4 DEF Tele!vars, Tele!turnVars, Measured
<1>5. CASE Tele!Pump
  <2>1. /\ phase # "none" => now - openedAt < LongestTurn
        /\ now' = now + 1
        /\ UNCHANGED <<stream, phase, openedAt, audioAt, record>>
        /\ IF stream = "running"
           THEN \E mw \in Levels : rows' = Append(rows, [at |-> now', mw |-> mw])
           ELSE UNCHANGED rows
    BY <1>5 DEF Tele!Pump, Tele!turnVars
  <2>2. phase' # "none" => now' - openedAt' <= LongestTurn
    BY <1>1, <2>1 DEF TurnFits
  <2>3. /\ now' \in Nat /\ openedAt' \in Nat /\ openedAt' <= now'
        /\ audioAt' # Tele!None => audioAt' \in Nat /\ audioAt' <= now'
    BY <1>1, <2>1
  <2>4. CASE stream = "running"
    <3>1. PICK mw \in Levels : rows' = Append(rows, [at |-> now + 1, mw |-> mw])
      BY <2>1, <2>4
    <3>2. PICK s : s = [at |-> now + 1, mw |-> mw]
      OBVIOUS
    <3>3. s \in [at : Nat, mw : Levels] /\ s.at = now + 1 /\ rows' = Append(rows, s)
      BY <1>1, <3>1, <3>2
    <3>4. /\ rows' \in Seq([at : Nat, mw : Levels]) /\ Len(rows') = now'
          /\ \A i \in 1 .. Len(rows') : rows'[i].at = i
      <4>1. /\ rows' \in Seq([at : Nat, mw : Levels]) /\ Len(rows') = Len(rows) + 1
            /\ rows'[Len(rows) + 1] = s /\ \A i \in 1 .. Len(rows) : rows'[i] = rows[i]
        BY <1>1, <3>3
      <4>2. Len(rows) = now
        BY <1>1, <2>4
      <4>3. QED
        BY <1>1, <2>1, <3>3, <4>1, <4>2
    <3>5. ByTheClock'
      BY <2>1, <2>2, <2>3, <3>4 DEF ByTheClock
    <3>6. OfTheWindow'
      <4>1. ASSUME record.energy # Tele!Unmeasured
            PROVE  /\ record.to \in Nat /\ record.to <= now
                   /\ Tele!Trapezoids(rows', Tele!Between(rows', record.from, record.to))
                         = Tele!Trapezoids(rows, Tele!Between(rows, record.from, record.to))
        <5>1. record.to \in Nat /\ record.to <= now
          BY <1>1, <4>1 DEF OfTheWindow
        <5>2. QED
          BY <1>1, <3>3, <5>1, WindowRests
      <4>2. QED
        BY <1>1, <2>1, <4>1 DEF OfTheWindow
    <3>7. QED
      BY <3>5, <3>6 DEF Measured
  <2>5. CASE stream # "running"
    <3>1. rows' = rows
      BY <2>1, <2>5
    <3>2. ByTheClock'
      BY <1>1, <2>1, <2>2, <2>3, <2>5, <3>1 DEF ByTheClock
    <3>3. OfTheWindow'
      BY <1>1, <2>1, <3>1 DEF OfTheWindow
    <3>4. QED
      BY <3>2, <3>3 DEF Measured
  <2>6. QED
    BY <2>4, <2>5
<1>6. CASE Tele!StreamEnds
  <2>1. stream' = "over" /\ UNCHANGED <<now, rows, phase, openedAt, audioAt, record>>
    BY <1>6 DEF Tele!StreamEnds, Tele!turnVars
  <2>2. ByTheClock'
    BY <1>1, <2>1 DEF ByTheClock
  <2>3. QED
    BY <1>2, <2>1, <2>2 DEF Measured
<1>7. CASE Tele!TurnStarts
  <2>1. openedAt' = now /\ audioAt' = Tele!None /\ UNCHANGED <<now, rows, stream, record>>
    BY <1>7 DEF Tele!TurnStarts
  <2>2. ByTheClock'
    BY <1>1, <2>1 DEF ByTheClock, TurnFits
  <2>3. QED
    BY <1>2, <2>1, <2>2 DEF Measured
<1>8. CASE Tele!FirstAudio
  <2>1. audioAt' = now /\ UNCHANGED <<now, rows, stream, phase, openedAt, record>>
    BY <1>8 DEF Tele!FirstAudio
  <2>2. ByTheClock'
    BY <1>1, <2>1 DEF ByTheClock
  <2>3. QED
    BY <1>2, <2>1, <2>2 DEF Measured
<1>9. CASE Tele!TurnOpens \/ Tele!SampleContention \/ Tele!TurnFinishes \/ Tele!TempsRead
  <2>1. UNCHANGED <<now, rows, stream, openedAt, audioAt, record>> /\ phase # "none"
    BY <1>9 DEF Tele!TurnOpens, Tele!SampleContention, Tele!TurnFinishes, Tele!TempsRead,
                Tele!turnVars
  <2>2. QED
    BY <1>2, <1>3, <2>1 DEF Measured
<1>10. CASE Tele!RecordWritten
  <2>1. /\ phase = "energy" /\ phase' = "none" /\ UNCHANGED <<now, rows, stream, openedAt, audioAt>>
        /\ \/ UNCHANGED record
           \/ record' = [turn |-> turn, estimate |-> closing.reading, stale |-> closing.stale,
                         energy |-> Tele!TurnEnergy, from |-> openedAt, to |-> audioAt]
    BY <1>10 DEF Tele!RecordWritten
  <2>2. ByTheClock'
    BY <1>3, <2>1
  <2>3. OfTheWindow'
    <3>1. CASE UNCHANGED record
      BY <1>2, <2>1, <3>1
    <3>2. CASE record' = [turn |-> turn, estimate |-> closing.reading, stale |-> closing.stale,
                          energy |-> Tele!TurnEnergy, from |-> openedAt, to |-> audioAt]
      <4>1. record'.energy = Tele!TurnEnergy /\ record'.from = openedAt /\ record'.to = audioAt
        BY <3>2
      <4>2. ASSUME Tele!TurnEnergy # Tele!Unmeasured
            PROVE  /\ audioAt \in Nat /\ audioAt <= now
                   /\ Tele!TurnEnergy
                         = Tele!Trapezoids(rows, Tele!Between(rows, openedAt, audioAt))
        <5>1. audioAt # Tele!None
          BY <4>2 DEF Tele!TurnEnergy
        <5>2. Tele!TurnEnergy = Tele!Energy(rows, PowerKept, openedAt, audioAt)
          BY <5>1 DEF Tele!TurnEnergy, Tele!WindowEnergy
        <5>3. {i \in Tele!Between(rows, openedAt, audioAt) : i > Len(rows) - PowerKept}
                 = Tele!Between(rows, openedAt, audioAt)
          BY <1>1, <2>1, DequeHasTheWindow
        <5>4. Tele!Energy(rows, PowerKept, openedAt, audioAt)
                 \in {Tele!Unmeasured, Tele!Trapezoids(rows, Tele!Between(rows, openedAt, audioAt))}
          BY <5>3 DEF Tele!Energy
        <5>5. QED
          BY <1>1, <4>2, <5>1, <5>2, <5>4
      <4>3. QED
        BY <2>1, <4>1, <4>2 DEF OfTheWindow
    <3>3. QED
      BY <2>1, <3>1, <3>2
  <2>4. QED
    BY <2>2, <2>3 DEF Measured
<1>11. QED
  BY <1>4, <1>5, <1>6, <1>7, <1>8, <1>9, <1>10 DEF Tele!Next

\* For any session and however late a record is written, the energy on it is
\* that of all the samples the stream gave from the turn's origin to its first
\* audio, for the watchdog closes a turn before the deque is full of it
\* (telemetry.py, energy_j; turns.py, _turn_energy_j).
THEOREM EnergyIsWhole == ASSUME TurnFits PROVE Tele!Spec => []Tele!EnergyIsIntegral
<1>1. Measured => Tele!EnergyIsIntegral
  BY DEF Measured, OfTheWindow, Tele!EnergyIsIntegral
<1>2. Measured /\ [Tele!Next]_(Tele!vars) => Measured'
  BY MeasuredStep
<1>3. QED
  BY <1>1, <1>2, MeasuredInit, PTL DEF Tele!Spec
===============================================================================
