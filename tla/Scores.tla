--------------------------------- MODULE Scores ---------------------------------
(***************************************************************************)
(* What the scorers of the analysis count of a session's records once its  *)
(* log is closed: by the file a turn was heard in (p9_score.py,            *)
(* p9b_score.py, p9c_score.py, p2k_score.py, p1r_score.py, fstar_score.py) *)
(* or, where the records do not tell the file, by what was transcribed     *)
(* (p7_score.py, pass2_score.py).                                          *)
(***************************************************************************)
EXTENDS Turns, Alignment, FiniteSetsExt

-----------------------------------------------------------------------------
(* A mistake a change could make; the mutant puts it in place.             *)
AllTurns(said) == [i \in DOMAIN log |-> i]

-----------------------------------------------------------------------------
\* per_item: only one turn was recorded of the file this turn was heard in.
PerItem(f) == Cardinality({i \in DOMAIN log : heardIn[i] = f})
WholeItem(i) == PerItem(heardIn[i]) = 1

\* read_run() and scored_turns(): the turns that count.  A turn whose final
\* came before its endpoint is not valid to begin with (Scorable).
Counted(i) == log[i].valid /\ WholeItem(i) /\ log[i].final # 0

\* main(): a run counts if its run_complete says nothing of "RUN INVALID".
RunCounts == closed /\ ~noted

-----------------------------------------------------------------------------
(* Scoring by text.  What was transcribed on a turn is the whole of its    *)
(* file or a part of it, and is told by its error, in quarters; another    *)
(* file's text is all error, and so is an empty transcript.                *)

FragmentError == 2   \* FRAGMENT_WER
PartError == 3
AllError == 4

\* What may be transcribed on each record.  In a run that counts a final is of
\* the turn's own file (NoStrandedFinal).  A file heard in one turn is heard
\* whole, and an empty transcript is the first fragment of a split.
Transcripts ==
    {said \in [DOMAIN log -> {0, PartError, AllError}] :
        \A i \in DOMAIN log :
            /\ log[i].final = 0 => said[i] = AllError
            /\ said[i] = 0 <=> WholeItem(i)
            /\ \E j \in DOMAIN log : j >= i /\ heardIn[j] = heardIn[i] /\ said[j] # AllError}

HasWords(said, i) == said[i] # AllError
Cost(said, i) == [f \in 1 .. Files |-> IF heardIn[i] = f THEN said[i] ELSE AllError]

WithWords(said) == {i \in DOMAIN log : HasWords(said, i)}

\* A list of turns keeps the order of the records: the k-th turn of it is the
\* one that has k of them up to itself.
Rank(i, W) == Cardinality({j \in W : j <= i})
Ranked(W) == [k \in 1 .. Cardinality(W) |-> CHOOSE i \in W : Rank(i, W) = k]

\* main(): only the turns that have words are aligned; one that has none goes
\* with the next that has some, whose onset it is.
Worded(said) == Ranked(WithWords(said))
CostOfWorded(said) == [k \in DOMAIN Worded(said) |-> Cost(said, Worded(said)[k])]
AlignedWorded(said) == Aligned(CostOfWorded(said), Len(Worded(said)), Files)

PositionOf(said) ==
    LET w == Worded(said)
        at == AlignedWorded(said)
        Nexts(i) == {k \in DOMAIN at : w[k] >= i}
    IN  [i \in DOMAIN log |-> IF Nexts(i) = {} THEN 0 ELSE at[Min(Nexts(i))]]

ScoredByText(said) ==
    LET pos == PositionOf(said)
    IN  {i \in DOMAIN log :
            /\ pos[i] # 0 /\ log[i].valid
            /\ \A j \in DOMAIN log \ {i} : pos[j] # pos[i]
            /\ HasWords(said, i) /\ Cost(said, i)[pos[i]] <= FragmentError}

-----------------------------------------------------------------------------
\* Every turn that is scored is scored on the final of its own speech, however
\* often its file or another was split, whatever hung, and although the notes a
\* scorer reads may lack the reason for which the run became void at its close.
ScoredOnItsOwn ==
    RunCounts => \A i \in DOMAIN log : Counted(i) => log[i].final = i

\* No turn is lost to its neighbour's split: a valid turn that holds the whole
\* of its file is scored, on that file, although the parts of other files,
\* with words or without, had to be laid somewhere (p7_score.py, where empty transcripts
\* once cost 14 positions).
WholeKept ==
    RunCounts => \A said \in Transcripts : \A i \in DOMAIN log :
        Counted(i) => i \in ScoredByText(said) /\ PositionOf(said)[i] = heardIn[i]
=============================================================================
