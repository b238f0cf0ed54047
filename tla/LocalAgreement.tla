--------------------------- MODULE LocalAgreement ---------------------------
(***************************************************************************)
(* LocalAgreement-n commitment (commit.py).  The recogniser decodes the    *)
(* uncommitted tail of a growing buffer again and again; a word is kept    *)
(* when n consecutive hypotheses agree on it and the buffer's edge cannot  *)
(* have cut it.                                                            *)
(***************************************************************************)
EXTENDS Words, FiniteSetsExt

CONSTANTS N,          \* agreement_n
          TailGuard,  \* tail_guard_s: how near the edge a word may be cut
          Hyp         \* the hypotheses the engine may return

ASSUME NAssumption == N \in Nat \ {0}
ASSUME TailGuardAssumption == TailGuard \in Nat
\* The engine reports words in the order they were spoken.
ASSUME HypAssumption == \A h \in Hyp : h \in Seq(Word) /\ Timed(h)

VARIABLES committed,     \* the words kept so far, in order
          committedEnd,  \* committed_end_s: where the next decode starts
          remainders,    \* unagreed tails of the last n - 1 hypotheses, newest last
          bufferEnd,     \* how far into the turn the newest decoded buffer reached
          offered        \* history: those n - 1 hypotheses, as the engine gave them

vars == <<committed, committedEnd, remainders, bufferEnd, offered>>

-----------------------------------------------------------------------------
(* Mistakes a change to offer() could make; the mutants put them in place. *)
FirstWordEnd(keep) == IF keep = <<>> THEN committedEnd ELSE keep[1].end

-----------------------------------------------------------------------------
\* The words of a timed sequence that start at t or later: a suffix of it.
StartingFrom(ws, t) ==
    SubSeq(ws, Min({i \in 1 .. Len(ws) + 1 : i \in DOMAIN ws => ws[i].start >= t}),
           Len(ws))

\* The longest prefix of ws whose indices are all good.
Leading(ws, good) ==
    SubSeq(ws, 1, Min({i \in 1 .. Len(ws) + 1 : i \notin good \cap DOMAIN ws}) - 1)

\* The last n elements of s.
Newest(s, n) == SubSeq(s, IF Len(s) > n THEN Len(s) - n + 1 ELSE 1, Len(s))

\* The words of ws that every stored remainder has too, at the same place.
AgreedIndices(ws) ==
    {i \in DOMAIN ws : \A j \in DOMAIN remainders :
        i \in DOMAIN remainders[j] /\ remainders[j][i].key = ws[i].key}

AgreedWithoutWindow(ws) == Leading(ws, AgreedIndices(ws))
AgreedPrefix(ws) ==
    IF Len(remainders) < N - 1 THEN <<>> ELSE Leading(ws, AgreedIndices(ws))

KeptAgain(h, b) == AgreedPrefix(h)
\* What offering hypothesis h of a buffer that reached b commits.
KeptToTheEdge(h, b) == AgreedPrefix(StartingFrom(h, committedEnd))
Kept(h, b) ==
    LET prefix == AgreedPrefix(StartingFrom(h, committedEnd))
    IN  Leading(prefix, {i \in DOMAIN prefix : prefix[i].end <= b - TailGuard})

EndAfter(keep) ==
    IF keep = <<>> \/ keep[Len(keep)].end <= committedEnd
    THEN committedEnd
    ELSE keep[Len(keep)].end

\* What h said beyond the committed words is what the next must agree with.
RemaindersAfter(h, end) ==
    Newest(Append(remainders, StartingFrom(StartingFrom(h, committedEnd), end)), N - 1)

-----------------------------------------------------------------------------
Init ==
    /\ committed = <<>>
    /\ committedEnd = 0
    /\ remainders = <<>>
    /\ bufferEnd = 0
    /\ offered = <<>>

\* The engine decoded audio up to b, which only grows within a turn, and
\* heard h in it.
Offer(h, b) ==
    LET keep == Kept(h, b)
    IN  /\ b >= bufferEnd
        /\ \A i \in DOMAIN h : h[i].end <= b
        /\ committed' = committed \o keep
        /\ committedEnd' = EndAfter(keep)
        /\ remainders' = RemaindersAfter(h, EndAfter(keep))
        /\ bufferEnd' = b
        /\ offered' = Newest(Append(offered, h), N - 1)

Reset ==
    /\ committed' = <<>>
    /\ committedEnd' = 0
    /\ remainders' = <<>>
    /\ bufferEnd' = 0
    /\ offered' = <<>>

Next == (\E h \in Hyp, b \in Time : Offer(h, b)) \/ Reset

Spec == Init /\ [][Next]_vars

-----------------------------------------------------------------------------
\* Every variable has the shape commit.py gives it, and the window never
\* holds more than agreement_n - 1 remainders.
TypeOK ==
    /\ committed \in Seq(Word)
    /\ committedEnd \in Time
    /\ remainders \in Seq(Seq(Word))
    /\ Len(remainders) < N
    /\ bufferEnd \in Time
    /\ offered \in Seq(Seq(Word))
    /\ Len(offered) = Len(remainders)

\* "Committed words never duplicate across a commit boundary" (commit.py):
\* the committed words follow one another in the audio, and none reaches past
\* committedEnd, the point the next decode starts from.
CommittedOnce ==
    /\ Timed(committed)
    /\ \A i \in DOMAIN committed : committed[i].end <= committedEnd

\* "A word ending inside the tail guard is never committed" (commit.py): every
\* committed word ended at least TailGuard before the end of a decoded buffer.
ClearOfTheEdge ==
    \A i \in DOMAIN committed : committed[i].end + TailGuard <= bufferEnd

\* A committed word was heard by n consecutive decodes of uncommitted audio:
\* each of the n - 1 hypotheses before this one has the same token, timed past
\* what was committed when this one was offered.  A token an older hypothesis
\* heard before that is another occurrence of the word.
HeardByEach(w) ==
    /\ Len(offered) = N - 1
    /\ \A j \in DOMAIN offered : \E i \in DOMAIN offered[j] :
           offered[j][i].key = w.key /\ offered[j][i].start >= committedEnd
AgreedByN ==
    [][\A i \in DOMAIN committed' \ DOMAIN committed : HeardByEach(committed'[i])]_vars

\* "Committed and never revisited", "committed_end_s is monotone" (commit.py):
\* the committer implements the append-only log.
Log == INSTANCE CommitLog WITH committed <- committed, committedEnd <- committedEnd
ImplementsLog == Log!Spec
=============================================================================
