------------------------ MODULE LocalAgreementProofs ------------------------
(***************************************************************************)
(* Proofs about LocalAgreement, for every agreement_n, tail guard, turn    *)
(* length, token set and set of timed hypotheses.                          *)
(***************************************************************************)
EXTENDS LocalAgreement, WellFoundedInduction, TLAPS

-----------------------------------------------------------------------------
(* What the sequence helpers return.                                       *)

LEMMA MinOfNats ==
    ASSUME NEW S \in SUBSET Nat, S # {}
    PROVE  Min(S) \in S /\ \A y \in S : Min(S) <= y
<1> DEFINE R == {p \in Nat \X Nat : p[1] < p[2]}
<1>1. PICK x \in S : \A y \in S : <<y, x>> \notin R
  <2>1. IsWellFoundedOn(R, Nat)
    BY NatLessThanWellFounded DEF OpToRel
  <2> HIDE DEF R
  <2>2. QED
    BY <2>1, WFMin
<1>2. \A y \in S : x <= y
  <2> SUFFICES ASSUME NEW y \in S PROVE ~ (y < x)
    OBVIOUS
  <2>1. <<y, x>> \in Nat \X Nat /\ <<y, x>> \notin R
    BY <1>1
  <2>2. <<y, x>>[1] = y /\ <<y, x>>[2] = x
    OBVIOUS
  <2>3. QED
    BY <2>1, <2>2
<1>3. QED
  BY <1>2 DEF Min

LEMMA LeadingFacts ==
    ASSUME NEW ws \in Seq(Word), NEW good
    PROVE  /\ Leading(ws, good) \in Seq(Word)
           /\ Len(Leading(ws, good)) <= Len(ws)
           /\ \A i \in 1 .. Len(Leading(ws, good)) :
                  Leading(ws, good)[i] = ws[i] /\ i \in good
<1> DEFINE B == {i \in 1 .. Len(ws) + 1 : i \notin good \cap DOMAIN ws}
           m == Min(B)
<1>1. Len(ws) \in Nat /\ DOMAIN ws = 1 .. Len(ws)
  OBVIOUS
<1>2. Len(ws) + 1 \in B /\ B \in SUBSET Nat
  BY <1>1
<1>3. m \in B /\ \A y \in B : m <= y
  <2> HIDE DEF B
  <2> QED
    BY <1>2, MinOfNats
<1>4. Leading(ws, good) = SubSeq(ws, 1, m - 1)
  BY DEF Leading
<1>5. \A i \in 1 .. m - 1 : i \in good /\ i \in 1 .. Len(ws)
  BY <1>1, <1>3
<1> HIDE DEF m
<1>6. m \in 1 .. Len(ws) + 1
  BY <1>3
<1>7. QED
  BY <1>1, <1>4, <1>5, <1>6

LEMMA StartingFromFacts ==
    ASSUME NEW ws \in Seq(Word), NEW t \in Time
    PROVE  \E k \in 0 .. Len(ws) :
               /\ StartingFrom(ws, t) \in Seq(Word)
               /\ Len(StartingFrom(ws, t)) = Len(ws) - k
               /\ \A i \in 1 .. Len(ws) - k : StartingFrom(ws, t)[i] = ws[i + k]
               /\ k < Len(ws) => ws[k + 1].start >= t
<1> DEFINE B == {i \in 1 .. Len(ws) + 1 : i \in DOMAIN ws => ws[i].start >= t}
           m == Min(B)
<1>1. Len(ws) \in Nat /\ DOMAIN ws = 1 .. Len(ws)
  OBVIOUS
<1>2. Len(ws) + 1 \in B /\ B \in SUBSET Nat
  BY <1>1
<1>3. m \in B
  <2> HIDE DEF B
  <2> QED
    BY <1>2, MinOfNats
<1>4. StartingFrom(ws, t) = SubSeq(ws, m, Len(ws))
  BY DEF StartingFrom
<1>5. m \in 1 .. Len(ws) + 1 /\ (m <= Len(ws) => ws[m].start >= t)
  BY <1>1, <1>3
<1> HIDE DEF m
<1>6. m - 1 \in 0 .. Len(ws)
  BY <1>1, <1>5
<1>7. /\ StartingFrom(ws, t) \in Seq(Word)
      /\ Len(StartingFrom(ws, t)) = Len(ws) - (m - 1)
      /\ \A i \in 1 .. Len(ws) - (m - 1) : StartingFrom(ws, t)[i] = ws[i + (m - 1)]
  BY <1>1, <1>4, <1>5
<1>8. m - 1 < Len(ws) => ws[(m - 1) + 1].start >= t
  BY <1>1, <1>5
<1>9. QED
  BY <1>6, <1>7, <1>8

LEMMA StartingFromTimed ==
    ASSUME NEW ws \in Seq(Word), Timed(ws), NEW t \in Time
    PROVE  /\ StartingFrom(ws, t) \in Seq(Word)
           /\ Timed(StartingFrom(ws, t))
           /\ \A i \in 1 .. Len(StartingFrom(ws, t)) :
                 /\ StartingFrom(ws, t)[i].start >= t
                 /\ \E k \in DOMAIN ws : ws[k] = StartingFrom(ws, t)[i]
<1> DEFINE s == StartingFrom(ws, t)
<1>1. PICK k \in 0 .. Len(ws) :
          /\ s \in Seq(Word)
          /\ Len(s) = Len(ws) - k
          /\ \A i \in 1 .. Len(ws) - k : s[i] = ws[i + k]
          /\ k < Len(ws) => ws[k + 1].start >= t
  BY StartingFromFacts
<1> HIDE DEF s
<1>2. \A i \in 1 .. Len(s) : i + k \in DOMAIN ws /\ s[i] = ws[i + k]
  BY <1>1
<1>3. Timed(s)
  <2> SUFFICES ASSUME NEW i \in DOMAIN s, NEW j \in DOMAIN s, i < j
               PROVE  s[i].end <= s[j].start
    BY DEF Timed
  <2>1. i \in 1 .. Len(s) /\ j \in 1 .. Len(s)
    BY <1>1
  <2>2. i + k \in DOMAIN ws /\ j + k \in DOMAIN ws /\ i + k < j + k
    BY <1>1, <1>2, <2>1
  <2>3. ws[i + k].end <= ws[j + k].start
    BY <2>2 DEF Timed
  <2>4. QED
    BY <1>2, <2>1, <2>3
<1>4. \A i \in 1 .. Len(s) : s[i].start >= t
  <2> SUFFICES ASSUME NEW i \in 1 .. Len(s) PROVE s[i].start >= t
    OBVIOUS
  <2>1. s[1].start >= t /\ s[1] \in Word /\ s[i] \in Word
    BY <1>1
  <2>2. i = 1 \/ s[1].end <= s[i].start
    BY <1>1, <1>3 DEF Timed
  <2>3. QED
    BY <2>1, <2>2 DEF Word, Time
<1>5. QED
  BY <1>1, <1>2, <1>3, <1>4 DEF s

LEMMA NewestFacts ==
    ASSUME NEW T, NEW s \in Seq(T), NEW n \in Nat
    PROVE  /\ Newest(s, n) \in Seq(T)
           /\ Len(Newest(s, n)) = IF Len(s) > n THEN n ELSE Len(s)
           /\ \A i \in 1 .. Len(Newest(s, n)) :
                  Newest(s, n)[i] = s[i + (IF Len(s) > n THEN Len(s) - n ELSE 0)]
  BY DEF Newest

-----------------------------------------------------------------------------
(* What one offer commits.                                                 *)

LEMMA KeptFacts ==
    ASSUME TypeOK, NEW h \in Hyp, NEW b \in Time
    PROVE  /\ Kept(h, b) \in Seq(Word)
           /\ Timed(Kept(h, b))
           /\ \A i \in 1 .. Len(Kept(h, b)) :
                 /\ Kept(h, b)[i].start >= committedEnd
                 /\ Kept(h, b)[i].end <= b - TailGuard
                 /\ Len(remainders) = N - 1
                 /\ \A j \in DOMAIN remainders :
                       /\ i \in DOMAIN remainders[j]
                       /\ remainders[j][i].key = Kept(h, b)[i].key
<1> DEFINE fresh == StartingFrom(h, committedEnd)
           prefix == AgreedPrefix(fresh)
           clear == {i \in DOMAIN prefix : prefix[i].end <= b - TailGuard}
           keep == Leading(prefix, clear)
<1>1. Kept(h, b) = keep
  BY DEF Kept
<1>2. h \in Seq(Word) /\ Timed(h) /\ committedEnd \in Time
  BY HypAssumption DEF TypeOK
<1>3. /\ fresh \in Seq(Word)
      /\ Timed(fresh)
      /\ \A i \in 1 .. Len(fresh) : fresh[i].start >= committedEnd
  BY <1>2, StartingFromTimed
<1> HIDE DEF fresh
<1>4. /\ prefix \in Seq(Word)
      /\ Len(prefix) <= Len(fresh)
      /\ \A i \in 1 .. Len(prefix) :
            /\ prefix[i] = fresh[i]
            /\ Len(remainders) = N - 1
            /\ \A j \in DOMAIN remainders :
                  i \in DOMAIN remainders[j] /\ remainders[j][i].key = prefix[i].key
  <2>1. CASE Len(remainders) < N - 1
    <3>1. prefix = <<>>
      BY <2>1 DEF AgreedPrefix
    <3>2. Len(prefix) = 0 /\ prefix \in Seq(Word) /\ Len(fresh) \in Nat
      BY <1>3, <3>1
    <3>3. QED
      BY <3>2
  <2>2. CASE ~(Len(remainders) < N - 1)
    <3>1. Len(remainders) = N - 1
      BY <2>2, NAssumption DEF TypeOK
    <3>2. prefix = Leading(fresh, AgreedIndices(fresh))
      BY <2>2 DEF AgreedPrefix
    <3>3. /\ prefix \in Seq(Word)
          /\ Len(prefix) <= Len(fresh)
          /\ \A i \in 1 .. Len(prefix) : prefix[i] = fresh[i] /\ i \in AgreedIndices(fresh)
      BY <1>3, <3>2, LeadingFacts
    <3> HIDE DEF prefix
    <3>4. QED
      BY <3>1, <3>3 DEF AgreedIndices
  <2>3. QED
    BY <2>1, <2>2
<1> HIDE DEF prefix
<1>5. /\ keep \in Seq(Word)
      /\ Len(keep) <= Len(prefix)
      /\ \A i \in 1 .. Len(keep) : keep[i] = prefix[i] /\ i \in clear
  BY <1>4, LeadingFacts
<1> HIDE DEF keep
<1>6. \A i \in 1 .. Len(keep) : i \in 1 .. Len(prefix) /\ i \in 1 .. Len(fresh)
  BY <1>3, <1>4, <1>5
<1>7. \A i \in 1 .. Len(keep) : keep[i] = fresh[i]
  BY <1>4, <1>5, <1>6
<1>8. Timed(keep)
  <2> SUFFICES ASSUME NEW i \in DOMAIN keep, NEW j \in DOMAIN keep, i < j
               PROVE  keep[i].end <= keep[j].start
    BY DEF Timed
  <2>1. i \in DOMAIN fresh /\ j \in DOMAIN fresh
    BY <1>3, <1>5, <1>6
  <2>2. QED
    BY <1>3, <1>5, <1>7, <2>1 DEF Timed
<1>9. \A i \in 1 .. Len(keep) : keep[i].start >= committedEnd
  BY <1>3, <1>6, <1>7
<1>10. \A i \in 1 .. Len(keep) : keep[i].end <= b - TailGuard
  BY <1>5
<1>11. \A i \in 1 .. Len(keep) :
          /\ Len(remainders) = N - 1
          /\ \A j \in DOMAIN remainders :
                i \in DOMAIN remainders[j] /\ remainders[j][i].key = keep[i].key
  BY <1>4, <1>5, <1>6
<1>12. QED
  BY <1>1, <1>5, <1>8, <1>9, <1>10, <1>11

\* The mark moves to the end of the last word kept, and only forwards.
LEMMA EndAfterFacts ==
    ASSUME TypeOK, NEW h \in Hyp, NEW b \in Time
    PROVE  /\ EndAfter(Kept(h, b)) \in Time
           /\ EndAfter(Kept(h, b)) >= committedEnd
           /\ Kept(h, b) # <<>> =>
                  EndAfter(Kept(h, b)) = Kept(h, b)[Len(Kept(h, b))].end
           /\ Kept(h, b) = <<>> => EndAfter(Kept(h, b)) = committedEnd
           /\ \A i \in 1 .. Len(Kept(h, b)) : Kept(h, b)[i].end <= EndAfter(Kept(h, b))
<1> DEFINE keep == Kept(h, b)
           end == EndAfter(keep)
<1>1. /\ keep \in Seq(Word)
      /\ Timed(keep)
      /\ \A i \in 1 .. Len(keep) : keep[i].start >= committedEnd
  BY KeptFacts
<1>2. committedEnd \in Time
  BY DEF TypeOK
<1> HIDE DEF keep
<1>3. /\ end \in Time
      /\ end >= committedEnd
      /\ keep # <<>> => end = keep[Len(keep)].end
      /\ keep = <<>> => end = committedEnd
      /\ \A i \in 1 .. Len(keep) : keep[i].end <= end
  <2>1. CASE keep = <<>>
    <3>1. end = committedEnd
      BY <2>1 DEF EndAfter
    <3>2. Len(keep) = 0
      BY <2>1
    <3>3. QED
      BY <1>2, <2>1, <3>1, <3>2, MaxTimeAssumption DEF Time
  <2>2. CASE keep # <<>>
    <3> DEFINE last == keep[Len(keep)]
    <3>1. Len(keep) \in 1 .. Len(keep) /\ last \in Word /\ last.start >= committedEnd
      BY <1>1, <2>2
    <3>2. last.end > committedEnd /\ last.end \in Time
      BY <1>2, <3>1, MaxTimeAssumption DEF Word, Time
    <3>3. end = last.end
      BY <1>2, <2>2, <3>2, MaxTimeAssumption DEF EndAfter, Time
    <3>4. \A i \in 1 .. Len(keep) : keep[i].end <= last.end
      <4> SUFFICES ASSUME NEW i \in 1 .. Len(keep) PROVE keep[i].end <= last.end
        OBVIOUS
      <4>1. i = Len(keep) \/ keep[i].end <= last.start
        BY <1>1, <2>2 DEF Timed
      <4>2. keep[i] \in Word /\ last \in Word
        BY <1>1, <3>1
      <4>3. QED
        BY <4>1, <4>2 DEF Word, Time
    <3> HIDE DEF last
    <3>5. end \in Time /\ end >= committedEnd
      BY <1>2, <3>2, <3>3 DEF Time
    <3> HIDE DEF end
    <3>6. \A i \in 1 .. Len(keep) : keep[i].end <= end
      BY <3>3, <3>4
    <3>7. QED
      BY <2>2, <3>3, <3>5, <3>6 DEF last
  <2>3. QED
    BY <2>1, <2>2
<1>4. QED
  BY <1>3 DEF keep

-----------------------------------------------------------------------------
(* The invariant the checks state one by one is inductive as a whole: the  *)
(* order of the words needs the mark to cover them, and the guard needs    *)
(* the buffer to grow.                                                     *)
IInv == TypeOK /\ CommittedOnce /\ ClearOfTheEdge

LEMMA InitEstablishes == Init => IInv
<1> SUFFICES ASSUME Init PROVE IInv
  OBVIOUS
<1>1. TypeOK
  BY NAssumption, MaxTimeAssumption DEF Init, TypeOK, Time
<1>2. CommittedOnce /\ ClearOfTheEdge
  BY DEF Init, CommittedOnce, ClearOfTheEdge, Timed
<1>3. QED
  BY <1>1, <1>2 DEF IInv

LEMMA ResetPreserves == IInv /\ Reset => IInv'
<1> SUFFICES ASSUME Reset PROVE IInv'
  OBVIOUS
<1>1. TypeOK'
  BY NAssumption, MaxTimeAssumption DEF Reset, TypeOK, Time
<1>2. CommittedOnce' /\ ClearOfTheEdge'
  BY DEF Reset, CommittedOnce, ClearOfTheEdge, Timed
<1>3. QED
  BY <1>1, <1>2 DEF IInv

LEMMA OfferPreserves ==
    ASSUME IInv, NEW h \in Hyp, NEW b \in Time, Offer(h, b)
    PROVE  IInv'
<1> DEFINE keep == Kept(h, b)
           end == EndAfter(keep)
<1>1. TypeOK /\ CommittedOnce /\ ClearOfTheEdge
  BY DEF IInv
<1>2. /\ keep \in Seq(Word)
      /\ Timed(keep)
      /\ \A i \in 1 .. Len(keep) :
            keep[i].start >= committedEnd /\ keep[i].end <= b - TailGuard
  BY <1>1, KeptFacts
<1>3. /\ end \in Time
      /\ end >= committedEnd
      /\ \A i \in 1 .. Len(keep) : keep[i].end <= end
  BY <1>1, EndAfterFacts
<1>4. /\ b >= bufferEnd
      /\ committed' = committed \o keep
      /\ committedEnd' = end
      /\ remainders' = RemaindersAfter(h, end)
      /\ bufferEnd' = b
      /\ offered' = Newest(Append(offered, h), N - 1)
  BY DEF Offer
<1> HIDE DEF keep, end
<1>5. TypeOK'
  <2> DEFINE tail == StartingFrom(StartingFrom(h, committedEnd), end)
  <2>1. h \in Seq(Word) /\ Timed(h)
    BY HypAssumption
  <2>2. tail \in Seq(Word)
    <3>1. committedEnd \in Time
      BY <1>1 DEF TypeOK
    <3>2. StartingFrom(h, committedEnd) \in Seq(Word) /\ Timed(StartingFrom(h, committedEnd))
      BY <2>1, <3>1, StartingFromTimed
    <3>3. QED
      BY <1>3, <3>2, StartingFromTimed
  <2> HIDE DEF tail
  <2>3. N - 1 \in Nat
    BY NAssumption
  <2>4. remainders' \in Seq(Seq(Word)) /\ Len(remainders') < N
        /\ Len(remainders') = IF Len(remainders) + 1 > N - 1 THEN N - 1 ELSE Len(remainders) + 1
    <3> DEFINE s == Append(remainders, tail)
    <3>1. s \in Seq(Seq(Word)) /\ Len(s) = Len(remainders) + 1 /\ Len(remainders) \in Nat
      BY <1>1, <2>2 DEF TypeOK
    <3>2. remainders' = Newest(s, N - 1)
      BY <1>4 DEF RemaindersAfter, tail
    <3> HIDE DEF s
    <3>3. /\ Newest(s, N - 1) \in Seq(Seq(Word))
          /\ Len(Newest(s, N - 1)) = IF Len(s) > N - 1 THEN N - 1 ELSE Len(s)
      BY <2>3, <3>1, NewestFacts
    <3>4. QED
      BY <2>3, <3>1, <3>2, <3>3, NAssumption
  <2>5. offered' \in Seq(Seq(Word))
        /\ Len(offered') = IF Len(offered) + 1 > N - 1 THEN N - 1 ELSE Len(offered) + 1
    <3> DEFINE s == Append(offered, h)
    <3>1. s \in Seq(Seq(Word)) /\ Len(s) = Len(offered) + 1 /\ Len(offered) \in Nat
      BY <1>1, <2>1 DEF TypeOK
    <3>2. offered' = Newest(s, N - 1)
      BY <1>4
    <3> HIDE DEF s
    <3>3. QED
      BY <2>3, <3>1, <3>2, NewestFacts
  <2>6. committed' \in Seq(Word)
    BY <1>1, <1>2, <1>4 DEF TypeOK
  <2>7. QED
    BY <1>1, <1>3, <1>4, <2>4, <2>5, <2>6 DEF TypeOK
<1>6. /\ Len(committed') = Len(committed) + Len(keep)
      /\ \A i \in 1 .. Len(committed) : committed'[i] = committed[i]
      /\ \A i \in 1 .. Len(keep) : committed'[Len(committed) + i] = keep[i]
      /\ committed \in Seq(Word)
      /\ committed' \in Seq(Word)
  BY <1>1, <1>2, <1>4 DEF TypeOK
\* Every word of the new transcript is an old one or one of this offer's.
<1>7. ASSUME NEW i \in DOMAIN committed'
      PROVE  \/ i \in DOMAIN committed /\ committed'[i] = committed[i]
             \/ /\ i > Len(committed)
                /\ i - Len(committed) \in 1 .. Len(keep)
                /\ committed'[i] = keep[i - Len(committed)]
  <2>1. i \in 1 .. Len(committed) + Len(keep)
    BY <1>6
  <2>2. CASE i <= Len(committed)
    BY <1>6, <2>1, <2>2
  <2>3. CASE i > Len(committed)
    <3> DEFINE k == i - Len(committed)
    <3>1. k \in 1 .. Len(keep) /\ i = Len(committed) + k
      BY <1>2, <1>6, <2>1, <2>3
    <3>2. QED
      BY <1>6, <2>3, <3>1
  <2>4. QED
    BY <1>6, <2>1, <2>2, <2>3
<1>8. CommittedOnce'
  <2>1. \A i \in DOMAIN committed' : committed'[i].end <= end
    <3> SUFFICES ASSUME NEW i \in DOMAIN committed' PROVE committed'[i].end <= end
      OBVIOUS
    <3>1. CASE i \in DOMAIN committed /\ committed'[i] = committed[i]
      <4>1. committed[i].end <= committedEnd /\ committed[i] \in Word
        BY <1>1, <1>6, <3>1 DEF CommittedOnce
      <4>2. QED
        BY <1>1, <1>3, <3>1, <4>1 DEF TypeOK, Word, Time
    <3>2. QED
      BY <1>3, <1>7, <3>1
  <2>2. ASSUME NEW i \in DOMAIN committed', NEW j \in DOMAIN committed', i < j
        PROVE  committed'[i].end <= committed'[j].start
    <3>1. CASE j \in DOMAIN committed /\ committed'[j] = committed[j]
      <4>1. i \in DOMAIN committed /\ committed'[i] = committed[i]
        BY <1>6, <1>7, <2>2, <3>1
      <4>2. QED
        BY <1>1, <2>2, <3>1, <4>1 DEF CommittedOnce, Timed
    <3>2. CASE /\ j > Len(committed)
               /\ j - Len(committed) \in 1 .. Len(keep)
               /\ committed'[j] = keep[j - Len(committed)]
      <4> DEFINE l == j - Len(committed)
      <4>1. keep[l] \in Word /\ keep[l].start >= committedEnd
        BY <1>2, <3>2
      <4>2. CASE i \in DOMAIN committed /\ committed'[i] = committed[i]
        <5>1. committed[i].end <= committedEnd /\ committed[i] \in Word
          BY <1>1, <1>6, <4>2 DEF CommittedOnce
        <5>2. QED
          BY <1>1, <3>2, <4>1, <4>2, <5>1 DEF TypeOK, Word, Time
      <4>3. CASE /\ i > Len(committed)
                 /\ i - Len(committed) \in 1 .. Len(keep)
                 /\ committed'[i] = keep[i - Len(committed)]
        <5>1. i - Len(committed) < l
          BY <1>6, <2>2, <3>2, <4>3
        <5>2. QED
          BY <1>2, <3>2, <4>3, <5>1 DEF Timed
      <4>4. QED
        BY <1>7, <4>2, <4>3
    <3>3. QED
      BY <1>7, <3>1, <3>2
  <2>3. QED
    BY <1>4, <2>1, <2>2 DEF CommittedOnce, Timed
<1>9. ClearOfTheEdge'
  <2> SUFFICES ASSUME NEW i \in DOMAIN committed'
               PROVE  committed'[i].end + TailGuard <= b
    BY <1>4 DEF ClearOfTheEdge
  <2>1. committed'[i] \in Word
    BY <1>6
  <2>2. CASE i \in DOMAIN committed /\ committed'[i] = committed[i]
    <3>1. committed[i].end + TailGuard <= bufferEnd
      BY <1>1, <2>2 DEF ClearOfTheEdge
    <3>2. QED
      BY <1>1, <1>4, <2>1, <2>2, <3>1, TailGuardAssumption DEF TypeOK, Word, Time
  <2>3. CASE /\ i - Len(committed) \in 1 .. Len(keep)
             /\ committed'[i] = keep[i - Len(committed)]
    <3>1. committed'[i].end <= b - TailGuard
      BY <1>2, <2>3
    <3>2. QED
      BY <2>1, <3>1, TailGuardAssumption DEF Word, Time
  <2>4. QED
    BY <1>7, <2>2, <2>3
<1>10. QED
  BY <1>5, <1>8, <1>9 DEF IInv

LEMMA NextPreserves == IInv /\ [Next]_vars => IInv'
<1> SUFFICES ASSUME IInv, [Next]_vars PROVE IInv'
  OBVIOUS
<1>1. CASE \E h \in Hyp, b \in Time : Offer(h, b)
  BY <1>1, OfferPreserves
<1>2. CASE Reset
  BY <1>2, ResetPreserves
<1>3. CASE UNCHANGED vars
  BY <1>3 DEF vars, IInv, TypeOK, CommittedOnce, ClearOfTheEdge, Timed
<1>4. QED
  BY <1>1, <1>2, <1>3 DEF Next

\* The invariant holds throughout every behaviour of the committer.
THEOREM Invariance == Spec => []IInv
<1>1. QED
  BY InitEstablishes, NextPreserves, PTL DEF Spec

\* Every variable keeps the shape commit.py gives it, and the agreement
\* window never outgrows agreement_n - 1.
THEOREM TypeCorrect == Spec => []TypeOK
<1>1. IInv => TypeOK
  BY DEF IInv
<1>2. QED
  BY <1>1, Invariance, PTL

\* No audio is ever transcribed twice in one turn: committed words are in
\* order and disjoint, and end by the point the next decode starts from.
THEOREM NeverCommittedTwice == Spec => []CommittedOnce
<1>1. IInv => CommittedOnce
  BY DEF IInv
<1>2. QED
  BY <1>1, Invariance, PTL

\* No committed word could have been cut by the edge of the buffer it was
\* heard in.
THEOREM NeverCutByTheEdge == Spec => []ClearOfTheEdge
<1>1. IInv => ClearOfTheEdge
  BY DEF IInv
<1>2. QED
  BY <1>1, Invariance, PTL

-----------------------------------------------------------------------------
(* Refinement: the committer is an append-only log.                        *)

LEMMA OfferAppends ==
    ASSUME IInv, IInv', NEW h \in Hyp, NEW b \in Time, Offer(h, b)
    PROVE  Log!Keep \/ UNCHANGED Log!vars
<1> DEFINE keep == Kept(h, b)
           end == EndAfter(keep)
<1>1. TypeOK /\ TypeOK' /\ CommittedOnce'
  BY DEF IInv
<1>2. keep \in Seq(Word) /\ \A i \in 1 .. Len(keep) : keep[i].start >= committedEnd
  BY <1>1, KeptFacts
<1>3. /\ keep # <<>> => end = keep[Len(keep)].end
      /\ keep = <<>> => end = committedEnd
  BY <1>1, EndAfterFacts
<1>4. committed' = committed \o keep /\ committedEnd' = end
  BY DEF Offer
<1> HIDE DEF keep, end
<1>5. committed \in Seq(Word) /\ committed' \in Seq(Word) /\ Timed(committed')
  BY <1>1 DEF TypeOK, CommittedOnce
<1>6. CASE keep = <<>>
  BY <1>3, <1>4, <1>5, <1>6 DEF Log!vars
<1>7. CASE keep # <<>>
  <2>1. Len(keep) \in Nat /\ Len(keep) > 0
    BY <1>2, <1>7
  <2>2. /\ Len(committed') = Len(committed) + Len(keep)
        /\ \A i \in DOMAIN committed : committed'[i] = committed[i]
        /\ \A i \in 1 .. Len(keep) : committed'[Len(committed) + i] = keep[i]
    BY <1>2, <1>4, <1>5
  <2>3. Len(committed) \in Nat
    BY <1>5
  <2>4. committed'[Len(committed) + 1].start >= committedEnd
    BY <1>2, <2>1, <2>2
  <2>5. committed'[Len(committed')] = keep[Len(keep)]
    BY <2>1, <2>2, <2>3
  <2>6. Len(committed') > Len(committed)
    BY <2>1, <2>2, <2>3
  <2>7. committedEnd' = committed'[Len(committed')].end
    BY <1>3, <1>4, <1>7, <2>5
  <2>8. committed' \in Seq(Log!Word) /\ Log!Timed(committed')
    BY <1>5 DEF Word, Time, Timed, Log!Word, Log!Time, Log!Timed
  <2>9. QED
    BY <2>2, <2>4, <2>6, <2>7, <2>8 DEF Log!Keep
<1>8. QED
  BY <1>6, <1>7

\* offer() only ever appends words past the mark, and moves the mark to the
\* end of the last of them; reset() alone takes words away, all of them.
THEOREM Refinement == Spec => ImplementsLog
<1>1. Init => Log!Init
  BY DEF Init, Log!Init
<1>2. IInv /\ IInv' /\ [Next]_vars => [Log!Next]_(Log!vars)
  <2> SUFFICES ASSUME IInv, IInv', [Next]_vars PROVE [Log!Next]_(Log!vars)
    OBVIOUS
  <2>1. CASE \E h \in Hyp, b \in Time : Offer(h, b)
    BY <2>1, OfferAppends DEF Log!Next
  <2>2. CASE Reset
    BY <2>2 DEF Reset, Log!Next, Log!NewTurn
  <2>3. CASE UNCHANGED vars
    BY <2>3 DEF vars, Log!vars
  <2>4. QED
    BY <2>1, <2>2, <2>3 DEF Next
<1>3. QED
  BY <1>1, <1>2, Invariance, PTL DEF Spec, ImplementsLog, Log!Spec

-----------------------------------------------------------------------------
(* Agreement.  With a window of one remainder, that remainder was cut at   *)
(* the mark the next hypothesis starts from, so a position in it is the    *)
(* same word.  A longer window keeps remainders cut at older marks, and    *)
(* the theorem stops at 2, which is what every configuration uses.         *)

\* Each stored word is one of its hypothesis's, past the committed audio.
Aligned ==
    \A j \in DOMAIN remainders : \A i \in DOMAIN remainders[j] :
        /\ remainders[j][i].start >= committedEnd
        /\ \E k \in DOMAIN offered[j] : offered[j][k] = remainders[j][i]

LEMMA OfferAligns ==
    ASSUME N <= 2, TypeOK, NEW h \in Hyp, NEW b \in Time, Offer(h, b)
    PROVE  Aligned'
<1> DEFINE end == EndAfter(Kept(h, b))
           fresh == StartingFrom(h, committedEnd)
           tail == StartingFrom(fresh, end)
<1>1. end \in Time /\ committedEnd \in Time
  BY EndAfterFacts DEF TypeOK
<1>2. /\ committedEnd' = end
      /\ remainders' = Newest(Append(remainders, tail), N - 1)
      /\ offered' = Newest(Append(offered, h), N - 1)
  BY DEF Offer, RemaindersAfter
<1> HIDE DEF end
<1>3. h \in Seq(Word) /\ Timed(h)
  BY HypAssumption
<1>4. /\ fresh \in Seq(Word)
      /\ Timed(fresh)
      /\ \A i \in 1 .. Len(fresh) : \E k \in DOMAIN h : h[k] = fresh[i]
  BY <1>1, <1>3, StartingFromTimed
<1> HIDE DEF fresh
<1>5. /\ tail \in Seq(Word)
      /\ \A i \in 1 .. Len(tail) :
            tail[i].start >= end /\ \E k \in DOMAIN fresh : fresh[k] = tail[i]
  BY <1>1, <1>4, StartingFromTimed
<1> HIDE DEF tail
<1>6. \A i \in DOMAIN tail : tail[i].start >= end /\ \E k \in DOMAIN h : h[k] = tail[i]
  BY <1>4, <1>5
<1>7. CASE N = 1
  <2> DEFINE s == Append(remainders, tail)
  <2>1. s \in Seq(Seq(Word)) /\ Len(s) \in Nat
    BY <1>5 DEF TypeOK
  <2>2. remainders' = Newest(s, 0)
    BY <1>2, <1>7
  <2> HIDE DEF s
  <2>3. Newest(s, 0) \in Seq(Seq(Word)) /\ Len(Newest(s, 0)) = 0
    BY <2>1 DEF Newest
  <2>4. DOMAIN remainders' = {}
    BY <2>2, <2>3
  <2>5. QED
    BY <2>4 DEF Aligned
<1>8. CASE N = 2
  <2>1. remainders' = <<tail>>
    <3> DEFINE s == Append(remainders, tail)
    <3>1. s \in Seq(Seq(Word)) /\ Len(s) = Len(remainders) + 1 /\ s[Len(s)] = tail
          /\ Len(remainders) \in Nat
      BY <1>5 DEF TypeOK
    <3> HIDE DEF s
    <3>2. Len(s) >= 1
      BY <3>1
    <3>3. /\ Newest(s, 1) \in Seq(Seq(Word))
          /\ Len(Newest(s, 1)) = 1
          /\ Newest(s, 1)[1] = tail
      BY <3>1, <3>2 DEF Newest
    <3>4. remainders' = Newest(s, 1)
      BY <1>2, <1>8 DEF s
    <3>5. QED
      BY <3>3, <3>4
  <2>2. offered' = <<h>>
    <3> DEFINE s == Append(offered, h)
    <3>1. s \in Seq(Seq(Word)) /\ Len(s) = Len(offered) + 1 /\ s[Len(s)] = h
          /\ Len(offered) \in Nat
      BY <1>3 DEF TypeOK
    <3> HIDE DEF s
    <3>2. Len(s) >= 1
      BY <3>1
    <3>3. /\ Newest(s, 1) \in Seq(Seq(Word))
          /\ Len(Newest(s, 1)) = 1
          /\ Newest(s, 1)[1] = h
      BY <3>1, <3>2 DEF Newest
    <3>4. offered' = Newest(s, 1)
      BY <1>2, <1>8 DEF s
    <3>5. QED
      BY <3>3, <3>4
  <2>3. QED
    BY <1>2, <1>6, <2>1, <2>2 DEF Aligned
<1>9. QED
  BY <1>7, <1>8, NAssumption

LEMMA OfferAgrees ==
    ASSUME IInv, Aligned, NEW h \in Hyp, NEW b \in Time, Offer(h, b)
    PROVE  \A i \in DOMAIN committed' \ DOMAIN committed : HeardByEach(committed'[i])
<1> DEFINE keep == Kept(h, b)
<1>1. TypeOK
  BY DEF IInv
<1>2. /\ keep \in Seq(Word)
      /\ \A i \in 1 .. Len(keep) :
            /\ Len(remainders) = N - 1
            /\ \A j \in DOMAIN remainders :
                  i \in DOMAIN remainders[j] /\ remainders[j][i].key = keep[i].key
  BY <1>1, KeptFacts
<1>3. committed' = committed \o keep
  BY DEF Offer
<1> HIDE DEF keep
<1> SUFFICES ASSUME NEW i \in DOMAIN committed' \ DOMAIN committed
             PROVE  HeardByEach(committed'[i])
  OBVIOUS
<1> DEFINE k == i - Len(committed)
<1>4. committed \in Seq(Word) /\ offered \in Seq(Seq(Word))
      /\ remainders \in Seq(Seq(Word)) /\ Len(offered) = Len(remainders)
  BY <1>1 DEF TypeOK
<1>5. k \in 1 .. Len(keep) /\ committed'[i] = keep[k]
  BY <1>2, <1>3, <1>4
<1> HIDE DEF k
<1>6. Len(offered) = N - 1 /\ DOMAIN offered = DOMAIN remainders
  BY <1>2, <1>4, <1>5
<1>7. ASSUME NEW j \in DOMAIN offered
      PROVE  \E l \in DOMAIN offered[j] :
                 offered[j][l].key = keep[k].key /\ offered[j][l].start >= committedEnd
  <2>1. k \in DOMAIN remainders[j] /\ remainders[j][k].key = keep[k].key
    BY <1>2, <1>5, <1>6
  <2>2. QED
    BY <1>6, <2>1 DEF Aligned
<1>8. QED
  BY <1>5, <1>6, <1>7 DEF HeardByEach

\* With agreement_n 1 or 2 every word offer() commits was heard, past the
\* audio already committed, by each of the n hypotheses of its window.
THEOREM AgreedByTwo == ASSUME N <= 2 PROVE Spec => AgreedByN
<1>1. Init => Aligned
  BY DEF Init, Aligned
<1>2. IInv /\ Aligned /\ [Next]_vars => Aligned'
  <2> SUFFICES ASSUME IInv, Aligned, [Next]_vars PROVE Aligned'
    OBVIOUS
  <2>1. CASE \E h \in Hyp, b \in Time : Offer(h, b)
    BY <2>1, OfferAligns DEF IInv
  <2>2. CASE Reset
    BY <2>2 DEF Reset, Aligned
  <2>3. CASE UNCHANGED vars
    BY <2>3 DEF vars, Aligned
  <2>4. QED
    BY <2>1, <2>2, <2>3 DEF Next
<1>3. IInv /\ Aligned /\ [Next]_vars =>
          [\A i \in DOMAIN committed' \ DOMAIN committed : HeardByEach(committed'[i])]_vars
  <2> SUFFICES ASSUME IInv, Aligned, [Next]_vars, ~ UNCHANGED vars
               PROVE  \A i \in DOMAIN committed' \ DOMAIN committed :
                          HeardByEach(committed'[i])
    OBVIOUS
  <2>1. CASE \E h \in Hyp, b \in Time : Offer(h, b)
    BY <2>1, OfferAgrees
  <2>2. CASE Reset
    BY <2>2 DEF Reset
  <2>3. QED
    BY <2>1, <2>2 DEF Next
<1>4. QED
  BY <1>1, <1>2, <1>3, Invariance, PTL DEF Spec, AgreedByN
=============================================================================
