---------------------------- MODULE ListenerProofs ----------------------------
(***************************************************************************)
(* Listener, for every set of commit configurations and any number of      *)
(* utterances, splits and crashes: its type invariant; that a final is     *)
(* joined to words of its own utterance; that a decode which computes is   *)
(* counted; that an endpoint's hypothesis does not compute beside its      *)
(* final; that a frozen one stays frozen through its reply; that no engine *)
(* starts loading beside a final; and that an endpoint freezes its own     *)
(* decode only.                                                            *)
(* At the end Partials, the other mode of the same service: that no record *)
(* of a partial is forgotten, for any number of turns and splits, and that *)
(* each is filed under its own turn, as long as at most one was split.     *)
(***************************************************************************)
EXTENDS Listener, WellFoundedInduction, TLAPS

\* The frames the service has yet to handle alternate, and end with what the
\* VAD said last.
FramesInOrder ==
    /\ \A i \in DOMAIN inbox : i + 1 \in DOMAIN inbox => inbox[i] # inbox[i + 1]
    /\ inbox # <<>> => /\ inbox[1] = IF speaking THEN "stopped" ELSE "started"
                       /\ inbox[Len(inbox)] = IF talking THEN "started" ELSE "stopped"
    /\ 2 * (said - utt) = Len(inbox) + (IF talking THEN 1 ELSE 0) - (IF speaking THEN 1 ELSE 0)
    /\ speaking => utt # 0

\* A thread that waits has a loaded worker to itself, whose process is at its
\* request; one that was cut off has a dead one.
OneAsker ==
    /\ \A u \in Utterance : job[u] = "asked" =>
          /\ ready[bound[u]] /\ busy[bound[u]]
          /\ child[bound[u]] \in {"computing", "replied"}
    /\ \A u, v \in Utterance : job[u] = "asked" /\ job[v] = "asked" /\ bound[u] = bound[v] => u = v
    /\ \A u \in Utterance : job[u] = "cut" => child[bound[u]] \in {"gone", "loading"}
    /\ \A w \in Worker : child[w] \in {"computing", "replied"} => Asking(w) # {}
    /\ \A w \in Worker : child[w] = "loading" => ~ready[w]

\* Only a freezing design freezes, and only a killing one changes workers.
ByDesign ==
    /\ design.atEndpoint # "kill" => active = 1 /\ \A u \in Utterance : bound[u] = 1
    /\ \A w \in Worker : stopped[w] => design.atEndpoint = "stop"

\* An utterance whose endpoint is handled.
Past(u) == u < utt \/ ~speaking

\* What a decode may be doing before and after its endpoint.
DecodesOfUtterances ==
    /\ \A u \in Utterance : job[u] # "none" => u <= utt
    /\ \A u \in Utterance : job[u] \in {"queued", "entered"} /\ Past(u) => u \in slipped
    /\ speaking /\ task = 0 => job[utt] = "none"
    /\ speaking /\ job[utt] \in {"entered", "asked"} => bound[utt] = active
    /\ speaking /\ job[utt] = "asked" => ~stale[bound[utt]]
    /\ words \subseteq {utt}

\* While a final decodes, its utterance's decode is frozen or was killed.
FinalAlone ==
    finalPending =>
        /\ ~speaking /\ utt # 0
        /\ design.atEndpoint # "race" /\ utt \notin slipped /\ job[utt] = "asked" =>
              stopped[bound[utt]]

\* While turns and utterances are one to one, a turn's user, its final and its
\* reply follow one another, and a closed turn leaves nothing.
OneByOne ==
    orderly =>
        /\ said <= utt + 1
        /\ speaking => utt = said
        /\ finalPending => ~talking /\ inbox = <<>>
        /\ llm \/ voice \/ llmDone => ~talking /\ inbox = <<>> /\ ~finalPending
        /\ clock = "none" => ~talking /\ inbox = <<>> /\ ~finalPending /\ ~llm /\ ~voice

\* A decode frozen at its endpoint stays so until its turn closes.
FrozenUntilClosed ==
    orderly /\ ~design.contAtTurnOpen /\ clock # "none" =>
        \A u \in Utterance : job[u] = "asked" /\ u = said /\ stale[bound[u]] =>
            stopped[bound[u]] /\ ~playbackSince /\ ~speaking

\* With one worker, what an endpoint leaves in the child is marked stale.
LeftStale ==
    design.atEndpoint = "stop" /\ design.workers = 1 =>
        /\ speaking /\ task # 0 => ~stopped[1]
        /\ \A u \in Utterance : job[u] = "asked" /\ Past(u) /\ u \notin slipped => stale[bound[u]]

PoolInv == PoolTypeOK /\ OneAsker /\ ByDesign

IInv ==
    /\ PoolInv /\ ServiceTypeOK /\ FramesInOrder /\ DecodesOfUtterances
    /\ FinalAlone /\ OneByOne /\ FrozenUntilClosed /\ LeftStale

-----------------------------------------------------------------------------
LEMMA Workers ==
    ASSUME PoolTypeOK
    PROVE  /\ design.workers \in 1 .. 2 /\ design.atEndpoint \in {"stop", "kill", "race"}
           /\ 1 \in Worker /\ spare \in Worker
<1>1. design.workers \in 1 .. 2 /\ design.atEndpoint \in {"stop", "kill", "race"}
  BY DesignsAssumption DEF PoolTypeOK
<1>2. 1 \in Worker /\ active \in 1 .. design.workers
  BY <1>1 DEF PoolTypeOK, Worker
<1>3. 1 % 1 = 0 /\ 1 % 2 = 1 /\ 2 % 2 = 0
  OBVIOUS
<1>4. spare = (active % design.workers) + 1
  BY DEF spare
<1>5. spare \in 1 .. design.workers
  <2>1. CASE design.workers = 1
    BY <1>2, <1>3, <1>4, <2>1
  <2>2. CASE design.workers = 2 /\ active = 1
    BY <1>3, <1>4, <2>2
  <2>3. CASE design.workers = 2 /\ active = 2
    BY <1>3, <1>4, <2>3
  <2>4. QED
    BY <1>1, <1>2, <2>1, <2>2, <2>3
<1>6. QED
  BY <1>1, <1>2, <1>5 DEF Worker

-----------------------------------------------------------------------------
(* The operations of the pool keep one thread to a worker.                 *)

LEMMA PoolFrame ==
    ASSUME PoolInv, UNCHANGED design, UNCHANGED poolVars
    PROVE  PoolInv'
BY DEF PoolInv, PoolTypeOK, OneAsker, ByDesign, Worker, Asking, poolVars

LEMMA AskKeeps ==
    ASSUME PoolInv, UNCHANGED design, NEW u \in Utterance, Ask(u)
    PROVE  PoolInv'
<1> DEFINE w == bound[u]
<1>1. /\ job \in [Utterance -> JobState] /\ child \in [Worker -> ChildState]
      /\ busy \in [Worker -> BOOLEAN] /\ stale \in [Worker -> BOOLEAN] /\ w \in Worker
      /\ bound \in [Utterance -> Worker] /\ Worker' = Worker
  BY DEF PoolInv, PoolTypeOK, Worker
<1>2. UNCHANGED <<active, ready, stopped, spawning, bound, crashes>> /\ job[u] = "entered"
  BY DEF Ask
<1>3. CASE ReadyIdle(w)
  <2>1. /\ busy' = [busy EXCEPT ![w] = TRUE]
        /\ stale' = [stale EXCEPT ![w] = FALSE]
        /\ child' = IF child[w] = "idle" THEN [child EXCEPT ![w] = "computing"] ELSE child
        /\ job' = [job EXCEPT ![u] = IF child[w] = "idle" THEN "asked" ELSE "cut"]
    BY <1>3 DEF Ask
  <2>2. Asking(w) = {}
    BY <1>3 DEF PoolInv, OneAsker, Asking, ReadyIdle
  <2>3. child[w] \in {"idle", "gone"}
    BY <1>1, <1>3, <2>2 DEF PoolInv, OneAsker, ReadyIdle, ChildState
  <2>4. PoolTypeOK'
    BY <1>1, <1>2, <2>1 DEF PoolInv, PoolTypeOK, JobState, ChildState
  <2>5. ByDesign'
    BY <1>1, <1>2 DEF PoolInv, ByDesign
  <2>6. ASSUME NEW v \in Utterance, job'[v] = "asked"
        PROVE  /\ ready'[bound'[v]] /\ busy'[bound'[v]]
               /\ child'[bound'[v]] \in {"computing", "replied"}
    <3>1. CASE v = u
      BY <1>1, <1>2, <1>3, <2>1, <2>6, <3>1 DEF ReadyIdle
    <3>2. CASE v # u
      BY <1>1, <1>2, <2>1, <2>2, <2>6, <3>2 DEF PoolInv, OneAsker, Asking
    <3>3. QED
      BY <3>1, <3>2
  <2>7. ASSUME NEW v \in Utterance, NEW x \in Utterance, job'[v] = "asked", job'[x] = "asked",
               bound'[v] = bound'[x]
        PROVE  v = x
    BY <1>1, <1>2, <2>1, <2>2, <2>7 DEF PoolInv, OneAsker, Asking
  <2>8. ASSUME NEW v \in Utterance, job'[v] = "cut"
        PROVE  child'[bound'[v]] \in {"gone", "loading"}
    BY <1>1, <1>2, <2>1, <2>3, <2>8 DEF PoolInv, OneAsker
  <2>9. ASSUME NEW x \in Worker, child'[x] \in {"computing", "replied"}
        PROVE  Asking(x)' # {}
    <3>1. CASE x = w
      BY <1>1, <1>2, <2>1, <2>3, <2>9, <3>1 DEF Asking
    <3>2. CASE x # w
      <4>1. PICK v \in Utterance : job[v] = "asked" /\ bound[v] = x
        BY <1>1, <2>1, <2>9, <3>2 DEF PoolInv, OneAsker, Asking
      <4>2. v # u /\ job'[v] = "asked" /\ bound'[v] = x
        BY <1>1, <1>2, <2>1, <4>1
      <4>3. QED
        BY <4>2 DEF Asking
    <3>3. QED
      BY <3>1, <3>2
  <2>10. ASSUME NEW x \in Worker, child'[x] = "loading"
         PROVE  ~ready'[x]
    BY <1>1, <1>2, <2>1, <2>10 DEF PoolInv, OneAsker
  <2>11. OneAsker'
    BY <1>1, <2>6, <2>7, <2>8, <2>9, <2>10 DEF OneAsker
  <2>12. QED
    BY <2>4, <2>5, <2>11 DEF PoolInv
<1>4. CASE ~ReadyIdle(w)
  <2>1. job' = [job EXCEPT ![u] = "nothing"] /\ UNCHANGED <<busy, stale, child>>
    BY <1>4 DEF Ask
  <2>2. \A v \in Utterance : job'[v] \in {"asked", "cut"} => job'[v] = job[v]
    BY <1>1, <2>1
  <2>3. \A x \in Worker : Asking(x)' = Asking(x)
    BY <1>1, <1>2, <2>1 DEF Asking
  <2>4. PoolTypeOK'
    BY <1>1, <1>2, <2>1 DEF PoolInv, PoolTypeOK, JobState
  <2>5. OneAsker'
    BY <1>1, <1>2, <2>1, <2>2, <2>3 DEF PoolInv, OneAsker
  <2>6. ByDesign'
    BY <1>1, <1>2 DEF PoolInv, ByDesign
  <2>7. QED
    BY <2>4, <2>5, <2>6 DEF PoolInv
<1>5. QED
  BY <1>3, <1>4

LEMMA AnsweredKeeps ==
    ASSUME PoolInv, UNCHANGED design, NEW u \in Utterance, Answered(u)
    PROVE  PoolInv'
<1> DEFINE w == bound[u]
<1>1. /\ job \in [Utterance -> JobState] /\ child \in [Worker -> ChildState]
      /\ busy \in [Worker -> BOOLEAN] /\ stale \in [Worker -> BOOLEAN] /\ w \in Worker
      /\ bound \in [Utterance -> Worker] /\ Worker' = Worker
  BY DEF PoolInv, PoolTypeOK, Worker
<1>2. /\ UNCHANGED <<active, ready, stopped, spawning, bound, crashes>>
      /\ busy' = [busy EXCEPT ![w] = FALSE]
  BY DEF Answered
<1>3. job[u] \in {"asked", "cut"}
  BY DEF Answered
<1>4. job' \in [Utterance -> JobState] /\ child' \in [Worker -> ChildState]
      /\ stale' \in [Worker -> BOOLEAN]
  BY <1>1 DEF Answered, JobState, ChildState
<1>5. /\ job'[u] \in {"words", "nothing"}
      /\ \A v \in Utterance : v # u => job'[v] = job[v]
      /\ \A x \in Worker : child'[x] = child[x]
            \/ (x = w /\ job[u] = "asked" /\ child'[x] = "idle")
      /\ job[u] = "asked" => child'[w] = "idle"
  BY <1>1 DEF Answered
<1>6. \A v \in Utterance : v # u /\ job[v] = "asked" => bound[v] # w
  BY <1>1, <1>3 DEF PoolInv, OneAsker
<1>7. PoolTypeOK'
  BY <1>1, <1>2, <1>4 DEF PoolInv, PoolTypeOK
<1>8. ByDesign'
  BY <1>1, <1>2 DEF PoolInv, ByDesign
<1>9. ASSUME NEW v \in Utterance, job'[v] = "asked"
      PROVE  /\ ready'[bound'[v]] /\ busy'[bound'[v]]
             /\ child'[bound'[v]] \in {"computing", "replied"}
  <2>1. v # u /\ job[v] = "asked" /\ bound[v] # w /\ bound[v] \in Worker
    BY <1>1, <1>5, <1>6, <1>9
  <2>2. QED
    BY <1>1, <1>2, <1>5, <2>1 DEF PoolInv, OneAsker
<1>10. ASSUME NEW v \in Utterance, NEW x \in Utterance, job'[v] = "asked", job'[x] = "asked",
              bound'[v] = bound'[x]
       PROVE  v = x
  BY <1>2, <1>5, <1>10 DEF PoolInv, OneAsker
<1>11. ASSUME NEW v \in Utterance, job'[v] = "cut"
       PROVE  child'[bound'[v]] \in {"gone", "loading"}
  <2>1. v # u /\ job[v] = "cut" /\ bound[v] \in Worker /\ child[bound[v]] \in {"gone", "loading"}
    BY <1>1, <1>5, <1>11 DEF PoolInv, OneAsker
  <2>2. job[u] = "asked" => bound[v] # w
    BY <2>1 DEF PoolInv, OneAsker
  <2>3. QED
    BY <1>2, <1>5, <2>1, <2>2
<1>12. ASSUME NEW x \in Worker, child'[x] \in {"computing", "replied"}
       PROVE  Asking(x)' # {}
  <2>1. child[x] = child'[x]
    BY <1>5, <1>12
  <2>2. PICK v \in Utterance : job[v] = "asked" /\ bound[v] = x
    BY <1>12, <2>1 DEF PoolInv, OneAsker, Asking
  <2>3. v # u
    BY <1>5, <1>12, <2>2
  <2>4. QED
    BY <1>2, <1>5, <2>2, <2>3 DEF Asking
<1>13. ASSUME NEW x \in Worker, child'[x] = "loading"
       PROVE  ~ready'[x]
  BY <1>2, <1>5, <1>13 DEF PoolInv, OneAsker
<1>14. OneAsker'
  BY <1>1, <1>9, <1>10, <1>11, <1>12, <1>13 DEF OneAsker
<1>15. QED
  BY <1>7, <1>8, <1>14 DEF PoolInv

\* Whatever cuts the threads off that wait on a worker leaves its process dead.
LEMMA CutKeeps ==
    ASSUME PoolInv, UNCHANGED <<design, bound, stopped>>, NEW w \in Worker,
           job' = CutOff(w), child' = [child EXCEPT ![w] = "gone"],
           \A x \in Worker : x # w => ready'[x] = ready[x] /\ busy'[x] = busy[x],
           design.atEndpoint # "kill" => active' = active,
           PoolTypeOK'
    PROVE  PoolInv'
<1>1. /\ job \in [Utterance -> JobState] /\ child \in [Worker -> ChildState]
      /\ bound \in [Utterance -> Worker] /\ Worker' = Worker
  BY DEF PoolInv, PoolTypeOK, Worker
<1>2. \A v \in Utterance :
         /\ job'[v] = "asked" => job[v] = "asked" /\ bound[v] # w
         /\ job[v] = "asked" /\ bound[v] # w => job'[v] = "asked"
         /\ job'[v] = "cut" => job[v] = "cut" \/ bound[v] = w
  BY <1>1 DEF CutOff, Asking
<1>3. ByDesign'
  BY <1>1 DEF PoolInv, ByDesign
<1>4. ASSUME NEW v \in Utterance, job'[v] = "asked"
      PROVE  /\ ready'[bound'[v]] /\ busy'[bound'[v]]
             /\ child'[bound'[v]] \in {"computing", "replied"}
  <2>1. job[v] = "asked" /\ bound[v] # w /\ bound[v] \in Worker
    BY <1>1, <1>2, <1>4
  <2>2. QED
    BY <1>1, <2>1 DEF PoolInv, OneAsker
<1>5. ASSUME NEW v \in Utterance, NEW x \in Utterance, job'[v] = "asked", job'[x] = "asked",
             bound'[v] = bound'[x]
      PROVE  v = x
  BY <1>2, <1>5 DEF PoolInv, OneAsker
<1>6. ASSUME NEW v \in Utterance, job'[v] = "cut"
      PROVE  child'[bound'[v]] \in {"gone", "loading"}
  <2>1. bound[v] \in Worker /\ (job[v] = "cut" \/ bound[v] = w)
    BY <1>1, <1>2, <1>6
  <2>2. QED
    BY <1>1, <2>1 DEF PoolInv, OneAsker
<1>7. ASSUME NEW x \in Worker, child'[x] \in {"computing", "replied"}
      PROVE  Asking(x)' # {}
  <2>1. x # w /\ child[x] = child'[x]
    BY <1>1, <1>7
  <2>2. PICK v \in Utterance : job[v] = "asked" /\ bound[v] = x
    BY <1>7, <2>1 DEF PoolInv, OneAsker, Asking
  <2>3. QED
    BY <1>2, <2>1, <2>2 DEF Asking
<1>8. ASSUME NEW x \in Worker, child'[x] = "loading"
      PROVE  ~ready'[x]
  <2>1. x # w /\ child[x] = "loading"
    BY <1>1, <1>8
  <2>2. QED
    BY <2>1 DEF PoolInv, OneAsker
<1>9. OneAsker'
  BY <1>1, <1>4, <1>5, <1>6, <1>7, <1>8 DEF OneAsker
<1>10. QED
  BY <1>3, <1>9 DEF PoolInv

LEMMA KillKeeps ==
    ASSUME PoolInv, UNCHANGED design, KillAndPromote, design.atEndpoint = "kill"
    PROVE  PoolInv'
<1>1. CASE busy[active]
  <2>1. /\ ready' = [ready EXCEPT ![active] = FALSE]
        /\ busy' = [busy EXCEPT ![active] = FALSE]
        /\ child' = [child EXCEPT ![active] = "gone"]
        /\ job' = CutOff(active)
        /\ active' \in {active, spare}
        /\ UNCHANGED <<stopped, stale, spawning, bound, crashes>>
    BY <1>1 DEF KillAndPromote
  <2>2. PoolTypeOK
    BY DEF PoolInv
  <2>3. job' \in [Utterance -> JobState] /\ active' \in Worker /\ active \in Worker
    BY <2>1, <2>2, Workers DEF PoolTypeOK, CutOff, JobState
  <2>4. PoolTypeOK'
    BY <2>1, <2>2, <2>3 DEF PoolTypeOK, Worker, ChildState
  <2>5. \A x \in Worker : x # active => ready'[x] = ready[x] /\ busy'[x] = busy[x]
    BY <2>1, <2>2 DEF PoolTypeOK
  <2>6. QED
    BY <2>1, <2>3, <2>4, <2>5, CutKeeps
<1>2. CASE ~busy[active]
  BY <1>2, PoolFrame DEF KillAndPromote
<1>3. QED
  BY <1>1, <1>2

LEMMA CrashKeeps ==
    ASSUME PoolInv, UNCHANGED design, NEW w \in Worker, Crash(w)
    PROVE  PoolInv'
<1>1. /\ child' = [child EXCEPT ![w] = "gone"] /\ job' = CutOff(w) /\ crashes' = crashes + 1
      /\ crashes < MaxCrashes
      /\ UNCHANGED <<active, ready, busy, stopped, stale, spawning, bound>>
  BY DEF Crash
<1>2. PoolTypeOK
  BY DEF PoolInv
<1>3. job' \in [Utterance -> JobState]
  BY <1>1, <1>2 DEF PoolTypeOK, CutOff, JobState
<1>4. PoolTypeOK'
  BY <1>1, <1>2, <1>3, MaxCrashesAssumption DEF PoolTypeOK, Worker, ChildState
<1>5. QED
  BY <1>1, <1>4, CutKeeps

\* Freezing and thawing touch no request.
LEMMA SignalKeeps ==
    ASSUME PoolInv, UNCHANGED design, NEW w \in Worker,
           Cont(w) \/ (StopIfBusy(w) /\ design.atEndpoint = "stop")
    PROVE  PoolInv'
<1>1. CASE UNCHANGED poolVars
  BY <1>1, PoolFrame
<1>2. CASE ~UNCHANGED poolVars
  <2>1. /\ UNCHANGED <<active, ready, busy, spawning, child, job, bound, crashes>>
        /\ stopped' = [stopped EXCEPT ![w] = FALSE]
              \/ (stopped' = [stopped EXCEPT ![w] = TRUE] /\ design.atEndpoint = "stop")
        /\ stale' = stale \/ stale' = [stale EXCEPT ![w] = TRUE]
    BY <1>2 DEF Cont, StopIfBusy
  <2>2. PoolTypeOK'
    BY <2>1 DEF PoolInv, PoolTypeOK, Worker
  <2>3. OneAsker'
    BY <2>1 DEF PoolInv, OneAsker, Worker, Asking
  <2>4. ByDesign'
    BY <2>1 DEF PoolInv, PoolTypeOK, ByDesign, Worker
  <2>5. QED
    BY <2>2, <2>3, <2>4 DEF PoolInv
<1>3. QED
  BY <1>1, <1>2

LEMMA RespawnKeeps ==
    ASSUME PoolInv, UNCHANGED design, RespawnDead
    PROVE  PoolInv'
<1>1. /\ spawning' = [w \in Worker |-> spawning[w] \/ Dead(w)]
      /\ child' = [w \in Worker |-> IF Dead(w) THEN "loading" ELSE child[w]]
      /\ busy' = [w \in Worker |-> busy[w] /\ ~Dead(w)]
      /\ UNCHANGED <<active, ready, stopped, stale, job, bound, crashes>>
  BY DEF RespawnDead
<1>2. PoolTypeOK /\ Worker' = Worker /\ bound \in [Utterance -> Worker]
  BY DEF PoolInv, PoolTypeOK, Worker
<1>3. /\ spawning' \in [Worker -> BOOLEAN] /\ busy' \in [Worker -> BOOLEAN]
      /\ child' \in [Worker -> ChildState]
  BY <1>1, <1>2 DEF PoolTypeOK, Dead, ChildState
<1>4. PoolTypeOK'
  BY <1>1, <1>2, <1>3 DEF PoolTypeOK
<1>5. \A v \in Utterance : job[v] = "asked" => ~Dead(bound[v])
  BY DEF PoolInv, OneAsker, Dead
<1>6. \A w \in Worker : Asking(w)' = Asking(w)
  BY <1>1 DEF Asking
<1>7. ASSUME NEW v \in Utterance, job'[v] = "asked"
      PROVE  /\ ready'[bound'[v]] /\ busy'[bound'[v]]
             /\ child'[bound'[v]] \in {"computing", "replied"}
  BY <1>1, <1>2, <1>5, <1>7 DEF PoolInv, OneAsker
<1>8. ASSUME NEW v \in Utterance, job'[v] = "cut"
      PROVE  child'[bound'[v]] \in {"gone", "loading"}
  BY <1>1, <1>2, <1>8 DEF PoolInv, OneAsker
<1>9. ASSUME NEW x \in Worker
      PROVE  /\ child'[x] \in {"computing", "replied"} => Asking(x)' # {}
             /\ child'[x] = "loading" => ~ready'[x]
  BY <1>1, <1>6 DEF PoolInv, OneAsker, Dead
<1>10. OneAsker'
  BY <1>1, <1>2, <1>7, <1>8, <1>9 DEF PoolInv, OneAsker
<1>11. ByDesign'
  BY <1>1, <1>2 DEF PoolInv, ByDesign
<1>12. QED
  BY <1>4, <1>10, <1>11 DEF PoolInv

\* A process by itself.
LEMMA ChildKeeps ==
    ASSUME PoolInv, UNCHANGED design, NEW w \in Worker,
           Compute(w) \/ Loaded(w) \/ LoadFails(w)
    PROVE  PoolInv'
<1>1. /\ UNCHANGED <<active, busy, stopped, stale, job, bound>>
      /\ child' \in {[child EXCEPT ![w] = "replied"], [child EXCEPT ![w] = "idle"],
                     [child EXCEPT ![w] = "gone"]}
      /\ ready' \in {ready, [ready EXCEPT ![w] = TRUE]}
      /\ spawning' \in {spawning, [spawning EXCEPT ![w] = FALSE]}
      /\ crashes' \in {crashes, crashes + 1} /\ (crashes' # crashes => crashes < MaxCrashes)
  BY DEF Compute, Loaded, LoadFails
<1>2. PoolTypeOK /\ Worker' = Worker /\ bound \in [Utterance -> Worker]
      /\ child \in [Worker -> ChildState] /\ ready \in [Worker -> BOOLEAN]
  BY DEF PoolInv, PoolTypeOK, Worker
<1>3. PoolTypeOK'
  <2>1. crashes' \in 0 .. MaxCrashes
    BY <1>1, <1>2, MaxCrashesAssumption DEF PoolTypeOK
  <2>2. /\ child' \in [Worker -> ChildState] /\ ready' \in [Worker -> BOOLEAN]
        /\ spawning' \in [Worker -> BOOLEAN]
    BY <1>1, <1>2 DEF PoolTypeOK, ChildState
  <2>3. QED
    BY <1>1, <1>2, <2>1, <2>2 DEF PoolTypeOK
<1>4. \A x \in Worker : Asking(x)' = Asking(x)
  BY <1>1 DEF Asking
<1>5. ByDesign'
  BY <1>1, <1>2 DEF PoolInv, ByDesign
<1>6. CASE Compute(w)
  <2>1. child[w] = "computing" /\ child' = [child EXCEPT ![w] = "replied"] /\ ready' = ready
    BY <1>6 DEF Compute
  <2>2. OneAsker'
    BY <1>1, <1>2, <1>4, <2>1 DEF PoolInv, OneAsker
  <2>3. QED
    BY <1>3, <1>5, <2>2 DEF PoolInv
<1>7. CASE Loaded(w)
  <2>1. /\ child[w] = "loading" /\ child' = [child EXCEPT ![w] = "idle"]
        /\ ready' = [ready EXCEPT ![w] = TRUE]
        /\ \A v \in Utterance : job[v] = "cut" => bound[v] # w
    BY <1>7 DEF Loaded
  <2>2. OneAsker'
    BY <1>1, <1>2, <1>4, <2>1 DEF PoolInv, OneAsker
  <2>3. QED
    BY <1>3, <1>5, <2>2 DEF PoolInv
<1>8. CASE LoadFails(w)
  <2>1. child[w] = "loading" /\ child' = [child EXCEPT ![w] = "gone"] /\ ready' = ready
    BY <1>8 DEF LoadFails
  <2>2. OneAsker'
    BY <1>1, <1>2, <1>4, <2>1 DEF PoolInv, OneAsker
  <2>3. QED
    BY <1>3, <1>5, <2>2 DEF PoolInv
<1>9. QED
  BY <1>6, <1>7, <1>8

\* A thread that is not at its worker yet, or has come back from it.
LEMMA QueueKeeps ==
    ASSUME PoolInv, UNCHANGED design, NEW u \in Utterance,
           job[u] \notin {"asked", "cut"},
           NEW s \in JobState \ {"asked", "cut"}, job' = [job EXCEPT ![u] = s],
           bound' = bound \/ bound' = [bound EXCEPT ![u] = active],
           UNCHANGED <<active, ready, busy, stopped, stale, spawning, child, crashes>>
    PROVE  PoolInv'
<1>1. PoolTypeOK /\ Worker' = Worker /\ job \in [Utterance -> JobState]
      /\ bound \in [Utterance -> Worker] /\ active \in Worker
  BY DEF PoolInv, PoolTypeOK, Worker
<1>2. \A v \in Utterance : v # u => job'[v] = job[v] /\ bound'[v] = bound[v]
  BY <1>1
<1>3. job'[u] \notin {"asked", "cut"} /\ (bound'[u] = bound[u] \/ bound'[u] = active)
  BY <1>1
<1>4. \A x \in Worker : Asking(x)' = Asking(x)
  BY <1>2, <1>3 DEF Asking
<1>5. PoolTypeOK'
  BY <1>1 DEF PoolTypeOK
<1>6. OneAsker'
  BY <1>1, <1>2, <1>3, <1>4 DEF PoolInv, OneAsker
<1>7. ByDesign'
  BY <1>1, <1>2, <1>3 DEF PoolInv, ByDesign
<1>8. QED
  BY <1>5, <1>6, <1>7 DEF PoolInv

-----------------------------------------------------------------------------
(* The listening service.                                                  *)

LEMMA Facts ==
    ASSUME IInv
    PROVE  /\ PoolTypeOK /\ OneAsker /\ ByDesign
           /\ said \in Nat /\ utt \in Nat /\ utt <= said /\ said <= MaxUtterances
           /\ MaxUtterances \in Nat /\ task \in {0, utt} /\ (task # 0 => speaking)
           /\ active \in Worker /\ 1 \in Worker /\ design.workers \in 1 .. 2
           /\ job \in [Utterance -> JobState] /\ bound \in [Utterance -> Worker]
           /\ stopped \in [Worker -> BOOLEAN] /\ stale \in [Worker -> BOOLEAN]
           /\ inbox \in Seq({"started", "stopped"})
           /\ speaking \in BOOLEAN /\ talking \in BOOLEAN
           /\ (utt # 0 => utt \in Utterance)
<1>1. PoolTypeOK /\ OneAsker /\ ByDesign
  BY DEF IInv, PoolInv
<1>2. said \in 0 .. MaxUtterances /\ utt \in 0 .. said /\ MaxUtterances \in Nat
  BY MaxUtterancesAssumption DEF IInv, ServiceTypeOK
<1>3. QED
  BY <1>1, <1>2, Workers DEF IInv, ServiceTypeOK, PoolTypeOK, Utterance

\* A step of a thread or a process moves decodes on, and starts none.
LEMMA JobsKeep ==
    ASSUME IInv, PoolInv',
           UNCHANGED <<design, active, stopped, userVars, clock, llmDone, llm, voice, orderly,
                       sttVars>>,
           sounded' \in BOOLEAN,
           workerStart' \in 0 .. MaxUtterances,
           workerStart' # 0 => job'[workerStart'] \in {"entered", "asked", "cut"},
           \A u \in Utterance :
              /\ job'[u] # "none" => job[u] # "none"
              /\ job'[u] \in {"queued", "entered"} => job[u] \in {"queued", "entered"}
              /\ job'[u] \in {"entered", "asked"} =>
                    bound'[u] = active \/ (job[u] \in {"entered", "asked"} /\ bound'[u] = bound[u])
              /\ job'[u] = "asked" =>
                    /\ bound'[u] = bound[u]
                    /\ \/ job[u] = "asked" /\ stale'[bound[u]] = stale[bound[u]]
                       \/ job[u] = "entered" /\ ~stale'[bound[u]]
    PROVE  IInv'
<1>1. UNCHANGED <<inbox, talking, said, splits, utt, speaking, task, words, finalPending,
                  playbackSince, slipped>>
  BY DEF userVars, sttVars
<1>2. ServiceTypeOK'
  BY <1>1 DEF IInv, ServiceTypeOK, InThread, userVars
<1>3. FramesInOrder'
  BY <1>1 DEF IInv, FramesInOrder
<1>4. speaking => utt # 0 /\ utt \in Utterance
  BY Facts DEF IInv, FramesInOrder
<1>5. finalPending => ~speaking /\ utt \in Utterance
  BY Facts DEF IInv, FinalAlone
<1>6. DecodesOfUtterances'
  BY <1>1, <1>4, Facts DEF IInv, DecodesOfUtterances, Past
<1>7. FinalAlone'
  BY <1>1, <1>5, Facts DEF IInv, FinalAlone, DecodesOfUtterances, Past
<1>8. OneByOne'
  BY <1>1 DEF IInv, OneByOne
<1>9. FrozenUntilClosed'
  BY <1>1, Facts DEF IInv, FrozenUntilClosed
<1>10. LeftStale'
  BY <1>1, Facts DEF IInv, LeftStale, DecodesOfUtterances, Past
<1>11. QED
  BY <1>2, <1>3, <1>6, <1>7, <1>8, <1>9, <1>10 DEF IInv

\* The threads and the processes.
LEMMA ThreadPreserves ==
    ASSUME IInv, UNCHANGED design, NEW u \in Utterance,
           CancelQueued(u) \/ Enter(u) \/ AskWorker(u) \/ Return(u)
    PROVE  IInv'
<1>1. PoolInv /\ job \in [Utterance -> JobState] /\ bound \in [Utterance -> Worker]
      /\ active \in Worker /\ stale \in [Worker -> BOOLEAN]
  BY Facts DEF IInv
<1>2. /\ workerStart \in 0 .. MaxUtterances /\ (workerStart # 0 => InThread(workerStart))
      /\ sounded \in BOOLEAN /\ MaxUtterances \in Nat
  BY Facts DEF IInv, ServiceTypeOK
<1>3. workerStart # 0 => workerStart \in Utterance
  BY <1>2 DEF Utterance
<1>4. CASE CancelQueued(u)
  <2>1. /\ job[u] = "queued" /\ job' = [job EXCEPT ![u] = "none"]
        /\ UNCHANGED <<active, ready, busy, stopped, stale, spawning, child, bound, crashes,
                       userVars, turnVars, sttVars, workerStart>>
    BY <1>4 DEF CancelQueued
  <2>2. PoolInv'
    BY <1>1, <2>1, QueueKeeps DEF JobState
  <2>3. workerStart' # 0 => job'[workerStart'] \in {"entered", "asked", "cut"}
    BY <1>1, <1>2, <1>3, <2>1 DEF InThread
  <2>4. QED
    BY <1>1, <1>2, <2>1, <2>2, <2>3, JobsKeep DEF turnVars
<1>5. CASE Enter(u)
  <2>1. /\ job[u] = "queued" /\ job' = [job EXCEPT ![u] = "entered"]
        /\ bound' = [bound EXCEPT ![u] = active] /\ workerStart' = u
        /\ UNCHANGED <<active, ready, busy, stopped, stale, spawning, child, crashes,
                       userVars, turnVars, sttVars>>
    BY <1>5 DEF Enter
  <2>2. PoolInv'
    BY <1>1, <2>1, QueueKeeps DEF JobState
  <2>3. workerStart' \in 0 .. MaxUtterances /\ job'[workerStart'] \in {"entered", "asked", "cut"}
    BY <1>1, <1>2, <2>1 DEF InThread, Utterance
  <2>4. QED
    BY <1>1, <1>2, <2>1, <2>2, <2>3, JobsKeep DEF turnVars
<1>6. CASE AskWorker(u)
  <2>1. /\ Ask(u) /\ job[u] = "entered"
        /\ workerStart' = IF job'[u] = "nothing" THEN StartAfter(u) ELSE workerStart
        /\ UNCHANGED <<userVars, turnVars, sttVars>>
    BY <1>6 DEF AskWorker, Ask
  <2>2. PoolInv'
    BY <1>1, <2>1, AskKeeps
  <2>3. /\ UNCHANGED <<active, stopped, bound>>
        /\ \A v \in Utterance : v # u => job'[v] = job[v]
        /\ job'[u] \in {"asked", "cut", "nothing"}
        /\ job'[u] = "asked" => ~stale'[bound[u]]
        /\ \A v \in Utterance : v # u /\ job[v] = "asked" => stale'[bound[v]] = stale[bound[v]]
    BY <1>1, <2>1 DEF Ask, ReadyIdle, PoolInv, OneAsker
  <2>4. workerStart' \in {0, workerStart}
    BY <2>1 DEF StartAfter
  <2>5. workerStart' # 0 => job'[workerStart'] \in {"entered", "asked", "cut"}
    BY <1>2, <1>3, <2>1, <2>3, <2>4 DEF InThread, StartAfter
  <2>6. workerStart' \in 0 .. MaxUtterances
    BY <1>2, <2>4
  <2>7. QED
    BY <1>1, <1>2, <2>1, <2>2, <2>3, <2>5, <2>6, JobsKeep DEF turnVars
<1>7. CASE Return(u)
  <2>1. Answered(u) /\ workerStart' = StartAfter(u) /\ UNCHANGED <<userVars, turnVars, sttVars>>
    BY <1>7 DEF Return
  <2>2. PoolInv'
    BY <1>1, <2>1, AnsweredKeeps
  <2>3. /\ UNCHANGED <<active, stopped, bound>>
        /\ \A v \in Utterance : v # u => job'[v] = job[v]
        /\ job[u] \in {"asked", "cut"} /\ job'[u] \in {"words", "nothing"}
        /\ job[u] = "cut" => stale' = stale
        /\ \A w \in Worker : w # bound[u] => stale'[w] = stale[w]
    BY <1>1, <2>1 DEF Answered
  <2>4. \A v \in Utterance : v # u /\ job[v] = "asked" => stale'[bound[v]] = stale[bound[v]]
    BY <1>1, <2>3 DEF PoolInv, OneAsker
  <2>5. workerStart' \in {0, workerStart} /\ workerStart' # u
    BY <1>3, <2>1 DEF StartAfter, Utterance
  <2>6. workerStart' # 0 => job'[workerStart'] \in {"entered", "asked", "cut"}
    BY <1>2, <1>3, <2>3, <2>5 DEF InThread
  <2>7. workerStart' \in 0 .. MaxUtterances
    BY <1>2, <2>5
  <2>8. QED
    BY <1>1, <1>2, <2>1, <2>2, <2>3, <2>4, <2>6, <2>7, JobsKeep DEF turnVars
<1>8. QED
  BY <1>4, <1>5, <1>6, <1>7

LEMMA ProcessPreserves ==
    ASSUME IInv, UNCHANGED design,
           (\E w \in Worker : ChildStep(w) \/ ChildFails(w)) \/ FirstAudio
    PROVE  IInv'
<1>1. PoolInv /\ job \in [Utterance -> JobState]
  BY Facts DEF IInv
<1>2. /\ workerStart \in 0 .. MaxUtterances /\ (workerStart # 0 => InThread(workerStart))
      /\ sounded \in BOOLEAN /\ MaxUtterances \in Nat
  BY Facts DEF IInv, ServiceTypeOK
<1>3. workerStart # 0 => workerStart \in Utterance
  BY <1>2 DEF Utterance
<1>4. /\ UNCHANGED <<userVars, clock, llmDone, llm, voice, orderly, sttVars, workerStart>>
      /\ sounded' \in BOOLEAN
  BY <1>2 DEF ChildStep, ChildFails, FirstAudio, turnVars
<1>5. PoolInv'
  BY <1>1, ChildKeeps, CrashKeeps, RespawnKeeps DEF ChildStep, ChildFails, FirstAudio
<1>6. UNCHANGED <<active, stopped, stale, bound>>
  BY DEF ChildStep, ChildFails, FirstAudio, Compute, Loaded, LoadFails, Crash, RespawnDead
<1>7. \A u \in Utterance : job'[u] = job[u] \/ (job[u] = "asked" /\ job'[u] = "cut")
  BY <1>1 DEF ChildStep, ChildFails, FirstAudio, Compute, Loaded, LoadFails, Crash, RespawnDead,
              CutOff, Asking
<1>8. workerStart' # 0 => job'[workerStart'] \in {"entered", "asked", "cut"}
  BY <1>2, <1>3, <1>4, <1>7 DEF InThread
<1>9. QED
  BY <1>2, <1>4, <1>5, <1>6, <1>7, <1>8, JobsKeep

\* The hypothesis task issues its next decode, or takes the result of one.
LEMMA TaskPreserves ==
    ASSUME IInv, UNCHANGED design, Issue \/ Resume
    PROVE  IInv'
<1>1. /\ task # 0 /\ task = utt /\ speaking /\ task \in Utterance /\ utt # 0
      /\ UNCHANGED <<active, ready, busy, stopped, stale, spawning, child, bound, crashes,
                     userVars, turnVars, utt, speaking, task, finalPending, playbackSince,
                     workerStart, slipped>>
  BY Facts DEF Issue, Resume, sttVars
<1>2. /\ job[task] \in {"none", "words", "nothing"}
      /\ job' \in {[job EXCEPT ![task] = "queued"], [job EXCEPT ![task] = "none"]}
      /\ words' \in {words, words \cup {task}}
  BY DEF Issue, Resume, sttVars
<1>3. /\ PoolInv /\ job \in [Utterance -> JobState] /\ bound \in [Utterance -> Worker]
      /\ utt <= said /\ utt \in Nat /\ said \in Nat
  BY Facts DEF IInv
<1>4. PoolInv'
  BY <1>1, <1>2, <1>3, QueueKeeps DEF JobState
<1>5. /\ job'[task] \in {"queued", "none"}
      /\ \A u \in Utterance : u # task => job'[u] = job[u]
  BY <1>1, <1>2, <1>3
<1>6. ServiceTypeOK'
  <2>1. workerStart # 0 => workerStart # task /\ workerStart \in Utterance
    BY <1>2 DEF IInv, ServiceTypeOK, InThread, Utterance
  <2>2. words' \subseteq Utterance
    BY <1>1, <1>2 DEF IInv, ServiceTypeOK
  <2>3. QED
    BY <1>1, <1>5, <2>1, <2>2 DEF IInv, ServiceTypeOK, InThread, userVars, turnVars
<1>7. FramesInOrder'
  BY <1>1 DEF IInv, FramesInOrder, userVars
<1>8. DecodesOfUtterances'
  BY <1>1, <1>2, <1>3, <1>5 DEF IInv, DecodesOfUtterances, Past
<1>9. FinalAlone'
  BY <1>1 DEF IInv, FinalAlone
<1>10. OneByOne'
  BY <1>1 DEF IInv, OneByOne, userVars, turnVars
<1>11. FrozenUntilClosed'
  BY <1>1, <1>5 DEF IInv, FrozenUntilClosed, userVars, turnVars
<1>12. LeftStale'
  BY <1>1, <1>5 DEF IInv, LeftStale, Past
<1>13. QED
  BY <1>4, <1>6, <1>7, <1>8, <1>9, <1>10, <1>11, <1>12 DEF IInv

\* What a step leaves that touches no decode and no worker.
LEMMA DecodeFrame ==
    ASSUME IInv, UNCHANGED <<design, poolVars, utt, speaking, task, words, slipped>>
    PROVE  PoolInv' /\ DecodesOfUtterances' /\ LeftStale'
<1>1. PoolInv'
  BY PoolFrame DEF IInv
<1>2. DecodesOfUtterances'
  BY DEF IInv, DecodesOfUtterances, Past, poolVars
<1>3. LeftStale'
  BY DEF IInv, LeftStale, Past, poolVars
<1>4. QED
  BY <1>1, <1>2, <1>3

\* The VAD hears the user begin.
LEMMA UserStartsPreserves ==
    ASSUME IInv, UNCHANGED design, UserStarts
    PROVE  IInv'
<1>1. /\ ~talking /\ said < MaxUtterances
      /\ talking' = TRUE /\ said' = said + 1 /\ inbox' = Append(inbox, "started")
      /\ clock' = "speaking" /\ sounded' = FALSE /\ llmDone' = FALSE
      /\ UNCHANGED <<poolVars, llm, voice, sttVars, workerStart>>
      /\ splits' \in 0 .. MaxSplits /\ orderly' \in BOOLEAN
      /\ orderly' => orderly /\ clock = "none" /\ ~llm
  <2>1. splits \in 0 .. MaxSplits /\ orderly \in BOOLEAN
    BY DEF IInv, ServiceTypeOK
  <2>2. /\ ~talking /\ said < MaxUtterances
        /\ talking' = TRUE /\ said' = said + 1 /\ inbox' = Append(inbox, "started")
        /\ clock' = "speaking" /\ sounded' = FALSE /\ llmDone' = FALSE
        /\ UNCHANGED <<poolVars, llm, voice, sttVars, workerStart>>
        /\ \/ clock = "none" /\ ~llm /\ UNCHANGED <<splits, orderly>>
           \/ splits < MaxSplits /\ splits' = splits + 1 /\ orderly' = FALSE
    BY DEF UserStarts
  <2>3. splits' \in 0 .. MaxSplits
    BY <2>1, <2>2, MaxSplitsAssumption
  <2>4. orderly' \in BOOLEAN
    BY <2>1, <2>2
  <2>5. orderly' => orderly /\ clock = "none" /\ ~llm
    <3>1. orderly' = FALSE \/ (orderly' = orderly /\ clock = "none" /\ ~llm)
      BY <2>2
    <3>2. QED
      BY <3>1, Zenon
  <2>6. QED
    BY <2>2, <2>3, <2>4, <2>5
<1>2. /\ said \in Nat /\ utt \in Nat /\ utt <= said /\ inbox \in Seq({"started", "stopped"})
      /\ MaxUtterances \in Nat /\ speaking \in BOOLEAN
  BY Facts
<1>3. UNCHANGED <<utt, speaking, task, words, finalPending, playbackSince, slipped>>
  BY <1>1 DEF sttVars
<1>4. PoolInv' /\ DecodesOfUtterances' /\ LeftStale'
  BY <1>1, <1>3, DecodeFrame
<1>5. ServiceTypeOK'
  <2>1. said' \in 0 .. MaxUtterances /\ utt' \in 0 .. said'
    BY <1>1, <1>2, <1>3
  <2>2. inbox' \in Seq({"started", "stopped"})
    BY <1>1, <1>2
  <2>3. QED
    BY <1>1, <1>3, <2>1, <2>2 DEF IInv, ServiceTypeOK, InThread, poolVars
<1>6. FramesInOrder'
  <2>1. /\ Len(inbox') = Len(inbox) + 1 /\ inbox'[Len(inbox')] = "started"
        /\ \A i \in DOMAIN inbox : inbox'[i] = inbox[i]
        /\ DOMAIN inbox' = 1 .. Len(inbox) + 1 /\ DOMAIN inbox = 1 .. Len(inbox)
        /\ Len(inbox) \in Nat /\ (inbox = <<>> <=> Len(inbox) = 0) /\ inbox' # <<>>
    BY <1>1, <1>2
  <2>2. \A i \in DOMAIN inbox' : i + 1 \in DOMAIN inbox' => inbox'[i] # inbox'[i + 1]
    BY <1>1, <2>1 DEF IInv, FramesInOrder
  <2>3. inbox'[1] = IF speaking THEN "stopped" ELSE "started"
    BY <1>1, <1>2, <2>1 DEF IInv, FramesInOrder
  <2>4. 2 * (said' - utt) = Len(inbox') + 1 - (IF speaking THEN 1 ELSE 0)
    BY <1>1, <1>2, <2>1 DEF IInv, FramesInOrder
  <2>5. QED
    BY <1>1, <1>3, <2>1, <2>2, <2>3, <2>4 DEF IInv, FramesInOrder
<1>7. FinalAlone'
  BY <1>1, <1>3 DEF IInv, FinalAlone, poolVars
<1>8. OneByOne'
  <2> SUFFICES ASSUME orderly' PROVE OneByOne'
    BY DEF OneByOne
  <2>1. inbox = <<>> /\ ~finalPending /\ ~llm /\ ~voice
    BY <1>1 DEF IInv, OneByOne
  <2>2. Len(inbox) = 0
    BY <2>1
  <2>3. said = utt /\ ~speaking
    BY <1>1, <1>2, <2>2 DEF IInv, FramesInOrder
  <2>4. QED
    BY <1>1, <1>2, <1>3, <2>1, <2>3 DEF OneByOne
<1>9. FrozenUntilClosed'
  <2>1. \A u \in Utterance : job'[u] = "asked" => u <= utt
    BY <1>4, <1>3 DEF DecodesOfUtterances
  <2>2. \A u \in Utterance : job'[u] = "asked" => u # said'
    BY <1>1, <1>2, <2>1 DEF Utterance
  <2>3. QED
    BY <2>2 DEF FrozenUntilClosed
<1>10. QED
  BY <1>4, <1>5, <1>6, <1>7, <1>8, <1>9 DEF IInv

\* The VAD hears the user end.
LEMMA UserStopsPreserves ==
    ASSUME IInv, UNCHANGED design, UserStops
    PROVE  IInv'
<1>1. /\ talking /\ talking' = FALSE /\ inbox' = Append(inbox, "stopped")
      /\ clock' = IF clock = "speaking" THEN "ended" ELSE clock
      /\ UNCHANGED <<poolVars, said, splits, sounded, llmDone, llm, voice, orderly, sttVars,
                     workerStart>>
  BY DEF UserStops
<1>2. /\ said \in Nat /\ utt \in Nat /\ utt <= said /\ inbox \in Seq({"started", "stopped"})
      /\ speaking \in BOOLEAN
  BY Facts
<1>3. UNCHANGED <<utt, speaking, task, words, finalPending, playbackSince, slipped>>
  BY <1>1 DEF sttVars
<1>4. PoolInv' /\ DecodesOfUtterances' /\ LeftStale'
  BY <1>1, <1>3, DecodeFrame
<1>5. inbox' \in Seq({"started", "stopped"}) /\ clock' \in {"none", "speaking", "ended"}
      /\ (clock' = "none" <=> clock = "none")
  BY <1>1, <1>2 DEF IInv, ServiceTypeOK
<1>6. ServiceTypeOK'
  BY <1>1, <1>3, <1>5 DEF IInv, ServiceTypeOK, InThread, poolVars
<1>7. FramesInOrder'
  <2>1. /\ Len(inbox') = Len(inbox) + 1 /\ inbox'[Len(inbox')] = "stopped"
        /\ \A i \in DOMAIN inbox : inbox'[i] = inbox[i]
        /\ DOMAIN inbox' = 1 .. Len(inbox) + 1 /\ DOMAIN inbox = 1 .. Len(inbox)
        /\ Len(inbox) \in Nat /\ (inbox = <<>> <=> Len(inbox) = 0) /\ inbox' # <<>>
    BY <1>1, <1>2
  <2>2. \A i \in DOMAIN inbox' : i + 1 \in DOMAIN inbox' => inbox'[i] # inbox'[i + 1]
    BY <1>1, <2>1 DEF IInv, FramesInOrder
  <2>3. 2 * (said' - utt) = Len(inbox') - (IF speaking THEN 1 ELSE 0)
    BY <1>1, <1>2, <2>1 DEF IInv, FramesInOrder
  <2>4. inbox'[1] = IF speaking THEN "stopped" ELSE "started"
    <3>1. CASE inbox = <<>>
      <4>1. speaking
        BY <1>1, <1>2, <2>1, <3>1 DEF IInv, FramesInOrder
      <4>2. QED
        BY <2>1, <3>1, <4>1
    <3>2. CASE inbox # <<>>
      BY <1>1, <2>1, <3>2 DEF IInv, FramesInOrder
    <3>3. QED
      BY <3>1, <3>2
  <2>5. QED
    BY <1>1, <1>3, <2>1, <2>2, <2>3, <2>4 DEF IInv, FramesInOrder
<1>8. FinalAlone'
  BY <1>1, <1>3 DEF IInv, FinalAlone, poolVars
<1>9. OneByOne'
  BY <1>1, <1>3, <1>5 DEF IInv, OneByOne
<1>10. FrozenUntilClosed'
  BY <1>1, <1>3, <1>5 DEF IInv, FrozenUntilClosed, poolVars
<1>11. QED
  BY <1>4, <1>6, <1>7, <1>8, <1>9, <1>10 DEF IInv

\* The frame at the head is taken; the next one, if there is one, is of the
\* other kind.
LEMMA TakeFrame ==
    ASSUME IInv, inbox # <<>>, inbox' = Tail(inbox), UNCHANGED <<talking, said>>,
           speaking' \in BOOLEAN, speaking' = (Head(inbox) = "started"),
           utt' = IF Head(inbox) = "started" THEN utt + 1 ELSE utt
    PROVE  /\ FramesInOrder' /\ inbox' \in Seq({"started", "stopped"})
           /\ Head(inbox) = "started" => ~speaking /\ utt < said
           /\ Head(inbox) = "stopped" => speaking
<1>1. /\ said \in Nat /\ utt \in Nat /\ utt <= said /\ inbox \in Seq({"started", "stopped"})
      /\ speaking \in BOOLEAN /\ talking \in BOOLEAN
  BY Facts
<1>2. /\ Head(inbox) = inbox[1] /\ Head(inbox) \in {"started", "stopped"}
      /\ Len(inbox') = Len(inbox) - 1 /\ Len(inbox) \in Nat \ {0}
      /\ inbox' \in Seq({"started", "stopped"})
      /\ \A i \in 1 .. Len(inbox) - 1 : inbox'[i] = inbox[i + 1]
      /\ DOMAIN inbox' = 1 .. Len(inbox) - 1 /\ DOMAIN inbox = 1 .. Len(inbox)
      /\ (inbox' = <<>> <=> Len(inbox) = 1)
      /\ \A i \in DOMAIN inbox' : inbox'[i] \in {"started", "stopped"}
  <2>1. inbox' \in Seq({"started", "stopped"}) /\ Len(inbox) \in Nat \ {0}
        /\ DOMAIN inbox = 1 .. Len(inbox)
    BY <1>1
  <2>2. \A i \in DOMAIN inbox' : inbox'[i] \in {"started", "stopped"}
    BY <2>1
  <2>3. Len(inbox') = Len(inbox) - 1 /\ (\A i \in 1 .. Len(inbox) - 1 : inbox'[i] = inbox[i + 1])
        /\ DOMAIN inbox' = 1 .. Len(inbox) - 1
    BY <1>1, <2>1
  <2>4. inbox' = <<>> <=> Len(inbox) = 1
    BY <2>1, <2>3
  <2>5. Head(inbox) = inbox[1] /\ Head(inbox) \in {"started", "stopped"}
    BY <1>1, <2>1
  <2>6. QED
    BY <2>1, <2>2, <2>3, <2>4, <2>5
<1>3. speaking' # speaking /\ (Head(inbox) = "started" <=> ~speaking)
  BY <1>2 DEF IInv, FramesInOrder
<1>4. 2 * (said - utt) = Len(inbox) + (IF talking THEN 1 ELSE 0) - (IF speaking THEN 1 ELSE 0)
  BY DEF IInv, FramesInOrder
<1>5. Head(inbox) = "started" => utt < said
  BY <1>1, <1>2, <1>3, <1>4
<1>6. \A i \in DOMAIN inbox' : i + 1 \in DOMAIN inbox' => inbox'[i] # inbox'[i + 1]
  BY <1>2 DEF IInv, FramesInOrder
<1>7. inbox' # <<>> => inbox'[1] = IF speaking' THEN "stopped" ELSE "started"
  <2>1. inbox' # <<>> => inbox'[1] # inbox[1] /\ inbox'[1] \in {"started", "stopped"}
    BY <1>2 DEF IInv, FramesInOrder
  <2>2. QED
    BY <1>2, <2>1
<1>8. inbox' # <<>> => inbox'[Len(inbox')] = IF talking THEN "started" ELSE "stopped"
  BY <1>2 DEF IInv, FramesInOrder
<1>9. (speaking' /\ utt' = utt + 1 /\ ~speaking) \/ (~speaking' /\ utt' = utt /\ speaking)
  <2>1. CASE Head(inbox) = "started"
    BY <1>3, <2>1
  <2>2. CASE Head(inbox) # "started"
    BY <1>3, <2>2
  <2>3. QED
    BY <2>1, <2>2
<1>10. /\ 2 * (said - utt')
             = Len(inbox') + (IF talking THEN 1 ELSE 0) - (IF speaking' THEN 1 ELSE 0)
       /\ speaking' => utt' # 0
  BY <1>1, <1>2, <1>4, <1>9
<1>11. FramesInOrder'
  BY <1>6, <1>7, <1>8, <1>9, <1>10 DEF FramesInOrder
<1>12. QED
  BY <1>2, <1>3, <1>5, <1>11

LEMMA MaybeContKeeps ==
    ASSUME PoolInv, UNCHANGED design,
           NEW spoken \in BOOLEAN, NEW pending \in BOOLEAN, NEW played \in BOOLEAN,
           MaybeCont(spoken, pending, played)
    PROVE  /\ PoolInv'
           /\ UNCHANGED <<active, ready, busy, stale, spawning, child, job, bound, crashes>>
           /\ \A w \in Worker : stopped'[w] => stopped[w]
           /\ ~played \/ pending => stopped' = stopped
<1>1. active \in Worker /\ stopped \in [Worker -> BOOLEAN]
  BY DEF PoolInv, PoolTypeOK
<1>2. CASE MayCont(spoken, pending, played)
  <2>1. Cont(active) /\ played /\ ~pending
    BY <1>2 DEF MaybeCont, MayCont
  <2>2. PoolInv'
    BY <1>1, <2>1, SignalKeeps
  <2>3. QED
    BY <1>1, <2>1, <2>2 DEF Cont
<1>3. CASE ~MayCont(spoken, pending, played)
  <2>1. UNCHANGED poolVars
    BY <1>3 DEF MaybeCont
  <2>2. QED
    BY <2>1, PoolFrame DEF poolVars
<1>4. QED
  BY <1>2, <1>3

\* The service opens a turn.
LEMMA HandleStartedPreserves ==
    ASSUME IInv, UNCHANGED design, HandleStarted
    PROVE  IInv'
<1> DEFINE thaws == design.contAtTurnOpen /\ stopped[active]
<1>1. /\ ~finalPending /\ inbox # <<>> /\ Head(inbox) = "started" /\ inbox' = Tail(inbox)
      /\ utt' = utt + 1 /\ speaking' = TRUE
      /\ IF thaws THEN Cont(active) ELSE UNCHANGED poolVars
      /\ words' = {}
      /\ task' = IF WorkerOK(thaws) THEN utt + 1 ELSE 0
      /\ UNCHANGED <<talking, said, splits, turnVars, finalPending, playbackSince, workerStart,
                     slipped>>
  BY DEF HandleStarted, WordsAtOpen
<1>2. /\ said \in Nat /\ utt \in Nat /\ said <= MaxUtterances /\ MaxUtterances \in Nat
      /\ active \in Worker /\ stopped \in [Worker -> BOOLEAN] /\ design.workers \in 1 .. 2
      /\ PoolInv
  BY Facts DEF IInv
<1>3. /\ FramesInOrder' /\ inbox' \in Seq({"started", "stopped"})
      /\ ~speaking /\ utt < said
  BY <1>1, TakeFrame
<1>4. /\ PoolInv'
      /\ UNCHANGED <<active, ready, busy, stale, spawning, child, job, bound, crashes>>
      /\ thaws => stopped'[active] = FALSE
      /\ ~thaws => stopped' = stopped
  <2>1. CASE thaws
    BY <1>1, <1>2, <2>1, SignalKeeps DEF Cont
  <2>2. CASE ~thaws
    BY <1>1, <1>2, <2>2, PoolFrame DEF poolVars
  <2>3. QED
    BY <2>1, <2>2
<1>5. utt + 1 \in Utterance
  BY <1>2, <1>3 DEF Utterance
<1>6. \A u \in Utterance : job[u] # "none" => u < utt' /\ Past(u) /\ Past(u)'
  <2>1. \A u \in Utterance : job[u] # "none" => u <= utt
    BY DEF IInv, DecodesOfUtterances
  <2>2. QED
    BY <1>1, <1>2, <1>3, <2>1 DEF Past, Utterance
<1>7. job[utt + 1] = "none"
  BY <1>1, <1>5, <1>6, <1>2
<1>8. ServiceTypeOK'
  BY <1>1, <1>2, <1>3, <1>4 DEF IInv, ServiceTypeOK, InThread, turnVars
<1>9. DecodesOfUtterances'
  BY <1>1, <1>2, <1>4, <1>5, <1>6, <1>7 DEF IInv, DecodesOfUtterances, Utterance
<1>10. FinalAlone'
  BY <1>1 DEF FinalAlone
<1>11. OneByOne'
  BY <1>1, <1>2, <1>3 DEF IInv, OneByOne, turnVars
<1>12. FrozenUntilClosed'
  BY <1>1, <1>2, <1>3, <1>4, <1>6 DEF FrozenUntilClosed, Utterance
<1>13. LeftStale'
  <2> SUFFICES ASSUME design.atEndpoint = "stop", design.workers = 1
               PROVE  /\ task' # 0 => ~stopped'[1]
                      /\ \A u \in Utterance : job'[u] = "asked" /\ Past(u)' /\ u \notin slipped' =>
                            stale'[bound'[u]]
    BY <1>4 DEF LeftStale
  <2>1. active = 1
    BY <1>2 DEF PoolInv, ByDesign
  <2>2. task' # 0 => ~stopped[active] \/ thaws
    BY <1>1 DEF WorkerOK
  <2>3. task' # 0 => ~stopped'[1]
    BY <1>4, <2>1, <2>2
  <2>4. QED
    BY <1>1, <1>4, <1>6, <2>3 DEF IInv, LeftStale
<1>14. QED
  BY <1>3, <1>4, <1>8, <1>9, <1>10, <1>11, <1>12, <1>13 DEF IInv

\* The endpoint: the utterance's decode is frozen, killed or left to race.
LEMMA HandleStoppedPreserves ==
    ASSUME IInv, UNCHANGED design, HandleStopped
    PROVE  IInv'
<1> DEFINE frozen == design.atEndpoint = "stop" /\ Stoppable(active)
           played == playbackSince /\ ~frozen
<1>1. /\ ~finalPending /\ inbox # <<>> /\ Head(inbox) = "stopped" /\ inbox' = Tail(inbox)
      /\ speaking' = FALSE /\ task' = 0 /\ playbackSince' = played
      /\ slipped' = IF job[utt] \in {"queued", "entered"} THEN slipped \cup {utt} ELSE slipped
      /\ UNCHANGED <<talking, said, splits, turnVars, utt, words, workerStart>>
  BY DEF HandleStopped
<1>2. PICK enough \in BOOLEAN :
         /\ finalPending' = enough
         /\ CASE frozen -> StopIfBusy(active)
              [] design.atEndpoint = "kill" /\ task # 0 -> KillAndPromote
              [] OTHER -> IF enough THEN UNCHANGED poolVars
                                    ELSE MaybeCont(FALSE, FALSE, played)
  BY DEF HandleStopped
<1>3. /\ said \in Nat /\ utt \in Nat /\ utt <= said
      /\ active \in Worker /\ stopped \in [Worker -> BOOLEAN] /\ stale \in [Worker -> BOOLEAN]
      /\ job \in [Utterance -> JobState] /\ bound \in [Utterance -> Worker] /\ PoolInv
      /\ 1 \in Worker
  BY Facts DEF IInv
<1>4. FramesInOrder' /\ inbox' \in Seq({"started", "stopped"}) /\ speaking
  BY <1>1, TakeFrame
<1>5. utt # 0 /\ utt \in Utterance /\ task \in {0, utt}
  BY <1>4, Facts DEF IInv, FramesInOrder
<1>6. job[utt] = "asked" => task # 0 /\ bound[utt] = active /\ busy[active] /\ ~stale[active]
  BY <1>3, <1>4, <1>5 DEF IInv, DecodesOfUtterances, PoolInv, OneAsker
<1>7. played \in BOOLEAN
  OBVIOUS
<1>8. /\ PoolInv'
      /\ \A u \in Utterance : job'[u] = job[u] \/ (job[u] = "asked" /\ job'[u] = "cut")
      /\ UNCHANGED bound
      /\ \A w \in Worker : stale[w] => stale'[w]
      /\ frozen => stopped'[active] /\ stale'[active]
      /\ ~frozen => stale' = stale /\ \A w \in Worker : stopped'[w] => stopped[w]
      /\ ~frozen /\ enough => stopped' = stopped
      /\ design.atEndpoint = "kill" => job'[utt] # "asked"
  <2>1. CASE frozen
    <3>1. StopIfBusy(active) /\ Stoppable(active) /\ design.atEndpoint = "stop"
      BY <1>2, <2>1
    <3>2. PoolInv'
      BY <1>3, <3>1, SignalKeeps
    <3>3. QED
      BY <1>3, <2>1, <3>1, <3>2 DEF StopIfBusy
  <2>2. CASE ~frozen /\ design.atEndpoint = "kill" /\ task # 0
    <3>1. KillAndPromote
      BY <1>2, <2>2
    <3>2. PoolInv'
      BY <1>3, <2>2, <3>1, KillKeeps
    <3>3. /\ UNCHANGED <<bound, stale, stopped>>
          /\ job' = IF busy[active] THEN CutOff(active) ELSE job
      BY <3>1 DEF KillAndPromote, poolVars
    <3>4. \A u \in Utterance : job'[u] = job[u] \/ (job[u] = "asked" /\ job'[u] = "cut")
      BY <1>3, <3>3 DEF CutOff, Asking
    <3>5. job'[utt] # "asked"
      BY <1>3, <1>5, <1>6, <3>3 DEF CutOff, Asking
    <3>6. QED
      BY <2>2, <3>2, <3>3, <3>4, <3>5
  <2>3. CASE ~frozen /\ ~(design.atEndpoint = "kill" /\ task # 0)
    <3>1. IF enough THEN UNCHANGED poolVars ELSE MaybeCont(FALSE, FALSE, played)
      BY <1>2, <2>3
    <3>2. design.atEndpoint = "kill" => job[utt] # "asked"
      BY <1>6, <2>3
    <3>3. CASE enough
      <4>1. UNCHANGED poolVars
        BY <3>1, <3>3
      <4>2. QED
        BY <1>3, <2>3, <3>2, <4>1, PoolFrame DEF poolVars
    <3>4. CASE ~enough
      <4>1. MaybeCont(FALSE, FALSE, played)
        BY <3>1, <3>4
      <4>2. QED
        BY <1>3, <1>7, <2>3, <3>2, <3>4, <4>1, MaybeContKeeps
    <3>5. QED
      BY <3>3, <3>4
  <2>4. QED
    BY <2>1, <2>2, <2>3
<1> HIDE DEF frozen, played
<1>9. ServiceTypeOK'
  <2>1. playbackSince' \in BOOLEAN /\ finalPending' \in BOOLEAN
    BY <1>1, <1>2, <1>7
  <2>2. slipped' \subseteq Utterance
    BY <1>1, <1>5 DEF IInv, ServiceTypeOK
  <2>3. workerStart # 0 => workerStart \in Utterance /\ InThread(workerStart)
    BY DEF IInv, ServiceTypeOK, Utterance
  <2>4. workerStart' # 0 => job'[workerStart'] \in {"entered", "asked", "cut"}
    BY <1>1, <1>8, <2>3 DEF InThread
  <2>5. QED
    BY <1>1, <1>4, <2>1, <2>2, <2>4 DEF IInv, ServiceTypeOK, InThread, turnVars
<1>10. \A u \in Utterance : job[u] # "none" /\ u # utt => Past(u)
  BY <1>3, <1>5 DEF IInv, DecodesOfUtterances, Past, Utterance
<1>11. DecodesOfUtterances'
  BY <1>1, <1>3, <1>5, <1>8, <1>10 DEF IInv, DecodesOfUtterances, Past
<1>12. FinalAlone'
  <2> SUFFICES ASSUME enough, design.atEndpoint # "race", job'[utt] = "asked"
               PROVE  stopped'[bound[utt]]
    BY <1>1, <1>2, <1>5, <1>8 DEF FinalAlone
  <2>1. job[utt] = "asked" /\ design.atEndpoint = "stop"
    BY <1>3, <1>5, <1>8, Workers DEF PoolInv
  <2>2. frozen \/ stopped[active]
    BY <1>6, <2>1 DEF frozen, Stoppable
  <2>3. QED
    BY <1>6, <1>8, <2>1, <2>2
<1>13. OneByOne'
  <2> SUFFICES ASSUME orderly PROVE OneByOne'
    BY <1>1 DEF OneByOne, turnVars
  <2>1. said = utt
    BY <1>4 DEF IInv, OneByOne
  <2>2. 2 * (said - utt) = Len(inbox') + (IF talking THEN 1 ELSE 0) - 0
    BY <1>1, <1>4 DEF FramesInOrder
  <2>3. ~talking /\ Len(inbox') = 0
    BY <1>3, <1>4, <2>1, <2>2
  <2>4. inbox' = <<>>
    BY <1>4, <2>3
  <2>5. ~llm /\ ~voice /\ ~llmDone /\ clock # "none"
    BY <1>1 DEF IInv, OneByOne
  <2>6. QED
    BY <1>1, <1>3, <2>1, <2>3, <2>4, <2>5 DEF OneByOne, turnVars
<1>14. FrozenUntilClosed'
  <2> SUFFICES ASSUME NEW u \in Utterance, job'[u] = "asked", u = said, stale'[bound[u]]
               PROVE  stopped'[bound[u]] /\ ~playbackSince'
    BY <1>1, <1>8 DEF FrozenUntilClosed
  <2>1. job[u] = "asked" /\ u = utt
    BY <1>3, <1>8 DEF IInv, DecodesOfUtterances
  <2>2. frozen
    BY <1>6, <1>8, <2>1
  <2>3. QED
    BY <1>1, <1>6, <1>8, <2>1, <2>2 DEF played
<1>15. LeftStale'
  <2> SUFFICES ASSUME design.atEndpoint = "stop", design.workers = 1,
                      NEW u \in Utterance, job'[u] = "asked", u \notin slipped'
               PROVE  stale'[bound[u]]
    BY <1>1, <1>8 DEF LeftStale
  <2>1. job[u] = "asked" /\ u \notin slipped
    BY <1>1, <1>8
  <2>2. CASE u = utt
    <3>1. active = 1
      BY <1>3 DEF PoolInv, ByDesign
    <3>2. ~stopped[active]
      BY <1>4, <1>6, <2>1, <2>2, <3>1 DEF IInv, LeftStale
    <3>3. frozen
      BY <1>6, <2>1, <2>2, <3>2 DEF frozen, Stoppable
    <3>4. QED
      BY <1>6, <1>8, <2>1, <2>2, <3>3
  <2>3. CASE u # utt
    <3>1. stale[bound[u]]
      BY <1>10, <2>1, <2>3 DEF IInv, LeftStale
    <3>2. QED
      BY <1>3, <1>8, <3>1
  <2>4. QED
    BY <2>2, <2>3
<1>16. QED
  BY <1>4, <1>8, <1>9, <1>11, <1>12, <1>13, <1>14, <1>15 DEF IInv

\* The final lands, and a reply may begin.
LEMMA FinalLandsPreserves ==
    ASSUME IInv, UNCHANGED design, FinalLands
    PROVE  IInv'
<1>1. /\ finalPending /\ finalPending' = FALSE
      /\ MaybeCont(speaking, FALSE, playbackSince)
      /\ UNCHANGED <<userVars, clock, sounded, llmDone, orderly, utt, speaking, task, words,
                     playbackSince, workerStart, slipped>>
  BY DEF FinalLands
<1>2. llm \in BOOLEAN /\ voice \in BOOLEAN /\ playbackSince \in BOOLEAN /\ speaking \in BOOLEAN
  BY DEF IInv, ServiceTypeOK
<1>3. llm' \in BOOLEAN /\ voice' \in BOOLEAN
  <2>1. PICK text \in BOOLEAN : llm' = (llm \/ text) /\ voice' = (voice \/ (text /\ ~llm))
    BY DEF FinalLands
  <2>2. QED
    BY <1>2, <2>1
<1>4. /\ PoolInv'
      /\ UNCHANGED <<active, ready, busy, stale, spawning, child, job, bound, crashes>>
      /\ \A w \in Worker : stopped'[w] => stopped[w]
      /\ ~playbackSince => stopped' = stopped
  BY <1>1, <1>2, MaybeContKeeps DEF IInv
<1>5. ServiceTypeOK'
  BY <1>1, <1>3, <1>4 DEF IInv, ServiceTypeOK, InThread, userVars
<1>6. FramesInOrder'
  BY <1>1 DEF IInv, FramesInOrder, userVars
<1>7. DecodesOfUtterances'
  BY <1>1, <1>4 DEF IInv, DecodesOfUtterances, Past
<1>8. FinalAlone'
  BY <1>1 DEF FinalAlone
<1>9. OneByOne'
  BY <1>1 DEF IInv, OneByOne, userVars
<1>10. FrozenUntilClosed'
  BY <1>1, <1>4 DEF IInv, FrozenUntilClosed, userVars
<1>11. LeftStale'
  BY <1>1, <1>4, Facts DEF IInv, LeftStale, Past
<1>12. QED
  BY <1>4, <1>5, <1>6, <1>7, <1>8, <1>9, <1>10, <1>11 DEF IInv

\* A turn is closed.
LEMMA ClosePreserves ==
    ASSUME IInv, UNCHANGED design, CloseTurn,
           UNCHANGED <<userVars, sounded, llmDone, llm, utt, speaking, task, words,
                       finalPending, workerStart, slipped>>,
           ~llm, voice' = FALSE, orderly' \in BOOLEAN,
           orderly' => orderly /\ ~talking /\ inbox = <<>> /\ ~finalPending
    PROVE  IInv'
<1>1. clock' = "none" /\ playbackSince' = TRUE /\ MaybeCont(speaking, finalPending, TRUE)
  BY DEF CloseTurn
<1>2. speaking \in BOOLEAN /\ finalPending \in BOOLEAN
  BY DEF IInv, ServiceTypeOK
<1>3. /\ PoolInv'
      /\ UNCHANGED <<active, ready, busy, stale, spawning, child, job, bound, crashes>>
      /\ \A w \in Worker : stopped'[w] => stopped[w]
      /\ finalPending => stopped' = stopped
  BY <1>1, <1>2, MaybeContKeeps DEF IInv
<1>4. ServiceTypeOK'
  BY <1>1, <1>3 DEF IInv, ServiceTypeOK, InThread, userVars
<1>5. FramesInOrder'
  BY DEF IInv, FramesInOrder, userVars
<1>6. DecodesOfUtterances'
  BY <1>3 DEF IInv, DecodesOfUtterances, Past
<1>7. FinalAlone'
  BY <1>3 DEF IInv, FinalAlone
<1>8. OneByOne'
  BY <1>1 DEF IInv, OneByOne, userVars
<1>9. FrozenUntilClosed'
  BY <1>1 DEF FrozenUntilClosed
<1>10. LeftStale'
  BY <1>3, Facts DEF IInv, LeftStale, Past
<1>11. QED
  BY <1>3, <1>4, <1>5, <1>6, <1>7, <1>8, <1>9, <1>10 DEF IInv

\* The reply is generated and played, or nothing is left to wait for.
LEMMA ReplyPreserves ==
    ASSUME IInv, UNCHANGED design, LlmFinishes \/ ReplyEnds \/ Stuck
    PROVE  IInv'
<1>1. /\ llm \in BOOLEAN /\ voice \in BOOLEAN /\ orderly \in BOOLEAN /\ llmDone \in BOOLEAN
      /\ talking \in BOOLEAN
  BY DEF IInv, ServiceTypeOK
<1>2. CASE LlmFinishes
  <2>1. /\ llm /\ llm' = FALSE
        /\ \E ok \in BOOLEAN : llmDone' = (llmDone \/ (ok /\ clock # "none"))
        /\ UNCHANGED <<poolVars, userVars, clock, sounded, voice, orderly, sttVars, workerStart>>
    BY <1>2 DEF LlmFinishes
  <2>2. PoolInv' /\ DecodesOfUtterances' /\ LeftStale'
    BY <2>1, DecodeFrame DEF sttVars
  <2>3. ServiceTypeOK'
    BY <1>1, <2>1 DEF IInv, ServiceTypeOK, InThread, userVars, sttVars, poolVars
  <2>4. FramesInOrder' /\ FinalAlone' /\ OneByOne' /\ FrozenUntilClosed'
    BY <2>1 DEF IInv, FramesInOrder, FinalAlone, OneByOne, FrozenUntilClosed, userVars,
                sttVars, poolVars
  <2>5. QED
    BY <2>2, <2>3, <2>4 DEF IInv
<1>3. CASE ReplyEnds /\ clock # "none" /\ llmDone
  <2>1. /\ ~llm /\ voice' = FALSE /\ CloseTurn
        /\ UNCHANGED <<userVars, sounded, llmDone, llm, orderly, utt, speaking, task, words,
                       finalPending, workerStart, slipped>>
    BY <1>3 DEF ReplyEnds
  <2>2. orderly' \in BOOLEAN
        /\ (orderly' => orderly /\ ~talking /\ inbox = <<>> /\ ~finalPending)
    BY <1>1, <1>3, <2>1 DEF IInv, OneByOne
  <2>3. QED
    BY <2>1, <2>2, ClosePreserves
<1>4. CASE ReplyEnds /\ ~(clock # "none" /\ llmDone)
  <2>1. /\ voice /\ voice' = FALSE /\ UNCHANGED <<clock, playbackSince, poolVars>>
        /\ UNCHANGED <<userVars, sounded, llmDone, llm, orderly, utt, speaking, task, words,
                       finalPending, workerStart, slipped>>
    BY <1>4 DEF ReplyEnds
  <2>2. PoolInv' /\ DecodesOfUtterances' /\ LeftStale'
    BY <2>1, DecodeFrame
  <2>3. ServiceTypeOK'
    BY <1>1, <2>1 DEF IInv, ServiceTypeOK, InThread, userVars, poolVars
  <2>4. FramesInOrder' /\ FinalAlone' /\ OneByOne' /\ FrozenUntilClosed'
    BY <2>1 DEF IInv, FramesInOrder, FinalAlone, OneByOne, FrozenUntilClosed, userVars, poolVars
  <2>5. QED
    BY <2>2, <2>3, <2>4 DEF IInv
<1>5. CASE Stuck
  <2>1. /\ ~llm /\ ~voice /\ inbox = <<>> /\ ~finalPending /\ CloseTurn
        /\ orderly' = (orderly /\ ~talking)
        /\ UNCHANGED <<userVars, sounded, llmDone, llm, voice, utt, speaking, task, words,
                       finalPending, workerStart, slipped>>
    BY <1>5 DEF Stuck, decoding
  <2>2. voice' = FALSE /\ orderly' \in BOOLEAN /\ (orderly' => orderly /\ ~talking)
    BY <1>1, <2>1
  <2>3. QED
    BY <2>1, <2>2, ClosePreserves
<1>6. QED
  BY <1>2, <1>3, <1>4, <1>5

LEMMA InitEstablishes == Init => IInv
<1> SUFFICES ASSUME Init PROVE IInv
  OBVIOUS
<1>1. /\ PoolInit /\ inbox = <<>> /\ talking = FALSE /\ said = 0 /\ splits = 0
      /\ clock = "none" /\ sounded = FALSE /\ llmDone = FALSE /\ llm = FALSE /\ voice = FALSE
      /\ utt = 0 /\ speaking = FALSE /\ task = 0 /\ words = {} /\ finalPending = FALSE
      /\ playbackSince = TRUE /\ workerStart = 0 /\ slipped = {} /\ orderly = TRUE
  BY DEF Init
<1>2. design \in Designs /\ design.workers \in 1 .. 2 /\ 1 \in Worker
  BY <1>1, DesignsAssumption DEF PoolInit, Worker
<1>3. PoolTypeOK
  <2>1. 0 \in 0 .. MaxCrashes
    BY MaxCrashesAssumption
  <2>2. QED
    BY <1>1, <1>2, <2>1 DEF PoolInit, PoolTypeOK, ChildState, JobState
<1>4. OneAsker /\ ByDesign
  BY <1>1, <1>2 DEF PoolInit, OneAsker, ByDesign
<1>5. ServiceTypeOK
  <2>1. <<>> \in Seq({"started", "stopped"}) /\ 0 \in 0 .. MaxUtterances /\ 0 \in 0 .. MaxSplits
        /\ 0 \in 0 .. 0
    BY MaxUtterancesAssumption, MaxSplitsAssumption
  <2>2. QED
    BY <1>1, <2>1 DEF ServiceTypeOK
<1>6. FramesInOrder
  <2>1. Len(inbox) = 0 /\ DOMAIN inbox = {}
    BY <1>1
  <2>2. QED
    BY <1>1, <2>1 DEF FramesInOrder
<1>7. DecodesOfUtterances /\ FinalAlone /\ OneByOne /\ FrozenUntilClosed /\ LeftStale
  BY <1>1 DEF PoolInit, DecodesOfUtterances, FinalAlone, OneByOne, FrozenUntilClosed, LeftStale
<1>8. QED
  BY <1>3, <1>4, <1>5, <1>6, <1>7 DEF IInv, PoolInv

LEMMA NextPreserves == IInv /\ [Next]_<<design, vars>> => IInv'
<1> SUFFICES ASSUME IInv, [Next]_<<design, vars>> PROVE IInv'
  OBVIOUS
<1>1. CASE Next
  <2>1. UNCHANGED design
    BY <1>1 DEF Next
  <2>2. CASE UserStarts \/ UserStops
    BY <2>1, <2>2, UserStartsPreserves, UserStopsPreserves
  <2>3. CASE HandleStarted \/ HandleStopped \/ FinalLands
    BY <2>1, <2>3, HandleStartedPreserves, HandleStoppedPreserves, FinalLandsPreserves
  <2>4. CASE Issue \/ Resume
    BY <2>1, <2>4, TaskPreserves
  <2>5. CASE \E u \in Utterance : CancelQueued(u) \/ Enter(u) \/ AskWorker(u) \/ Return(u)
    BY <2>1, <2>5, ThreadPreserves
  <2>6. CASE (\E w \in Worker : ChildStep(w) \/ ChildFails(w)) \/ FirstAudio
    BY <2>1, <2>6, ProcessPreserves
  <2>7. CASE LlmFinishes \/ ReplyEnds \/ Stuck
    BY <2>1, <2>7, ReplyPreserves
  <2>8. QED
    BY <1>1, <2>2, <2>3, <2>4, <2>5, <2>6, <2>7 DEF Next
<1>2. CASE UNCHANGED <<design, vars>>
  <2>1. UNCHANGED <<design, poolVars, userVars, turnVars, sttVars, workerStart>>
    BY <1>2 DEF vars
  <2>2. PoolInv' /\ DecodesOfUtterances' /\ LeftStale'
    BY <2>1, DecodeFrame DEF sttVars
  <2>3. ServiceTypeOK'
    BY <2>1 DEF IInv, ServiceTypeOK, InThread, userVars, turnVars, sttVars, poolVars
  <2>4. FramesInOrder' /\ FinalAlone' /\ OneByOne' /\ FrozenUntilClosed'
    BY <2>1 DEF IInv, FramesInOrder, FinalAlone, OneByOne, FrozenUntilClosed, userVars,
                turnVars, sttVars, poolVars
  <2>5. QED
    BY <2>2, <2>3, <2>4 DEF IInv
<1>3. QED
  BY <1>1, <1>2

-----------------------------------------------------------------------------
(* Who loads engines, and who freezes.                                     *)

LEMMA SpawningByFirstAudio ==
    ASSUME Next, spawning \in [Worker -> BOOLEAN],
           NEW w \in Worker, spawning'[w], ~spawning[w]
    PROVE  FirstAudio
<1> SUFFICES ASSUME ~FirstAudio PROVE spawning'[w] => spawning[w]
  OBVIOUS
<1>1. ASSUME NEW x, Cont(x) \/ StopIfBusy(x) \/ KillAndPromote \/ UNCHANGED poolVars
      PROVE  spawning' = spawning
  BY <1>1 DEF Cont, StopIfBusy, KillAndPromote, poolVars
<1>2. CASE UserStarts \/ UserStops \/ LlmFinishes
  BY <1>1, <1>2 DEF UserStarts, UserStops, LlmFinishes
<1>3. CASE HandleStarted
  BY <1>1, <1>3 DEF HandleStarted
<1>4. CASE HandleStopped
  BY <1>1, <1>4 DEF HandleStopped, MaybeCont
<1>5. CASE FinalLands \/ ReplyEnds \/ Stuck
  BY <1>1, <1>5 DEF FinalLands, ReplyEnds, Stuck, CloseTurn, MaybeCont
<1>6. CASE Issue \/ Resume
  BY <1>6 DEF Issue, Resume
<1>7. CASE \E u \in Utterance : CancelQueued(u) \/ Enter(u) \/ AskWorker(u) \/ Return(u)
  BY <1>7 DEF CancelQueued, Enter, AskWorker, Ask, Return, Answered
<1>8. CASE \E x \in Worker : ChildStep(x) \/ ChildFails(x)
  BY <1>8 DEF ChildStep, ChildFails, Compute, Loaded, LoadFails, Crash
<1>9. QED
  BY <1>2, <1>3, <1>4, <1>5, <1>6, <1>7, <1>8 DEF Next

LEMMA FrozenByEndpoint ==
    ASSUME IInv, Next, NEW w \in Worker, stopped'[w], ~stopped[w]
    PROVE  w = active /\ design.atEndpoint = "stop" /\ Stoppable(active)
<1>1. stopped \in [Worker -> BOOLEAN]
  BY Facts
<1>2. ASSUME NEW x, Cont(x) \/ KillAndPromote \/ UNCHANGED poolVars
      PROVE  FALSE
  BY <1>1, <1>2 DEF Cont, KillAndPromote, poolVars
<1>3. CASE UserStarts \/ UserStops \/ LlmFinishes
  BY <1>2, <1>3 DEF UserStarts, UserStops, LlmFinishes
<1>4. CASE HandleStarted
  BY <1>2, <1>4 DEF HandleStarted
<1>5. CASE HandleStopped
  <2>1. \/ design.atEndpoint = "stop" /\ Stoppable(active) /\ StopIfBusy(active)
        \/ KillAndPromote \/ UNCHANGED poolVars \/ Cont(active)
    BY <1>5 DEF HandleStopped, MaybeCont
  <2>2. design.atEndpoint = "stop" /\ Stoppable(active)
        /\ stopped' = [stopped EXCEPT ![active] = TRUE]
    BY <1>2, <2>1 DEF StopIfBusy
  <2>3. QED
    BY <1>1, <2>2
<1>6. CASE FinalLands \/ ReplyEnds \/ Stuck
  BY <1>2, <1>6 DEF FinalLands, ReplyEnds, Stuck, CloseTurn, MaybeCont
<1>7. CASE Issue \/ Resume
  BY <1>7 DEF Issue, Resume
<1>8. CASE \E u \in Utterance : CancelQueued(u) \/ Enter(u) \/ AskWorker(u) \/ Return(u)
  BY <1>8 DEF CancelQueued, Enter, AskWorker, Ask, Return, Answered
<1>9. CASE (\E x \in Worker : ChildStep(x) \/ ChildFails(x)) \/ FirstAudio
  BY <1>9 DEF ChildStep, ChildFails, Compute, Loaded, LoadFails, Crash, FirstAudio, RespawnDead
<1>10. QED
  BY <1>3, <1>4, <1>5, <1>6, <1>7, <1>8, <1>9 DEF Next

-----------------------------------------------------------------------------
\* The invariant that carries the results below.
THEOREM Invariance == Spec => []IInv
<1>1. QED
  BY InitEstablishes, NextPreserves, PTL DEF Spec

\* The service's variables and the pool's keep their shapes: a worker answers
\* at most one thread, and only an open utterance has a task.
THEOREM TypeCorrect == Spec => []TypeOK
<1>1. IInv => TypeOK
  BY DEF IInv, PoolInv, TypeOK
<1>2. QED
  BY <1>1, Invariance, PTL

\* A final is never joined to words of another utterance, whichever turns had a
\* task or a late decode (stt.py, the reset of the committer at every turn).
THEOREM FinalsKeepTheirWords == Spec => []OwnWords
<1>1. IInv => OwnWords
  BY DEF IInv, DecodesOfUtterances, OwnWords
<1>2. QED
  BY <1>1, Invariance, PTL

\* Whatever became of its task, a decode that computes is counted as in flight
\* (stt.py, _live_decode_starts), so the gate and the watchdog wait for it.
THEOREM ComputeIsSeen == Spec => []BusyCoversCompute
<1>1. IInv => BusyCoversCompute
  <2> SUFFICES ASSUME IInv, NEW w \in Worker, child[w] = "computing", ~stopped[w]
               PROVE  decoding
    BY DEF BusyCoversCompute
  <2>1. PICK u \in Utterance : job[u] = "asked" /\ bound[u] = w
    BY DEF IInv, PoolInv, OneAsker, Asking
  <2>2. stopped[active] => w = active
    BY <2>1, Facts, Workers DEF ByDesign
  <2>3. u \in LiveDecodes
    BY <2>1, <2>2 DEF LiveDecodes, InThread
  <2>4. QED
    BY <2>3 DEF decoding
<1>2. QED
  BY <1>1, Invariance, PTL

\* While a final decodes, a hypothesis that was in the child at that endpoint is
\* dead or frozen, under every design that does not race (stt.py, the endpoint).
THEOREM FinalsAreQuiet == Spec => []QuietFinal
<1>1. IInv => QuietFinal
  BY DEF IInv, FinalAlone, QuietFinal, Beside, Asking
<1>2. QED
  BY <1>1, Invariance, PTL

\* A decode frozen at its endpoint stays off the cores until the turn of its
\* reply closes, if no turn was split (stt.py, _maybe_cont).
THEOREM FreezeOutlastsReply == Spec => []FrozenThroughReply
<1>1. IInv => FrozenThroughReply
  BY DEF IInv, FrozenUntilClosed, OneByOne, FrozenThroughReply, Asking
<1>2. QED
  BY <1>1, Invariance, PTL

\* No engine starts loading while a final decodes, if no turn was split: only
\* the first audio of a turn respawns, and its final has landed
\* (hypothesis_worker.py, respawn_dead_async).
THEOREM EnginesLoadApart == Spec => SpawnedApart
<1>1. ASSUME IInv, Next, orderly
      PROVE  ~SpawnsBesideFinal
  <2> SUFFICES ASSUME NEW w \in Worker, spawning'[w], ~spawning[w], finalPending'
               PROVE  FALSE
    BY DEF SpawnsBesideFinal
  <2>1. spawning \in [Worker -> BOOLEAN]
    BY <1>1, Facts DEF PoolTypeOK
  <2>2. FirstAudio
    BY <1>1, <2>1, SpawningByFirstAudio
  <2>3. voice /\ finalPending' = finalPending
    BY <2>2 DEF FirstAudio, sttVars
  <2>4. QED
    BY <1>1, <2>3 DEF IInv, OneByOne
<1>2. ASSUME IInv, [Next]_<<design, vars>>
      PROVE  [orderly => ~SpawnsBesideFinal]_vars
  BY <1>1, <1>2
<1>3. QED
  BY <1>2, Invariance, PTL DEF Spec, SpawnedApart

\* Where the freezing designs have one worker, as the shipped ones do, an
\* endpoint never freezes the decode of another utterance, unless that decode
\* was on its way to the child at its own endpoint (hypothesis_worker.py,
\* stop_if_busy).
THEOREM FreezesItsOwn ==
    ASSUME \A d \in Designs : d.atEndpoint = "stop" => d.workers = 1
    PROVE  Spec => OwnFreeze
<1>1. ASSUME IInv, Next, NEW w \in Worker, stopped'[w], ~stopped[w], NEW u \in Asking(w)
      PROVE  u = utt \/ u \in slipped
  <2> SUFFICES ASSUME u # utt, u \notin slipped PROVE FALSE
    OBVIOUS
  <2>1. w = active /\ design.atEndpoint = "stop" /\ Stoppable(active)
    BY <1>1, FrozenByEndpoint
  <2>2. u \in Utterance /\ job[u] = "asked" /\ bound[u] = w
    BY DEF Asking
  <2>3. u <= utt
    BY <1>1, <2>2 DEF IInv, DecodesOfUtterances
  <2>4. u < utt
    BY <1>1, <2>2, <2>3, Facts DEF Utterance
  <2>5. design.workers = 1
    BY <1>1, <2>1, Facts DEF PoolTypeOK
  <2>6. stale[w]
    BY <1>1, <2>1, <2>2, <2>4, <2>5 DEF IInv, LeftStale, Past
  <2>7. QED
    BY <2>1, <2>6 DEF Stoppable
<1>2. ASSUME IInv, [Next]_<<design, vars>>
      PROVE  [\A w \in Worker : stopped'[w] /\ ~stopped[w] =>
                 \A u \in Asking(w) : u = utt \/ u \in slipped]_vars
  BY <1>1, <1>2
<1>3. QED
  BY <1>2, Invariance, PTL DEF Spec, OwnFreeze

-----------------------------------------------------------------------------
(* The other mode of the same service, Partials: the baseline's partial    *)
(* decodes and their records.  Part has its frames, its user and its turns *)
(* in the variables that Listener has them in; nothing below is of         *)
(* Listener's steps.                                                       *)

CONSTANTS MaxTurns, NOffsets
VARIABLES engines, turn, open, reply, heard, unwinding, final, decodes, recs, flush, log

Part == INSTANCE Partials

PartialRecord == [utt : Nat, offset : Nat, filled : BOOLEAN, of : Nat, done : BOOLEAN]
PartialDecode == [utt : Nat, turn : Nat, noted : BOOLEAN, offset : Nat, rec : Nat,
                  pc : {"queued", "decoding", "ended", "found", "reported"}]

PartialShapes ==
    /\ turn \in Nat /\ utt \in Nat /\ open \in BOOLEAN
    /\ talking \in BOOLEAN /\ speaking \in BOOLEAN
    /\ task \in [pc : {"none", "polling", "awaiting", "over"}, next : Nat]
    /\ recs \in Seq(PartialRecord) /\ decodes \subseteq PartialDecode
    /\ flush \in [why : {"none", "close", "split"}, wrote : Nat]
    /\ inbox \in Seq({"started", "stopped"})

\* The frames still to be handled alternate, from what the service knows to
\* what the VAD has said.
FramesAlternate ==
    /\ \A i \in DOMAIN inbox : i + 1 \in DOMAIN inbox => inbox[i] # inbox[i + 1]
    /\ inbox # <<>> => /\ inbox[1] = IF speaking THEN "stopped" ELSE "started"
                       /\ inbox[Len(inbox)] = IF talking THEN "started" ELSE "stopped"
    /\ inbox = <<>> => (talking <=> speaking)

\* A record that has been flushed is on file, and every decode noted in the open
\* turn has its record.
Filed ==
    /\ flush.why # "none" => open
    /\ flush.wrote \in 0 .. Len(recs) /\ (flush.why = "none" => flush.wrote = 0)
    /\ \A i \in 1 .. flush.wrote : \E l \in log : ~l.alone /\ Part!Same(l, recs[i])
    /\ \A d \in decodes : d.turn <= turn
    /\ \A d \in decodes :
          d.noted /\ d.turn = turn /\ open => \E i \in DOMAIN recs : Part!Same(recs[i], d)
    /\ Part!IssuedWritten

PInv == PartialShapes /\ FramesAlternate /\ Filed

LEMMA PartialsInit == Part!Init => PInv
<1> SUFFICES ASSUME Part!Init PROVE PInv
  OBVIOUS
<1>1. /\ turn = 0 /\ open = FALSE /\ talking = FALSE
      /\ inbox = <<>> /\ utt = 0 /\ speaking = FALSE
      /\ task = Part!NoTask /\ decodes = {} /\ recs = <<>> /\ flush = Part!NoFlush
  BY DEF Part!Init
<1>2. /\ task \in [pc : {"none", "polling", "awaiting", "over"}, next : Nat]
      /\ flush \in [why : {"none", "close", "split"}, wrote : Nat]
      /\ flush.why = "none" /\ flush.wrote = 0
  BY <1>1 DEF Part!NoTask, Part!NoFlush
<1>3. PartialShapes
  <2>1. recs \in Seq(PartialRecord) /\ inbox \in Seq({"started", "stopped"})
    BY <1>1
  <2>2. decodes \subseteq PartialDecode
    BY <1>1
  <2>3. QED
    BY <1>1, <1>2, <2>1, <2>2 DEF PartialShapes
<1>4. FramesAlternate
  BY <1>1 DEF FramesAlternate
<1>5. Filed
  BY <1>1, <1>2 DEF Filed, Part!IssuedWritten
<1>6. QED
  BY <1>3, <1>4, <1>5 DEF PInv

(* A frame more: the VAD says the opposite of what it said last.           *)
LEMMA FrameArrives ==
    ASSUME PartialShapes, FramesAlternate,
           talking' = ~talking, speaking' = speaking,
           inbox' = Append(inbox, IF talking THEN "stopped" ELSE "started")
    PROVE  /\ FramesAlternate' /\ inbox' \in Seq({"started", "stopped"})
           /\ inbox' # <<>>
<1>1. PICK n \in Nat : n = Len(inbox) /\ DOMAIN inbox = 1 .. n
  BY DEF PartialShapes
<1>2. PICK v : v = IF talking THEN "stopped" ELSE "started"
  OBVIOUS
<1>3. /\ inbox \in Seq({"started", "stopped"}) /\ v \in {"started", "stopped"}
      /\ talking \in BOOLEAN /\ speaking \in BOOLEAN
  BY <1>2 DEF PartialShapes
<1>4. /\ inbox' \in Seq({"started", "stopped"}) /\ Len(inbox') = n + 1 /\ inbox'[n + 1] = v
      /\ DOMAIN inbox' = 1 .. n + 1
      /\ \A i \in 1 .. n : inbox'[i] = inbox[i]
  BY <1>1, <1>2, <1>3
<1>5. ASSUME NEW i \in 1 .. n + 1, i + 1 \in 1 .. n + 1
      PROVE  inbox'[i] # inbox'[i + 1]
  <2>1. CASE i = n
    <3>1. inbox # <<>> /\ inbox[n] = IF talking THEN "started" ELSE "stopped"
      BY <1>1, <1>3, <2>1 DEF FramesAlternate
    <3>2. QED
      BY <1>2, <1>4, <2>1, <3>1
  <2>2. CASE i # n
    <3>1. i \in 1 .. n /\ i + 1 \in 1 .. n
      BY <1>5, <2>2
    <3>2. QED
      BY <1>1, <1>4, <3>1 DEF FramesAlternate
  <2>3. QED
    BY <2>1, <2>2
<1>6. inbox'[1] = IF speaking' THEN "stopped" ELSE "started"
  <2>1. CASE n = 0
    <3>1. inbox = <<>>
      BY <1>1, <1>3, <2>1
    <3>2. talking <=> speaking
      BY <3>1 DEF FramesAlternate
    <3>3. QED
      BY <1>2, <1>4, <2>1, <3>2
  <2>2. CASE n # 0
    <3>1. inbox # <<>> /\ 1 \in 1 .. n
      BY <1>1, <2>2
    <3>2. QED
      BY <1>4, <3>1 DEF FramesAlternate
  <2>3. QED
    BY <2>1, <2>2
<1>7. inbox'[n + 1] = IF talking' THEN "started" ELSE "stopped"
  BY <1>2, <1>3, <1>4
<1>8. inbox' # <<>>
  BY <1>4
<1>9. QED
  BY <1>4, <1>5, <1>6, <1>7, <1>8 DEF FramesAlternate

(* A frame less: the service learns what the VAD said.                     *)
LEMMA FrameHandled ==
    ASSUME PartialShapes, FramesAlternate, inbox # <<>>,
           talking' = talking, speaking' = ~speaking, inbox' = Tail(inbox)
    PROVE  FramesAlternate' /\ inbox' \in Seq({"started", "stopped"})
<1>1. PICK n \in Nat : n = Len(inbox) /\ DOMAIN inbox = 1 .. n /\ n # 0
  BY DEF PartialShapes
<1>2. inbox \in Seq({"started", "stopped"}) /\ talking \in BOOLEAN /\ speaking \in BOOLEAN
  BY DEF PartialShapes
<1>3. /\ inbox' \in Seq({"started", "stopped"}) /\ Len(inbox') = n - 1
      /\ DOMAIN inbox' = 1 .. n - 1
      /\ \A i \in 1 .. n - 1 : inbox'[i] = inbox[i + 1]
  BY <1>1, <1>2
<1>4. /\ inbox[1] = IF speaking THEN "stopped" ELSE "started"
      /\ inbox[n] = IF talking THEN "started" ELSE "stopped"
  BY <1>1 DEF FramesAlternate
<1>5. ASSUME NEW i \in 1 .. n - 1, i + 1 \in 1 .. n - 1
      PROVE  inbox'[i] # inbox'[i + 1]
  <2>1. i + 1 \in 1 .. n /\ (i + 1) + 1 \in 1 .. n
    BY <1>5
  <2>2. inbox[i + 1] # inbox[(i + 1) + 1]
    BY <1>1, <2>1 DEF FramesAlternate
  <2>3. QED
    BY <1>3, <1>5, <2>2
<1>6. CASE n = 1
  <2>1. inbox' = <<>>
    BY <1>3, <1>6
  <2>2. talking' <=> speaking'
    BY <1>2, <1>4, <1>6
  <2>3. QED
    BY <1>3, <2>1, <2>2 DEF FramesAlternate
<1>7. CASE n # 1
  <2>1. PICK i \in 1 .. n - 1 : i = 1
    BY <1>1, <1>7
  <2>2. inbox[i] # inbox[i + 1] /\ inbox[i + 1] \in {"started", "stopped"}
    <3>1. i \in 1 .. n /\ i + 1 \in 1 .. n
      BY <2>1
    <3>2. inbox[i + 1] \in {"started", "stopped"}
      BY <1>1, <1>2, <3>1
    <3>3. QED
      BY <1>1, <3>1, <3>2 DEF FramesAlternate
  <2>3. inbox'[1] = IF speaking' THEN "stopped" ELSE "started"
    BY <1>2, <1>3, <1>4, <2>1, <2>2
  <2>4. inbox'[n - 1] = IF talking' THEN "started" ELSE "stopped"
    <3>1. n - 1 \in 1 .. n - 1 /\ (n - 1) + 1 = n
      BY <1>1, <1>7
    <3>2. QED
      BY <1>3, <1>4, <3>1
  <2>5. inbox' # <<>>
    <3>1. Len(inbox') # 0
      BY <1>1, <1>3, <1>7
    <3>2. QED
      BY <3>1
  <2>6. QED
    BY <1>3, <1>5, <2>3, <2>4, <2>5 DEF FramesAlternate
<1>8. QED
  BY <1>6, <1>7

(* What a thread's step leaves of the decodes and of the records: it may   *)
(* drop a decode or carry it on, and fill a record.                        *)
SameIssue(e, d) == e.utt = d.utt /\ e.turn = d.turn /\ e.offset = d.offset /\ e.noted = d.noted

CarriedOn ==
    /\ \A e \in decodes' : /\ e \in PartialDecode
                           /\ \E d \in decodes : SameIssue(e, d)
    /\ recs' \in Seq(PartialRecord) /\ Len(recs') = Len(recs)
    /\ \A i \in 1 .. Len(recs) : recs'[i].utt = recs[i].utt /\ recs'[i].offset = recs[i].offset
    /\ log \subseteq log'

LEMMA NotedDone ==
    ASSUME PartialShapes, NEW o
    PROVE  LET noted == Part!NoteDone(o)
           IN  /\ noted \in Seq(PartialRecord) /\ Len(noted) = Len(recs)
               /\ \A i \in 1 .. Len(recs) :
                     /\ noted[i].utt = recs[i].utt /\ noted[i].offset = recs[i].offset
                     /\ noted[i].filled = recs[i].filled /\ noted[i].of = recs[i].of
<1>1. recs \in Seq(PartialRecord)
  BY DEF PartialShapes
<1>2. PICK k : Part!NoteDone(o) \in {recs, [recs EXCEPT ![k].done = TRUE]}
  BY DEF Part!NoteDone
<1>3. PICK noted : noted = [recs EXCEPT ![k].done = TRUE]
  OBVIOUS
<1>4. /\ DOMAIN noted = 1 .. Len(recs)
      /\ \A i \in 1 .. Len(recs) :
            noted[i] = IF i = k THEN [recs[i] EXCEPT !.done = TRUE] ELSE recs[i]
  <2>1. DOMAIN noted = DOMAIN recs /\ DOMAIN recs = 1 .. Len(recs)
    BY <1>1, <1>3
  <2>2. \A i \in DOMAIN recs :
            noted[i] = IF i = k THEN [recs[i] EXCEPT !.done = TRUE] ELSE recs[i]
    BY <1>3
  <2>3. QED
    BY <2>1, <2>2
<1>9. noted = [i \in DOMAIN recs |-> noted[i]]
  BY <1>3
<1>5. ASSUME NEW i \in 1 .. Len(recs)
      PROVE  /\ noted[i] \in PartialRecord
             /\ noted[i].utt = recs[i].utt /\ noted[i].offset = recs[i].offset
             /\ noted[i].filled = recs[i].filled /\ noted[i].of = recs[i].of
  <2>1. recs[i] \in PartialRecord
    BY <1>1
  <2>2. QED
    BY <1>4, <2>1 DEF PartialRecord
<1>6. noted \in Seq(PartialRecord) /\ Len(noted) = Len(recs)
  <2>1. Len(recs) \in Nat
    BY <1>1
  <2>2. noted \in [1 .. Len(recs) -> PartialRecord]
    <3>1. DOMAIN recs = 1 .. Len(recs)
      BY <1>1
    <3>2. QED
      BY <1>5, <1>9, <3>1
  <2>3. QED
    BY <2>1, <2>2
<1>7. QED
  BY <1>1, <1>2, <1>3, <1>5, <1>6

LEMMA FilledIn ==
    ASSUME PartialShapes, NEW d \in decodes
    PROVE  LET filled == Part!Filled(d)
           IN  /\ filled \in Seq(PartialRecord) /\ Len(filled) = Len(recs)
               /\ \A i \in 1 .. Len(recs) :
                     /\ filled[i].utt = recs[i].utt /\ filled[i].offset = recs[i].offset
                     /\ \/ filled[i] = recs[i]
                        \/ recs[i].utt = d.rec /\ filled[i].of = d.utt
<1>1. recs \in Seq(PartialRecord) /\ Len(recs) \in Nat /\ d \in PartialDecode
  BY DEF PartialShapes
<1>2. PICK filled : filled = Part!Filled(d)
  OBVIOUS
<1>3. filled = [i \in 1 .. Len(recs) |->
                   IF recs[i].utt = d.rec /\ recs[i].offset = d.offset
                   THEN [recs[i] EXCEPT !.filled = TRUE, !.of = d.utt] ELSE recs[i]]
  BY <1>2 DEF Part!Filled
<1>4. ASSUME NEW i \in 1 .. Len(recs)
      PROVE  /\ filled[i] \in PartialRecord
             /\ filled[i].utt = recs[i].utt /\ filled[i].offset = recs[i].offset
             /\ \/ filled[i] = recs[i]
                \/ recs[i].utt = d.rec /\ filled[i].of = d.utt
  <2>1. recs[i] \in PartialRecord
    BY <1>1
  <2>2. CASE recs[i].utt = d.rec /\ recs[i].offset = d.offset
    <3>1. PICK r : r = [recs[i] EXCEPT !.filled = TRUE]
      OBVIOUS
    <3>2. r \in PartialRecord /\ r.utt = recs[i].utt /\ r.offset = recs[i].offset
      BY <2>1, <3>1 DEF PartialRecord
    <3>3. d.utt \in Nat
      BY <1>1 DEF PartialDecode
    <3>4. PICK q : q = [r EXCEPT !.of = d.utt]
      OBVIOUS
    <3>5. q \in PartialRecord /\ q.utt = r.utt /\ q.offset = r.offset /\ q.of = d.utt
      BY <3>2, <3>3, <3>4 DEF PartialRecord
    <3>6. filled[i] = q
      BY <1>3, <2>2, <3>1, <3>4
    <3>7. QED
      BY <2>2, <3>2, <3>5, <3>6
  <2>3. CASE ~(recs[i].utt = d.rec /\ recs[i].offset = d.offset)
    <3>1. filled[i] = recs[i]
      BY <1>3, <2>3
    <3>2. QED
      BY <2>1, <3>1
  <2>4. QED
    BY <2>2, <2>3
<1>5. filled \in [1 .. Len(recs) -> PartialRecord]
  <2>1. filled = [i \in 1 .. Len(recs) |-> filled[i]]
    BY <1>3
  <2>2. QED
    BY <1>4, <2>1
<1>6. filled \in Seq(PartialRecord) /\ Len(filled) = Len(recs)
  BY <1>1, <1>5
<1>7. QED
  BY <1>2, <1>4, <1>6

(* A set of numbers that is not empty has a least one.                     *)
LEMMA Least ==
    ASSUME NEW T \in SUBSET Nat, T # {}
    PROVE  \E m \in T : \A n \in T : m <= n
<1> DEFINE R == {ss \in Nat \X Nat : ss[1] < ss[2]}
<1>1. IsWellFoundedOn(R, Nat)
  BY NatLessThanWellFounded DEF OpToRel
<1> HIDE DEF R
<1>2. PICK x \in T : \A y \in T : ~ (<<y, x>> \in R)
  BY <1>1, WFMin
<1>3. ASSUME NEW y \in T
      PROVE  x <= y
  <2>1. x \in Nat /\ y \in Nat
    OBVIOUS
  <2>2. ~ (y < x)
    BY <1>2, <2>1 DEF R
  <2>3. QED
    BY <2>1, <2>2
<1>4. QED
  BY <1>3

LEMMA LatestIsOne ==
    ASSUME NEW n \in Nat, NEW T \in SUBSET (1 .. n), T # {}
    PROVE  Part!Latest(T) \in T /\ \A j \in T : j <= Part!Latest(T)
<1>1. PICK U : U = {n - i : i \in T}
  OBVIOUS
<1>2. U \in SUBSET Nat /\ U # {}
  <2>1. ASSUME NEW u \in U
        PROVE  u \in Nat
    <3>1. PICK i \in 1 .. n : u = n - i
      BY <1>1
    <3>2. QED
      BY <3>1
  <2>2. U # {}
    BY <1>1
  <2>3. QED
    BY <2>1, <2>2
<1>3. PICK m \in U : \A k \in U : m <= k
  BY <1>2, Least
<1>4. PICK i \in T : m = n - i
  BY <1>1
<1>5. \A j \in T : j <= i
  BY <1>1, <1>3, <1>4
<1>6. QED
  BY <1>5 DEF Part!Latest

LEMMA ThreadCarriesOn ==
    ASSUME PartialShapes, Part!Thread
    PROVE  CarriedOn /\ UNCHANGED Part!threadVars
<1>1. recs \in Seq(PartialRecord) /\ \A d \in decodes : d \in PartialDecode
  BY DEF PartialShapes
<1>2. PICK d \in decodes : \/ Part!Take(d) \/ Part!DecodeEnds(d) \/ Part!LookUp(d)
                           \/ Part!Fill(d) \/ Part!WriteLate(d) \/ Part!ThreadLeaves(d)
  BY DEF Part!Thread
<1>3. d \in PartialDecode
  BY <1>1
<1>4. ASSUME NEW pc \in {"decoding", "ended", "found", "reported"},
             NEW e, e = [d EXCEPT !.pc = pc]
      PROVE  e \in PartialDecode /\ SameIssue(e, d)
  BY <1>3, <1>4 DEF PartialDecode, SameIssue
<1>5. ASSUME NEW e, decodes' \subseteq decodes \cup {e}, e \in PartialDecode, SameIssue(e, d),
             recs' \in Seq(PartialRecord), Len(recs') = Len(recs),
             \A i \in 1 .. Len(recs) : recs'[i].utt = recs[i].utt
                                       /\ recs'[i].offset = recs[i].offset,
             log \subseteq log'
      PROVE  CarriedOn
  BY <1>1, <1>5 DEF CarriedOn, SameIssue
<1>6. CASE Part!Take(d)
  <2>1. PICK e : e = [d EXCEPT !.pc = "decoding"]
    OBVIOUS
  <2>2. decodes' \subseteq decodes \cup {e} /\ recs' = recs /\ log' = log
        /\ UNCHANGED Part!threadVars
    BY <1>6, <2>1 DEF Part!Take
  <2>3. QED
    BY <1>1, <1>4, <1>5, <2>1, <2>2
<1>7. CASE Part!DecodeEnds(d)
  <2>1. PICK e : e = [d EXCEPT !.pc = "ended"]
    OBVIOUS
  <2>2. decodes' \subseteq decodes \cup {e} /\ recs' = recs /\ log' = log
        /\ UNCHANGED Part!threadVars
    BY <1>7, <2>1 DEF Part!DecodeEnds
  <2>3. QED
    BY <1>1, <1>4, <1>5, <2>1, <2>2
<1>8. CASE Part!LookUp(d)
  <2>1. PICK r : r = recs[Part!Latest(Part!Matching(d))].utt
    OBVIOUS
  <2>2. PICK f : f = [d EXCEPT !.pc = "found"]
    OBVIOUS
  <2>3. PICK e : e = [f EXCEPT !.rec = r]
    OBVIOUS
  <2>4. decodes' \subseteq decodes \cup {e} /\ recs' = recs /\ log' = log
        /\ UNCHANGED Part!threadVars
    BY <1>8, <2>1, <2>2, <2>3 DEF Part!LookUp
  <2>5. r \in Nat
    <3>1. Part!Matching(d) \in SUBSET (1 .. Len(recs)) /\ Part!Matching(d) # {}
      BY <1>8 DEF Part!Matching, Part!LookUp
    <3>2. Part!Latest(Part!Matching(d)) \in 1 .. Len(recs)
      <4>1. Len(recs) \in Nat
        BY <1>1
      <4>2. QED
        BY <3>1, <4>1, LatestIsOne
    <3>3. recs[Part!Latest(Part!Matching(d))] \in PartialRecord
      BY <1>1, <3>2
    <3>4. QED
      BY <2>1, <3>3 DEF PartialRecord
  <2>6. e \in PartialDecode /\ SameIssue(e, d)
    <3>1. f \in PartialDecode /\ SameIssue(f, d)
      BY <1>4, <2>2
    <3>2. QED
      BY <2>3, <2>5, <3>1 DEF PartialDecode, SameIssue
  <2>7. QED
    BY <1>1, <1>5, <2>4, <2>6
<1>9. CASE Part!Fill(d)
  <2>1. PICK e : e = [d EXCEPT !.pc = "reported"]
    OBVIOUS
  <2>2. decodes' \subseteq decodes \cup {e} /\ recs' = Part!Filled(d) /\ log' = log
        /\ UNCHANGED Part!threadVars
    BY <1>9, <2>1 DEF Part!Fill
  <2>3. /\ recs' \in Seq(PartialRecord) /\ Len(recs') = Len(recs)
        /\ \A i \in 1 .. Len(recs) : recs'[i].utt = recs[i].utt
                                     /\ recs'[i].offset = recs[i].offset
    BY <2>2, FilledIn
  <2>4. QED
    BY <1>4, <1>5, <2>1, <2>2, <2>3
<1>10. CASE Part!WriteLate(d)
  <2>1. PICK e : e = [d EXCEPT !.pc = "reported"]
    OBVIOUS
  <2>2. decodes' \subseteq decodes \cup {e} /\ recs' = recs /\ log \subseteq log'
        /\ UNCHANGED Part!threadVars
    BY <1>10, <2>1 DEF Part!WriteLate
  <2>3. QED
    BY <1>1, <1>4, <1>5, <2>1, <2>2
<1>11. CASE Part!ThreadLeaves(d)
  <2>1. decodes' \subseteq decodes \cup {d} /\ recs' = recs /\ log' = log
        /\ UNCHANGED Part!threadVars
    BY <1>11 DEF Part!ThreadLeaves
  <2>2. SameIssue(d, d)
    BY DEF SameIssue
  <2>3. QED
    BY <1>1, <1>3, <1>5, <2>1, <2>2
<1>12. QED
  BY <1>2, <1>6, <1>7, <1>8, <1>9, <1>10, <1>11

\* What is on file stays on file, and every decode keeps its record.
LEMMA FiledKeeps ==
    ASSUME PInv, CarriedOn, UNCHANGED <<turn, open, flush>>
    PROVE  Filed'
<1>1. /\ flush.wrote \in 0 .. Len(recs) /\ (flush.why = "none" => flush.wrote = 0)
      /\ \A i \in 1 .. flush.wrote : \E l \in log : ~l.alone /\ Part!Same(l, recs[i])
      /\ \A d \in decodes : d.turn <= turn
      /\ \A d \in decodes :
            /\ d.noted /\ d.turn = turn /\ open => \E i \in DOMAIN recs : Part!Same(recs[i], d)
            /\ d.noted /\ (d.turn < turn \/ ~open)
                  => \E l \in log : ~l.alone /\ Part!Same(l, d)
      /\ flush.why # "none" => open
  BY DEF PInv, Filed, Part!IssuedWritten
<1>2. /\ recs \in Seq(PartialRecord) /\ recs' \in Seq(PartialRecord) /\ Len(recs') = Len(recs)
      /\ \A i \in 1 .. Len(recs) : recs'[i].utt = recs[i].utt /\ recs'[i].offset = recs[i].offset
      /\ log \subseteq log'
      /\ turn' = turn /\ open' = open /\ flush' = flush
  BY DEF PInv, PartialShapes, CarriedOn
<1>3. DOMAIN recs = 1 .. Len(recs) /\ DOMAIN recs' = 1 .. Len(recs) /\ Len(recs) \in Nat
  BY <1>2
<1>4. flush'.wrote \in 0 .. Len(recs') /\ (flush'.why = "none" => flush'.wrote = 0)
  BY <1>1, <1>2
<1>5. ASSUME NEW i \in 1 .. flush.wrote
      PROVE  \E l \in log' : ~l.alone /\ Part!Same(l, recs'[i])
  <2>1. PICK l \in log : ~l.alone /\ Part!Same(l, recs[i])
    BY <1>1
  <2>2. i \in 1 .. Len(recs)
    BY <1>1, <1>3
  <2>3. Part!Same(l, recs'[i])
    BY <1>2, <2>1, <2>2 DEF Part!Same
  <2>4. QED
    BY <1>2, <2>1, <2>3
<1>6. ASSUME NEW e \in decodes'
      PROVE  /\ e.turn <= turn
             /\ e.noted /\ e.turn = turn /\ open
                   => \E i \in DOMAIN recs' : Part!Same(recs'[i], e)
             /\ e.noted /\ (e.turn < turn \/ ~open)
                   => \E l \in log' : ~l.alone /\ Part!Same(l, e)
  <2>1. PICK d \in decodes :
            e.utt = d.utt /\ e.turn = d.turn /\ e.offset = d.offset /\ e.noted = d.noted
    BY DEF CarriedOn, SameIssue
  <2>2. ASSUME e.noted, e.turn = turn, open
        PROVE  \E i \in DOMAIN recs' : Part!Same(recs'[i], e)
    <3>1. PICK i \in DOMAIN recs : Part!Same(recs[i], d)
      BY <1>1, <2>1, <2>2
    <3>2. Part!Same(recs'[i], e)
      BY <1>2, <1>3, <2>1, <3>1 DEF Part!Same
    <3>3. QED
      BY <1>3, <3>2
  <2>3. ASSUME e.noted, e.turn < turn \/ ~open
        PROVE  \E l \in log' : ~l.alone /\ Part!Same(l, e)
    <3>1. PICK l \in log : ~l.alone /\ Part!Same(l, d)
      BY <1>1, <2>1, <2>3
    <3>2. Part!Same(l, e)
      BY <2>1, <3>1 DEF Part!Same
    <3>3. QED
      BY <1>2, <3>1, <3>2
  <2>4. QED
    BY <1>1, <2>1, <2>2, <2>3
<1>7. QED
  BY <1>1, <1>2, <1>4, <1>5, <1>6 DEF Filed, Part!IssuedWritten

\* A step that leaves the turns, the frames and the writing alone.
LEMMA QuietSteps ==
    ASSUME PInv, CarriedOn,
           UNCHANGED <<turn, open, talking, inbox, utt, speaking, flush>>,
           task' \in [pc : {"none", "polling", "awaiting", "over"}, next : Nat]
    PROVE  PInv'
<1>1. PartialShapes /\ FramesAlternate
  BY DEF PInv
<1>2. Filed'
  BY FiledKeeps
<1>3. recs' \in Seq(PartialRecord) /\ decodes' \subseteq PartialDecode
  BY DEF CarriedOn
<1>4. PartialShapes'
  BY <1>1, <1>3 DEF PartialShapes
<1>5. FramesAlternate'
  BY <1>1 DEF FramesAlternate
<1>6. QED
  BY <1>2, <1>4, <1>5 DEF PInv

\* The decodes, the records and the file are as they were, or decodes are gone.
LEMMA FewerDecodes ==
    ASSUME PInv, decodes' \subseteq decodes, recs' = recs, log' = log
    PROVE  CarriedOn
<1>1. recs \in Seq(PartialRecord) /\ \A d \in decodes : d \in PartialDecode
  BY DEF PInv, PartialShapes
<1>2. QED
  BY <1>1 DEF CarriedOn, SameIssue

LEMMA PartialThread == PInv /\ Part!Thread => PInv'
<1> SUFFICES ASSUME PInv, Part!Thread PROVE PInv'
  OBVIOUS
<1>1. PartialShapes
  BY DEF PInv
<1>2. CarriedOn /\ UNCHANGED Part!threadVars
  BY <1>1, ThreadCarriesOn
<1>3. UNCHANGED <<turn, open, talking, inbox, utt, speaking, flush, task>>
  BY <1>2 DEF Part!threadVars, Part!userVars, Part!sttVars
<1>4. task' \in [pc : {"none", "polling", "awaiting", "over"}, next : Nat]
  BY <1>1, <1>3 DEF PartialShapes
<1>5. QED
  BY <1>2, <1>3, <1>4, QuietSteps

LEMMA PartialResume == PInv /\ Part!Resume => PInv'
<1> SUFFICES ASSUME PInv, Part!Resume PROVE PInv'
  OBVIOUS
<1>1. PartialShapes
  BY DEF PInv
<1>2. /\ UNCHANGED <<turn, open, talking, inbox, utt, speaking, flush>>
      /\ log' = log /\ task' = Part!NextTask
  BY DEF Part!Resume, Part!userVars
<1>3. decodes' \subseteq decodes /\ recs' = Part!NoteDone(task.next)
  BY DEF Part!Resume
<1>4. CarriedOn
  <2>1. \A d \in decodes : d \in PartialDecode
    BY <1>1 DEF PartialShapes
  <2>2. /\ recs' \in Seq(PartialRecord) /\ Len(recs') = Len(recs)
        /\ \A i \in 1 .. Len(recs) : recs'[i].utt = recs[i].utt
                                     /\ recs'[i].offset = recs[i].offset
    BY <1>1, <1>3, NotedDone
  <2>3. QED
    BY <1>2, <1>3, <2>1, <2>2 DEF CarriedOn, SameIssue
<1>5. task' \in [pc : {"none", "polling", "awaiting", "over"}, next : Nat]
  <2>1. task \in [pc : {"none", "polling", "awaiting", "over"}, next : Nat]
    BY <1>1 DEF PartialShapes
  <2>2. CASE task' = [task EXCEPT !.pc = "over"]
    BY <2>1, <2>2
  <2>3. CASE task' = [pc |-> "polling", next |-> task.next + 1]
    <3>1. task.next \in Nat
      BY <2>1
    <3>2. QED
      BY <2>3, <3>1
  <2>4. QED
    BY <1>2, <2>2, <2>3 DEF Part!NextTask
<1>6. QED
  BY <1>2, <1>4, <1>5, QuietSteps

LEMMA PartialQuiet ==
    PInv /\ (Part!LlmEnds \/ Part!Hear \/ Part!Unwind \/ Part!FinalStarts \/ Part!FinalLands)
         => PInv'
<1> SUFFICES ASSUME PInv, \/ Part!LlmEnds \/ Part!Hear \/ Part!Unwind
                          \/ Part!FinalStarts \/ Part!FinalLands
             PROVE  PInv'
  OBVIOUS
<1>1. /\ UNCHANGED <<turn, open, talking, inbox, utt, speaking, flush, task>>
      /\ decodes' \subseteq decodes /\ recs' = recs /\ log' = log
  BY DEF Part!LlmEnds, Part!Hear, Part!Unwind, Part!FinalStarts, Part!FinalLands, Part!userVars,
         Part!sttVars
<1>2. task' \in [pc : {"none", "polling", "awaiting", "over"}, next : Nat]
  BY <1>1 DEF PInv, PartialShapes
<1>3. QED
  BY <1>1, <1>2, FewerDecodes, QuietSteps

LEMMA PartialStarts == PInv /\ Part!UserStarts => PInv'
<1> SUFFICES ASSUME PInv, Part!UserStarts PROVE PInv'
  OBVIOUS
<1>1. PartialShapes /\ FramesAlternate /\ Filed
  BY DEF PInv
<1>2. /\ flush.why = "none" /\ talking = FALSE /\ talking' = TRUE
      /\ inbox' = Append(inbox, "started")
      /\ UNCHANGED <<utt, speaking, task, decodes, log>>
  BY <1>1 DEF Part!UserStarts, Part!LoopFree, PartialShapes
<1>3. FramesAlternate' /\ inbox' \in Seq({"started", "stopped"})
  BY <1>1, <1>2, FrameArrives
<1>4. CASE open
  <2>1. flush' = Part!FlushFrom("split") /\ UNCHANGED <<turn, open, recs>>
    BY <1>4 DEF Part!UserStarts
  <2>2. flush' = [why |-> "split", wrote |-> 0]
    BY <2>1 DEF Part!FlushFrom
  <2>3. PartialShapes'
    BY <1>1, <1>2, <1>3, <2>1, <2>2 DEF PartialShapes
  <2>4. Filed'
    <3>1. recs \in Seq(PartialRecord)
      BY <1>1 DEF PartialShapes
    <3>2. 0 \in 0 .. Len(recs) /\ 1 .. 0 = {}
      BY <3>1
    <3>3. QED
      BY <1>1, <1>2, <1>4, <2>1, <2>2, <3>2 DEF Filed, Part!IssuedWritten
  <2>5. QED
    BY <1>3, <2>3, <2>4 DEF PInv
<1>5. CASE ~open
  <2>1. /\ turn' = turn + 1 /\ open' = TRUE /\ recs' = <<>> /\ flush' = flush
    BY <1>5 DEF Part!UserStarts, Part!OpenTurn
  <2>2. turn \in Nat
    BY <1>1 DEF PartialShapes
  <2>3. PartialShapes'
    <3>1. recs' \in Seq(PartialRecord)
      BY <2>1
    <3>2. QED
      BY <1>1, <1>2, <1>3, <2>1, <2>2, <3>1 DEF PartialShapes
  <2>4. Filed'
    <3>1. flush.wrote = 0 /\ Len(recs') = 0
      BY <1>1, <1>2, <2>1 DEF Filed
    <3>2. flush'.wrote \in 0 .. Len(recs') /\ 1 .. flush'.wrote = {}
      BY <2>1, <3>1
    <3>3. \A d \in decodes' : d.turn <= turn /\ d.turn \in Nat
      BY <1>1, <1>2 DEF Filed, PartialShapes, PartialDecode
    <3>4. \A d \in decodes' : d.turn <= turn' /\ d.turn # turn'
      BY <2>1, <2>2, <3>3
    <3>5. \A d \in decodes' : d.noted => \E l \in log' : ~l.alone /\ Part!Same(l, d)
      BY <1>1, <1>2, <1>5 DEF Filed, Part!IssuedWritten
    <3>6. QED
      BY <1>2, <2>1, <3>1, <3>2, <3>4, <3>5 DEF Filed, Part!IssuedWritten
  <2>5. QED
    BY <1>3, <2>3, <2>4 DEF PInv
<1>6. QED
  BY <1>4, <1>5

LEMMA PartialStops == PInv /\ Part!UserStops => PInv'
<1> SUFFICES ASSUME PInv, Part!UserStops PROVE PInv'
  OBVIOUS
<1>1. PartialShapes /\ FramesAlternate /\ Filed
  BY DEF PInv
<1>2. /\ talking = TRUE /\ talking' = FALSE
      /\ inbox' = Append(inbox, "stopped")
      /\ UNCHANGED <<turn, open, utt, speaking, task, decodes, recs, flush, log>>
  BY <1>1 DEF Part!UserStops, PartialShapes
<1>3. FramesAlternate' /\ inbox' \in Seq({"started", "stopped"})
  BY <1>1, <1>2, FrameArrives
<1>4. PartialShapes'
  BY <1>1, <1>2, <1>3 DEF PartialShapes
<1>5. Filed'
  BY <1>1, <1>2 DEF Filed, Part!IssuedWritten
<1>6. QED
  BY <1>3, <1>4, <1>5 DEF PInv

(* The reply's end and the watchdog close a turn, or leave it.             *)
LEMMA PartialCloses == PInv /\ (Part!ReplyEnds \/ Part!ForceClose) => PInv'
<1> SUFFICES ASSUME PInv, Part!ReplyEnds \/ Part!ForceClose PROVE PInv'
  OBVIOUS
<1>1. PartialShapes /\ FramesAlternate /\ Filed
  BY DEF PInv
<1>2. UNCHANGED <<turn, open, talking, inbox, utt, speaking, task, decodes, recs, log>>
  BY DEF Part!ReplyEnds, Part!ForceClose, Part!userVars, Part!sttVars
<1>3. CASE flush' = flush
  <2>1. decodes' \subseteq decodes /\ recs' = recs /\ log' = log
        /\ task' \in [pc : {"none", "polling", "awaiting", "over"}, next : Nat]
    BY <1>1, <1>2 DEF PartialShapes
  <2>2. QED
    BY <1>2, <1>3, <2>1, FewerDecodes, QuietSteps
<1>4. CASE open /\ flush' = [why |-> "close", wrote |-> 0]
  <2>1. PartialShapes'
    BY <1>1, <1>2, <1>4 DEF PartialShapes
  <2>2. FramesAlternate'
    BY <1>1, <1>2 DEF FramesAlternate
  <2>3. Filed'
    <3>1. recs \in Seq(PartialRecord)
      BY <1>1 DEF PartialShapes
    <3>2. 0 \in 0 .. Len(recs) /\ 1 .. 0 = {}
      BY <3>1
    <3>3. QED
      BY <1>1, <1>2, <1>4, <3>2 DEF Filed, Part!IssuedWritten
  <2>4. QED
    BY <2>1, <2>2, <2>3 DEF PInv
<1>5. flush' = flush \/ (open /\ flush' = [why |-> "close", wrote |-> 0])
  BY DEF Part!ReplyEnds, Part!ForceClose, Part!Stuck, Part!Hung, Part!FlushFrom
<1>6. QED
  BY <1>3, <1>4, <1>5

LEMMA PartialWrites == PInv /\ Part!WriteNext => PInv'
<1> SUFFICES ASSUME PInv, Part!WriteNext PROVE PInv'
  OBVIOUS
<1>1. PartialShapes /\ FramesAlternate /\ Filed
  BY DEF PInv
<1>2. PICK n \in Nat : n = flush.wrote
  BY <1>1 DEF PartialShapes
<1>3. /\ flush.why # "none" /\ n < Len(recs)
      /\ log' = log \cup {Part!Written(turn, recs[n + 1])}
      /\ flush' = [flush EXCEPT !.wrote = n + 1]
      /\ UNCHANGED <<turn, open, talking, inbox, utt, speaking, task, decodes, recs>>
  BY <1>2 DEF Part!WriteNext, Part!userVars, Part!sttVars
<1>4. flush \in [why : {"none", "close", "split"}, wrote : Nat]
  BY <1>1 DEF PartialShapes
<1>5. flush' \in [why : {"none", "close", "split"}, wrote : Nat] /\ flush'.why = flush.why
      /\ flush'.wrote = n + 1
  BY <1>3, <1>4
<1>6. PartialShapes'
  BY <1>1, <1>3, <1>5 DEF PartialShapes
<1>7. FramesAlternate'
  BY <1>1, <1>3 DEF FramesAlternate
<1>9. Filed'
  <2>1. Len(recs) \in Nat
    BY <1>1 DEF PartialShapes
  <2>2. flush'.wrote \in 0 .. Len(recs)
    BY <1>3, <1>5, <2>1
  <2>3. ASSUME NEW i \in 1 .. n + 1
        PROVE  \E l \in log' : ~l.alone /\ Part!Same(l, recs[i])
    <3>1. CASE i = n + 1
      <4>1. PICK l : l = Part!Written(turn, recs[n + 1])
        OBVIOUS
      <4>2. ~l.alone /\ Part!Same(l, recs[i])
        BY <3>1, <4>1 DEF Part!Written, Part!Same
      <4>3. QED
        BY <1>3, <4>1, <4>2
    <3>2. CASE i # n + 1
      <4>1. i \in 1 .. flush.wrote
        BY <1>2, <3>2
      <4>2. QED
        BY <1>1, <1>3, <4>1 DEF Filed
    <3>3. QED
      BY <3>1, <3>2
  <2>4. Part!IssuedWritten'
    BY <1>1, <1>3 DEF Filed, Part!IssuedWritten
  <2>5. QED
    BY <1>1, <1>3, <1>5, <2>2, <2>3, <2>4 DEF Filed
<1>10. QED
  BY <1>6, <1>7, <1>9 DEF PInv

LEMMA PartialForgets == PInv /\ Part!FlushEnds => PInv'
<1> SUFFICES ASSUME PInv, Part!FlushEnds PROVE PInv'
  OBVIOUS
<1>1. PartialShapes /\ FramesAlternate /\ Filed
  BY DEF PInv
<1>2. /\ flush.why # "none" /\ flush.wrote = Len(recs)
      /\ flush' = [why |-> "none", wrote |-> 0]
      /\ UNCHANGED <<talking, inbox, utt, speaking, task, decodes, log>>
  BY DEF Part!FlushEnds, Part!NoFlush, Part!sttVars
<1>3. turn \in Nat /\ recs \in Seq(PartialRecord) /\ open
  BY <1>1, <1>2 DEF PartialShapes, Filed
<1>4. ASSUME NEW d \in decodes, d.noted
      PROVE  \E l \in log : ~l.alone /\ Part!Same(l, d)
  <2>1. d.turn <= turn /\ d.turn \in Nat
    BY <1>1 DEF Filed, PartialShapes, PartialDecode
  <2>2. CASE d.turn < turn
    BY <1>1, <1>4, <2>2 DEF Filed, Part!IssuedWritten
  <2>3. CASE d.turn = turn
    <3>1. PICK i \in DOMAIN recs : Part!Same(recs[i], d)
      BY <1>1, <1>3, <1>4, <2>3 DEF Filed
    <3>2. i \in 1 .. flush.wrote
      BY <1>2, <1>3
    <3>3. PICK l \in log : ~l.alone /\ Part!Same(l, recs[i])
      BY <1>1, <3>2 DEF Filed
    <3>4. Part!Same(l, d)
      BY <3>1, <3>3 DEF Part!Same
    <3>5. QED
      BY <3>3, <3>4
  <2>4. QED
    BY <1>3, <2>1, <2>2, <2>3
<1>5. FramesAlternate'
  BY <1>1, <1>2 DEF FramesAlternate
<1>6. recs' = <<>> /\ turn' \in Nat /\ open' \in BOOLEAN /\ turn <= turn'
      /\ (open' => turn' = turn + 1 /\ flush.why = "split")
      /\ (~open' => turn' = turn /\ flush.why = "close")
  <2>1. flush.why \in {"none", "close", "split"}
    BY <1>1 DEF PartialShapes
  <2>2. CASE flush.why = "split"
    <3>1. turn' = turn + 1 /\ open' = TRUE /\ recs' = <<>>
      BY <2>2 DEF Part!FlushEnds, Part!OpenTurn
    <3>2. QED
      BY <1>3, <2>2, <3>1
  <2>3. CASE flush.why = "close"
    <3>1. turn' = turn /\ open' = FALSE /\ recs' = <<>>
      BY <2>3 DEF Part!FlushEnds
    <3>2. ~open' /\ open' \in BOOLEAN
      BY <3>1
    <3>3. turn' \in Nat /\ turn <= turn'
      BY <1>3, <3>1
    <3>4. QED
      BY <2>3, <3>1, <3>2, <3>3
  <2>4. QED
    BY <1>2, <2>1, <2>2, <2>3
<1>7. PartialShapes'
  <2>1. recs' \in Seq(PartialRecord)
    BY <1>6
  <2>2. QED
    BY <1>1, <1>2, <1>6, <2>1 DEF PartialShapes
<1>9. Filed'
  <2>1. flush'.wrote = 0 /\ Len(recs') = 0
    BY <1>2, <1>6
  <2>2. flush'.wrote \in 0 .. Len(recs') /\ 1 .. flush'.wrote = {}
    BY <2>1
  <2>3. \A d \in decodes' : d.turn <= turn /\ d.turn \in Nat
    BY <1>1, <1>2 DEF Filed, PartialShapes, PartialDecode
  <2>4. \A d \in decodes' : d.turn <= turn' /\ ~(d.turn = turn' /\ open')
    BY <1>3, <1>6, <2>3
  <2>5. \A d \in decodes' : d.noted => \E l \in log' : ~l.alone /\ Part!Same(l, d)
    BY <1>2, <1>4
  <2>6. QED
    BY <1>2, <2>1, <2>2, <2>4, <2>5 DEF Filed, Part!IssuedWritten
<1>10. QED
  BY <1>5, <1>7, <1>9 DEF PInv

\* The service has handled a frame.
LEMMA PartialHandles ==
    ASSUME PInv, inbox # <<>>, speaking' = ~speaking, inbox' = Tail(inbox),
           UNCHANGED <<turn, open, talking, decodes, recs, flush, log>>,
           utt' \in Nat, task' \in [pc : {"none", "polling", "awaiting", "over"}, next : Nat]
    PROVE  PInv'
<1>1. PartialShapes /\ FramesAlternate /\ Filed
  BY DEF PInv
<1>2. FramesAlternate' /\ inbox' \in Seq({"started", "stopped"})
  BY <1>1, FrameHandled
<1>3. PartialShapes'
  BY <1>1, <1>2 DEF PartialShapes
<1>4. Filed'
  BY <1>1 DEF Filed, Part!IssuedWritten
<1>5. QED
  BY <1>2, <1>3, <1>4 DEF PInv

LEMMA PartialHandleStarted == PInv /\ Part!HandleStarted => PInv'
<1> SUFFICES ASSUME PInv, Part!HandleStarted PROVE PInv'
  OBVIOUS
<1>1. PartialShapes /\ FramesAlternate
  BY DEF PInv
<1>2. /\ inbox # <<>> /\ inbox[1] = "started" /\ inbox' = Tail(inbox)
      /\ utt' = utt + 1 /\ speaking' = TRUE /\ task' = [pc |-> "polling", next |-> 1]
      /\ UNCHANGED <<turn, open, talking, decodes, recs, flush, log>>
  BY DEF Part!HandleStarted, Part!userVars
<1>3. speaking' = ~speaking
  BY <1>1, <1>2 DEF FramesAlternate, PartialShapes
<1>4. utt' \in Nat /\ task' \in [pc : {"none", "polling", "awaiting", "over"}, next : Nat]
  BY <1>1, <1>2 DEF PartialShapes
<1>5. QED
  BY <1>2, <1>3, <1>4, PartialHandles

LEMMA PartialHandleStopped == PInv /\ Part!HandleStopped => PInv'
<1> SUFFICES ASSUME PInv, Part!HandleStopped PROVE PInv'
  OBVIOUS
<1>1. PartialShapes /\ FramesAlternate
  BY DEF PInv
<1>2. /\ inbox # <<>> /\ inbox[1] = "stopped" /\ inbox' = Tail(inbox)
      /\ utt' = utt /\ speaking' = FALSE /\ task' = [pc |-> "none", next |-> 1]
      /\ UNCHANGED <<turn, open, talking, decodes, recs, flush, log>>
  BY DEF Part!HandleStopped, Part!userVars, Part!NoTask
<1>3. speaking' = ~speaking
  BY <1>1, <1>2 DEF FramesAlternate, PartialShapes
<1>4. utt' \in Nat /\ task' \in [pc : {"none", "polling", "awaiting", "over"}, next : Nat]
  BY <1>1, <1>2 DEF PartialShapes
<1>5. QED
  BY <1>2, <1>3, <1>4, PartialHandles

(* The records after an issue: one more if the turn is open, else the same.*)
LEMMA RecordsAfterIssue ==
    ASSUME PartialShapes, Part!Issue
    PROVE  /\ recs' \in Seq(PartialRecord)
           /\ \A i \in 1 .. Len(recs) : recs'[i] = recs[i]
           /\ IF open
              THEN /\ Len(recs') = Len(recs) + 1
                   /\ LET r == recs'[Len(recs) + 1]
                      IN  r.utt = utt /\ r.offset = task.next /\ ~r.filled
              ELSE recs' = recs
<1>1. PICK r : r = [utt |-> utt, offset |-> task.next, filled |-> FALSE, of |-> 0,
                    done |-> FALSE]
  OBVIOUS
<1>2. /\ task \in [pc : {"none", "polling", "awaiting", "over"}, next : Nat]
      /\ utt \in Nat /\ recs \in Seq(PartialRecord) /\ open \in BOOLEAN
  BY DEF PartialShapes
<1>3. /\ r \in PartialRecord /\ r.utt = utt /\ r.offset = task.next /\ ~r.filled
      /\ Len(recs) \in Nat
  BY <1>1, <1>2 DEF PartialRecord
<1>4. recs' = IF open THEN Append(recs, r) ELSE recs
  BY <1>1 DEF Part!Issue
<1>5. CASE open
  <2>1. recs' = Append(recs, r)
    BY <1>4, <1>5
  <2>2. /\ recs' \in Seq(PartialRecord) /\ Len(recs') = Len(recs) + 1
        /\ recs'[Len(recs) + 1] = r /\ \A i \in 1 .. Len(recs) : recs'[i] = recs[i]
    BY <1>2, <1>3, <2>1
  <2>3. QED
    BY <1>3, <1>5, <2>2
<1>6. CASE ~open
  BY <1>2, <1>4, <1>6
<1>7. QED
  BY <1>5, <1>6

LEMMA PartialIssues == PInv /\ Part!Issue => PInv'
<1> SUFFICES ASSUME PInv, Part!Issue PROVE PInv'
  OBVIOUS
<1>1. PartialShapes /\ FramesAlternate /\ Filed
  BY DEF PInv
<1>2. PICK d : d = Part!Decode(task.next)
  OBVIOUS
<1>3. PICK n \in Nat : n = Len(recs)
  BY <1>1 DEF PartialShapes
<1>4. /\ flush.why = "none" /\ decodes' = decodes \cup {d}
      /\ task' = [task EXCEPT !.pc = "awaiting"]
      /\ UNCHANGED <<turn, open, talking, inbox, utt, speaking, flush, log>>
  BY <1>2 DEF Part!Issue, Part!LoopFree, Part!userVars
<1>5. /\ task \in [pc : {"none", "polling", "awaiting", "over"}, next : Nat]
      /\ turn \in Nat /\ utt \in Nat /\ open \in BOOLEAN /\ recs \in Seq(PartialRecord)
  BY <1>1 DEF PartialShapes
<1>6. task' \in [pc : {"none", "polling", "awaiting", "over"}, next : Nat] /\ task.next \in Nat
  BY <1>4, <1>5
<1>7. /\ d \in PartialDecode /\ d.turn = turn /\ d.noted = open
      /\ d.utt = utt /\ d.offset = task.next
  BY <1>2, <1>5, <1>6 DEF PartialDecode, Part!Decode
<1>8. /\ recs' \in Seq(PartialRecord) /\ DOMAIN recs = 1 .. n
      /\ \A i \in 1 .. n : recs'[i] = recs[i]
      /\ Len(recs') \in Nat /\ n <= Len(recs') /\ DOMAIN recs' = 1 .. Len(recs')
      /\ open => /\ n + 1 \in DOMAIN recs'
                 /\ recs'[n + 1].utt = utt /\ recs'[n + 1].offset = task.next
  <2>1. /\ recs' \in Seq(PartialRecord) /\ \A i \in 1 .. n : recs'[i] = recs[i]
        /\ open => /\ Len(recs') = n + 1
                   /\ recs'[n + 1].utt = utt /\ recs'[n + 1].offset = task.next
        /\ ~open => recs' = recs
    BY <1>1, <1>3, RecordsAfterIssue
  <2>2. DOMAIN recs = 1 .. n /\ Len(recs') \in Nat /\ DOMAIN recs' = 1 .. Len(recs')
    BY <1>3, <1>5, <2>1
  <2>3. n <= Len(recs')
    BY <1>3, <1>5, <2>1
  <2>4. QED
    BY <2>1, <2>2, <2>3
<1>9. PartialShapes'
  BY <1>1, <1>4, <1>6, <1>7, <1>8 DEF PartialShapes
<1>10. FramesAlternate'
  BY <1>1, <1>4 DEF FramesAlternate
<1>11. Filed'
  <2>1. flush.wrote = 0
    BY <1>1, <1>4 DEF Filed
  <2>2. flush'.wrote \in 0 .. Len(recs') /\ flush'.wrote = 0 /\ 1 .. flush'.wrote = {}
    BY <1>4, <1>8, <2>1
  <2>3. ASSUME NEW e \in decodes'
        PROVE  /\ e.turn <= turn
               /\ e.noted /\ e.turn = turn /\ open
                     => \E i \in DOMAIN recs' : Part!Same(recs'[i], e)
               /\ e.noted /\ (e.turn < turn \/ ~open)
                     => \E l \in log : ~l.alone /\ Part!Same(l, e)
    <3>1. CASE e = d
      <4>1. open => Part!Same(recs'[n + 1], e) /\ n + 1 \in DOMAIN recs'
        BY <1>7, <1>8, <3>1 DEF Part!Same
      <4>2. e.turn = turn /\ e.noted = open
        BY <1>7, <3>1
      <4>3. QED
        BY <1>5, <4>1, <4>2
    <3>2. CASE e \in decodes
      <4>1. e.noted /\ e.turn = turn /\ open => \E i \in DOMAIN recs : Part!Same(recs[i], e)
        BY <1>1, <3>2 DEF Filed
      <4>2. \A i \in DOMAIN recs : i \in DOMAIN recs' /\ recs'[i] = recs[i]
        BY <1>8
      <4>3. e.noted /\ e.turn = turn /\ open => \E i \in DOMAIN recs' : Part!Same(recs'[i], e)
        BY <4>1, <4>2
      <4>4. QED
        BY <1>1, <3>2, <4>3 DEF Filed, Part!IssuedWritten
    <3>3. QED
      BY <1>4, <3>1, <3>2
  <2>4. QED
    BY <1>4, <2>2, <2>3 DEF Filed, Part!IssuedWritten
<1>12. QED
  BY <1>9, <1>10, <1>11 DEF PInv

LEMMA PartialNext == PInv /\ [Part!Next]_(Part!vars) => PInv'
<1> SUFFICES ASSUME PInv, [Part!Next]_(Part!vars) PROVE PInv'
  OBVIOUS
<1>1. CASE UNCHANGED Part!vars
  <2>1. /\ UNCHANGED <<turn, open, talking, inbox, utt, speaking, flush, task>>
        /\ decodes' \subseteq decodes /\ recs' = recs /\ log' = log
    BY <1>1 DEF Part!vars, Part!userVars, Part!sttVars
  <2>2. task' \in [pc : {"none", "polling", "awaiting", "over"}, next : Nat]
    BY <2>1 DEF PInv, PartialShapes
  <2>3. QED
    BY <2>1, <2>2, FewerDecodes, QuietSteps
<1>2. CASE Part!Next
  BY <1>2, PartialStarts, PartialStops, PartialCloses, PartialWrites, PartialForgets,
     PartialHandleStarted, PartialHandleStopped, PartialQuiet, PartialIssues, PartialResume,
     PartialThread DEF Part!Next
<1>3. QED
  BY <1>1, <1>2

(* Partials: every partial issued in an open turn is on file once the turn *)
(* has closed (IssuedWritten), for any number of turns, splits and offsets.*)
THEOREM IssuedIsOnFile == Part!Spec => []Part!IssuedWritten
<1>1. PInv => Part!IssuedWritten
  BY DEF PInv, Filed
<1>2. QED
  BY <1>1, PartialsInit, PartialNext, PTL DEF Part!Spec

-----------------------------------------------------------------------------
(* As long as one turn at most was split, the service is one utterance     *)
(* behind the user at most.                                                *)

\* A turn that splits the open one is not open yet, and an utterance whose first
\* frame waits has not begun for the service.
SplitsIn == IF flush.why = "split" THEN 1 ELSE 0
Waits == IF inbox # <<>> /\ inbox[1] = "started" THEN 1 ELSE 0

OneAhead ==
    /\ splits \in 0 .. 1
    /\ Len(inbox) <= 2 /\ (Len(inbox) = 2 => inbox[1] = "started")
    /\ final # "none" => ~speaking
    /\ final # "none" /\ inbox # <<>> => splits = 1
    /\ turn + SplitsIn = utt + Waits

\* What the decodes and the records say is of the turn they are in.
OwnTurns ==
    /\ \A i \in 1 .. Len(recs) : recs[i].utt = turn /\ (recs[i].filled => recs[i].of = turn)
    /\ \A d \in decodes : d.turn = d.utt /\ (d.pc = "found" => d.rec = d.utt)
    /\ Part!OwnRecord

QInv == PInv /\ OneAhead /\ OwnTurns

\* An utterance that speaks is of the newest turn.
LEMMA InStep ==
    ASSUME PInv, OneAhead, speaking, flush.why = "none"
    PROVE  utt = turn
<1>1. Waits = 0
  BY DEF PInv, FramesAlternate, PartialShapes, Waits
<1>2. SplitsIn = 0 /\ turn \in Nat /\ utt \in Nat
  BY DEF SplitsIn, PInv, PartialShapes
<1>3. QED
  BY <1>1, <1>2 DEF OneAhead

LEMMA AheadRests ==
    ASSUME OneAhead, UNCHANGED <<splits, inbox, speaking, final, turn, utt>>,
           flush'.why = "split" <=> flush.why = "split"
    PROVE  OneAhead'
BY DEF OneAhead, SplitsIn, Waits

LEMMA TurnsRest ==
    ASSUME OwnTurns, UNCHANGED <<turn, recs, log>>, decodes' \subseteq decodes
    PROVE  OwnTurns'
BY DEF OwnTurns, Part!OwnRecord

LEMMA OwnInit == Part!Init => OneAhead /\ OwnTurns
<1> SUFFICES ASSUME Part!Init PROVE OneAhead /\ OwnTurns
  OBVIOUS
<1>1. /\ splits = 0 /\ turn = 0 /\ utt = 0 /\ inbox = <<>> /\ final = "none"
      /\ flush.why = "none" /\ recs = <<>> /\ decodes = {} /\ log = {}
  BY DEF Part!Init, Part!NoFlush
<1>2. Len(inbox) = 0 /\ Len(recs) = 0 /\ SplitsIn = 0 /\ Waits = 0
  BY <1>1 DEF SplitsIn, Waits
<1>3. QED
  BY <1>1, <1>2 DEF OneAhead, OwnTurns, Part!OwnRecord

LEMMA StartsInStep ==
    ASSUME QInv, MaxSplits \in 0 .. 1, Part!UserStarts
    PROVE  OneAhead' /\ OwnTurns'
<1>1. PInv /\ OneAhead /\ OwnTurns /\ PartialShapes
  BY DEF QInv, PInv
<1>2. /\ flush.why = "none" /\ (inbox = <<>> \/ final # "none")
      /\ inbox' = Append(inbox, "started")
      /\ UNCHANGED <<speaking, final, utt, decodes, log>>
  BY DEF Part!UserStarts, Part!LoopFree, Part!CaughtUp
<1>3. turn \in Nat /\ utt \in Nat
  BY <1>1 DEF PartialShapes
<1>4. CASE open
  <2>1. /\ splits < MaxSplits /\ splits' = splits + 1 /\ flush' = [why |-> "split", wrote |-> 0]
        /\ UNCHANGED <<turn, recs>>
    BY <1>4 DEF Part!UserStarts, Part!GateOpens, Part!FlushFrom
  <2>2. splits = 0 /\ splits' = 1
    BY <1>1, <2>1 DEF OneAhead
  <2>3. inbox = <<>>
    BY <1>1, <1>2, <2>2 DEF OneAhead
  <2>4. Len(inbox') = 1 /\ inbox' # <<>> /\ inbox'[1] = "started"
    BY <1>2, <2>3
  <2>5. SplitsIn = 0 /\ Waits = 0 /\ SplitsIn' = 1 /\ Waits' = 1
    BY <1>2, <2>1, <2>3, <2>4 DEF SplitsIn, Waits
  <2>6. OneAhead'
    BY <1>1, <1>2, <1>3, <2>1, <2>2, <2>4, <2>5 DEF OneAhead
  <2>7. OwnTurns'
    BY <1>1, <1>2, <2>1, TurnsRest
  <2>8. QED
    BY <2>6, <2>7
<1>5. CASE ~open
  <2>1. /\ turn' = turn + 1 /\ recs' = <<>> /\ flush' = flush
        /\ \/ inbox = <<>> /\ final = "none" /\ splits' = splits
           \/ splits < MaxSplits /\ splits' = splits + 1
    BY <1>5 DEF Part!UserStarts, Part!GateOpens, Part!OpenTurn
  <2>2. inbox = <<>> /\ splits' \in 0 .. 1 /\ (final # "none" => splits' = 1)
    <3>1. CASE inbox = <<>> /\ final = "none" /\ splits' = splits
      BY <1>1, <3>1 DEF OneAhead
    <3>2. CASE splits < MaxSplits /\ splits' = splits + 1
      <4>1. splits = 0 /\ splits' = 1
        BY <1>1, <3>2 DEF OneAhead
      <4>2. QED
        BY <1>1, <1>2, <4>1 DEF OneAhead
    <3>3. QED
      BY <2>1, <3>1, <3>2
  <2>3. Len(inbox') = 1 /\ inbox' # <<>> /\ inbox'[1] = "started"
    BY <1>2, <2>2
  <2>4. SplitsIn = 0 /\ Waits = 0 /\ SplitsIn' = 0 /\ Waits' = 1
    BY <1>2, <2>1, <2>2, <2>3 DEF SplitsIn, Waits
  <2>5. OneAhead'
    BY <1>1, <1>2, <1>3, <2>1, <2>2, <2>3, <2>4 DEF OneAhead
  <2>6. OwnTurns'
    <3>1. 1 .. Len(recs') = {}
      BY <2>1
    <3>2. QED
      BY <1>1, <1>2, <3>1 DEF OwnTurns, Part!OwnRecord
  <2>7. QED
    BY <2>5, <2>6
<1>6. QED
  BY <1>4, <1>5

LEMMA StopsInStep ==
    ASSUME QInv, Part!UserStops
    PROVE  OneAhead' /\ OwnTurns'
<1>1. PInv /\ OneAhead /\ OwnTurns /\ PartialShapes /\ FramesAlternate
  BY DEF QInv, PInv
<1>2. /\ talking /\ inbox' = Append(inbox, "stopped")
      /\ UNCHANGED <<turn, splits, speaking, final, utt, decodes, recs, flush, log>>
  BY DEF Part!UserStops
<1>3. inbox \in Seq({"started", "stopped"}) /\ speaking \in BOOLEAN
  BY <1>1 DEF PartialShapes
<1>4. PICK n \in Nat : n = Len(inbox) /\ DOMAIN inbox = 1 .. n
  BY <1>3
<1>5. OwnTurns'
  BY <1>1, <1>2, TurnsRest
<1>6. CASE inbox = <<>>
  <2>1. speaking /\ final = "none"
    BY <1>1, <1>2, <1>6 DEF FramesAlternate, OneAhead
  <2>2. Len(inbox') = 1 /\ inbox'[1] = "stopped" /\ inbox' # <<>>
    BY <1>2, <1>6
  <2>3. Waits = 0 /\ Waits' = 0 /\ SplitsIn' = SplitsIn
    BY <1>2, <1>6, <2>2 DEF Waits, SplitsIn
  <2>4. QED
    BY <1>1, <1>2, <1>5, <2>1, <2>2, <2>3 DEF OneAhead
<1>7. CASE inbox # <<>>
  <2>1. inbox[n] = "started" /\ n # 0
    BY <1>1, <1>2, <1>3, <1>4, <1>7 DEF FramesAlternate
  <2>2. n = 1
    <3>1. n <= 2 /\ (n = 2 => inbox[1] = "started")
      BY <1>1, <1>4 DEF OneAhead
    <3>2. ASSUME n = 2 PROVE FALSE
      <4>1. PICK i \in DOMAIN inbox : i = 1
        BY <1>4, <3>2
      <4>2. i + 1 \in DOMAIN inbox /\ i + 1 = n
        BY <1>4, <3>2, <4>1
      <4>3. inbox[i] # inbox[i + 1]
        BY <1>1, <4>2 DEF FramesAlternate
      <4>4. QED
        BY <2>1, <3>1, <3>2, <4>1, <4>2, <4>3
    <3>3. QED
      BY <2>1, <3>1, <3>2
  <2>3. Len(inbox') = 2 /\ inbox'[1] = "started" /\ inbox' # <<>> /\ inbox[1] = "started"
    <3>1. Len(inbox) = 1 /\ inbox[1] = "started"
      BY <1>4, <2>1, <2>2
    <3>2. Len(inbox') = 2 /\ inbox'[1] = inbox[1]
      <4>1. Len(inbox') = Len(inbox) + 1
            /\ \A i \in 1 .. Len(inbox) : inbox'[i] = inbox[i]
        BY <1>2, <1>3
      <4>2. QED
        BY <3>1, <4>1
    <3>3. inbox' # <<>>
      BY <1>2, <1>3
    <3>4. QED
      BY <3>1, <3>2, <3>3
  <2>4. Waits = 1 /\ Waits' = 1 /\ SplitsIn' = SplitsIn
    BY <1>2, <1>7, <2>3 DEF Waits, SplitsIn
  <2>5. QED
    BY <1>1, <1>2, <1>5, <1>7, <2>3, <2>4 DEF OneAhead
<1>8. QED
  BY <1>6, <1>7

LEMMA WritesOwn ==
    ASSUME QInv, Part!WriteNext
    PROVE  OneAhead' /\ OwnTurns'
<1>1. PInv /\ OneAhead /\ OwnTurns /\ PartialShapes
  BY DEF QInv, PInv
<1>2. PICK n \in Nat : n = flush.wrote
  BY <1>1 DEF PartialShapes
<1>3. PICK l : l = Part!Written(turn, recs[n + 1])
  OBVIOUS
<1>4. /\ n < Len(recs) /\ log' = log \cup {l} /\ flush' = [flush EXCEPT !.wrote = n + 1]
      /\ UNCHANGED <<turn, splits, inbox, speaking, final, utt, decodes, recs>>
  BY <1>2, <1>3 DEF Part!WriteNext, Part!userVars, Part!sttVars
<1>5. flush'.why = flush.why
  <2>1. flush \in [why : {"none", "close", "split"}, wrote : Nat]
    BY <1>1 DEF PartialShapes
  <2>2. QED
    BY <1>4, <2>1
<1>6. OneAhead'
  BY <1>1, <1>4, <1>5, AheadRests
<1>7. l.turn = l.utt /\ (l.filled => l.of = l.utt)
  <2>1. Len(recs) \in Nat
    BY <1>1 DEF PartialShapes
  <2>2. n + 1 \in 1 .. Len(recs)
    BY <1>4, <2>1
  <2>3. recs[n + 1].utt = turn /\ (recs[n + 1].filled => recs[n + 1].of = turn)
    BY <1>1, <2>2 DEF OwnTurns
  <2>4. QED
    BY <1>3, <2>3 DEF Part!Written
<1>8. OwnTurns'
  BY <1>1, <1>4, <1>7 DEF OwnTurns, Part!OwnRecord
<1>9. QED
  BY <1>6, <1>8

LEMMA ForgetsInStep ==
    ASSUME QInv, Part!FlushEnds
    PROVE  OneAhead' /\ OwnTurns'
<1>1. PInv /\ OneAhead /\ OwnTurns /\ PartialShapes
  BY DEF QInv, PInv
<1>2. /\ flush.why # "none" /\ flush'.why = "none"
      /\ UNCHANGED <<splits, inbox, speaking, final, utt, decodes, log>>
  BY DEF Part!FlushEnds, Part!NoFlush, Part!sttVars
<1>3. flush.why \in {"none", "close", "split"} /\ turn \in Nat /\ utt \in Nat
  BY <1>1 DEF PartialShapes
<1>4. recs' = <<>> /\ turn' = turn + SplitsIn
  BY <1>3 DEF Part!FlushEnds, Part!OpenTurn, SplitsIn
<1>5. SplitsIn' = 0 /\ Waits' = Waits /\ SplitsIn \in 0 .. 1 /\ Waits \in 0 .. 1
  BY <1>2 DEF SplitsIn, Waits
<1>6. turn' + SplitsIn' = utt' + Waits'
  BY <1>1, <1>2, <1>3, <1>4, <1>5 DEF OneAhead
<1>7. OneAhead'
  BY <1>1, <1>2, <1>6 DEF OneAhead
<1>8. OwnTurns'
  <2>1. 1 .. Len(recs') = {}
    BY <1>4
  <2>2. QED
    BY <1>1, <1>2, <2>1 DEF OwnTurns, Part!OwnRecord
<1>9. QED
  BY <1>7, <1>8

LEMMA HandlesInStep ==
    ASSUME QInv, Part!HandleStarted \/ Part!HandleStopped
    PROVE  OneAhead' /\ OwnTurns'
<1>1. PInv /\ OneAhead /\ OwnTurns /\ PartialShapes /\ FramesAlternate
  BY DEF QInv, PInv
<1>2. /\ flush.why = "none" /\ inbox # <<>> /\ inbox' = Tail(inbox)
      /\ UNCHANGED <<turn, splits, decodes, recs, flush, log>>
  BY DEF Part!HandleStarted, Part!HandleStopped, Part!userVars, Part!LoopFree
<1>3. OwnTurns'
  BY <1>1, <1>2, TurnsRest
<1>4. /\ inbox \in Seq({"started", "stopped"}) /\ speaking \in BOOLEAN
      /\ turn \in Nat /\ utt \in Nat
  BY <1>1 DEF PartialShapes
<1>5. PICK n \in Nat : n = Len(inbox) /\ DOMAIN inbox = 1 .. n /\ n # 0 /\ n <= 2
  BY <1>1, <1>2, <1>4 DEF OneAhead
<1>6. /\ Len(inbox') = n - 1 /\ \A i \in 1 .. n - 1 : inbox'[i] = inbox[i + 1]
  BY <1>2, <1>4, <1>5
<1>7. SplitsIn' = SplitsIn
  BY <1>2 DEF SplitsIn
<1>8. Waits' = 0
  <2>1. CASE n = 1
    <3>1. inbox' = <<>>
      BY <1>2, <1>4, <1>5, <2>1
    <3>2. QED
      BY <3>1 DEF Waits
  <2>2. CASE n = 2
    <3>1. PICK i \in DOMAIN inbox : i = 1
      BY <1>5, <2>2
    <3>2. i + 1 \in DOMAIN inbox /\ i \in 1 .. n - 1
      BY <1>5, <2>2, <3>1
    <3>3. inbox[i] # inbox[i + 1] /\ inbox[i] = "started"
      BY <1>1, <1>5, <2>2, <3>1, <3>2 DEF FramesAlternate, OneAhead
    <3>4. inbox'[1] # "started"
      BY <1>6, <3>1, <3>2, <3>3
    <3>5. QED
      BY <3>4 DEF Waits
  <2>3. QED
    BY <1>5, <2>1, <2>2
<1>9. CASE Part!HandleStarted
  <2>1. inbox[1] = "started" /\ utt' = utt + 1 /\ final = "none" /\ final' = "none"
    BY <1>9 DEF Part!HandleStarted
  <2>2. Waits = 1
    BY <1>2, <2>1 DEF Waits
  <2>3. Len(inbox') <= 2 /\ Len(inbox') # 2
    BY <1>5, <1>6
  <2>4. turn' + SplitsIn' = utt' + Waits'
    BY <1>1, <1>2, <1>4, <1>7, <1>8, <2>1, <2>2 DEF OneAhead, SplitsIn
  <2>5. QED
    BY <1>1, <1>2, <1>3, <2>1, <2>3, <2>4 DEF OneAhead
<1>10. CASE Part!HandleStopped
  <2>1. inbox[1] = "stopped" /\ utt' = utt /\ speaking' = FALSE
    BY <1>10 DEF Part!HandleStopped
  <2>2. Waits = 0
    BY <2>1 DEF Waits
  <2>3. n = 1
    BY <1>1, <1>5, <2>1 DEF OneAhead
  <2>4. inbox' = <<>> /\ Len(inbox') = 0
    BY <1>2, <1>4, <1>5, <2>3
  <2>5. turn' + SplitsIn' = utt' + Waits'
    BY <1>1, <1>2, <1>7, <1>8, <2>1, <2>2 DEF OneAhead
  <2>6. QED
    BY <1>1, <1>2, <1>3, <2>1, <2>4, <2>5 DEF OneAhead
<1>11. QED
  BY <1>9, <1>10

LEMMA QuietInStep ==
    ASSUME QInv, \/ Part!LlmEnds \/ Part!ReplyEnds \/ Part!ForceClose
                 \/ Part!Hear \/ Part!Unwind \/ Part!FinalStarts
                 \/ Part!FinalLands \/ UNCHANGED Part!vars
    PROVE  OneAhead' /\ OwnTurns'
<1>1. OneAhead /\ OwnTurns
  BY DEF QInv
<1>2. /\ UNCHANGED <<turn, splits, inbox, utt, speaking, recs, log>>
      /\ decodes' \subseteq decodes
      /\ flush'.why = "split" <=> flush.why = "split"
      /\ final' = final \/ (final # "none" /\ final' # "none") \/ final' = "none"
  BY DEF Part!LlmEnds, Part!ReplyEnds, Part!ForceClose, Part!Hear, Part!Unwind,
         Part!FinalStarts, Part!FinalLands, Part!vars, Part!userVars, Part!sttVars,
         Part!LoopFree, Part!FlushFrom
<1>3. OneAhead'
  BY <1>1, <1>2 DEF OneAhead, SplitsIn, Waits
<1>4. QED
  BY <1>1, <1>2, <1>3, TurnsRest

LEMMA IssuesOwn ==
    ASSUME QInv, Part!Issue
    PROVE  OneAhead' /\ OwnTurns'
<1>1. PInv /\ OneAhead /\ OwnTurns /\ PartialShapes
  BY DEF QInv, PInv
<1>2. PICK d : d = Part!Decode(task.next)
  OBVIOUS
<1>3. /\ flush.why = "none" /\ speaking /\ decodes' = decodes \cup {d}
      /\ UNCHANGED <<turn, splits, inbox, utt, speaking, final, flush, log>>
  BY <1>1, <1>2 DEF Part!Issue, Part!LoopFree, Part!userVars
<1>4. utt = turn
  BY <1>1, <1>3, InStep
<1>5. OneAhead'
  BY <1>1, <1>3, AheadRests
<1>6. d.turn = d.utt /\ d.pc # "found"
  BY <1>2, <1>4 DEF Part!Decode
<1>7. PICK n \in Nat : n = Len(recs)
  BY <1>1 DEF PartialShapes
<1>8. /\ \A i \in 1 .. n : recs'[i] = recs[i]
      /\ \/ Len(recs') = n + 1 /\ recs'[n + 1].utt = turn /\ ~recs'[n + 1].filled
         \/ recs' = recs
  BY <1>1, <1>4, <1>7, RecordsAfterIssue
<1>9. ASSUME NEW i \in 1 .. Len(recs')
      PROVE  recs'[i].utt = turn /\ (recs'[i].filled => recs'[i].of = turn)
  <2>1. CASE i \in 1 .. n
    BY <1>1, <1>7, <1>8, <2>1 DEF OwnTurns
  <2>2. CASE i \notin 1 .. n
    <3>1. Len(recs') # n
      BY <1>9, <2>2
    <3>2. Len(recs') = n + 1 /\ recs'[n + 1].utt = turn /\ ~recs'[n + 1].filled
      BY <1>7, <1>8, <3>1
    <3>3. i = n + 1
      BY <1>9, <2>2, <3>2
    <3>4. QED
      BY <3>2, <3>3
  <2>3. QED
    BY <2>1, <2>2
<1>10. OwnTurns'
  BY <1>1, <1>3, <1>6, <1>9 DEF OwnTurns, Part!OwnRecord
<1>11. QED
  BY <1>5, <1>10

LEMMA ResumesOwn ==
    ASSUME QInv, Part!Resume
    PROVE  OneAhead' /\ OwnTurns'
<1>1. PInv /\ OneAhead /\ OwnTurns /\ PartialShapes
  BY DEF QInv, PInv
<1>2. /\ decodes' \subseteq decodes /\ recs' = Part!NoteDone(task.next)
      /\ UNCHANGED <<turn, splits, inbox, utt, speaking, final, flush, log>>
  BY DEF Part!Resume, Part!userVars
<1>3. OneAhead'
  BY <1>1, <1>2, AheadRests
<1>4. /\ Len(recs') = Len(recs)
      /\ \A i \in 1 .. Len(recs) : /\ recs'[i].utt = recs[i].utt
                                   /\ recs'[i].filled = recs[i].filled
                                   /\ recs'[i].of = recs[i].of
  BY <1>1, <1>2, NotedDone
<1>5. OwnTurns'
  BY <1>1, <1>2, <1>4 DEF OwnTurns, Part!OwnRecord
<1>6. QED
  BY <1>3, <1>5

LEMMA ThreadsOwn ==
    ASSUME QInv, Part!Thread
    PROVE  OneAhead' /\ OwnTurns'
<1>1. PInv /\ OneAhead /\ OwnTurns /\ PartialShapes
  BY DEF QInv, PInv
<1>2. UNCHANGED <<turn, splits, inbox, utt, speaking, final, flush>>
  <2>1. UNCHANGED Part!threadVars
    BY <1>1, ThreadCarriesOn
  <2>2. QED
    BY <2>1 DEF Part!threadVars, Part!userVars, Part!sttVars
<1>3. OneAhead'
  BY <1>1, <1>2, AheadRests
<1>4. PICK d \in decodes : \/ Part!Take(d) \/ Part!DecodeEnds(d) \/ Part!LookUp(d)
                           \/ Part!Fill(d) \/ Part!WriteLate(d) \/ Part!ThreadLeaves(d)
  BY DEF Part!Thread
<1>5. d \in PartialDecode /\ recs \in Seq(PartialRecord) /\ Len(recs) \in Nat
  BY <1>1 DEF PartialShapes
<1>6. d.turn = d.utt /\ (d.pc = "found" => d.rec = d.utt)
  BY <1>1 DEF OwnTurns
<1>7. ASSUME NEW e, decodes' \subseteq decodes \cup {e}, e.turn = e.utt,
             e.pc = "found" => e.rec = e.utt,
             \A i \in 1 .. Len(recs') : recs'[i].utt = turn
                                        /\ (recs'[i].filled => recs'[i].of = turn),
             \A l \in log' : l \notin log => l.turn = l.utt /\ (l.filled => l.of = l.utt)
      PROVE  OwnTurns'
  BY <1>1, <1>2, <1>7 DEF OwnTurns, Part!OwnRecord
<1>8. \A i \in 1 .. Len(recs) : recs[i].utt = turn /\ (recs[i].filled => recs[i].of = turn)
  BY <1>1 DEF OwnTurns
<1>9. ASSUME NEW pc \in {"decoding", "ended", "reported"}, NEW e, e = [d EXCEPT !.pc = pc]
      PROVE  e.turn = e.utt /\ (e.pc = "found" => e.rec = e.utt)
  BY <1>5, <1>6, <1>9 DEF PartialDecode
<1>10. CASE Part!Take(d)
  <2>1. PICK e : e = [d EXCEPT !.pc = "decoding"]
    OBVIOUS
  <2>2. decodes' \subseteq decodes \cup {e} /\ recs' = recs /\ log' = log
    BY <1>10, <2>1 DEF Part!Take
  <2>3. QED
    BY <1>3, <1>7, <1>8, <1>9, <2>1, <2>2
<1>11. CASE Part!DecodeEnds(d)
  <2>1. PICK e : e = [d EXCEPT !.pc = "ended"]
    OBVIOUS
  <2>2. decodes' \subseteq decodes \cup {e} /\ recs' = recs /\ log' = log
    BY <1>11, <2>1 DEF Part!DecodeEnds
  <2>3. QED
    BY <1>3, <1>7, <1>8, <1>9, <2>1, <2>2
<1>12. CASE Part!LookUp(d)
  <2>1. PICK r : r = recs[Part!Latest(Part!Matching(d))].utt
    OBVIOUS
  <2>2. PICK f : f = [d EXCEPT !.pc = "found"]
    OBVIOUS
  <2>3. PICK e : e = [f EXCEPT !.rec = r]
    OBVIOUS
  <2>4. decodes' \subseteq decodes \cup {e} /\ recs' = recs /\ log' = log
        /\ Part!Matching(d) # {}
    BY <1>12, <2>1, <2>2, <2>3 DEF Part!LookUp
  <2>5. d.turn = turn /\ Part!Matching(d) \in SUBSET (1 .. Len(recs))
    BY <2>4 DEF Part!Matching
  <2>6. Part!Latest(Part!Matching(d)) \in 1 .. Len(recs)
    BY <1>5, <2>4, <2>5, LatestIsOne
  <2>7. r = turn
    BY <1>8, <2>1, <2>6
  <2>8. e.turn = d.turn /\ e.utt = d.utt /\ e.rec = r
    <3>1. f.turn = d.turn /\ f.utt = d.utt /\ f \in PartialDecode
      BY <1>5, <2>2 DEF PartialDecode
    <3>2. QED
      BY <2>3, <3>1 DEF PartialDecode
  <2>9. e.turn = e.utt /\ e.rec = e.utt
    BY <1>6, <2>5, <2>7, <2>8
  <2>10. QED
    BY <1>3, <1>7, <1>8, <2>4, <2>9
<1>13. CASE Part!Fill(d)
  <2>1. PICK e : e = [d EXCEPT !.pc = "reported"]
    OBVIOUS
  <2>2. decodes' \subseteq decodes \cup {e} /\ recs' = Part!Filled(d) /\ log' = log
        /\ d.rec = d.utt
    BY <1>6, <1>13, <2>1 DEF Part!Fill
  <2>3. /\ Len(recs') = Len(recs)
        /\ \A i \in 1 .. Len(recs) :
              /\ recs'[i].utt = recs[i].utt
              /\ recs'[i] = recs[i] \/ (recs[i].utt = d.rec /\ recs'[i].of = d.utt)
    BY <1>1, <2>2, FilledIn
  <2>4. \A i \in 1 .. Len(recs') : recs'[i].utt = turn /\ (recs'[i].filled => recs'[i].of = turn)
    BY <1>8, <2>2, <2>3
  <2>5. QED
    BY <1>3, <1>7, <1>9, <2>1, <2>2, <2>4
<1>14. CASE Part!WriteLate(d)
  <2>1. PICK e : e = [d EXCEPT !.pc = "reported"]
    OBVIOUS
  <2>2. PICK s : s = Part!Standalone(d)
    OBVIOUS
  <2>3. decodes' \subseteq decodes \cup {e} /\ recs' = recs /\ log' = log \cup {s}
    BY <1>14, <2>1, <2>2 DEF Part!WriteLate
  <2>4. s.turn = s.utt /\ s.of = s.utt
    BY <1>6, <2>2 DEF Part!Standalone
  <2>5. QED
    BY <1>3, <1>7, <1>8, <1>9, <2>1, <2>3, <2>4
<1>15. CASE Part!ThreadLeaves(d)
  <2>1. decodes' \subseteq decodes /\ recs' = recs /\ log' = log
    BY <1>15 DEF Part!ThreadLeaves
  <2>2. QED
    BY <1>1, <1>2, <1>3, <2>1, TurnsRest
<1>16. OwnTurns'
  BY <1>4, <1>10, <1>11, <1>12, <1>13, <1>14, <1>15
<1>17. QED
  BY <1>3, <1>16

LEMMA OwnNext == ASSUME MaxSplits \in 0 .. 1 PROVE QInv /\ [Part!Next]_(Part!vars) => QInv'
<1> SUFFICES ASSUME QInv, [Part!Next]_(Part!vars) PROVE QInv'
  OBVIOUS
<1>1. PInv'
  BY PartialNext DEF QInv
<1>2. OneAhead' /\ OwnTurns'
  BY StartsInStep, StopsInStep, WritesOwn, ForgetsInStep, HandlesInStep, QuietInStep,
     IssuesOwn, ResumesOwn, ThreadsOwn DEF Part!Next
<1>3. QED
  BY <1>1, <1>2 DEF QInv

(* Partials: the boundaries on a record are those of its own decode, and its*)
(* turn is the turn of the utterance it decoded (OwnRecord), for any number*)
(* of turns and offsets, as long as one turn at most was split.            *)
THEOREM RecordIsOwn == ASSUME MaxSplits \in 0 .. 1 PROVE Part!Spec => []Part!OwnRecord
<1>1. Part!Init => QInv
  BY PartialsInit, OwnInit DEF QInv
<1>2. QInv /\ [Part!Next]_(Part!vars) => QInv'
  BY OwnNext
<1>3. QInv => Part!OwnRecord
  BY DEF QInv, OwnTurns
<1>4. QED
  BY <1>1, <1>2, <1>3, PTL DEF Part!Spec
===============================================================================
