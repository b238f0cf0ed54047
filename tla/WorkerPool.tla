------------------------------ MODULE WorkerPool ------------------------------
(***************************************************************************)
(* The resident hypothesis workers (hypothesis_worker.py): child processes *)
(* that answer one decode request at a time, the parent's view of each of  *)
(* them, and the executor threads that wait on their pipes.  The actions   *)
(* are the operations the STT service calls; Listener says when.           *)
(***************************************************************************)
EXTENDS Naturals, FiniteSets

CONSTANTS Designs,        \* the commit configurations a session may have
          MaxUtterances,  \* utterances in a session
          MaxCrashes      \* children that die or fail to load by themselves

ASSUME DesignsAssumption ==
    Designs \subseteq [atEndpoint : {"stop", "kill", "race"},  \* at_endpoint
                      workers : 1 .. 2,                        \* hypothesis_workers
                      contAtTurnOpen : BOOLEAN]                \* cont_at_turn_open
ASSUME MaxUtterancesAssumption == MaxUtterances \in Nat \ {0}
ASSUME MaxCrashesAssumption == MaxCrashes \in Nat

Utterance == 1 .. MaxUtterances

VARIABLES design,    \* this session's configuration: it never changes
          active,    \* the worker that takes hypotheses
          ready,     \* per worker: _ready, its engine was loaded
          busy,      \* per worker: _busy, a request is out on its pipe
          stopped,   \* per worker: _stopped, frozen by SIGSTOP
          stale,     \* per worker: the request in flight is in _stale_seqs
          spawning,  \* per worker: _spawning
          child,     \* per worker: what the process is doing
          job,       \* per utterance: the executor thread decoding for it
          bound,     \* per utterance: the worker that thread took
          crashes    \* how many children died by themselves

MaxWorkers == 2
Worker == 1 .. design.workers

poolVars == <<active, ready, busy, stopped, stale, spawning, child, job, bound, crashes>>

\* A thread is queued, has entered _decode_words_in_worker, has asked the
\* child and waits, was cut off by the child's death, or came back with words
\* or with nothing.
JobState == {"none", "queued", "entered", "asked", "cut", "words", "nothing"}
\* A process loads its engine, idles, computes, has a reply in the pipe, or is gone.
ChildState == {"loading", "idle", "computing", "replied", "gone"}

PoolTypeOK ==
    /\ design \in Designs
    /\ active \in Worker
    /\ ready \in [Worker -> BOOLEAN]
    /\ busy \in [Worker -> BOOLEAN]
    /\ stopped \in [Worker -> BOOLEAN]
    /\ stale \in [Worker -> BOOLEAN]
    /\ spawning \in [Worker -> BOOLEAN]
    /\ child \in [Worker -> ChildState]
    /\ job \in [Utterance -> JobState]
    /\ bound \in [Utterance -> Worker]
    /\ crashes \in 0 .. MaxCrashes

\* The pool is started, and every engine loaded, before the first utterance.
PoolInit ==
    /\ design \in Designs
    /\ active = 1
    /\ ready = [w \in Worker |-> TRUE]
    /\ busy = [w \in Worker |-> FALSE]
    /\ stopped = [w \in Worker |-> FALSE]
    /\ stale = [w \in Worker |-> FALSE]
    /\ spawning = [w \in Worker |-> FALSE]
    /\ child = [w \in Worker |-> "idle"]
    /\ job = [u \in Utterance |-> "none"]
    /\ bound = [u \in Utterance |-> 1]
    /\ crashes = 0

-----------------------------------------------------------------------------
spare == (active % design.workers) + 1
ReadyIdle(w) == ready[w] /\ ~busy[w]
Dead(w) == ~ready[w] /\ ~spawning[w]
InThread(u) == job[u] \in {"entered", "asked", "cut"}
Asking(w) == {u \in Utterance : job[u] = "asked" /\ bound[u] = w}

\* The threads waiting on w's pipe when its process dies read end-of-file.
CutOff(w) == [u \in Utterance |-> IF u \in Asking(w) THEN "cut" ELSE job[u]]

\* decode(), up to its first early return or the send: a worker that is not
\* ready, or owes a reply, refuses; a request to a dead child breaks the pipe.
Ask(u) ==
    LET w == bound[u]
    IN  /\ job[u] = "entered"
        /\ IF ReadyIdle(w)
           THEN /\ busy' = [busy EXCEPT ![w] = TRUE]
                /\ stale' = [stale EXCEPT ![w] = FALSE]
                /\ child' = IF child[w] = "idle"
                            THEN [child EXCEPT ![w] = "computing"] ELSE child
                /\ job' = [job EXCEPT ![u] = IF child[w] = "idle" THEN "asked" ELSE "cut"]
           ELSE /\ job' = [job EXCEPT ![u] = "nothing"]
                /\ UNCHANGED <<busy, stale, child>>
        /\ UNCHANGED <<active, ready, stopped, spawning, bound, crashes>>

\* The child finishes computing, which a frozen one cannot.
Compute(w) ==
    /\ child[w] = "computing"
    /\ ~stopped[w]
    /\ child' = [child EXCEPT ![w] = "replied"]
    /\ UNCHANGED <<active, ready, busy, stopped, stale, spawning, job, bound, crashes>>

\* The rest of decode(): the reply is read, and dropped if its request was
\* marked stale; or the pipe is at its end.  Either way _busy is cleared.
Answered(u) ==
    LET w == bound[u]
    IN  /\ \/ /\ job[u] = "asked"
              /\ child[w] = "replied"
              /\ job' = [job EXCEPT ![u] = IF stale[w] THEN "nothing" ELSE "words"]
              /\ stale' = [stale EXCEPT ![w] = FALSE]
              /\ child' = [child EXCEPT ![w] = "idle"]
           \/ /\ job[u] = "cut"
              /\ job' = [job EXCEPT ![u] = "nothing"]
              /\ UNCHANGED <<stale, child>>
        /\ busy' = [busy EXCEPT ![w] = FALSE]
        /\ UNCHANGED <<active, ready, stopped, spawning, bound, crashes>>

\* Mistakes a change could make; the mutants put them in place.  This one spawns
\* the next process at the endpoint.
KillAndRespawn ==
    IF busy[active]
    THEN /\ ready' = [ready EXCEPT ![active] = FALSE]
         /\ busy' = [busy EXCEPT ![active] = FALSE]
         /\ child' = [child EXCEPT ![active] = "loading"]
         /\ spawning' = [spawning EXCEPT ![active] = TRUE]
         /\ job' = CutOff(active)
         /\ active' = IF design.workers > 1 /\ ReadyIdle(spare) THEN spare ELSE active
         /\ UNCHANGED <<stopped, stale, bound, crashes>>
    ELSE UNCHANGED poolVars
NeverRestopped(w) == busy[w] /\ ~stopped[w]

\* kill_and_promote(): SIGKILL the active worker if it is busy, and make the
\* spare active if it is loaded and free.
KillAndPromote ==
    IF busy[active]
    THEN /\ ready' = [ready EXCEPT ![active] = FALSE]
         /\ busy' = [busy EXCEPT ![active] = FALSE]
         /\ child' = [child EXCEPT ![active] = "gone"]
         /\ job' = CutOff(active)
         /\ active' = IF design.workers > 1 /\ ReadyIdle(spare) THEN spare ELSE active
         /\ UNCHANGED <<stopped, stale, spawning, bound, crashes>>
    ELSE UNCHANGED poolVars

\* stop_if_busy() acts on a request that is out and not already stale.
Stoppable(w) == busy[w] /\ ~stopped[w] /\ ~stale[w]
StopIfBusy(w) ==
    IF Stoppable(w)
    THEN /\ stopped' = [stopped EXCEPT ![w] = TRUE]
         /\ stale' = [stale EXCEPT ![w] = TRUE]
         /\ UNCHANGED <<active, ready, busy, spawning, child, job, bound, crashes>>
    ELSE UNCHANGED poolVars

\* cont(): SIGCONT, which a frozen or dead process takes alike.
Cont(w) ==
    /\ stopped' = [stopped EXCEPT ![w] = FALSE]
    /\ UNCHANGED <<active, ready, busy, stale, spawning, child, job, bound, crashes>>

\* respawn_dead_async(), each start() up to its wait for the engine.
RespawnDead ==
    /\ spawning' = [w \in Worker |-> spawning[w] \/ Dead(w)]
    /\ child' = [w \in Worker |-> IF Dead(w) THEN "loading" ELSE child[w]]
    /\ busy' = [w \in Worker |-> busy[w] /\ ~Dead(w)]
    /\ UNCHANGED <<active, ready, stopped, stale, job, bound, crashes>>

\* The rest of start().  An engine takes seconds to load, so a thread cut off
\* by the process before this one has read its end-of-file.
Loaded(w) ==
    /\ child[w] = "loading"
    /\ \A u \in Utterance : job[u] = "cut" => bound[u] # w
    /\ ready' = [ready EXCEPT ![w] = TRUE]
    /\ spawning' = [spawning EXCEPT ![w] = FALSE]
    /\ child' = [child EXCEPT ![w] = "idle"]
    /\ UNCHANGED <<active, busy, stopped, stale, job, bound, crashes>>

LoadFails(w) ==
    /\ child[w] = "loading"
    /\ crashes < MaxCrashes
    /\ spawning' = [spawning EXCEPT ![w] = FALSE]
    /\ child' = [child EXCEPT ![w] = "gone"]
    /\ crashes' = crashes + 1
    /\ UNCHANGED <<active, ready, busy, stopped, stale, job, bound>>

\* The process dies by itself.  The parent learns of it from the pipe, and
\* only the thread waiting on it does.
Crash(w) ==
    /\ child[w] \in {"idle", "computing"}
    /\ crashes < MaxCrashes
    /\ child' = [child EXCEPT ![w] = "gone"]
    /\ job' = CutOff(w)
    /\ crashes' = crashes + 1
    /\ UNCHANGED <<active, ready, busy, stopped, stale, spawning, bound>>
==============================================================================
