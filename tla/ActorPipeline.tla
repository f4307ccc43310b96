--------------------------- MODULE ActorPipeline ---------------------------
(* The command pipeline of one match: the advisory-lock lease that elects    *)
(* the jx-core process, recovery of the match from its PostgreSQL row, the   *)
(* bounded queue and the single runner of MatchActor, the transaction whose  *)
(* sequence check guards the row, the publication of events, the cache of    *)
(* results by message id, and the closing of the actor.                      *)
(*                                                                           *)
(* The match state is abstracted to the history of message ids whose         *)
(* commands produced events; its length is MatchRuntimeState.sequence and    *)
(* matches.sequence, the only thing the transaction compares.                *)
EXTENDS Integers, Sequences, SequencesExt, FiniteSets

CONSTANTS
    Procs,      \* operating-system processes that may run jx-core
    Callers,    \* single submissions: a client request, a timer, a callback
    Msgs,       \* message ids
    MsgOf,      \* the message id each submission carries (a retry reuses one)
    QueueSize,  \* capacity of MatchActor._queue (128 in the code)
    CacheSize,  \* capacity of MatchActor._idempotency (256 in the code)
    NoProc, NoCaller

ASSUME CallerAssumption == MsgOf \in [Callers -> Msgs] /\ NoCaller \notin Callers
ASSUME ProcAssumption == NoProc \notin Procs
ASSUME SizeAssumption == QueueSize \in Nat \ {0} /\ CacheSize \in Nat \ {0}

VARIABLES
    lock,       \* the process whose session holds the advisory lock
    row,        \* matches.runtime_snapshot, as the history it reflects
    life,       \* of each process: "down", "starting", "serving", "stopping"
    runner,     \* of each actor: "none", "running", "cancelled"
    queue,      \* of each actor: submissions waiting in _queue
    current,    \* of each actor: the submission being processed
    phase,      \* of each actor: how far _process has come with it
    mem,        \* of each actor: the history self.state reflects
    cand,       \* of each actor: the history candidate_state reflects
    cache,      \* of each actor: message ids in _idempotency, oldest first
    sent,       \* of each actor: the last sequence given to subscribers
    future,     \* of each submission: what its caller has been told
    forgotten   \* history: message ids whose cached result may be missing

db == <<lock, row>>
actor == <<runner, queue, current, phase, mem, cand, cache, sent>>
vars == <<db, life, actor, future, forgotten>>

Phases == {"idle", "processing", "stored", "publishing"}
Fates == {"new", "pending", "ok", "duplicate", "error", "cancelled"}

TypeOK ==
    /\ lock \in Procs \cup {NoProc}
    /\ row \in Seq(Msgs)
    /\ life \in [Procs -> {"down", "starting", "serving", "stopping"}]
    /\ runner \in [Procs -> {"none", "running", "cancelled"}]
    /\ queue \in [Procs -> Seq(Callers)]
    /\ current \in [Procs -> Callers \cup {NoCaller}]
    /\ phase \in [Procs -> Phases]
    /\ mem \in [Procs -> Seq(Msgs)]
    /\ cand \in [Procs -> Seq(Msgs)]
    /\ cache \in [Procs -> Seq(Msgs)]
    /\ sent \in [Procs -> Nat]
    /\ future \in [Callers -> Fates]
    /\ forgotten \in SUBSET Msgs

Init ==
    /\ lock = NoProc
    /\ row = << >>
    /\ life = [p \in Procs |-> "down"]
    /\ runner = [p \in Procs |-> "none"]
    /\ queue = [p \in Procs |-> << >>]
    /\ current = [p \in Procs |-> NoCaller]
    /\ phase = [p \in Procs |-> "idle"]
    /\ mem = [p \in Procs |-> << >>]
    /\ cand = [p \in Procs |-> << >>]
    /\ cache = [p \in Procs |-> << >>]
    /\ sent = [p \in Procs |-> 0]
    /\ future = [c \in Callers |-> "new"]
    /\ forgotten = {}

-----------------------------------------------------------------------------
(* Helpers *)

\* The submissions an actor owes an answer.
Owed(p) == ToSet(queue[p]) \cup ({current[p]} \ {NoCaller})

\* _idempotency after remembering m: the oldest results are evicted.
Remember(p, m) ==
    LET all == Append(cache[p], m)
    IN  IF Len(all) > CacheSize THEN Tail(all) ELSE all

Answer(c, fate) == future' = [future EXCEPT ![c] = fate]

\* The command of p is over: its caller is told, no candidate is left.
Settle(p, fate) ==
    /\ Answer(current[p], fate)
    /\ cand' = [cand EXCEPT ![p] = mem[p]]
    /\ current' = [current EXCEPT ![p] = NoCaller]
    /\ phase' = [phase EXCEPT ![p] = "idle"]

-----------------------------------------------------------------------------
(* Process life: lease, recovery, shutdown, crash *)

\* pg_try_advisory_lock succeeds only while no session holds the lock.
Acquire(p) ==
    /\ life[p] = "down"
    /\ lock = NoProc
    /\ lock' = p
    /\ life' = [life EXCEPT ![p] = "starting"]
    /\ UNCHANGED <<row, actor, future, forgotten>>

\* Mutant: the subscribers' position is taken one too low.
RecoverOffByOne(p) ==
    /\ life[p] = "starting"
    /\ life' = [life EXCEPT ![p] = "serving"]
    /\ runner' = [runner EXCEPT ![p] = "running"]
    /\ mem' = [mem EXCEPT ![p] = row]
    /\ cand' = [cand EXCEPT ![p] = row]
    /\ sent' = [sent EXCEPT ![p] = Len(row) - 1]
    /\ forgotten' = forgotten \cup ToSet(row)
    /\ UNCHANGED <<db, queue, current, phase, cache, future>>

\* recover_unfinished: an actor is built from the stored snapshot and started.
Recover(p) ==
    /\ life[p] = "starting"
    /\ life' = [life EXCEPT ![p] = "serving"]
    /\ runner' = [runner EXCEPT ![p] = "running"]
    /\ mem' = [mem EXCEPT ![p] = row]
    /\ cand' = [cand EXCEPT ![p] = row]
    /\ sent' = [sent EXCEPT ![p] = Len(row)]
    /\ forgotten' = forgotten \cup ToSet(row)
    /\ UNCHANGED <<db, queue, current, phase, cache, future>>

\* PostgreSQL drops the lease session; the process has not noticed yet.
LoseLease ==
    /\ lock # NoProc
    /\ lock' = NoProc
    /\ UNCHANGED <<row, life, actor, future, forgotten>>

\* The heartbeat fails and SIGTERM is sent (or the supervisor stops the unit).
Stop(p) ==
    /\ life[p] = "serving"
    /\ life' = [life EXCEPT ![p] = "stopping"]
    /\ UNCHANGED <<db, actor, future, forgotten>>

\* Mutant: the caller of the dropped command is not told.
CancelRunnerSilently(p) ==
    /\ life[p] = "stopping"
    /\ runner[p] = "running"
    /\ runner' = [runner EXCEPT ![p] = "cancelled"]
    /\ current' = [current EXCEPT ![p] = NoCaller]
    /\ phase' = [phase EXCEPT ![p] = "idle"]
    /\ cand' = [cand EXCEPT ![p] = mem[p]]
    /\ UNCHANGED <<db, life, queue, mem, cache, sent, future, forgotten>>

\* MatchActor.close: the runner is cancelled; the command in hand is dropped,
\* whether or not its transaction has been stored.
CancelRunner(p) ==
    /\ life[p] = "stopping"
    /\ runner[p] = "running"
    /\ runner' = [runner EXCEPT ![p] = "cancelled"]
    /\ IF current[p] = NoCaller
         THEN UNCHANGED <<future, current, phase, cand, forgotten>>
         ELSE /\ Settle(p, "cancelled")
              /\ forgotten' = forgotten \cup {MsgOf[current[p]]}
    /\ UNCHANGED <<db, life, queue, mem, cache, sent>>

\* Mutant: the queue is dropped and its callers are left waiting.
DrainQueueSilently(p) ==
    /\ runner[p] = "cancelled"
    /\ runner' = [runner EXCEPT ![p] = "none"]
    /\ queue' = [queue EXCEPT ![p] = << >>]
    /\ UNCHANGED <<db, life, current, phase, mem, cand, cache, sent, future, forgotten>>

\* ... and the submissions still in the queue are rejected.
DrainQueue(p) ==
    /\ runner[p] = "cancelled"
    /\ runner' = [runner EXCEPT ![p] = "none"]
    /\ future' = [c \in Callers |->
                    IF c \in ToSet(queue[p]) THEN "cancelled" ELSE future[c]]
    /\ queue' = [queue EXCEPT ![p] = << >>]
    /\ UNCHANGED <<db, life, current, phase, mem, cand, cache, sent, forgotten>>

\* The process is gone: its memory is lost and its sessions are closed.
Gone(p) ==
    /\ lock' = IF lock = p THEN NoProc ELSE lock
    /\ life' = [life EXCEPT ![p] = "down"]
    /\ runner' = [runner EXCEPT ![p] = "none"]
    /\ queue' = [queue EXCEPT ![p] = << >>]
    /\ current' = [current EXCEPT ![p] = NoCaller]
    /\ phase' = [phase EXCEPT ![p] = "idle"]
    /\ mem' = [mem EXCEPT ![p] = << >>]
    /\ cand' = [cand EXCEPT ![p] = << >>]
    /\ cache' = [cache EXCEPT ![p] = << >>]
    /\ sent' = [sent EXCEPT ![p] = 0]
    /\ UNCHANGED <<row, forgotten>>

Exit(p) ==
    /\ life[p] = "stopping"
    /\ runner[p] = "none"
    /\ Gone(p)
    /\ UNCHANGED future

\* A crash or a lost host: callers see their connection break.
Crash(p) ==
    /\ life[p] # "down"
    /\ Gone(p)
    /\ future' = [c \in Callers |->
                    IF c \in Owed(p) THEN "cancelled" ELSE future[c]]

-----------------------------------------------------------------------------
(* One command: submit, process, commit, publish *)

\* MatchActor.submit
Submit(p, c) ==
    /\ future[c] = "new"
    /\ life[p] \in {"serving", "stopping"}
    /\ IF runner[p] # "none" /\ Len(queue[p]) < QueueSize
         THEN /\ queue' = [queue EXCEPT ![p] = Append(@, c)]
              /\ Answer(c, "pending")
         ELSE /\ Answer(c, "error")
              /\ UNCHANGED queue
    /\ UNCHANGED <<db, life, runner, current, phase, mem, cand, cache, sent, forgotten>>

CanTake(p) == runner[p] = "running" /\ current[p] = NoCaller /\ queue[p] # << >>

\* A message id with a cached result is answered from the cache.
TakeDuplicate(p) ==
    /\ CanTake(p)
    /\ LET c == Head(queue[p])
       IN  /\ MsgOf[c] \in ToSet(cache[p])
           /\ Answer(c, "duplicate")
    /\ queue' = [queue EXCEPT ![p] = Tail(@)]
    /\ UNCHANGED <<db, life, runner, current, phase, mem, cand, cache, sent, forgotten>>

\* Mutant: subscribers are told before the transaction.
TakeAndTell(p) ==
    /\ CanTake(p)
    /\ LET c == Head(queue[p])
       IN  /\ MsgOf[c] \notin ToSet(cache[p])
           /\ current' = [current EXCEPT ![p] = c]
           /\ cand' = [cand EXCEPT ![p] = Append(mem[p], MsgOf[c])]
    /\ queue' = [queue EXCEPT ![p] = Tail(@)]
    /\ phase' = [phase EXCEPT ![p] = "processing"]
    /\ sent' = [sent EXCEPT ![p] = Len(mem[p]) + 1]
    /\ UNCHANGED <<db, life, runner, mem, cache, future, forgotten>>

\* The handler runs on self.state and leaves a candidate, with or without
\* events; a command it refuses goes through Abort.
Take(p) ==
    /\ CanTake(p)
    /\ LET c == Head(queue[p])
       IN  /\ MsgOf[c] \notin ToSet(cache[p])
           /\ current' = [current EXCEPT ![p] = c]
           /\ \E effect \in {<< >>, <<MsgOf[c]>>} :
                 cand' = [cand EXCEPT ![p] = mem[p] \o effect]
    /\ queue' = [queue EXCEPT ![p] = Tail(@)]
    /\ phase' = [phase EXCEPT ![p] = "processing"]
    /\ UNCHANGED <<db, life, runner, mem, cache, sent, future, forgotten>>

\* Mutant: the transaction does not compare sequences.
StoreUnfenced(p) ==
    /\ phase[p] = "processing"
    /\ row' = cand[p]
    /\ phase' = [phase EXCEPT ![p] = "stored"]
    /\ UNCHANGED <<lock, life, runner, queue, current, mem, cand, cache, sent,
                   future, forgotten>>

\* Mutant: the sequence of the candidate is compared, not that it was made from.
StoreIfNotOlder(p) ==
    /\ phase[p] = "processing"
    /\ Len(row) <= Len(cand[p])
    /\ row' = cand[p]
    /\ phase' = [phase EXCEPT ![p] = "stored"]
    /\ UNCHANGED <<lock, life, runner, queue, current, mem, cand, cache, sent,
                   future, forgotten>>

\* The transaction holds the row lock, finds the sequence the candidate was
\* made from, and PostgreSQL stores it.
Store(p) ==
    /\ phase[p] = "processing"
    /\ Len(row) = Len(mem[p])
    /\ row' = cand[p]
    /\ phase' = [phase EXCEPT ![p] = "stored"]
    /\ UNCHANGED <<lock, life, runner, queue, current, mem, cand, cache, sent,
                   future, forgotten>>

\* The handler, _pre_commit or the transaction raises; nothing is stored.
Abort(p) ==
    /\ phase[p] = "processing"
    /\ Settle(p, "error")
    /\ UNCHANGED <<db, life, runner, queue, mem, cache, sent, forgotten>>

\* The transaction was stored but its acknowledgement never arrives (a broken
\* connection, the deadline of asyncio.timeout_at): the actor rolls back.
LoseAck(p) ==
    /\ phase[p] = "stored"
    /\ Settle(p, "error")
    /\ forgotten' = forgotten \cup {MsgOf[current[p]]}
    /\ UNCHANGED <<db, life, runner, queue, mem, cache, sent>>

\* self.state = candidate_state
Ack(p) ==
    /\ phase[p] = "stored"
    /\ mem' = [mem EXCEPT ![p] = cand[p]]
    /\ phase' = [phase EXCEPT ![p] = "publishing"]
    /\ UNCHANGED <<db, life, runner, queue, current, cand, cache, sent, future, forgotten>>

\* Mutant: the result is not cached.
PublishUncached(p) ==
    /\ phase[p] = "publishing"
    /\ sent' = [sent EXCEPT ![p] = Len(mem[p])]
    /\ Settle(p, "ok")
    /\ UNCHANGED <<db, life, runner, queue, mem, cache, forgotten>>

\* Subscribers get the events, the result is cached, the caller is answered.
Publish(p) ==
    /\ phase[p] = "publishing"
    /\ sent' = [sent EXCEPT ![p] = Len(mem[p])]
    /\ cache' = [cache EXCEPT ![p] = Remember(p, MsgOf[current[p]])]
    /\ forgotten' = IF Len(cache[p]) >= CacheSize
                      THEN forgotten \cup {Head(cache[p])} ELSE forgotten
    /\ Settle(p, "ok")
    /\ UNCHANGED <<db, life, runner, queue, mem>>

\* Publishing raises (resource cleanup of a reset, a context read): the caller
\* gets an error for a command that has been committed, and nothing is cached.
PublishFails(p) ==
    /\ phase[p] = "publishing"
    /\ Settle(p, "error")
    /\ forgotten' = forgotten \cup {MsgOf[current[p]]}
    /\ UNCHANGED <<db, life, runner, queue, mem, cache, sent>>

Next ==
    \/ LoseLease
    \/ \E p \in Procs :
          \/ Acquire(p) \/ Recover(p) \/ Stop(p) \/ CancelRunner(p) \/ DrainQueue(p)
          \/ Exit(p) \/ Crash(p)
          \/ TakeDuplicate(p) \/ Take(p) \/ Store(p) \/ Abort(p) \/ LoseAck(p) \/ Ack(p)
          \/ Publish(p) \/ PublishFails(p)
          \/ \E c \in Callers : Submit(p, c)

\* The event loop runs every ready task, and a stopping process closes its
\* actor. Nothing says that the transaction of a command or its hooks return.
Fairness ==
    \A p \in Procs :
        /\ WF_vars(TakeDuplicate(p) \/ Take(p))
        /\ WF_vars(CancelRunner(p) \/ DrainQueue(p))

Spec == Init /\ [][Next]_vars
FairSpec == Spec /\ Fairness

-----------------------------------------------------------------------------
(* Properties *)

\* Every actor remembers a prefix of the stored history, never a fork of it:
\* the in-memory state is updated only after the row, and an actor left behind
\* by a lost acknowledgement or by another process is merely old
\* (MatchActor._process, MatchRuntimeManager._commit_within_deadline).
MemoryIsPrefix == \A p \in Procs : IsPrefix(mem[p], row)

\* Subscribers are never told of an effect that is not stored, and never more
\* than the actor itself knows (publish follows commit in _process).
PublishedIsStored == \A p \in Procs : sent[p] <= Len(mem[p]) /\ sent[p] <= Len(row)

\* A caller that waits is in the queue or in the hands of an actor that will
\* answer it: closing an actor strands nobody (submit, _run, close).
NobodyStranded ==
    \A c \in Callers : future[c] = "pending" =>
        \E p \in Procs : runner[p] # "none" /\ c \in Owed(p)

\* A message id takes effect twice only if its first result was lost: by
\* eviction, a failed publication, a lost acknowledgement or a restart.
EffectOnce ==
    \A i, j \in 1..Len(row) : (i # j /\ row[i] = row[j]) => row[i] \in forgotten

\* A serving actor has a command in hand: it waits for a transaction or a hook.
Held(p) == life[p] = "serving" /\ phase[p] # "idle"

\* A caller is told the outcome of its command, unless its own actor waits for
\* ever for the transaction or the publication of one command and goes on
\* serving: no other wait of the actor, no shutdown and no crash leaves a caller
\* without an answer, and a shutdown answers even those behind a stuck hook
\* (MatchActor._run, submit, close).
EveryCallerAnswered ==
    \A c \in Callers, p \in Procs :
        []<>~Held(p) => (c \in Owed(p) ~> future[c] # "pending")

\* The row refines one ever-growing history, with any number of processes
\* alive at once: a stale actor cannot overwrite what it has not seen.
History == INSTANCE MatchHistory WITH history <- row
HistoryOnlyGrows == History!Spec
=============================================================================
