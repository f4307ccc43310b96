----------------------------- MODULE HostAudio -----------------------------
(* The host audio of one rule: generations and repair (rules/audio.py) and    *)
(* the workers that synthesize its segments (host_tts_worker.py) from tasks   *)
(* with leases (task_queue.py). A worker's turn is three transactions with a  *)
(* synthesis in between; it may crash or outlive its lease anywhere.          *)
EXTENDS Naturals, FiniteSets

CONSTANTS
    Segments,        \* the host's segments: stage and boundary
    Texts,           \* what the inputs of a segment may be (input_hash)
    Workers,
    MaxTasks, MaxEdits, MaxCrashes   \* bounds of the model

VARIABLES
    manifest,   \* the current generation: the inputs of each segment
    edits,      \* how many generations there have been before it
    status,     \* its status
    assets,     \* HostAudioAsset of the current generation, by segment
    tasks,      \* BackgroundTask of type HOST_TTS, in order of creation
    turn,       \* what each worker is doing: its claim
    crashes     \* counts up to MaxCrashes

audioVars == <<manifest, edits, status, assets, tasks, turn, crashes>>

MaxAttempts == 2
NoTask == 0
NoFile == "none"
Idle == [at |-> "idle", task |-> NoTask, attempt |-> 0, text |-> NoFile]

TaskStates == {"PENDING", "RUNNING", "FAILED", "SUCCEEDED"}
AssetStates == {"PENDING", "RUNNING", "READY", "FAILED"}

AudioTypeOK ==
    /\ manifest \in [Segments -> Texts]
    /\ edits \in 0..MaxEdits
    /\ status \in {"QUEUED", "RUNNING", "SUCCEEDED", "FAILED"}
    /\ assets \in [Segments -> [status : AssetStates, task : 0..MaxTasks, file : Texts \cup {NoFile}]]
    /\ DOMAIN tasks \subseteq 1..MaxTasks
    /\ \A id \in DOMAIN tasks :
        tasks[id] \in [status : TaskStates, attempts : 0..MaxAttempts, leased : BOOLEAN,
                       of : 0..MaxEdits, segment : Segments]
    /\ turn \in [Workers -> [at : {"idle", "reconciled", "claimed", "synthesizing"},
                             task : 0..MaxTasks, attempt : 0..MaxAttempts, text : Texts \cup {NoFile}]]
    /\ crashes \in 0..MaxCrashes

-----------------------------------------------------------------------------
(* Generations *)

\* aggregate: the status of the generation, from those of its assets.
Aggregate(as) ==
    LET has(s) == \E g \in Segments : as[g].status = s
    IN  CASE \A g \in Segments : as[g].status = "READY" -> "SUCCEEDED"
          [] has("RUNNING") -> "RUNNING"
          [] has("PENDING") -> "QUEUED"
          [] OTHER -> "FAILED"

\* queue_asset, for a set of segments at once: one new task for each.
NewTask(segment, of) ==
    [status |-> "PENDING", attempts |-> 0, leased |-> FALSE, of |-> of, segment |-> segment]

Queue(queued, old, of) ==
    LET n == Cardinality(DOMAIN old)
        order == CHOOSE f \in [queued -> (n + 1)..(n + Cardinality(queued))] :
                    \A g, h \in queued : f[g] = f[h] => g = h
    IN  [ids |-> order,
         tasks |-> [id \in 1..(n + Cardinality(queued)) |->
            IF id <= n THEN old[id] ELSE NewTask(CHOOSE g \in queued : order[g] = id, of)]]

HasRoom(queued) == Cardinality(DOMAIN tasks) + Cardinality(queued) <= MaxTasks

PendingAsset(id) == [status |-> "PENDING", task |-> id, file |-> NoFile]

Init ==
    /\ manifest \in [Segments -> Texts]
    /\ edits = 0
    /\ LET first == Queue(Segments, << >>, 0) IN
        /\ tasks = first.tasks
        /\ assets = [g \in Segments |-> PendingAsset(first.ids[g])]
    /\ status = "QUEUED"
    /\ turn = [w \in Workers |-> Idle]
    /\ crashes = 0

\* Mutant: audio is taken over by segment, whatever it says.
ReusableBySegment(g, new) == {h \in {g} : assets[h].status = "READY"}

\* Ready audio of the same inputs is taken over, from whichever segment has it.
Reusable(g, new) == {h \in Segments : assets[h].status = "READY" /\ assets[h].file = new[g]}

\* create_generation: the one before is superseded with its open tasks; a
\* manifest that is the same makes a new generation only when forced.
Regenerate(new, force) ==
    LET queued == {g \in Segments : force \/ Reusable(g, new) = {}}
        superseded == [id \in DOMAIN tasks |->
            IF tasks[id].of = edits /\ tasks[id].status \in {"PENDING", "RUNNING"}
            THEN [tasks[id] EXCEPT !.status = "FAILED", !.leased = FALSE] ELSE tasks[id]]
        made == Queue(queued, superseded, edits + 1)
    IN  /\ new # manifest \/ force
        /\ edits < MaxEdits /\ HasRoom(queued)
        /\ manifest' = new
        /\ edits' = edits + 1
        /\ tasks' = made.tasks
        /\ assets' = [g \in Segments |->
            IF g \in queued THEN PendingAsset(made.ids[g])
            ELSE [status |-> "READY", task |-> NoTask,
                  file |-> assets[CHOOSE h \in Reusable(g, new) : TRUE].file]]
        /\ status' = Aggregate(assets')
        /\ UNCHANGED <<turn, crashes>>

\* The lease of a task that its worker still holds.
Leased(id) == tasks[id].status = "RUNNING" /\ tasks[id].leased

\* Mutant: only a task with attempts left is taken from its worker.
AbandonedMayRetry(id) ==
    tasks[id].status = "RUNNING" /\ ~tasks[id].leased /\ tasks[id].attempts < MaxAttempts

\* A running task whose lease is over: nobody will report it.
Abandoned(id) == tasks[id].status = "RUNNING" /\ ~tasks[id].leased

\* repair_generation: settles abandoned tasks, and with retry queues anew what
\* has failed.
Repair(retry) ==
    LET open == {g \in Segments : assets[g].status # "READY" /\ ~Leased(assets[g].task)}
        settled == [id \in DOMAIN tasks |->
            IF (\E g \in open : assets[g].task = id) /\ Abandoned(id)
            THEN [tasks[id] EXCEPT !.leased = FALSE,
                    !.status = IF tasks[id].attempts = MaxAttempts THEN "FAILED" ELSE "PENDING"]
            ELSE tasks[id]]
        lost == {g \in open : settled[assets[g].task].status \in {"FAILED", "SUCCEEDED"}}
        made == IF retry THEN Queue(lost, settled, edits) ELSE [ids |-> << >>, tasks |-> settled]
    IN  /\ retry => HasRoom(lost)
        /\ tasks' = made.tasks
        /\ assets' = [g \in Segments |->
            CASE g \in lost /\ retry -> PendingAsset(made.ids[g])
              [] g \in lost /\ ~retry -> [assets[g] EXCEPT !.status = "FAILED"]
              [] g \in open \ lost /\ assets[g].status = "RUNNING" -> [assets[g] EXCEPT !.status = "PENDING"]
              [] OTHER -> assets[g]]
        /\ status' = Aggregate(assets')
        /\ UNCHANGED <<manifest, edits, crashes>>

\* Somebody asks for the audio to be made again, or looks at the rule.
Retry(retry) == Repair(retry) /\ UNCHANGED turn

-----------------------------------------------------------------------------
(* A worker's turn: process_one_host_tts *)

\* reconcile_host_tasks, the first transaction of every turn.
Reconcile(w) ==
    /\ turn[w].at = "idle"
    /\ turn' = [turn EXCEPT ![w].at = "reconciled"]
    /\ IF status \in {"QUEUED", "RUNNING"} THEN Repair(FALSE)
       ELSE UNCHANGED <<manifest, edits, status, assets, tasks, crashes>>

\* Mutant: a task is claimed however often it has failed.
ClaimableAlways(id) == tasks[id].status = "PENDING" \/ Abandoned(id)

Claimable(id) ==
    /\ tasks[id].attempts < MaxAttempts
    /\ tasks[id].status = "PENDING" \/ Abandoned(id)

\* claim_next: the oldest, or a later one while another request's transaction
\* holds the row of the oldest (skip_locked); or nothing.
Claim(w) ==
    /\ turn[w].at = "reconciled"
    /\ \/ \E id \in DOMAIN tasks :
            /\ Claimable(id)
            /\ tasks' = [tasks EXCEPT ![id] =
                [@ EXCEPT !.status = "RUNNING", !.attempts = tasks[id].attempts + 1,
                          !.leased = TRUE]]
            /\ turn' = [turn EXCEPT ![w] =
                [at |-> "claimed", task |-> id, attempt |-> tasks[id].attempts + 1, text |-> NoFile]]
       \/ /\ \A id \in DOMAIN tasks : ~Claimable(id)
          /\ turn' = [turn EXCEPT ![w] = Idle]
          /\ UNCHANGED tasks
    /\ UNCHANGED <<manifest, edits, status, assets, crashes>>

\* Mutant: whoever has the task may report it, whichever attempt it made.
FencedAnyAttempt(w) ==
    LET id == turn[w].task
    IN  /\ tasks[id].of = edits /\ assets[tasks[id].segment].task = id
        /\ tasks[id].status = "RUNNING" /\ tasks[id].leased

\* _fenced_rows: the attempt is still the one the current generation waits for.
Fenced(w) ==
    LET id == turn[w].task
    IN  /\ tasks[id].of = edits /\ assets[tasks[id].segment].task = id
        /\ tasks[id].status = "RUNNING" /\ tasks[id].leased
        /\ tasks[id].attempts = turn[w].attempt

SetAsset(segment, value) ==
    /\ assets' = [assets EXCEPT ![segment] = value]
    /\ status' = Aggregate(assets')

Begin(w) ==
    LET id == turn[w].task  g == tasks[id].segment
    IN  /\ turn[w].at = "claimed"
        /\ \/ /\ Fenced(w)
              /\ SetAsset(g, [assets[g] EXCEPT !.status = "RUNNING"])
              /\ turn' = [turn EXCEPT ![w] = [@ EXCEPT !.at = "synthesizing", !.text = manifest[g]]]
              /\ UNCHANGED tasks
           \/ /\ ~Fenced(w)
              /\ tasks' = IF tasks[id].attempts = turn[w].attempt /\ tasks[id].status = "RUNNING"
                          THEN [tasks EXCEPT ![id] = [@ EXCEPT !.status = "FAILED", !.leased = FALSE]]
                          ELSE tasks
              /\ turn' = [turn EXCEPT ![w] = Idle]
              /\ UNCHANGED <<assets, status>>
        /\ UNCHANGED <<manifest, edits, crashes>>

\* The synthesis succeeds or fails; a stale worker's result goes nowhere.
Finish(w, succeeded) ==
    LET id == turn[w].task
        g == tasks[id].segment
        result == IF succeeded THEN "SUCCEEDED"
                  ELSE IF tasks[id].attempts = MaxAttempts THEN "FAILED" ELSE "PENDING"
    IN  /\ turn[w].at = "synthesizing"
        /\ turn' = [turn EXCEPT ![w] = Idle]
        /\ \/ /\ Fenced(w)
              /\ tasks' = [tasks EXCEPT ![id] = [@ EXCEPT !.status = result, !.leased = FALSE]]
              /\ SetAsset(g, IF succeeded THEN [assets[g] EXCEPT !.status = "READY", !.file = turn[w].text]
                             ELSE [assets[g] EXCEPT !.status = result])
           \/ ~Fenced(w) /\ UNCHANGED <<tasks, assets, status>>
        /\ UNCHANGED <<manifest, edits, crashes>>

\* A lease runs out while its worker is slow, or dead.
LeaseExpires(id) ==
    /\ Leased(id)
    /\ \/ \A w \in Workers : turn[w].task # id \/ turn[w].attempt # tasks[id].attempts
       \/ crashes < MaxCrashes
    /\ tasks' = [tasks EXCEPT ![id].leased = FALSE]
    /\ crashes' = IF \E w \in Workers : turn[w].task = id /\ turn[w].attempt = tasks[id].attempts
                  THEN crashes + 1 ELSE crashes
    /\ UNCHANGED <<manifest, edits, status, assets, turn>>

Crash(w) ==
    /\ turn[w].at # "idle" /\ crashes < MaxCrashes
    /\ turn' = [turn EXCEPT ![w] = Idle]
    /\ crashes' = crashes + 1
    /\ UNCHANGED <<manifest, edits, status, assets, tasks>>

Work(w) == Reconcile(w) \/ Claim(w) \/ Begin(w) \/ \E succeeded \in BOOLEAN : Finish(w, succeeded)

Next ==
    \/ \E w \in Workers : Work(w) \/ Crash(w)
    \/ \E new \in [Segments -> Texts], force \in BOOLEAN : Regenerate(new, force)
    \/ \E retry \in BOOLEAN : Retry(retry)
    \/ \E id \in DOMAIN tasks : LeaseExpires(id)

\* The jobs process goes on working, and a lease nobody renews ends.
Fairness ==
    /\ \A w \in Workers : WF_audioVars(Work(w))
    /\ \A id \in 1..MaxTasks : WF_audioVars(id \in DOMAIN tasks /\ LeaseExpires(id))

Spec == Init /\ [][Next]_audioVars
FairSpec == Spec /\ Fairness

-----------------------------------------------------------------------------
(* What must hold *)

\* Whatever is reused, retried, late or synthesized for a text that has been
\* changed since: ready audio says what the current rule says.
ReadyAudioIsCurrent ==
    \A g \in Segments : assets[g].status = "READY" => assets[g].file = manifest[g]

\* The latest attempt at a task of the current generation, still in its lease.
Holds(w) ==
    LET task == tasks[turn[w].task]
    IN  /\ turn[w].at = "synthesizing"
        /\ task.of = edits /\ task.attempts = turn[w].attempt
        /\ task.status = "RUNNING" /\ task.leased

\* The worker of the latest attempt decides how it ends. As long as its lease
\* lives and the generation is current, no earlier attempt, claim, retry or
\* repair takes the task from it (_fenced_rows, claim_next, repair_generation).
HolderDecides ==
    [][\A w \in Workers :
        Holds(w) /\ turn'[w] = turn[w] /\ edits' = edits
        => Holds(w)' \/ \E id \in {turn[w].task} :
                            ~tasks'[id].leased /\ tasks'[id].status = "RUNNING"]_audioVars

\* Segments are not left half made: after crashes, lost leases and failures
\* the generation is settled one way or the other.
GenerationSettles == status \in {"QUEUED", "RUNNING"} ~> status \in {"SUCCEEDED", "FAILED"}
=============================================================================
