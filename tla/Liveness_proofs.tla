-------------------------- MODULE Liveness_proofs --------------------------
(* Proofs about the host audio of MCLiveness, in the part of its              *)
(* specification that is safety: what must eventually happen is left to the   *)
(* run. The modules that MCLiveness puts together share no variable.          *)
EXTENDS MCLiveness, FiniteSetTheorems, TLAPS

-----------------------------------------------------------------------------
(* The inductive invariant *)

TaskRecords ==
    [status : HA!TaskStates, attempts : 0..HA!MaxAttempts, leased : BOOLEAN,
     of : 0..MaxEdits, segment : Segments]
AssetRecords ==
    [status : HA!AssetStates, task : 0..MaxTasks, file : Texts \cup {HA!NoFile}]
Turns ==
    [at : {"idle", "reconciled", "claimed", "synthesizing"}, task : 0..MaxTasks,
     attempt : 0..HA!MaxAttempts, text : Texts \cup {HA!NoFile}]

\* The rows have their types; tasks are numbered in the order of their creation.
AudioRows ==
    /\ manifest \in [Segments -> Texts] /\ edits \in 0..MaxEdits
    /\ status \in {"QUEUED", "RUNNING", "SUCCEEDED", "FAILED"}
    /\ assets \in [Segments -> AssetRecords]
    /\ \E n \in 0..MaxTasks : tasks \in [1..n -> TaskRecords]
    /\ turn \in [Workers -> Turns] /\ crashes \in 0..MaxCrashes

HasClaim(w) == turn[w].at \in {"claimed", "synthesizing"}

\* A claim is of a task, and later attempts have greater numbers.
ClaimsExist ==
    \A w \in Workers : HasClaim(w) =>
        /\ turn[w].task \in DOMAIN tasks
        /\ turn[w].attempt <= tasks[turn[w].task].attempts

\* No two workers make the same attempt at a task.
ClaimsDiffer ==
    \A v, w \in Workers :
        HasClaim(v) /\ HasClaim(w) /\ turn[v].task = turn[w].task /\ turn[v].attempt = turn[w].attempt
        => v = w

\* Tasks are of this generation or of earlier ones.
TasksKnown == \A id \in DOMAIN tasks : tasks[id].of <= edits

\* Whoever works for the current generation says what its manifest says.
TextCurrent ==
    \A w \in Workers :
        LET task == tasks[turn[w].task]
        IN  turn[w].at = "synthesizing" /\ task.of = edits => turn[w].text = manifest[task.segment]

ReadyCurrent == \A g \in Segments : assets[g].status = "READY" => assets[g].file = manifest[g]

AudioInv ==
    AudioRows /\ ClaimsExist /\ ClaimsDiffer /\ TasksKnown /\ TextCurrent /\ ReadyCurrent

-----------------------------------------------------------------------------
(* Queueing tasks *)

\* The cardinality of HostAudio is the cardinality of the facts about finite sets.
LEMMA SameCardinality == ASSUME NEW S PROVE HA!Cardinality(S) = Cardinality(S)
BY Zenon DEF HA!Cardinality, Cardinality

\* A finite set can be numbered from any number on.
LEMMA NumberingExists ==
    ASSUME NEW S, IsFiniteSet(S), NEW n \in Nat
    PROVE  \E f \in [S -> (n + 1)..(n + Cardinality(S))] : \A x, y \in S : f[x] = f[y] => x = y
<1>. DEFINE c == Cardinality(S)  I == (n + 1)..(n + c)
<1>1. c \in Nat
  BY FS_CardinalityType
<1>. HIDE DEF c
<1>2. IsFiniteSet(I) /\ Cardinality(I) = c
  BY <1>1, FS_Interval
<1>3. PICK f \in Bijection(S, I) : TRUE
  <2>1. ExistsBijection(S, I)
    BY <1>2, FS_SameCardinalityBij DEF c
  <2>. QED BY <2>1 DEF ExistsBijection
<1>. QED BY <1>3 DEF Bijection, Injection, IsInjective, c

\* Such a numbering leaves no number out.
LEMMA NumberingOnto ==
    ASSUME NEW S, IsFiniteSet(S), NEW n \in Nat, NEW f \in [S -> (n + 1)..(n + Cardinality(S))],
           \A x, y \in S : f[x] = f[y] => x = y,
           NEW i \in (n + 1)..(n + Cardinality(S))
    PROVE  \E x \in S : f[x] = i
<1>. DEFINE c == Cardinality(S)  I == (n + 1)..(n + c)
<1>1. c \in Nat
  BY FS_CardinalityType
<1>2. IsFiniteSet(I) /\ Cardinality(I) = c
  <2>. HIDE DEF c
  <2>1. n + 1 \in Int /\ n + c \in Int /\ (IF n + 1 > n + c THEN 0 ELSE (n + c) - (n + 1) + 1) = c
    BY <1>1
  <2>. QED BY <2>1, FS_Interval
<1>3. f \in Injection(S, I)
  BY DEF Injection, IsInjective
<1>4. f \in Surjection(S, I)
  BY <1>2, <1>3, FS_Injection
<1>. QED BY <1>4 DEF Surjection

\* queue_asset: the tasks there were stay, and each segment queued has a new one.
LEMMA Queued ==
    ASSUME NEW n \in Nat, NEW old \in [1..n -> TaskRecords], NEW queued \in SUBSET Segments,
           n + Cardinality(queued) <= MaxTasks, NEW of \in 0..MaxEdits
    PROVE  /\ Cardinality(queued) \in Nat
           /\ HA!Queue(queued, old, of).tasks \in [1..(n + Cardinality(queued)) -> TaskRecords]
           /\ \A id \in 1..n : HA!Queue(queued, old, of).tasks[id] = old[id]
           /\ \A id \in 1..(n + Cardinality(queued)) :
                id \notin 1..n => HA!Queue(queued, old, of).tasks[id].of = of
           /\ \A g \in queued : HA!Queue(queued, old, of).ids[g] \in 1..(n + Cardinality(queued))
<1>. DEFINE c == Cardinality(queued)
            m == HA!Cardinality(DOMAIN old)  k == HA!Cardinality(queued)
            order == CHOOSE f \in [queued -> (m + 1)..(m + k)] : \A g, h \in queued : f[g] = f[h] => g = h
            all == 1..(n + c)
            made == HA!Queue(queued, old, of)
            new(id) == HA!NewTask(CHOOSE g \in queued : order[g] = id, of)
<1>1. IsFiniteSet(queued) /\ c \in Nat
  BY AudioAssumption, FS_Subset, FS_CardinalityType
<1>2. m = n /\ k = c
  <2>1. DOMAIN old = 1..n
    OBVIOUS
  <2>2. Cardinality(DOMAIN old) = n
    BY <2>1, FS_Interval
  <2>. QED BY <2>2, SameCardinality
<1>3. made = [ids |-> order, tasks |-> [id \in 1..(m + k) |-> IF id <= m THEN old[id] ELSE new(id)]]
  BY DEF HA!Queue
<1>. HIDE DEF made, m, k
<1>4. /\ order \in [queued -> (n + 1)..(n + c)]
      /\ \A i \in (n + 1)..(n + c) : \E g \in queued : order[g] = i
  <2>1. \E f \in [queued -> (m + 1)..(m + k)] : \A g, h \in queued : f[g] = f[h] => g = h
    BY <1>1, <1>2, NumberingExists
  <2>2. order \in [queued -> (m + 1)..(m + k)] /\ \A g, h \in queued : order[g] = order[h] => g = h
    BY <2>1, Zenon
  <2>. HIDE DEF order
  <2>3. order \in [queued -> (n + 1)..(n + Cardinality(queued))]
    BY <1>2, <2>2
  <2>4. \A i \in (n + 1)..(n + Cardinality(queued)) : \E g \in queued : order[g] = i
    BY SMTT(60), <1>1, <2>2, <2>3, NumberingOnto
  <2>. QED BY <2>3, <2>4
<1>. HIDE DEF order, c
<1>5. \A id \in (n + 1)..(n + c) : new(id) \in TaskRecords /\ new(id).of = of
  <2>. SUFFICES ASSUME NEW id \in (n + 1)..(n + c) PROVE new(id) \in TaskRecords /\ new(id).of = of
    OBVIOUS
  <2>1. (CHOOSE g \in queued : order[g] = id) \in Segments
    BY <1>4
  <2>. QED BY <2>1 DEF HA!NewTask, TaskRecords, HA!TaskStates, HA!MaxAttempts
<1>. HIDE DEF new
<1>6. /\ \A id \in all : id <= n => id \in 1..n
      /\ \A id \in all : ~(id <= n) => id \in (n + 1)..(n + c) /\ id \notin 1..n
      /\ \A id \in 1..n : id <= n /\ id \in all
      /\ \A id \in (n + 1)..(n + c) : id \in all
  BY <1>1
<1>7. made.tasks = [id \in all |-> IF id <= n THEN old[id] ELSE new(id)] /\ made.ids = order
  BY <1>2, <1>3
<1>. HIDE DEF all
<1>8. made.tasks \in [all -> TaskRecords]
  BY <1>5, <1>6, <1>7
<1>9. /\ \A id \in 1..n : made.tasks[id] = old[id]
      /\ \A id \in all : id \notin 1..n => made.tasks[id].of = of
      /\ \A g \in queued : made.ids[g] \in all
  BY <1>4, <1>5, <1>6, <1>7
<1>. QED BY <1>1, <1>8, <1>9 DEF made, all, c

-----------------------------------------------------------------------------
(* The steps *)

\* No task is lost or becomes another's, and none is made for a later generation.
TasksKept ==
    /\ DOMAIN tasks \subseteq DOMAIN tasks'
    /\ \A id \in DOMAIN tasks :
        /\ tasks'[id].of = tasks[id].of /\ tasks'[id].segment = tasks[id].segment
        /\ tasks[id].attempts <= tasks'[id].attempts
    /\ \A id \in DOMAIN tasks' \ DOMAIN tasks : tasks'[id].of <= edits'

\* A worker makes the attempt it made before, if any.
SameClaims ==
    \A w \in Workers : HasClaim(w)' =>
        HasClaim(w) /\ turn'[w].task = turn[w].task /\ turn'[w].attempt = turn[w].attempt

\* What the rows are, in the terms the arithmetic needs.
LEMMA RowFacts ==
    ASSUME AudioInv
    PROVE  /\ \A id \in DOMAIN tasks :
                /\ tasks[id] \in TaskRecords /\ tasks[id].of \in Nat /\ tasks[id].attempts \in Nat
           /\ \A w \in Workers : turn[w] \in Turns /\ turn[w].attempt \in Nat
           /\ edits \in Nat
<1>1. PICK n \in 0..MaxTasks : tasks \in [1..n -> TaskRecords]
  BY DEF AudioInv, AudioRows
<1>2. \A id \in DOMAIN tasks : tasks[id] \in TaskRecords
  BY <1>1
<1>3. \A w \in Workers : turn[w] \in Turns
  BY DEF AudioInv, AudioRows
<1>4. edits \in Nat
  BY AudioAssumption DEF AudioInv, AudioRows
<1>. QED BY <1>2, <1>3, <1>4, AudioAssumption DEF TaskRecords, Turns, HA!MaxAttempts

\* The same of the next state.
LEMMA RowFactsNext ==
    ASSUME AudioRows'
    PROVE  /\ \A id \in DOMAIN tasks' : tasks'[id].of \in Nat /\ tasks'[id].attempts \in Nat
           /\ edits' \in Nat
<1>1. PICK n \in 0..MaxTasks : tasks' \in [1..n -> TaskRecords]
  BY DEF AudioRows
<1>2. \A id \in DOMAIN tasks' : tasks'[id] \in TaskRecords
  BY <1>1
<1>3. edits' \in Nat
  BY AudioAssumption DEF AudioRows
<1>. QED BY <1>2, <1>3, AudioAssumption DEF TaskRecords, HA!MaxAttempts

\* Where tasks and claims are kept, they go on agreeing.
LEMMA ClaimsStep ==
    ASSUME AudioInv, AudioRows', TasksKept, SameClaims, edits <= edits'
    PROVE  ClaimsExist' /\ ClaimsDiffer' /\ TasksKnown'
<1>1. ClaimsExist'
  <2>. SUFFICES ASSUME NEW w \in Workers, HasClaim(w)'
                PROVE  turn'[w].task \in DOMAIN tasks' /\ turn'[w].attempt <= tasks'[turn'[w].task].attempts
    BY DEF ClaimsExist
  <2>1. /\ turn'[w].task = turn[w].task /\ turn'[w].attempt = turn[w].attempt
        /\ turn[w].task \in DOMAIN tasks /\ turn[w].attempt <= tasks[turn[w].task].attempts
    BY DEF SameClaims, AudioInv, ClaimsExist
  <2>2. /\ turn[w].task \in DOMAIN tasks'
        /\ tasks[turn[w].task].attempts <= tasks'[turn[w].task].attempts
    BY <2>1 DEF TasksKept
  <2>3. /\ turn[w].attempt \in Nat /\ tasks[turn[w].task].attempts \in Nat
        /\ tasks'[turn[w].task].attempts \in Nat
    BY <2>1, <2>2, RowFacts, RowFactsNext
  <2>. QED BY <2>1, <2>2, <2>3
<1>2. ClaimsDiffer'
  BY DEF SameClaims, AudioInv, ClaimsDiffer, HasClaim
<1>3. TasksKnown'
  <2>. SUFFICES ASSUME NEW id \in DOMAIN tasks' PROVE tasks'[id].of <= edits'
    BY DEF TasksKnown
  <2>1. CASE id \in DOMAIN tasks
    <3>1. tasks'[id].of = tasks[id].of /\ tasks[id].of <= edits
      BY <2>1 DEF TasksKept, AudioInv, TasksKnown
    <3>2. tasks[id].of \in Nat /\ edits \in Nat /\ edits' \in Nat
      BY <2>1, RowFacts, RowFactsNext
    <3>. QED BY <3>1, <3>2
  <2>2. CASE id \notin DOMAIN tasks
    BY <2>2 DEF TasksKept
  <2>. QED BY <2>1, <2>2
<1>. QED BY <1>1, <1>2, <1>3

\* Nobody begins a synthesis: a text stays the one of the manifest it was read
\* from, or is of a generation that is over.
LEMMA TextStep ==
    ASSUME AudioInv, TasksKept,
           \A w \in Workers : turn'[w].at = "synthesizing" => turn'[w] = turn[w],
           (edits' = edits /\ manifest' = manifest) \/ edits' = edits + 1
    PROVE  TextCurrent'
<1>. SUFFICES ASSUME NEW w \in Workers, turn'[w].at = "synthesizing",
                     tasks'[turn'[w].task].of = edits'
              PROVE  turn'[w].text = manifest'[tasks'[turn'[w].task].segment]
  BY DEF TextCurrent
<1>. DEFINE id == turn[w].task
<1>1. turn'[w] = turn[w] /\ id \in DOMAIN tasks
  BY DEF AudioInv, ClaimsExist, HasClaim
<1>2. tasks'[id].of = tasks[id].of /\ tasks'[id].segment = tasks[id].segment /\ tasks[id].of <= edits
  BY <1>1 DEF TasksKept, AudioInv, TasksKnown
<1>3. tasks[id].of \in Nat /\ edits \in Nat
  BY <1>1, RowFacts
<1>4. edits' = edits /\ manifest' = manifest
  BY <1>1, <1>2, <1>3
<1>. QED BY <1>1, <1>2, <1>4 DEF AudioInv, TextCurrent

\* The generation has one of the four statuses, whatever its assets are.
LEMMA AggregateType ==
    ASSUME NEW as
    PROVE  HA!Aggregate(as) \in {"QUEUED", "RUNNING", "SUCCEEDED", "FAILED"}
BY DEF HA!Aggregate

\* create_generation: what was synthesized for the manifest before is reused
\* only where it says the same, and is no concern of this generation otherwise.
LEMMA RegenerateStep ==
    ASSUME AudioInv, NEW new \in [Segments -> Texts], NEW force \in BOOLEAN,
           HA!Regenerate(new, force)
    PROVE  AudioInv'
<1>. DEFINE queued == {g \in Segments : force \/ HA!Reusable(g, new) = {}}
            superseded == [id \in DOMAIN tasks |->
                IF tasks[id].of = edits /\ tasks[id].status \in {"PENDING", "RUNNING"}
                THEN [tasks[id] EXCEPT !.status = "FAILED", !.leased = FALSE] ELSE tasks[id]]
            made == HA!Queue(queued, superseded, edits + 1)
<1>1. /\ edits < MaxEdits /\ HA!HasRoom(queued)
      /\ manifest' = new /\ edits' = edits + 1 /\ tasks' = made.tasks
      /\ assets' = [g \in Segments |->
            IF g \in queued THEN HA!PendingAsset(made.ids[g])
            ELSE [status |-> "READY", task |-> HA!NoTask,
                  file |-> assets[CHOOSE h \in HA!Reusable(g, new) : TRUE].file]]
      /\ status' = HA!Aggregate(assets')
      /\ UNCHANGED <<turn, crashes>>
  BY DEF HA!Regenerate
<1>2. PICK n \in 0..MaxTasks : tasks \in [1..n -> TaskRecords]
  BY DEF AudioInv, AudioRows
<1>3. edits \in 0..MaxEdits /\ n \in Nat /\ edits + 1 \in 0..MaxEdits
  <2>1. edits \in 0..MaxEdits
    BY DEF AudioInv, AudioRows
  <2>2. edits < MaxEdits
    BY <1>1
  <2>. QED BY <2>1, <2>2, AudioAssumption
<1>4. /\ superseded \in [1..n -> TaskRecords]
      /\ \A id \in 1..n : /\ superseded[id].of = tasks[id].of
                          /\ superseded[id].segment = tasks[id].segment
                          /\ superseded[id].attempts = tasks[id].attempts
  BY ZenonT(60), <1>2 DEF TaskRecords, HA!TaskStates
<1>5. queued \in SUBSET Segments
  OBVIOUS
<1>6. n + Cardinality(queued) <= MaxTasks
  <2>1. DOMAIN tasks = 1..n
    BY <1>2
  <2>2. Cardinality(DOMAIN tasks) = n
    BY <1>3, <2>1, FS_Interval
  <2>. QED BY <1>1, <2>2, SameCardinality DEF HA!HasRoom
<1>. HIDE DEF queued, superseded
<1>. DEFINE all == 1..(n + Cardinality(queued))
<1>7. /\ Cardinality(queued) \in Nat /\ made.tasks \in [all -> TaskRecords]
      /\ \A id \in 1..n : made.tasks[id] = superseded[id]
      /\ \A id \in all : id \notin 1..n => made.tasks[id].of = edits + 1
      /\ \A g \in queued : made.ids[g] \in all
  <2>. DEFINE of == edits + 1
  <2>. HIDE DEF of
  <2>1. of \in 0..MaxEdits /\ superseded \in [1..n -> TaskRecords]
    BY <1>3, <1>4 DEF of
  <2>2. /\ Cardinality(queued) \in Nat
        /\ HA!Queue(queued, superseded, of).tasks \in [all -> TaskRecords]
        /\ \A id \in 1..n : HA!Queue(queued, superseded, of).tasks[id] = superseded[id]
        /\ \A id \in all : id \notin 1..n => HA!Queue(queued, superseded, of).tasks[id].of = of
        /\ \A g \in queued : HA!Queue(queued, superseded, of).ids[g] \in all
    BY <1>3, <1>5, <1>6, <2>1, Queued
  <2>. QED BY <2>2 DEF of
<1>. HIDE DEF made
<1>8. ASSUME NEW g \in Segments, g \notin queued
      PROVE  assets'[g].status = "READY" /\ assets'[g].file = new[g] /\ assets'[g] \in AssetRecords
  <2>. DEFINE h == CHOOSE h \in HA!Reusable(g, new) : TRUE
  <2>1. h \in HA!Reusable(g, new)
    BY <1>8 DEF queued
  <2>2. h \in Segments /\ assets[h].file = new[g]
    BY <2>1 DEF HA!Reusable
  <2>3. assets'[g] = [status |-> "READY", task |-> HA!NoTask, file |-> assets[h].file]
    BY <1>1, <1>8
  <2>. HIDE DEF h
  <2>. QED BY <2>2, <2>3, AudioAssumption DEF AssetRecords, HA!AssetStates, HA!NoTask
<1>9. ASSUME NEW g \in queued
      PROVE  assets'[g].status = "PENDING" /\ assets'[g] \in AssetRecords
  <2>1. assets'[g] = HA!PendingAsset(made.ids[g]) /\ made.ids[g] \in 0..MaxTasks
    BY <1>1, <1>3, <1>5, <1>6, <1>7, AudioAssumption
  <2>. QED BY <2>1 DEF HA!PendingAsset, AssetRecords, HA!AssetStates
<1>10. AudioRows'
  <2>1. assets' \in [Segments -> AssetRecords]
    BY <1>1, <1>8, <1>9
  <2>2. n + Cardinality(queued) \in 0..MaxTasks
    BY <1>3, <1>6, <1>7, AudioAssumption
  <2>3. status' \in {"QUEUED", "RUNNING", "SUCCEEDED", "FAILED"}
    BY <1>1, AggregateType
  <2>. QED BY <1>1, <1>3, <1>7, <2>1, <2>2, <2>3 DEF AudioInv, AudioRows
<1>11. TasksKept
  <2>1. DOMAIN tasks = 1..n /\ DOMAIN tasks' = all /\ 1..n \subseteq all
    BY <1>1, <1>2, <1>3, <1>7
  <2>2. \A id \in 1..n : tasks[id].attempts \in Nat /\ edits + 1 \in Nat
    BY <1>2, <1>3 DEF TaskRecords, HA!MaxAttempts
  <2>3. \A id \in 1..n : tasks'[id] = superseded[id]
    BY <1>1, <1>7
  <2>4. \A id \in all \ 1..n : tasks'[id].of <= edits'
    <3>1. edits' = edits + 1 /\ edits' <= edits' /\ tasks' = made.tasks
      BY <1>1, <1>3
    <3>. QED BY <1>7, <3>1
  <2>5. ASSUME NEW id \in 1..n
        PROVE  /\ tasks'[id].of = tasks[id].of /\ tasks'[id].segment = tasks[id].segment
               /\ tasks[id].attempts <= tasks'[id].attempts
    <3>1. tasks[id].attempts \in Nat /\ tasks'[id].attempts = tasks[id].attempts
      BY <1>4, <2>2, <2>3
    <3>. QED BY <1>4, <2>3, <3>1
  <2>. HIDE DEF all, made
  <2>. QED BY <2>1, <2>4, <2>5 DEF TasksKept
<1>12. ClaimsExist' /\ ClaimsDiffer' /\ TasksKnown'
  BY <1>1, <1>3, <1>10, <1>11, ClaimsStep DEF SameClaims, HasClaim
<1>13. TextCurrent'
  BY <1>1, <1>11, TextStep
<1>14. ReadyCurrent'
  BY <1>1, <1>8, <1>9 DEF ReadyCurrent
<1>. QED BY SMTT(60), <1>10, <1>12, <1>13, <1>14 DEF AudioInv

\* repair_generation: tasks nobody will report are settled, and with retry what
\* has failed is queued anew. A worker that comes back to its turn has no claim.
LEMMA RepairStep ==
    ASSUME AudioInv, NEW retry \in BOOLEAN, HA!Repair(retry),
           turn' \in [Workers -> Turns],
           \A w \in Workers : HasClaim(w)' => turn'[w] = turn[w]
    PROVE  AudioInv' /\ \A id \in DOMAIN tasks : ~HA!Abandoned(id) => tasks'[id] = tasks[id]
<1>. DEFINE open == {g \in Segments : assets[g].status # "READY" /\ ~HA!Leased(assets[g].task)}
            settled == [id \in DOMAIN tasks |->
                IF (\E g \in open : assets[g].task = id) /\ HA!Abandoned(id)
                THEN [tasks[id] EXCEPT !.leased = FALSE,
                        !.status = IF tasks[id].attempts = HA!MaxAttempts THEN "FAILED" ELSE "PENDING"]
                ELSE tasks[id]]
            lost == {g \in open : settled[assets[g].task].status \in {"FAILED", "SUCCEEDED"}}
            made == IF retry THEN HA!Queue(lost, settled, edits) ELSE [ids |-> << >>, tasks |-> settled]
<1>1. /\ retry => HA!HasRoom(lost)
      /\ tasks' = made.tasks
      /\ assets' = [g \in Segments |->
            CASE g \in lost /\ retry -> HA!PendingAsset(made.ids[g])
              [] g \in lost /\ ~retry -> [assets[g] EXCEPT !.status = "FAILED"]
              [] g \in open \ lost /\ assets[g].status = "RUNNING" -> [assets[g] EXCEPT !.status = "PENDING"]
              [] OTHER -> assets[g]]
      /\ status' = HA!Aggregate(assets')
      /\ UNCHANGED <<manifest, edits, crashes>>
  BY DEF HA!Repair
<1>2. PICK n \in 0..MaxTasks : tasks \in [1..n -> TaskRecords]
  BY DEF AudioInv, AudioRows
<1>3. edits \in 0..MaxEdits /\ n \in Nat /\ edits \in Nat
  BY SMTT(60), AudioAssumption DEF AudioInv, AudioRows
<1>4. /\ settled \in [1..n -> TaskRecords]
      /\ \A id \in 1..n : /\ settled[id].of = tasks[id].of
                          /\ settled[id].segment = tasks[id].segment
                          /\ settled[id].attempts = tasks[id].attempts
  <2>1. ASSUME NEW id \in 1..n
        PROVE  /\ settled[id] \in TaskRecords
               /\ settled[id].of = tasks[id].of
               /\ settled[id].segment = tasks[id].segment
               /\ settled[id].attempts = tasks[id].attempts
    <3>. DEFINE s == IF tasks[id].attempts = HA!MaxAttempts THEN "FAILED" ELSE "PENDING"
    <3>1. \/ settled[id] = [tasks[id] EXCEPT !.leased = FALSE, !.status = s]
          \/ settled[id] = tasks[id]
      BY <1>2, Zenon
    <3>2. s \in HA!TaskStates /\ tasks[id] \in TaskRecords
      BY <1>2 DEF HA!TaskStates
    <3>. HIDE DEF s, settled
    <3>. QED BY <3>1, <3>2 DEF TaskRecords
  <2>2. DOMAIN tasks = 1..n
    BY SMTT(60), <1>2
  <2>. QED BY <2>1, <2>2
<1>5. lost \in SUBSET Segments
  BY ZenonT(60)
<1>6. retry => n + Cardinality(lost) <= MaxTasks
  <2>1. DOMAIN tasks = 1..n
    BY <1>2
  <2>2. Cardinality(DOMAIN tasks) = n
    BY <1>3, <2>1, FS_Interval
  <2>. QED BY <1>1, <2>2, SameCardinality DEF HA!HasRoom
<1>14. \A id \in 1..n : ~HA!Abandoned(id) => settled[id] = tasks[id]
  BY <1>2
<1>. HIDE DEF open, settled, lost
<1>7. PICK m \in 0..MaxTasks :
        /\ 1..n \subseteq 1..m /\ tasks' \in [1..m -> TaskRecords]
        /\ \A id \in 1..n : tasks'[id] = settled[id]
        /\ \A id \in 1..m : id \notin 1..n => tasks'[id].of = edits
        /\ retry => \A g \in lost : made.ids[g] \in 1..m
  <2>1. CASE retry
    <3>1. /\ Cardinality(lost) \in Nat /\ n + Cardinality(lost) <= MaxTasks
          /\ HA!Queue(lost, settled, edits).tasks \in [1..(n + Cardinality(lost)) -> TaskRecords]
          /\ \A id \in 1..n : HA!Queue(lost, settled, edits).tasks[id] = settled[id]
          /\ \A id \in 1..(n + Cardinality(lost)) :
                id \notin 1..n => HA!Queue(lost, settled, edits).tasks[id].of = edits
          /\ \A g \in lost : HA!Queue(lost, settled, edits).ids[g] \in 1..(n + Cardinality(lost))
      BY SMTT(60), <1>3, <1>4, <1>5, <1>6, <2>1, Queued
    <3>2. made = HA!Queue(lost, settled, edits)
      BY <2>1
    <3>. HIDE DEF made
    <3>3. n + Cardinality(lost) \in 0..MaxTasks /\ 1..n \subseteq 1..(n + Cardinality(lost))
      BY <1>3, <3>1, AudioAssumption
    <3>. QED BY <1>1, <3>1, <3>2, <3>3
  <2>2. CASE ~retry
    <3>1. tasks' = settled
      BY <1>1, <2>2
    <3>. QED BY <1>4, <2>2, <3>1
  <2>. QED BY <2>1, <2>2
<1>. HIDE DEF made
<1>8. ASSUME NEW g \in Segments
      PROVE  /\ assets'[g] \in AssetRecords
             /\ assets'[g].status = "READY" => assets'[g].file = assets[g].file /\ assets[g].status = "READY"
  <2>. assets[g] \in AssetRecords
    BY DEF AudioInv, AudioRows
  <2>1. \/ g \in lost /\ retry /\ assets'[g] = HA!PendingAsset(made.ids[g])
        \/ assets'[g] = [assets[g] EXCEPT !.status = "FAILED"]
        \/ assets'[g] = [assets[g] EXCEPT !.status = "PENDING"]
        \/ assets'[g] = assets[g]
    BY <1>1
  <2>2. g \in lost /\ retry => made.ids[g] \in 0..MaxTasks
    BY SMTT(60), <1>7, AudioAssumption
  <2>. QED BY <2>1, <2>2 DEF HA!PendingAsset, AssetRecords, HA!AssetStates
<1>9. AudioRows'
  <2>1. assets' \in [Segments -> AssetRecords]
    BY <1>1, <1>8
  <2>2. status' \in {"QUEUED", "RUNNING", "SUCCEEDED", "FAILED"}
    BY <1>1, AggregateType
  <2>. QED BY <1>1, <1>7, <2>1, <2>2 DEF AudioInv, AudioRows
<1>10. TasksKept
  <2>1. DOMAIN tasks = 1..n /\ DOMAIN tasks' = 1..m
    BY <1>2, <1>7
  <2>2. \A id \in 1..n : tasks[id].attempts \in Nat
    BY SMTT(60), <1>2 DEF TaskRecords, HA!MaxAttempts
  <2>3. ASSUME NEW id \in 1..n
        PROVE  /\ tasks'[id].of = tasks[id].of /\ tasks'[id].segment = tasks[id].segment
               /\ tasks[id].attempts <= tasks'[id].attempts
    <3>1. tasks[id].attempts \in Nat /\ tasks'[id].attempts = tasks[id].attempts
      BY <1>4, <1>7, <2>2
    <3>. QED BY <1>4, <1>7, <3>1
  <2>4. \A id \in 1..m : id \notin 1..n => tasks'[id].of <= edits'
    BY <1>1, <1>3, <1>7
  <2>. QED BY <1>7, <2>1, <2>3, <2>4 DEF TasksKept
<1>11. ClaimsExist' /\ ClaimsDiffer' /\ TasksKnown'
  <2>1. SameClaims
    BY DEF SameClaims, HasClaim
  <2>. QED BY <1>1, <1>3, <1>9, <1>10, <2>1, ClaimsStep
<1>12. TextCurrent'
  <2>1. \A w \in Workers : turn'[w].at = "synthesizing" => turn'[w] = turn[w]
    BY DEF HasClaim
  <2>. QED BY <1>1, <1>10, <2>1, TextStep
<1>13. ReadyCurrent'
  BY <1>1, <1>8 DEF ReadyCurrent, AudioInv
<1>15. \A id \in DOMAIN tasks : ~HA!Abandoned(id) => tasks'[id] = tasks[id]
  BY <1>2, <1>7, <1>14
<1>. QED BY <1>9, <1>11, <1>12, <1>13, <1>15 DEF AudioInv

\* A step that writes one task, the turn of one worker and no asset, or that of
\* the segment it is for.
LEMMA WorkStep ==
    ASSUME AudioInv, UNCHANGED <<manifest, edits>>, crashes' \in 0..MaxCrashes,
           \/ UNCHANGED tasks
           \/ \E id \in DOMAIN tasks : \E t \in TaskRecords :
                /\ tasks' = [tasks EXCEPT ![id] = t]
                /\ t.of = tasks[id].of /\ t.segment = tasks[id].segment /\ t.attempts = tasks[id].attempts,
           turn' \in [Workers -> Turns], SameClaims,
           \A w \in Workers : turn'[w].at = "synthesizing" => turn'[w] = turn[w],
           assets' \in [Segments -> AssetRecords],
           status' \in {"QUEUED", "RUNNING", "SUCCEEDED", "FAILED"},
           \A g \in Segments : assets'[g].status = "READY" => assets'[g].file = manifest[g]
    PROVE  AudioInv' /\ TasksKept
<1>1. PICK n \in 0..MaxTasks : tasks \in [1..n -> TaskRecords]
  BY DEF AudioInv, AudioRows
<1>2. /\ tasks' \in [1..n -> TaskRecords]
      /\ \A id \in 1..n : /\ tasks'[id].of = tasks[id].of /\ tasks'[id].segment = tasks[id].segment
                          /\ tasks'[id].attempts = tasks[id].attempts
  BY <1>1
<1>3. AudioRows'
  BY <1>2 DEF AudioInv, AudioRows
<1>4. TasksKept
  <2>1. \A id \in 1..n : tasks[id].attempts \in Nat
    BY <1>1 DEF TaskRecords, HA!MaxAttempts
  <2>. QED BY <1>1, <1>2, <2>1 DEF TasksKept
<1>5. ClaimsExist' /\ ClaimsDiffer' /\ TasksKnown'
  BY <1>3, <1>4, RowFacts, ClaimsStep
<1>6. TextCurrent'
  BY <1>4, TextStep
<1>. QED BY <1>3, <1>4, <1>5, <1>6 DEF AudioInv, ReadyCurrent

\* claim_next: the attempt is a new one of its task.
LEMMA ClaimStep ==
    ASSUME AudioInv, NEW w \in Workers, HA!Claim(w)
    PROVE  AudioInv'
<1>1. turn[w].at = "reconciled" /\ UNCHANGED <<manifest, edits, status, assets, crashes>>
  BY DEF HA!Claim
<1>2. PICK n \in 0..MaxTasks : tasks \in [1..n -> TaskRecords]
  BY DEF AudioInv, AudioRows
<1>3. turn \in [Workers -> Turns] /\ crashes \in 0..MaxCrashes
  BY DEF AudioInv, AudioRows
<1>4. ASSUME NEW id \in DOMAIN tasks, HA!Claimable(id),
             tasks' = [tasks EXCEPT ![id] =
                [@ EXCEPT !.status = "RUNNING", !.attempts = tasks[id].attempts + 1,
                          !.leased = TRUE]],
             turn' = [turn EXCEPT ![w] =
                [at |-> "claimed", task |-> id, attempt |-> tasks[id].attempts + 1, text |-> HA!NoFile]]
      PROVE  AudioInv'
  <2>. DEFINE k == tasks[id].attempts
  <2>1. k \in Nat /\ k < HA!MaxAttempts /\ tasks[id] \in TaskRecords /\ id \in 1..n /\ id \in 0..MaxTasks
    BY <1>2, <1>4, AudioAssumption DEF HA!Claimable, TaskRecords, HA!MaxAttempts
  <2>2. k + 1 \in 0..HA!MaxAttempts
    BY <2>1 DEF HA!MaxAttempts
  <2>3. /\ tasks' \in [1..n -> TaskRecords]
        /\ \A x \in 1..n : /\ tasks'[x].of = tasks[x].of /\ tasks'[x].segment = tasks[x].segment
                           /\ tasks'[x].attempts = IF x = id THEN k + 1 ELSE tasks[x].attempts
    <3>. DEFINE l == k + 1
                t == [tasks[id] EXCEPT !.status = "RUNNING", !.attempts = l, !.leased = TRUE]
    <3>1. tasks' = [tasks EXCEPT ![id] = t]
      BY <1>4, Zenon
    <3>. HIDE DEF l
    <3>2. t \in TaskRecords /\ t.of = tasks[id].of /\ t.segment = tasks[id].segment /\ t.attempts = l
      BY <2>1, <2>2 DEF TaskRecords, HA!TaskStates, l
    <3>. HIDE DEF t
    <3>. QED BY <1>2, <2>1, <3>1, <3>2 DEF l
  <2>4. /\ turn' \in [Workers -> Turns]
        /\ \A v \in Workers : v # w => turn'[v] = turn[v]
        /\ turn'[w].at = "claimed" /\ turn'[w].task = id /\ turn'[w].attempt = k + 1
    BY <1>3, <1>4, <2>1, <2>2 DEF Turns
  <2>. HIDE DEF k
  <2>5. AudioRows'
    BY <1>1, <2>3, <2>4 DEF AudioInv, AudioRows
  <2>6. DOMAIN tasks = 1..n /\ DOMAIN tasks' = 1..n /\ \A x \in 1..n : tasks[x].attempts \in Nat
    BY <1>2, <2>3 DEF TaskRecords, HA!MaxAttempts
  <2>7. ASSUME NEW v \in Workers, v # w, HasClaim(v)
        PROVE  /\ turn[v].task \in 1..n /\ turn[v].attempt \in Nat
               /\ turn[v].attempt <= tasks[turn[v].task].attempts
    BY <2>6, <2>7, RowFacts DEF AudioInv, ClaimsExist
  <2>8. ClaimsExist'
    BY SMTT(60), <2>1, <2>3, <2>4, <2>6, <2>7 DEF ClaimsExist, HasClaim, k
  <2>9. ClaimsDiffer'
    <3>. SUFFICES ASSUME NEW u \in Workers, NEW v \in Workers, HasClaim(u)', HasClaim(v)',
                         turn'[u].task = turn'[v].task, turn'[u].attempt = turn'[v].attempt, u # v
                  PROVE  FALSE
      BY DEF ClaimsDiffer
    <3>1. CASE u # w /\ v # w
      BY <2>4, <3>1 DEF AudioInv, ClaimsDiffer, HasClaim
    <3>2. CASE u = w \/ v = w
      <4>1. PICK x \in {u, v} : x # w
        OBVIOUS
      <4>2. x \in Workers /\ HasClaim(x) /\ turn[x].task = id /\ turn[x].attempt = k + 1
        BY <2>4, <3>2, <4>1 DEF HasClaim
      <4>3. turn[x].attempt <= k
        BY <4>1, <4>2, <2>7 DEF k
      <4>. QED BY <2>1, <4>2, <4>3 DEF k
    <3>. QED BY <3>1, <3>2
  <2>10. TasksKnown'
    BY <1>1, <2>3, <2>6 DEF AudioInv, TasksKnown
  <2>11. TextCurrent'
    <3>. SUFFICES ASSUME NEW v \in Workers, turn'[v].at = "synthesizing",
                         tasks'[turn'[v].task].of = edits'
                  PROVE  turn'[v].text = manifest'[tasks'[turn'[v].task].segment]
      BY DEF TextCurrent
    <3>1. v # w /\ turn'[v] = turn[v] /\ turn[v].task \in 1..n
      BY <2>4, <2>7 DEF HasClaim
    <3>. QED BY <1>1, <2>3, <3>1 DEF AudioInv, TextCurrent
  <2>12. ReadyCurrent'
    BY <1>1 DEF AudioInv, ReadyCurrent
  <2>. QED BY <2>5, <2>8, <2>9, <2>10, <2>11, <2>12 DEF AudioInv
<1>5. CASE turn' = [turn EXCEPT ![w] = HA!Idle] /\ UNCHANGED tasks
  <2>1. turn' \in [Workers -> Turns]
    BY <1>3, <1>5, AudioAssumption DEF HA!Idle, Turns, HA!NoTask, HA!MaxAttempts
  <2>2. SameClaims /\ \A v \in Workers : turn'[v].at = "synthesizing" => turn'[v] = turn[v]
    BY <1>3, <1>5 DEF SameClaims, HasClaim, HA!Idle
  <2>. QED BY <1>1, <1>3, <1>5, <2>1, <2>2, WorkStep DEF AudioInv, AudioRows, ReadyCurrent
<1>. QED BY <1>4, <1>5 DEF HA!Claim

\* What the worker of a claim finds: the task of its claim, and a segment of the rule.
LEMMA ClaimFacts ==
    ASSUME AudioInv, NEW w \in Workers, HasClaim(w)
    PROVE  /\ turn[w].task \in DOMAIN tasks /\ tasks[turn[w].task] \in TaskRecords
           /\ tasks[turn[w].task].segment \in Segments
           /\ assets[tasks[turn[w].task].segment] \in AssetRecords
           /\ manifest[tasks[turn[w].task].segment] \in Texts
           /\ turn[w] \in Turns
<1>1. turn[w].task \in DOMAIN tasks /\ turn[w] \in Turns
  BY DEF AudioInv, ClaimsExist, AudioRows
<1>2. tasks[turn[w].task] \in TaskRecords
  BY <1>1, RowFacts
<1>3. tasks[turn[w].task].segment \in Segments
  BY <1>2 DEF TaskRecords
<1>. QED BY <1>1, <1>2, <1>3 DEF AudioInv, AudioRows

\* A worker that lets go of its claim is idle, and nobody else's turn changes.
LEMMA IdleStep ==
    ASSUME AudioInv, NEW w \in Workers, turn' = [turn EXCEPT ![w] = HA!Idle]
    PROVE  /\ turn' \in [Workers -> Turns] /\ SameClaims
           /\ \A v \in Workers : turn'[v].at = "synthesizing" => turn'[v] = turn[v]
<1>1. turn \in [Workers -> Turns]
  BY DEF AudioInv, AudioRows
<1>2. HA!Idle \in Turns /\ HA!Idle.at = "idle"
  BY AudioAssumption DEF HA!Idle, Turns, HA!NoTask, HA!MaxAttempts
<1>3. turn' \in [Workers -> Turns] /\ \A v \in Workers : turn'[v] = IF v = w THEN HA!Idle ELSE turn[v]
  BY SMTT(60), <1>1, <1>2
<1>. QED BY <1>2, <1>3 DEF SameClaims, HasClaim

\* The second transaction of a turn: the worker reads the text of the segment
\* from the manifest of now, or gives up a task that is not the current one's.
LEMMA BeginStep ==
    ASSUME AudioInv, NEW w \in Workers, HA!Begin(w)
    PROVE  AudioInv'
<1>. DEFINE id == turn[w].task  g == tasks[id].segment
<1>1. turn[w].at = "claimed" /\ UNCHANGED <<manifest, edits, crashes>>
  BY DEF HA!Begin
<1>2. /\ id \in DOMAIN tasks /\ tasks[id] \in TaskRecords /\ g \in Segments
      /\ assets[g] \in AssetRecords /\ manifest[g] \in Texts /\ turn[w] \in Turns
  BY <1>1, ClaimFacts DEF HasClaim
<1>3. /\ turn \in [Workers -> Turns] /\ crashes \in 0..MaxCrashes /\ assets \in [Segments -> AssetRecords]
      /\ status \in {"QUEUED", "RUNNING", "SUCCEEDED", "FAILED"}
  BY DEF AudioInv, AudioRows
<1>4. CASE /\ HA!SetAsset(g, [assets[g] EXCEPT !.status = "RUNNING"])
           /\ turn' = [turn EXCEPT ![w] = [@ EXCEPT !.at = "synthesizing", !.text = manifest[g]]]
           /\ UNCHANGED tasks
  <2>. DEFINE text == manifest[g]
              next == [turn[w] EXCEPT !.at = "synthesizing", !.text = text]
              asset == [assets[g] EXCEPT !.status = "RUNNING"]
  <2>1. turn' = [turn EXCEPT ![w] = next]
    BY <1>4, Zenon
  <2>2. assets' = [assets EXCEPT ![g] = asset] /\ status' = HA!Aggregate(assets')
    BY <1>4, Zenon DEF HA!SetAsset
  <2>. HIDE DEF text
  <2>3. text \in Texts
    BY <1>2 DEF text
  <2>4. /\ next \in Turns /\ next.at = "synthesizing" /\ next.task = turn[w].task
        /\ next.attempt = turn[w].attempt /\ next.text = text
    BY <1>2, <2>3 DEF Turns
  <2>5. asset \in AssetRecords /\ asset.status = "RUNNING"
    BY <1>2 DEF AssetRecords, HA!AssetStates
  <2>. HIDE DEF next, asset
  <2>6. turn' \in [Workers -> Turns] /\ turn'[w] = next /\ \A v \in Workers : v # w => turn'[v] = turn[v]
    BY <1>3, <2>1, <2>4
  <2>7. /\ assets' \in [Segments -> AssetRecords]
        /\ \A h \in Segments : assets'[h].status = "READY" => assets'[h] = assets[h]
    BY <1>3, <2>2, <2>5
  <2>8. status' \in {"QUEUED", "RUNNING", "SUCCEEDED", "FAILED"}
    BY <2>2, AggregateType
  <2>9. AudioRows'
    BY <1>1, <1>4, <2>6, <2>7, <2>8 DEF AudioInv, AudioRows
  <2>10. SameClaims
    BY SMTT(60), <1>1, <2>4, <2>6 DEF SameClaims, HasClaim
  <2>11. TasksKept
    BY <1>4, RowFacts DEF TasksKept
  <2>12. ClaimsExist' /\ ClaimsDiffer' /\ TasksKnown'
    BY <1>1, <2>9, <2>10, <2>11, RowFacts, ClaimsStep
  <2>13. TextCurrent'
    <3>. SUFFICES ASSUME NEW v \in Workers, turn'[v].at = "synthesizing",
                         tasks'[turn'[v].task].of = edits'
                  PROVE  turn'[v].text = manifest'[tasks'[turn'[v].task].segment]
      BY SMTT(60) DEF TextCurrent
    <3>1. CASE v = w
      BY SMTT(60), <1>1, <1>4, <2>4, <2>6, <3>1 DEF text
    <3>2. CASE v # w
      BY <1>1, <1>4, <2>6, <3>2 DEF AudioInv, TextCurrent
    <3>. QED BY <3>1, <3>2
  <2>14. ReadyCurrent'
    BY SMTT(60), <1>1, <2>7 DEF AudioInv, ReadyCurrent
  <2>. QED BY <2>9, <2>12, <2>13, <2>14 DEF AudioInv
<1>5. CASE /\ tasks' = IF tasks[id].attempts = turn[w].attempt /\ tasks[id].status = "RUNNING"
                       THEN [tasks EXCEPT ![id] = [@ EXCEPT !.status = "FAILED", !.leased = FALSE]]
                       ELSE tasks
           /\ turn' = [turn EXCEPT ![w] = HA!Idle]
           /\ UNCHANGED <<assets, status>>
  <2>. DEFINE t == [tasks[id] EXCEPT !.status = "FAILED", !.leased = FALSE]
  <2>1. tasks' = [tasks EXCEPT ![id] = t] \/ UNCHANGED tasks
    BY <1>5, Zenon
  <2>2. /\ t \in TaskRecords /\ t.of = tasks[id].of /\ t.segment = tasks[id].segment
        /\ t.attempts = tasks[id].attempts
    BY <1>2 DEF TaskRecords, HA!TaskStates
  <2>. HIDE DEF t
  <2>3. \/ UNCHANGED tasks
        \/ \E i \in DOMAIN tasks : \E r \in TaskRecords :
                /\ tasks' = [tasks EXCEPT ![i] = r]
                /\ r.of = tasks[i].of /\ r.segment = tasks[i].segment /\ r.attempts = tasks[i].attempts
    BY <1>2, <2>1, <2>2
  <2>4. \A h \in Segments : assets'[h].status = "READY" => assets'[h].file = manifest[h]
    BY <1>5 DEF AudioInv, ReadyCurrent
  <2>5. /\ turn' \in [Workers -> Turns] /\ SameClaims
        /\ \A v \in Workers : turn'[v].at = "synthesizing" => turn'[v] = turn[v]
    BY <1>5, IdleStep
  <2>. QED BY <1>1, <1>3, <1>5, <2>3, <2>4, <2>5, WorkStep
<1>. QED BY SMTT(60), <1>4, <1>5 DEF HA!Begin

\* The third transaction: a synthesis that is reported under its claim is of
\* the text that the manifest of now has.
LEMMA FinishStep ==
    ASSUME AudioInv, NEW w \in Workers, NEW succeeded \in BOOLEAN, HA!Finish(w, succeeded)
    PROVE  AudioInv'
<1>. DEFINE id == turn[w].task
            g == tasks[id].segment
            result == IF succeeded THEN "SUCCEEDED"
                      ELSE IF tasks[id].attempts = HA!MaxAttempts THEN "FAILED" ELSE "PENDING"
<1>1. /\ turn[w].at = "synthesizing" /\ turn' = [turn EXCEPT ![w] = HA!Idle]
      /\ UNCHANGED <<manifest, edits, crashes>>
  BY DEF HA!Finish
<1>2. /\ id \in DOMAIN tasks /\ tasks[id] \in TaskRecords /\ g \in Segments
      /\ assets[g] \in AssetRecords /\ manifest[g] \in Texts /\ turn[w] \in Turns
  BY <1>1, ClaimFacts DEF HasClaim
<1>3. /\ crashes \in 0..MaxCrashes /\ assets \in [Segments -> AssetRecords]
      /\ status \in {"QUEUED", "RUNNING", "SUCCEEDED", "FAILED"}
  BY DEF AudioInv, AudioRows
<1>4. /\ turn' \in [Workers -> Turns] /\ SameClaims
      /\ \A v \in Workers : turn'[v].at = "synthesizing" => turn'[v] = turn[v]
  BY <1>1, IdleStep
<1>5. ASSUME HA!Fenced(w),
             tasks' = [tasks EXCEPT ![id] = [@ EXCEPT !.status = result, !.leased = FALSE]],
             HA!SetAsset(g, IF succeeded THEN [assets[g] EXCEPT !.status = "READY", !.file = turn[w].text]
                            ELSE [assets[g] EXCEPT !.status = result])
      PROVE  AudioInv'
  <2>. DEFINE t == [tasks[id] EXCEPT !.status = result, !.leased = FALSE]
              asset == IF succeeded THEN [assets[g] EXCEPT !.status = "READY", !.file = turn[w].text]
                       ELSE [assets[g] EXCEPT !.status = result]
  <2>1. tasks' = [tasks EXCEPT ![id] = t]
    BY <1>5, Zenon
  <2>2. assets' = [assets EXCEPT ![g] = asset] /\ status' = HA!Aggregate(assets')
    BY <1>5, ZenonT(60) DEF HA!SetAsset
  <2>3. tasks[id].of = edits
    BY <1>5 DEF HA!Fenced
  <2>4. turn[w].text = manifest[g]
    BY <1>1, <2>3 DEF AudioInv, TextCurrent
  <2>5. result \in {"SUCCEEDED", "FAILED", "PENDING"}
    BY SMTT(60)
  <2>. HIDE DEF result
  <2>6. asset \in AssetRecords /\ (asset.status = "READY" => asset.file = manifest[g])
    <3>. DEFINE text == turn[w].text
    <3>1. text \in Texts /\ text = manifest[g]
      BY SMTT(60), <1>2, <2>4
    <3>2. CASE succeeded
      <4>1. asset = [assets[g] EXCEPT !.status = "READY", !.file = text]
        BY <3>2
      <4>. HIDE DEF asset, text
      <4>. QED BY <1>2, <3>1, <4>1 DEF AssetRecords, HA!AssetStates
    <3>3. CASE ~succeeded
      <4>1. asset = [assets[g] EXCEPT !.status = result] /\ result \in {"FAILED", "PENDING"}
        BY <3>3 DEF result
      <4>. HIDE DEF asset
      <4>. QED BY <1>2, <4>1 DEF AssetRecords, HA!AssetStates
    <3>. QED BY <3>2, <3>3
  <2>7. /\ t \in TaskRecords /\ t.of = tasks[id].of /\ t.segment = tasks[id].segment
        /\ t.attempts = tasks[id].attempts
    BY <1>2, <2>5 DEF TaskRecords, HA!TaskStates
  <2>. HIDE DEF t, asset
  <2>8. assets' \in [Segments -> AssetRecords] /\ status' \in {"QUEUED", "RUNNING", "SUCCEEDED", "FAILED"}
    BY <1>3, <2>2, <2>6, AggregateType
  <2>9. \A h \in Segments : assets'[h].status = "READY" => assets'[h].file = manifest[h]
    BY <1>3, <2>2, <2>6 DEF AudioInv, ReadyCurrent
  <2>10. \E i \in DOMAIN tasks : \E r \in TaskRecords :
                /\ tasks' = [tasks EXCEPT ![i] = r]
                /\ r.of = tasks[i].of /\ r.segment = tasks[i].segment /\ r.attempts = tasks[i].attempts
    BY <1>2, <2>1, <2>7
  <2>. QED BY <1>1, <1>3, <1>4, <2>8, <2>9, <2>10, WorkStep
<1>6. CASE UNCHANGED <<tasks, assets, status>>
  <2>1. \A h \in Segments : assets'[h].status = "READY" => assets'[h].file = manifest[h]
    BY <1>6 DEF AudioInv, ReadyCurrent
  <2>. QED BY <1>1, <1>3, <1>4, <1>6, <2>1, WorkStep
<1>. QED BY <1>5, <1>6 DEF HA!Finish

\* A lease that runs out leaves the task to whoever comes next.
LEMMA LeaseStep ==
    ASSUME AudioInv, NEW id \in DOMAIN tasks, HA!LeaseExpires(id)
    PROVE  AudioInv'
<1>. DEFINE t == [tasks[id] EXCEPT !.leased = FALSE]
<1>1. /\ tasks' = [tasks EXCEPT ![id] = t]
      /\ UNCHANGED <<manifest, edits, status, assets, turn>>
  BY DEF HA!LeaseExpires
<1>2. /\ crashes \in 0..MaxCrashes /\ assets \in [Segments -> AssetRecords] /\ turn \in [Workers -> Turns]
      /\ status \in {"QUEUED", "RUNNING", "SUCCEEDED", "FAILED"}
  BY DEF AudioInv, AudioRows
<1>3. crashes' \in 0..MaxCrashes
  BY <1>2, AudioAssumption DEF HA!LeaseExpires
<1>4. /\ t \in TaskRecords /\ t.of = tasks[id].of /\ t.segment = tasks[id].segment
      /\ t.attempts = tasks[id].attempts
  BY RowFacts DEF TaskRecords
<1>. HIDE DEF t
<1>5. \E i \in DOMAIN tasks : \E r \in TaskRecords :
          /\ tasks' = [tasks EXCEPT ![i] = r]
          /\ r.of = tasks[i].of /\ r.segment = tasks[i].segment /\ r.attempts = tasks[i].attempts
  BY <1>1, <1>4
<1>6. SameClaims /\ \A v \in Workers : turn'[v].at = "synthesizing" => turn'[v] = turn[v]
  BY <1>1 DEF SameClaims, HasClaim
<1>7. \A h \in Segments : assets'[h].status = "READY" => assets'[h].file = manifest[h]
  BY <1>1 DEF AudioInv, ReadyCurrent
<1>. QED BY <1>1, <1>2, <1>3, <1>5, <1>6, <1>7, WorkStep

\* A worker that dies leaves its claim, and the task of it, behind.
LEMMA CrashStep ==
    ASSUME AudioInv, NEW w \in Workers, HA!Crash(w)
    PROVE  AudioInv'
<1>1. /\ turn' = [turn EXCEPT ![w] = HA!Idle] /\ crashes < MaxCrashes /\ crashes' = crashes + 1
      /\ UNCHANGED <<manifest, edits, status, assets, tasks>>
  BY DEF HA!Crash
<1>2. /\ crashes \in 0..MaxCrashes /\ assets \in [Segments -> AssetRecords]
      /\ status \in {"QUEUED", "RUNNING", "SUCCEEDED", "FAILED"}
  BY DEF AudioInv, AudioRows
<1>3. crashes' \in 0..MaxCrashes
  BY <1>1, <1>2, AudioAssumption
<1>4. /\ turn' \in [Workers -> Turns] /\ SameClaims
      /\ \A v \in Workers : turn'[v].at = "synthesizing" => turn'[v] = turn[v]
  BY <1>1, IdleStep
<1>5. \A h \in Segments : assets'[h].status = "READY" => assets'[h].file = manifest[h]
  BY <1>1 DEF AudioInv, ReadyCurrent
<1>. QED BY <1>1, <1>2, <1>3, <1>4, <1>5, WorkStep

\* The first transaction of a turn, and the repair that comes with it.
LEMMA ReconcileStep ==
    ASSUME AudioInv, NEW w \in Workers, HA!Reconcile(w)
    PROVE  AudioInv' /\ \A id \in DOMAIN tasks : ~HA!Abandoned(id) => tasks'[id] = tasks[id]
<1>1. turn[w].at = "idle" /\ turn' = [turn EXCEPT ![w].at = "reconciled"]
  BY DEF HA!Reconcile
<1>2. turn \in [Workers -> Turns]
  BY DEF AudioInv, AudioRows
<1>3. /\ turn' \in [Workers -> Turns] /\ turn'[w].at = "reconciled"
      /\ \A v \in Workers : v # w => turn'[v] = turn[v]
  BY <1>1, <1>2 DEF Turns
<1>4. \A v \in Workers : HasClaim(v)' => turn'[v] = turn[v]
  BY <1>3 DEF HasClaim
<1>5. CASE HA!Repair(FALSE)
  BY <1>3, <1>4, <1>5, RepairStep
<1>6. CASE UNCHANGED <<manifest, edits, status, assets, tasks, crashes>>
  <2>1. SameClaims /\ \A v \in Workers : turn'[v].at = "synthesizing" => turn'[v] = turn[v]
    BY <1>4 DEF SameClaims, HasClaim
  <2>2. crashes' \in 0..MaxCrashes /\ assets' \in [Segments -> AssetRecords]
    BY <1>6 DEF AudioInv, AudioRows
  <2>3. \A h \in Segments : assets'[h].status = "READY" => assets'[h].file = manifest[h]
    BY <1>6 DEF AudioInv, ReadyCurrent
  <2>4. status' \in {"QUEUED", "RUNNING", "SUCCEEDED", "FAILED"}
    BY <1>6 DEF AudioInv, AudioRows
  <2>5. AudioInv'
    BY <1>3, <1>6, <2>1, <2>2, <2>3, <2>4, WorkStep
  <2>. QED BY <1>6, <2>5
<1>. QED BY <1>5, <1>6 DEF HA!Reconcile

\* Somebody asks for the audio again, or looks at the rule.
LEMMA RetryStep ==
    ASSUME AudioInv, NEW retry \in BOOLEAN, HA!Retry(retry)
    PROVE  AudioInv' /\ \A id \in DOMAIN tasks : ~HA!Abandoned(id) => tasks'[id] = tasks[id]
<1>1. turn' = turn /\ HA!Repair(retry)
  BY DEF HA!Retry
<1>2. turn' \in [Workers -> Turns] /\ \A w \in Workers : HasClaim(w)' => turn'[w] = turn[w]
  BY <1>1 DEF AudioInv, AudioRows
<1>. QED BY <1>1, <1>2, RepairStep

-----------------------------------------------------------------------------
(* The theorems *)

\* Every step of the audio keeps the invariant.
LEMMA AudioStep ==
    ASSUME AudioInv, HA!Next
    PROVE  AudioInv'
<1>1. ASSUME NEW w \in Workers, HA!Work(w) PROVE AudioInv'
  BY <1>1, ReconcileStep, ClaimStep, BeginStep, FinishStep DEF HA!Work
<1>. QED BY <1>1, CrashStep, RegenerateStep, RetryStep, LeaseStep DEF HA!Next

\* The first generation, whose segments are all queued.
LEMMA AudioInit ==
    ASSUME HA!Init
    PROVE  AudioInv
<1>. DEFINE first == HA!Queue(Segments, << >>, 0)
            c == Cardinality(Segments)
<1>1. /\ manifest \in [Segments -> Texts] /\ edits = 0 /\ tasks = first.tasks
      /\ assets = [g \in Segments |-> HA!PendingAsset(first.ids[g])]
      /\ status = "QUEUED" /\ turn = [w \in Workers |-> HA!Idle] /\ crashes = 0
  BY DEF HA!Init
<1>2. << >> \in [1..0 -> TaskRecords] /\ Segments \in SUBSET Segments /\ 0 \in Nat /\ 0 \in 0..MaxEdits
  BY AudioAssumption
<1>3. c \in Nat /\ c <= MaxTasks
  BY AudioAssumption, FS_CardinalityType
<1>4. 0 + c <= MaxTasks /\ 0 + c = c
  BY <1>3
<1>5. /\ first.tasks \in [1..(0 + c) -> TaskRecords]
      /\ \A id \in 1..(0 + c) : id \notin 1..0 => first.tasks[id].of = 0
      /\ \A g \in Segments : first.ids[g] \in 1..(0 + c)
  <2>. DEFINE none == << >>  n == 0
  <2>1. /\ n \in Nat /\ none \in [1..n -> TaskRecords] /\ Segments \in SUBSET Segments
        /\ n + Cardinality(Segments) <= MaxTasks /\ n \in 0..MaxEdits
    BY <1>2, <1>4
  <2>2. HA!Queue(Segments, none, n) = first
    OBVIOUS
  <2>. HIDE DEF none, n, first, c
  <2>3. /\ HA!Queue(Segments, none, n).tasks \in [1..(n + Cardinality(Segments)) -> TaskRecords]
        /\ \A id \in 1..(n + Cardinality(Segments)) :
              id \notin 1..n => HA!Queue(Segments, none, n).tasks[id].of = n
        /\ \A g \in Segments : HA!Queue(Segments, none, n).ids[g] \in 1..(n + Cardinality(Segments))
    BY <2>1, Queued
  <2>. QED BY <2>2, <2>3 DEF n, c
<1>. HIDE DEF first, c
<1>6. tasks \in [1..c -> TaskRecords] /\ \A id \in 1..c : tasks[id].of = 0
  BY <1>1, <1>4, <1>5
<1>7. \A g \in Segments : first.ids[g] \in 0..MaxTasks
  BY <1>3, <1>4, <1>5, AudioAssumption
<1>8. /\ assets \in [Segments -> AssetRecords]
      /\ \A g \in Segments : assets[g].status = "PENDING"
  BY <1>1, <1>7 DEF HA!PendingAsset, AssetRecords, HA!AssetStates
<1>9. HA!Idle \in Turns /\ HA!Idle.at = "idle"
  BY AudioAssumption DEF HA!Idle, Turns, HA!NoTask, HA!MaxAttempts
<1>10. turn \in [Workers -> Turns] /\ \A w \in Workers : turn[w].at = "idle"
  BY <1>1, <1>9
<1>11. AudioRows
  BY <1>1, <1>3, <1>6, <1>8, <1>10, AudioAssumption DEF AudioRows
<1>12. ClaimsExist /\ ClaimsDiffer /\ TextCurrent
  BY <1>10 DEF ClaimsExist, ClaimsDiffer, TextCurrent, HasClaim
<1>13. TasksKnown /\ ReadyCurrent
  <2>1. DOMAIN tasks = 1..c /\ 0 <= 0
    BY <1>6
  <2>. QED BY <1>1, <1>6, <1>8, <2>1 DEF TasksKnown, ReadyCurrent
<1>. QED BY <1>11, <1>12, <1>13 DEF AudioInv

\* A step of another module leaves the audio as it is.
LEMMA AudioStutter ==
    ASSUME AudioInv, UNCHANGED audio
    PROVE  AudioInv'
BY DEF audio, AudioInv, AudioRows, ClaimsExist, ClaimsDiffer, TasksKnown, TextCurrent, ReadyCurrent, HasClaim

\* The audio moves as HostAudio says, or not at all.
LEMMA AudioNext ==
    ASSUME [MCNext]_MCvars
    PROVE  HA!Next \/ UNCHANGED audio
BY DEF MCNext, OfPipeline, OfFlow, OfSpeech, OfAudio, MCvars

\* The inductive invariant holds in every behaviour.
THEOREM AudioInvariance == MCSpec => []AudioInv
<1>1. MCInit => AudioInv
  BY AudioInit DEF MCInit
<1>2. AudioInv /\ [MCNext]_MCvars => AudioInv'
  BY AudioNext, AudioStep, AudioStutter
<1>. QED BY <1>1, <1>2, PTL DEF MCSpec

\* Ready audio says what the current rule says, whatever was reused, retried,
\* late or synthesized for a text that has been changed since.
THEOREM AudioIsCurrent == MCSpec => []ReadyAudioIsCurrent
<1>1. AudioInv => ReadyAudioIsCurrent
  BY DEF AudioInv, ReadyCurrent, ReadyAudioIsCurrent, HA!ReadyAudioIsCurrent
<1>. QED BY <1>1, AudioInvariance, PTL

\* The rows of the audio keep their types, and no task is made beyond the bound.
THEOREM AudioTypes == MCSpec => []MCTypeOK
<1>1. AudioInv => MCTypeOK
  <2>. SUFFICES ASSUME AudioInv PROVE HA!AudioTypeOK
    BY DEF MCTypeOK
  <2>1. PICK n \in 0..MaxTasks : tasks \in [1..n -> TaskRecords]
    BY DEF AudioInv, AudioRows
  <2>2. DOMAIN tasks \subseteq 1..MaxTasks /\ \A id \in DOMAIN tasks : tasks[id] \in TaskRecords
    BY <2>1, AudioAssumption
  <2>. QED BY <2>2 DEF AudioInv, AudioRows, HA!AudioTypeOK, TaskRecords, AssetRecords, Turns
<1>. QED BY <1>1, AudioInvariance, PTL

\* No step of another actor takes its task from the worker of the latest
\* attempt, but the end of its lease (_fenced_rows, claim_next, repair_generation).
LEMMA HolderStep ==
    ASSUME AudioInv, HA!Next, NEW w \in Workers, HA!Holds(w), turn'[w] = turn[w], edits' = edits
    PROVE  \/ HA!Holds(w)'
           \/ \E id \in {turn[w].task} : ~tasks'[id].leased /\ tasks'[id].status = "RUNNING"
<1>. DEFINE id == turn[w].task
<1>1. /\ turn[w].at = "synthesizing" /\ tasks[id].of = edits /\ tasks[id].attempts = turn[w].attempt
      /\ tasks[id].status = "RUNNING" /\ tasks[id].leased
  BY DEF HA!Holds
<1>2. id \in DOMAIN tasks
  BY <1>1 DEF AudioInv, ClaimsExist, HasClaim
<1>3. ~HA!Abandoned(id) /\ ~HA!Claimable(id)
  BY <1>1 DEF HA!Abandoned, HA!Claimable
<1>. SUFFICES tasks'[id] = tasks[id] \/ (~tasks'[id].leased /\ tasks'[id].status = "RUNNING")
  BY <1>1 DEF HA!Holds
<1>4. ASSUME NEW v \in Workers, HA!Reconcile(v) PROVE tasks'[id] = tasks[id]
  BY <1>2, <1>3, <1>4, ReconcileStep
<1>5. ASSUME NEW v \in Workers, HA!Claim(v) PROVE tasks'[id] = tasks[id]
  BY <1>2, <1>3, <1>5 DEF HA!Claim
<1>6. ASSUME NEW v \in Workers, HA!Begin(v) PROVE tasks'[id] = tasks[id]
  <2>1. v # w /\ turn[v].at = "claimed"
    BY <1>1, <1>6 DEF HA!Begin
  <2>2. ~(turn[v].task = id /\ turn[v].attempt = tasks[id].attempts)
    BY <1>1, <2>1 DEF AudioInv, ClaimsDiffer, HasClaim
  <2>3. \/ UNCHANGED tasks
        \/ /\ tasks[turn[v].task].attempts = turn[v].attempt
           /\ \E t : tasks' = [tasks EXCEPT ![turn[v].task] = t]
    BY <1>6, Zenon DEF HA!Begin
  <2>. QED BY SMTT(60), <1>2, <2>2, <2>3
<1>7. ASSUME NEW v \in Workers, NEW succeeded \in BOOLEAN, HA!Finish(v, succeeded)
      PROVE  tasks'[id] = tasks[id]
  <2>1. v # w /\ turn[v].at = "synthesizing"
    <3>1. turn'[v].at = "idle" /\ turn[v].at = "synthesizing"
      BY <1>7 DEF HA!Finish, HA!Idle, AudioInv, AudioRows
    <3>. QED BY SMTT(60), <1>1, <3>1
  <2>2. ~(turn[v].task = id /\ turn[v].attempt = tasks[id].attempts)
    BY <1>1, <2>1 DEF AudioInv, ClaimsDiffer, HasClaim
  <2>3. \/ UNCHANGED tasks
        \/ /\ tasks[turn[v].task].attempts = turn[v].attempt
           /\ \E t : tasks' = [tasks EXCEPT ![turn[v].task] = t]
    BY <1>7, Zenon DEF HA!Finish, HA!Fenced
  <2>. QED BY <1>2, <2>2, <2>3
<1>8. ASSUME NEW i \in DOMAIN tasks, HA!LeaseExpires(i)
      PROVE  tasks'[id] = tasks[id] \/ (~tasks'[id].leased /\ tasks'[id].status = "RUNNING")
  <2>1. tasks' = [tasks EXCEPT ![i].leased = FALSE]
    BY <1>8 DEF HA!LeaseExpires
  <2>2. tasks[id] \in TaskRecords
    BY <1>2, RowFacts
  <2>. QED BY <1>1, <1>2, <2>1, <2>2 DEF TaskRecords
<1>9. ASSUME NEW v \in Workers, HA!Crash(v) PROVE tasks'[id] = tasks[id]
  BY <1>9 DEF HA!Crash
<1>10. ASSUME NEW new \in [Segments -> Texts], NEW force \in BOOLEAN, HA!Regenerate(new, force)
       PROVE  FALSE
  <2>1. edits' = edits + 1
    BY <1>10 DEF HA!Regenerate
  <2>2. edits \in Nat
    BY RowFacts
  <2>. QED BY SMTT(60), <2>1, <2>2
<1>11. ASSUME NEW retry \in BOOLEAN, HA!Retry(retry) PROVE tasks'[id] = tasks[id]
  BY <1>2, <1>3, <1>11, RetryStep
<1>. QED BY <1>4, <1>5, <1>6, <1>7, <1>8, <1>9, <1>10, <1>11 DEF HA!Next, HA!Work

\* The worker of the latest attempt decides how it ends, as long as its lease
\* lives and the generation is current.
THEOREM HolderKeepsItsTask == MCSpec => HolderDecides
<1>. DEFINE Kept == \A w \in Workers :
        HA!Holds(w) /\ turn'[w] = turn[w] /\ edits' = edits
        => HA!Holds(w)' \/ \E id \in {turn[w].task} : ~tasks'[id].leased /\ tasks'[id].status = "RUNNING"
<1>1. AudioInv /\ [MCNext]_MCvars => [Kept]_HA!audioVars
  <2>. SUFFICES ASSUME AudioInv, [MCNext]_MCvars PROVE Kept \/ UNCHANGED HA!audioVars
    OBVIOUS
  <2>1. CASE HA!Next
    BY <2>1, HolderStep
  <2>2. CASE UNCHANGED audio
    BY <2>2 DEF audio, HA!audioVars
  <2>. QED BY <2>1, <2>2, AudioNext
<1>2. MCSpec => [][Kept]_HA!audioVars
  BY <1>1, AudioInvariance, PTL DEF MCSpec
<1>. QED BY <1>2 DEF HolderDecides, HA!HolderDecides
=============================================================================
