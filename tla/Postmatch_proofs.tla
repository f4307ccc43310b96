--------------------------- MODULE Postmatch_proofs ---------------------------
(* Proofs about Postmatch for any number of debaters, judge results, waiting  *)
(* tasks and faults: its types, and that results are kept secret.             *)
EXTENDS Postmatch, SequenceTheorems, FiniteSetTheorems, TLAPS

-----------------------------------------------------------------------------
(* The inductive invariant *)

\* Every judge result counts, and no more are made than are allowed.
ResultsOK == Len(results) <= MaxResults

\* The worker is idle exactly when it holds no task.
HoldingOK == holding.at = "idle" <=> holding.task.type = "none"

\* The queue cannot outgrow its bound: the annotation tasks are made by one
\* task, and until the result is public only ensure_daily_tasks adds another.
Held == IF holding.at = "idle" THEN 0 ELSE 1
MakesTasks(task) == task.type = "EXPERIMENT_POSTMATCH"
QueueOK ==
    /\ Len(waiting) + Held <= MaxWaiting + 1
    /\ public \/ Len(waiting) + Held <= MaxWaiting
    /\ \A i, j \in DOMAIN waiting :
        MakesTasks(waiting[i]) /\ MakesTasks(waiting[j]) => i = j
    /\ MakesTasks(holding.task) => \A i \in DOMAIN waiting : ~MakesTasks(waiting[i])

\* A submission that has counted is still pending, and what it has counted are
\* submissions of others: they are committed, and stay so.
CountOK ==
    \A r \in Raters : submitting[r] > 0 =>
        annotation[r] = "PENDING" /\ submitting[r] <= Cardinality(Submitted) + 1

\* Nothing is public before all have submitted or an administrator overrides,
\* and a ranking, read or shown, is of a public result.
SecretOK ==
    /\ public => Submitted = Raters \/ override
    /\ shown > 0 => public
    /\ holding.read > 0 => public

IInv == PostmatchTypeOK /\ ResultsOK /\ HoldingOK /\ QueueOK /\ CountOK /\ SecretOK

-----------------------------------------------------------------------------
(* Facts about numbers, sequences and sets *)

\* A set of numbers below a bound has a greatest element: Latest is defined.
LEMMA GreatestExists ==
    ASSUME NEW n \in Nat, NEW T \in SUBSET (1..n), T # {}
    PROVE  \E x \in T : \A y \in T : y <= x
<1>. DEFINE D == {n - x : x \in T}
<1>1. D \subseteq Nat /\ D # {}
  <2>1. \A x \in T : n - x \in Nat
    OBVIOUS
  <2>2. PICK x \in T : TRUE
    OBVIOUS
  <2>3. n - x \in D
    BY <2>2
  <2>. QED BY <2>1, <2>3
<1>2. PICK d \in D : \A e \in D : ~(<<e, d>> \in OpToRel(<, Nat))
  BY <1>1, NatLessThanWellFounded, WFMin
<1>3. \A e \in D : ~(e < d)
  BY <1>1, <1>2 DEF OpToRel
<1>4. PICK x \in T : d = n - x
  OBVIOUS
<1>5. ASSUME NEW y \in T PROVE y <= x
  <2>1. n - y \in D
    OBVIOUS
  <2>2. ~(n - y < n - x)
    BY <1>3, <1>4, <2>1
  <2>. QED BY <2>2
<1>. QED BY <1>5

\* RemoveAt takes one element out and moves the later ones up.
LEMMA RemoveAtFacts ==
    ASSUME NEW S, NEW s \in Seq(S), NEW i \in DOMAIN s
    PROVE  /\ RemoveAt(s, i) \in Seq(S)
           /\ Len(RemoveAt(s, i)) = Len(s) - 1
           /\ \A j \in 1..Len(s) - 1 :
                RemoveAt(s, i)[j] = IF j < i THEN s[j] ELSE s[j + 1]
<1>. DEFINE a == SubSeq(s, 1, i - 1)
            b == SubSeq(s, i + 1, Len(s))
<1>1. i \in 1..Len(s) /\ Len(s) \in Nat
  OBVIOUS
<1>2. /\ a \in Seq(S) /\ Len(a) = i - 1
      /\ \A j \in 1..i - 1 : a[j] = s[j]
  BY <1>1
<1>3. /\ b \in Seq(S) /\ Len(b) = Len(s) - i
      /\ \A j \in 1..Len(s) - i : b[j] = s[i + j]
  BY <1>1
<1>. HIDE DEF a, b
<1>4. /\ a \o b \in Seq(S) /\ Len(a \o b) = Len(s) - 1
      /\ \A j \in 1..Len(s) - 1 : (a \o b)[j] = IF j < i THEN s[j] ELSE s[j + 1]
  BY SMTT(60), <1>1, <1>2, <1>3
<1>. QED BY <1>4 DEF RemoveAt, a, b

\* The submissions are some of the debaters, and there are finitely many.
LEMMA SubmittedFacts ==
    /\ Submitted \subseteq Raters /\ IsFiniteSet(Submitted)
    /\ Cardinality(Raters) \in Nat /\ Cardinality(Submitted) \in Nat
    /\ \A r \in Raters \ Submitted :
        /\ Cardinality(Submitted \cup {r}) = Cardinality(Submitted) + 1
        /\ Cardinality(Submitted \cup {r}) <= Cardinality(Raters)
        /\ Cardinality(Submitted \cup {r}) = Cardinality(Raters) => Submitted \cup {r} = Raters
<1>1. Submitted \subseteq Raters
  BY DEF Submitted
<1>2. IsFiniteSet(Submitted)
  BY <1>1, RaterAssumption, FS_Subset
<1>3. Cardinality(Raters) \in Nat /\ Cardinality(Submitted) \in Nat
  BY <1>2, RaterAssumption, FS_CardinalityType
<1>4. ASSUME NEW r \in Raters \ Submitted
      PROVE  /\ Cardinality(Submitted \cup {r}) = Cardinality(Submitted) + 1
             /\ Cardinality(Submitted \cup {r}) <= Cardinality(Raters)
             /\ Cardinality(Submitted \cup {r}) = Cardinality(Raters)
                    => Submitted \cup {r} = Raters
  <2>1. Cardinality(Submitted \cup {r}) = Cardinality(Submitted) + 1
    BY <1>2, FS_AddElement
  <2>2. Submitted \cup {r} \in SUBSET Raters
    BY <1>1
  <2>. QED BY <2>1, <2>2, RaterAssumption, FS_Subset
<1>. QED BY <1>1, <1>2, <1>3, <1>4

-----------------------------------------------------------------------------
(* The inductive invariant holds at first *)

\* No match has ended and no job is queued.
LEMMA InvInit == Init => IInv
<1>. SUFFICES ASSUME Init PROVE IInv
  OBVIOUS
<1>1. PostmatchTypeOK
  <2>1. waiting \in Seq(Tasks) /\ Len(waiting) <= MaxWaiting + 1
    BY BoundAssumption DEF Init, NewTask, Tasks, Types, MaxAttempts
  <2>2. holding \in Holdings
    BY BoundAssumption DEF Init, NewTask, Idle, Holdings, MaxAttempts
  <2>3. submitting \in [Raters -> 0..Cardinality(Raters)]
    BY SubmittedFacts DEF Init
  <2>4. results \in Seq(JudgeResults) /\ DOMAIN results = {}
    BY DEF Init
  <2>5. /\ due \in BOOLEAN /\ public \in BOOLEAN /\ override \in BOOLEAN
        /\ stuck \in BOOLEAN /\ today \in BOOLEAN
    BY DEF Init
  <2>6. /\ annotation \in [Raters -> {"none", "PENDING", "SUBMITTED"}]
        /\ shown \in 0..MaxResults /\ faults \in 0..MaxFaults
    BY BoundAssumption DEF Init
  <2>. QED BY <2>1, <2>2, <2>3, <2>4, <2>5, <2>6 DEF PostmatchTypeOK
<1>2. ResultsOK /\ HoldingOK /\ QueueOK /\ CountOK /\ SecretOK
  BY BoundAssumption
  DEF Init, ResultsOK, HoldingOK, QueueOK, CountOK, SecretOK, NewTask, Idle, Held, MakesTasks
<1>. QED BY <1>1, <1>2 DEF IInv

-----------------------------------------------------------------------------
(* Every step keeps it *)

\* The steps that leave the judge's results alone.
LEMMA JudgeUnchanged ==
    ASSUME [Next]_postmatchVars
    PROVE  \/ UNCHANGED judge
           \/ RequestJudge \/ RetryJudge \/ CoreCrash
           \/ \E i \in DOMAIN results : Execute(i)
BY DEF Next, Work, BeginSubmit, CommitSubmit, Override, NewDay, EnsureDaily, Claim, MakeTasks,
       Rank, Complete, Fail, JobsCrash, judge, outside, postmatchVars

\* Results are only added, up to their bound, and a result with a verdict has no
\* task that could still change it.
LEMMA ResultsStep ==
    ASSUME IInv, [Next]_postmatchVars
    PROVE  /\ results' \in Seq(JudgeResults) /\ ResultsOK'
           /\ \A k \in DOMAIN results' :
                results'[k].status \in {"SUCCEEDED", "FAILED"} => results'[k].task = "gone"
<1>. DEFINE Goal == /\ results' \in Seq(JudgeResults) /\ ResultsOK'
                    /\ \A k \in DOMAIN results' :
                         results'[k].status \in {"SUCCEEDED", "FAILED"}
                            => results'[k].task = "gone"
<1>1. /\ results \in Seq(JudgeResults) /\ Len(results) <= MaxResults
      /\ \A k \in DOMAIN results :
            results[k].status \in {"SUCCEEDED", "FAILED"} => results[k].task = "gone"
  BY DEF IInv, PostmatchTypeOK, ResultsOK
<1>2. CASE results' = results
  BY <1>1, <1>2 DEF ResultsOK
<1>3. CASE results' = Append(results, NewResult) /\ Len(results) < MaxResults
  <2>1. NewResult \in JudgeResults /\ NewResult.status = "PENDING"
    BY DEF NewResult, JudgeResults
  <2>. QED BY <1>1, <1>3, <2>1, BoundAssumption DEF ResultsOK
<1>4. CASE \E i \in DOMAIN results : Execute(i)
  <2>1. PICK i \in DOMAIN results : Execute(i)
    BY <1>4
  <2>2. results[i] \in JudgeResults
    BY <1>1
  <2>3. PICK new \in JudgeResults :
            /\ results' = [results EXCEPT ![i] = new]
            /\ new.status \in {"SUCCEEDED", "FAILED"} => new.task = "gone"
    <3>. DEFINE r == results[i]
                Becomes(new) == results' = [results EXCEPT ![i] = new]
    <3>1. r.task # "gone" => r.status \in {"PENDING", "RUNNING"}
      BY <1>1, <2>2 DEF JudgeResults
    <3>2. \/ Becomes([r EXCEPT !.status = "RUNNING", !.task = "asked"])
          \/ Becomes([r EXCEPT !.status = "SUCCEEDED", !.task = "gone"])
          \/ r.task # "gone" /\ Becomes([r EXCEPT !.task = "failed"])
          \/ r.task # "gone" /\ Becomes([r EXCEPT !.try = 2, !.task = "begin"])
          \/ Becomes([r EXCEPT !.status = "FAILED", !.task = "gone"])
          \/ Becomes([r EXCEPT !.task = "gone"])
      BY <2>1 DEF Execute
    <3>3. ASSUME r.task # "gone", NEW t \in {"begin", "failed"}, NEW n \in {1, 2}
          PROVE  /\ [r EXCEPT !.try = n, !.task = t] \in JudgeResults
                 /\ [r EXCEPT !.task = t] \in JudgeResults
                 /\ [r EXCEPT !.try = n, !.task = t].status \notin {"SUCCEEDED", "FAILED"}
                 /\ [r EXCEPT !.task = t].status \notin {"SUCCEEDED", "FAILED"}
      BY <2>2, <3>1, <3>3 DEF JudgeResults
    <3>4. \A st \in {"SUCCEEDED", "FAILED"} :
            /\ [r EXCEPT !.status = st, !.task = "gone"] \in JudgeResults
            /\ [r EXCEPT !.status = st, !.task = "gone"].task = "gone"
      BY <2>2 DEF JudgeResults
    <3>5. /\ [r EXCEPT !.status = "RUNNING", !.task = "asked"] \in JudgeResults
          /\ [r EXCEPT !.status = "RUNNING", !.task = "asked"].status = "RUNNING"
          /\ [r EXCEPT !.task = "gone"] \in JudgeResults
          /\ [r EXCEPT !.task = "gone"].task = "gone"
      BY <2>2 DEF JudgeResults
    <3>. QED BY <3>2, <3>3, <3>4, <3>5
  <2>4. /\ results' \in Seq(JudgeResults) /\ Len(results') = Len(results)
        /\ \A k \in 1..Len(results) : results'[k] = IF k = i THEN new ELSE results[k]
    BY <1>1, <2>3
  <2>. QED BY <1>1, <2>3, <2>4 DEF ResultsOK
<1>5. CASE CoreCrash
  <2>1. results' = [k \in 1..Len(results) |-> [results[k] EXCEPT !.task = "gone"]]
    BY <1>1, <1>5 DEF CoreCrash
  <2>2. ASSUME NEW k \in 1..Len(results)
        PROVE  [results[k] EXCEPT !.task = "gone"] \in JudgeResults
    <3>1. results[k] \in JudgeResults
      BY <1>1
    <3>. QED BY <3>1 DEF JudgeResults
  <2>3. results' \in [1..Len(results) -> JudgeResults]
    BY <2>1, <2>2
  <2>4. results' \in Seq(JudgeResults) /\ Len(results') = Len(results)
    BY <1>1, <2>3
  <2>5. \A k \in DOMAIN results' : results'[k].task = "gone"
    <3>. SUFFICES ASSUME NEW k \in 1..Len(results) PROVE results'[k].task = "gone"
      BY <2>1
    <3>1. results[k] \in JudgeResults
      BY <1>1
    <3>. QED BY <2>1, <3>1 DEF JudgeResults
  <2>. QED BY <1>1, <2>4, <2>5 DEF ResultsOK
<1>6. Goal
  BY <1>2, <1>3, <1>4, <1>5, JudgeUnchanged DEF RequestJudge, RetryJudge, judge
<1>. QED BY <1>6

\* Flags, counters and the number shown keep their types.
LEMMA FlagsStep ==
    ASSUME IInv, [Next]_postmatchVars
    PROVE  /\ due' \in BOOLEAN /\ public' \in BOOLEAN /\ override' \in BOOLEAN
           /\ stuck' \in BOOLEAN /\ today' \in BOOLEAN
           /\ shown' \in 0..MaxResults /\ faults' \in 0..MaxFaults
<1>1. /\ due \in BOOLEAN /\ public \in BOOLEAN /\ override \in BOOLEAN
      /\ stuck \in BOOLEAN /\ today \in BOOLEAN
      /\ shown \in 0..MaxResults /\ faults \in 0..MaxFaults
      /\ holding.read \in 0..MaxResults
  BY DEF IInv, PostmatchTypeOK, Holdings
<1>2. faults' = faults \/ Fault
  BY ZenonT(60) DEF Next, Work, RequestJudge, RetryJudge, Execute, BeginSubmit, CommitSubmit, Override, NewDay,
      EnsureDaily, Claim, MakeTasks, Rank, Complete, Fail, JobsCrash, CoreCrash,
      postmatchVars
<1>3. shown' \in 0..MaxResults
  BY ZenonT(60), <1>1
  DEF Next, Work, RequestJudge, RetryJudge, Execute, BeginSubmit, CommitSubmit, Override, NewDay,
      EnsureDaily, Claim, MakeTasks, Rank, Complete, Fail, JobsCrash, CoreCrash, jobs,
      postmatchVars
<1>4. due' \in BOOLEAN
  BY ZenonT(60), <1>1, JudgeUnchanged DEF RequestJudge, RetryJudge, Execute, CoreCrash, judge
<1>5. public' \in BOOLEAN /\ override' \in BOOLEAN
  BY ZenonT(60), <1>1
  DEF Next, Work, RequestJudge, RetryJudge, Execute, BeginSubmit, CommitSubmit, Override, NewDay,
      EnsureDaily, Claim, MakeTasks, Rank, Complete, Fail, JobsCrash, CoreCrash, visibility,
      outside, postmatchVars
<1>6. today' \in BOOLEAN /\ stuck' \in BOOLEAN
  BY ZenonT(60), <1>1
  DEF Next, Work, RequestJudge, RetryJudge, Execute, BeginSubmit, CommitSubmit, Override, NewDay,
      EnsureDaily, Claim, MakeTasks, Rank, Complete, Fail, JobsCrash, CoreCrash, jobs, AddRanking,
      postmatchVars
<1>7. faults' \in 0..MaxFaults
  BY <1>1, <1>2, BoundAssumption DEF Fault
<1>. QED BY <1>3, <1>4, <1>5, <1>6, <1>7

\* The steps that touch the annotations or the open submissions.
LEMMA AnnotationsUnchanged ==
    ASSUME [Next]_postmatchVars
    PROVE  \/ UNCHANGED annotations
           \/ MakeTasks \/ CoreCrash
           \/ \E r \in Raters : BeginSubmit(r) \/ CommitSubmit(r)
BY DEF Next, Work, RequestJudge, RetryJudge, Execute, Override, NewDay, EnsureDaily, Claim,
       Rank, Complete, Fail, JobsCrash, annotations, outside, postmatchVars

\* A submission is never taken back, and what an open one has counted of the
\* others is at most what is committed: it holds the lock of its own row.
LEMMA CountStep ==
    ASSUME IInv, [Next]_postmatchVars
    PROVE  /\ annotation' \in [Raters -> {"none", "PENDING", "SUBMITTED"}]
           /\ submitting' \in [Raters -> 0..Cardinality(Raters)]
           /\ CountOK' /\ Submitted \subseteq Submitted'
<1>. DEFINE Goal == /\ annotation' \in [Raters -> {"none", "PENDING", "SUBMITTED"}]
                    /\ submitting' \in [Raters -> 0..Cardinality(Raters)]
                    /\ CountOK' /\ Submitted \subseteq Submitted'
<1>1. /\ annotation \in [Raters -> {"none", "PENDING", "SUBMITTED"}]
      /\ submitting \in [Raters -> 0..Cardinality(Raters)] /\ CountOK
  BY DEF IInv, PostmatchTypeOK
<1>2. CASE UNCHANGED annotations
  <2>1. Submitted' = Submitted
    BY <1>2 DEF annotations, Submitted
  <2>. QED BY <1>1, <1>2, <2>1 DEF annotations, CountOK
<1>3. CASE CoreCrash
  <2>1. submitting' = [r \in Raters |-> 0] /\ annotation' = annotation
    BY <1>3 DEF CoreCrash
  <2>. QED BY <1>1, <2>1, SubmittedFacts DEF CountOK, Submitted
<1>4. CASE MakeTasks
  <2>1. /\ annotation' = [r \in Raters |-> IF annotation[r] = "none" THEN "PENDING"
                                           ELSE annotation[r]]
        /\ submitting' = submitting
    BY <1>4 DEF MakeTasks
  <2>2. Submitted' = Submitted
    BY <1>1, <2>1 DEF Submitted
  <2>. QED BY <1>1, <2>1, <2>2 DEF CountOK
<1>5. ASSUME NEW r \in Raters, BeginSubmit(r) PROVE Goal
  <2>1. /\ submitting' = [submitting EXCEPT ![r] = Cardinality(Submitted) + 1]
        /\ annotation' = annotation /\ annotation[r] = "PENDING"
    BY <1>5 DEF BeginSubmit
  <2>2. Submitted' = Submitted /\ r \notin Submitted
    BY <2>1 DEF Submitted
  <2>3. Cardinality(Submitted) + 1 \in 0..Cardinality(Raters)
    <3>1. r \in Raters \ Submitted
      BY <2>2
    <3>2. Cardinality(Submitted) + 1 <= Cardinality(Raters)
      BY <3>1, SubmittedFacts
    <3>3. Cardinality(Submitted) \in Nat /\ Cardinality(Raters) \in Nat
      BY SubmittedFacts
    <3>. QED BY <3>2, <3>3
  <2>. QED BY <1>1, <2>1, <2>2, <2>3, SubmittedFacts DEF CountOK
<1>6. ASSUME NEW r \in Raters, CommitSubmit(r) PROVE Goal
  <2>1. /\ submitting[r] > 0
        /\ annotation' = [annotation EXCEPT ![r] = "SUBMITTED"]
        /\ submitting' = [submitting EXCEPT ![r] = 0]
    BY <1>6 DEF CommitSubmit
  <2>2. annotation[r] = "PENDING"
    BY <1>1, <2>1 DEF CountOK
  <2>3. Submitted' = Submitted \cup {r} /\ r \notin Submitted
    BY <1>1, <2>1, <2>2 DEF Submitted
  <2>4. Cardinality(Submitted') = Cardinality(Submitted) + 1
    BY <2>3, SubmittedFacts
  <2>5. CountOK'
    <3>. SUFFICES ASSUME NEW q \in Raters, submitting'[q] > 0
                 PROVE  /\ annotation'[q] = "PENDING"
                        /\ submitting'[q] <= Cardinality(Submitted') + 1
      BY DEF CountOK
    <3>1. q # r /\ submitting'[q] = submitting[q] /\ annotation'[q] = annotation[q]
      BY <1>1, <2>1
    <3>2. annotation[q] = "PENDING" /\ submitting[q] <= Cardinality(Submitted) + 1
      BY <1>1, <3>1 DEF CountOK
    <3>. QED BY <1>1, <2>4, <3>1, <3>2, SubmittedFacts
  <2>. QED BY <1>1, <2>1, <2>3, <2>5, SubmittedFacts
<1>7. Goal
  BY <1>2, <1>3, <1>4, <1>5, <1>6, AnnotationsUnchanged
<1>. QED BY <1>7

\* The submission that counts itself the last of all is: whoever it has counted
\* has submitted, and all the others with it.
LEMMA LastIsLast ==
    ASSUME IInv, NEW r \in Raters, CommitSubmit(r), LastOfAll(r)
    PROVE  Submitted' = Raters
<1>1. /\ annotation \in [Raters -> {"none", "PENDING", "SUBMITTED"}]
      /\ submitting \in [Raters -> 0..Cardinality(Raters)]
      /\ submitting[r] > 0 /\ annotation' = [annotation EXCEPT ![r] = "SUBMITTED"]
  BY DEF IInv, PostmatchTypeOK, CommitSubmit
<1>2. annotation[r] = "PENDING" /\ submitting[r] <= Cardinality(Submitted) + 1
  BY <1>1 DEF IInv, CountOK
<1>3. Submitted' = Submitted \cup {r} /\ r \notin Submitted
  BY <1>1, <1>2 DEF Submitted
<1>4. Cardinality(Raters) <= Cardinality(Submitted) + 1
  BY <1>1, <1>2, SubmittedFacts DEF LastOfAll
<1>5. /\ Cardinality(Submitted \cup {r}) = Cardinality(Submitted) + 1
      /\ Cardinality(Submitted \cup {r}) <= Cardinality(Raters)
      /\ Cardinality(Submitted \cup {r}) = Cardinality(Raters) => Submitted \cup {r} = Raters
  <2>1. r \in Raters \ Submitted
    BY <1>3
  <2>. QED BY <2>1, SubmittedFacts
<1>6. Cardinality(Submitted) \in Nat /\ Cardinality(Raters) \in Nat
  BY SubmittedFacts
<1>7. Cardinality(Submitted \cup {r}) = Cardinality(Raters)
  BY <1>4, <1>5, <1>6
<1>. QED BY <1>3, <1>5, <1>7

\* Nothing but a full set of submissions or an override publishes, and only
\* what is public is read and shown: a result is never made private again.
LEMMA SecretStep ==
    ASSUME IInv, [Next]_postmatchVars
    PROVE  SecretOK'
<1>1. SecretOK /\ public \in BOOLEAN /\ override \in BOOLEAN
  BY DEF IInv, PostmatchTypeOK
<1>2. Submitted \subseteq Submitted' /\ Submitted' \subseteq Raters
  BY SMTT(60), CountStep DEF Submitted
<1>3. override' = override \/ override' = TRUE
  BY ZenonT(60) DEF Next, Work, RequestJudge, RetryJudge, Execute, BeginSubmit, CommitSubmit, Override,
         NewDay, EnsureDaily, Claim, MakeTasks, Rank, Complete, Fail, JobsCrash, CoreCrash,
         visibility, outside, postmatchVars
<1>4. \/ public' = public
      \/ public' = TRUE /\ override' = TRUE
      \/ public' = TRUE /\ \E r \in Raters : CommitSubmit(r) /\ LastOfAll(r)
  BY DEF Next, Work, RequestJudge, RetryJudge, Execute, BeginSubmit, CommitSubmit, Override,
         NewDay, EnsureDaily, Claim, MakeTasks, Rank, Complete, Fail, JobsCrash, CoreCrash,
         visibility, outside, postmatchVars
<1>5. public' => Submitted' = Raters \/ override'
  BY <1>1, <1>2, <1>3, <1>4, LastIsLast DEF SecretOK
<1>6. public => public'
  BY <1>4
<1>7. shown' = shown \/ (holding.read # 0 /\ shown' = holding.read)
  BY DEF Next, Work, RequestJudge, RetryJudge, Execute, BeginSubmit, CommitSubmit, Override,
         NewDay, EnsureDaily, Claim, MakeTasks, Rank, Complete, Fail, JobsCrash, CoreCrash,
         jobs, postmatchVars
<1>8. holding.read \in Nat /\ shown \in Nat
  BY BoundAssumption DEF IInv, PostmatchTypeOK, Holdings
<1>9. shown' > 0 => public'
  BY SMTT(60), <1>1, <1>6, <1>7, <1>8 DEF SecretOK
<1>10. holding'.read > 0 => public'
  <2>1. CASE holding' = holding
    BY <1>1, <1>6, <2>1 DEF SecretOK
  <2>2. CASE \/ MakeTasks \/ Complete \/ Fail \/ JobsCrash
             \/ \E i \in DOMAIN waiting : Claim(i)
    BY <1>1, <1>6, <2>2
    DEF MakeTasks, Complete, Fail, JobsCrash, Claim, Idle, IInv, PostmatchTypeOK, Holdings,
        SecretOK
  <2>3. CASE Rank
    <3>1. holding \in Holdings /\ (holding.read > 0 => public)
      BY DEF IInv, PostmatchTypeOK, SecretOK
    <3>2. CASE holding' = [holding EXCEPT !.at = "read", !.read = Ranked]
      <4>1. holding'.read = Ranked
        BY <3>1, <3>2 DEF Holdings
      <4>2. Ranked = 0 \/ public
        BY DEF Ranked, Rankable
      <4>. QED BY <1>6, <4>1, <4>2
    <3>3. CASE holding' = [holding EXCEPT !.at = "done"]
      <4>1. holding'.read = holding.read
        BY <3>1, <3>3 DEF Holdings
      <4>. QED BY <1>6, <3>1, <4>1
    <3>. QED BY <2>3, <3>2, <3>3 DEF Rank
  <2>. QED BY <2>1, <2>2, <2>3
    DEF Next, Work, RequestJudge, RetryJudge, Execute, BeginSubmit, CommitSubmit, Override,
        NewDay, EnsureDaily, CoreCrash, jobs, postmatchVars
<1>. QED BY <1>5, <1>9, <1>10 DEF SecretOK

\* The steps of the queue: a task is added, taken, given back or over.
QueueSteps ==
    \/ UNCHANGED <<waiting, holding>>
    \/ holding' = holding /\ AddRanking /\ ((public' /\ ~public) \/ (~RankingPending /\ public'))
    \/ EnsureDaily \/ (\E i \in DOMAIN waiting : Claim(i))
    \/ MakeTasks \/ Rank \/ Complete \/ Fail \/ JobsCrash

\* What a step may do to the jobs.
LEMMA QueueChanges ==
    ASSUME [Next]_postmatchVars
    PROVE  QueueSteps /\ (public => public')
<1>1. CASE UNCHANGED postmatchVars \/ RequestJudge \/ RetryJudge \/ NewDay \/ CoreCrash
  BY <1>1 DEF RequestJudge, RetryJudge, NewDay, CoreCrash, visibility, outside, jobs, QueueSteps,
              postmatchVars
<1>2. ASSUME NEW i \in DOMAIN results, Execute(i) PROVE QueueSteps /\ (public => public')
  BY <1>2 DEF Execute, visibility, jobs, QueueSteps
<1>3. ASSUME NEW r \in Raters, BeginSubmit(r) PROVE QueueSteps /\ (public => public')
  BY <1>3 DEF BeginSubmit, visibility, jobs, QueueSteps
<1>4. ASSUME NEW r \in Raters, CommitSubmit(r) PROVE QueueSteps /\ (public => public')
  BY <1>4 DEF CommitSubmit, QueueSteps
<1>5. CASE Override
  BY <1>5 DEF Override, QueueSteps
<1>6. CASE Work \/ Fail \/ JobsCrash
  <2>1. QueueSteps
    BY <1>6 DEF Work, QueueSteps
  <2>2. public' = public
    BY <1>6 DEF Work, EnsureDaily, Claim, MakeTasks, Rank, Complete, Fail, JobsCrash, outside,
                visibility
  <2>. QED BY <2>1, <2>2
<1>. QED BY <1>1, <1>2, <1>3, <1>4, <1>5, <1>6 DEF Next

\* The type and the bound of the queue, without primes, as the steps need them.
QueueFacts ==
    /\ waiting \in Seq(Tasks) /\ Len(waiting) <= MaxWaiting + 1
    /\ holding \in Holdings /\ HoldingOK /\ QueueOK

\* A ranking is added when the queue has room for it.
LEMMA AddedFits ==
    ASSUME QueueFacts, waiting' = Append(waiting, NewTask("LEADERBOARD_DAILY")),
           holding' = holding, public => public', public \in BOOLEAN, public' \in BOOLEAN,
           \/ public' /\ ~public
           \/ public' /\ ~RankingPending
           \/ holding.at = "idle" /\ Len(waiting) < MaxWaiting
    PROVE  QueueFacts'
<1>. DEFINE new == NewTask("LEADERBOARD_DAILY")
<1>1. new \in Tasks /\ ~MakesTasks(new)
  BY DEF NewTask, Tasks, Types, MaxAttempts, MakesTasks
<1>2. waiting \in Seq(Tasks) /\ QueueOK /\ holding \in Holdings /\ HoldingOK
  BY DEF QueueFacts
<1>3. /\ waiting' \in Seq(Tasks) /\ Len(waiting') = Len(waiting) + 1
      /\ DOMAIN waiting' = 1..Len(waiting) + 1 /\ DOMAIN waiting = 1..Len(waiting)
      /\ \A i \in 1..Len(waiting) : waiting'[i] = waiting[i]
      /\ waiting'[Len(waiting) + 1] = new /\ Len(waiting) \in Nat
  BY <1>1, <1>2
<1>4. /\ \A i, j \in DOMAIN waiting' :
            MakesTasks(waiting'[i]) /\ MakesTasks(waiting'[j]) => i = j
      /\ MakesTasks(holding.task) => \A i \in DOMAIN waiting' : ~MakesTasks(waiting'[i])
  BY <1>1, <1>2, <1>3 DEF QueueOK
<1>5. Held' = Held /\ Held \in {0, 1}
  BY DEF Held
<1>6. /\ Len(waiting) + Held + 1 <= MaxWaiting + 1
      /\ public' \/ Len(waiting) + Held + 1 <= MaxWaiting
  <2>1. CASE public' /\ ~public
    BY <1>2, <1>3, <1>5, <2>1, BoundAssumption DEF QueueOK
  <2>2. CASE public' /\ ~RankingPending
    <3>1. \A i \in 1..Len(waiting) : waiting[i] \in Tasks
      BY <1>2
    <3>2. \A i \in 1..Len(waiting) : MakesTasks(waiting[i])
      BY <1>3, <2>2, <3>1 DEF RankingPending, MakesTasks, Tasks, Types
    <3>3. \A i, j \in 1..Len(waiting) : i = j
      BY <1>2, <1>3, <3>2 DEF QueueOK
    <3>4. Len(waiting) <= 1
      <4>1. CASE Len(waiting) >= 2
        <5>1. 1 \in 1..Len(waiting) /\ 2 \in 1..Len(waiting)
          BY <1>3, <4>1
        <5>. QED BY <3>3, <5>1
      <4>. QED BY <1>3, <4>1
    <3>5. Held = 1 => MakesTasks(holding.task)
      BY <1>2, <2>2 DEF Held, HoldingOK, RankingPending, MakesTasks, Holdings, Types
    <3>6. Held = 1 => Len(waiting) = 0
      BY <1>2, <1>3, <3>2, <3>4, <3>5 DEF QueueOK
    <3>. QED BY <1>3, <1>5, <2>2, <3>4, <3>6, BoundAssumption
  <2>3. CASE holding.at = "idle" /\ Len(waiting) < MaxWaiting
    BY <1>3, <2>3, BoundAssumption DEF Held
  <2>. QED BY <2>1, <2>2, <2>3
<1>7. QueueOK'
  BY SMTT(60), <1>3, <1>4, <1>5, <1>6, BoundAssumption DEF QueueOK
<1>8. HoldingOK'
  BY <1>2 DEF HoldingOK
<1>9. Len(waiting') <= MaxWaiting + 1
  BY <1>3, <1>5, <1>6, BoundAssumption
<1>. QED BY <1>2, <1>3, <1>7, <1>8, <1>9 DEF QueueFacts

\* A task that is given back goes to the place it was taken from.
LEMMA GivenBackFits ==
    ASSUME QueueFacts, holding.at # "idle", holding' = Idle, public => public',
           public \in BOOLEAN, public' \in BOOLEAN,
           \/ waiting' = waiting
           \/ MayRetry(holding.task) /\ waiting' = Append(waiting, holding.task)
    PROVE  QueueFacts'
<1>1. waiting \in Seq(Tasks) /\ QueueOK /\ holding \in Holdings /\ HoldingOK
  BY DEF QueueFacts
<1>2. holding.task.type \in Types /\ Held = 1 /\ Held' = 0
  BY <1>1 DEF HoldingOK, Holdings, Held, Idle
<1>3. holding' \in Holdings /\ HoldingOK' /\ ~MakesTasks(holding'.task)
  BY BoundAssumption DEF Idle, NewTask, Holdings, HoldingOK, MaxAttempts, MakesTasks
<1>4. CASE waiting' = waiting
  BY <1>1, <1>2, <1>3, <1>4, BoundAssumption DEF QueueFacts, QueueOK
<1>5. CASE MayRetry(holding.task) /\ waiting' = Append(waiting, holding.task)
  <2>1. holding.task \in Tasks
    BY <1>1, <1>2, <1>5 DEF Holdings, Tasks, MayRetry, MaxAttempts
  <2>2. /\ waiting' \in Seq(Tasks) /\ Len(waiting') = Len(waiting) + 1
        /\ DOMAIN waiting' = 1..Len(waiting) + 1 /\ DOMAIN waiting = 1..Len(waiting)
        /\ \A i \in 1..Len(waiting) : waiting'[i] = waiting[i]
        /\ waiting'[Len(waiting) + 1] = holding.task /\ Len(waiting) \in Nat
    BY <1>1, <1>5, <2>1
  <2>3. \A i, j \in DOMAIN waiting' :
            MakesTasks(waiting'[i]) /\ MakesTasks(waiting'[j]) => i = j
    BY <1>1, <2>2 DEF QueueOK
  <2>4. /\ Len(waiting') + Held' <= MaxWaiting + 1
        /\ public' \/ Len(waiting') + Held' <= MaxWaiting
    BY <1>1, <1>2, <2>2, BoundAssumption DEF QueueOK
  <2>5. QueueOK'
    BY <1>3, <2>3, <2>4 DEF QueueOK
  <2>6. Len(waiting') <= MaxWaiting + 1
    BY <1>2, <2>2, <2>4, BoundAssumption
  <2>. QED BY <1>3, <2>2, <2>5, <2>6 DEF QueueFacts
<1>. QED BY <1>4, <1>5

\* The queue keeps its bound, with one task that makes annotation tasks.
LEMMA QueueStep ==
    ASSUME IInv, [Next]_postmatchVars
    PROVE  QueueFacts'
<1>1. QueueFacts /\ public \in BOOLEAN
  BY DEF IInv, PostmatchTypeOK, QueueFacts
<1>2. public' \in BOOLEAN /\ (public => public')
  BY FlagsStep, QueueChanges
<1>3. waiting \in Seq(Tasks) /\ holding \in Holdings /\ HoldingOK /\ QueueOK
  BY <1>1 DEF QueueFacts
<1>4. CASE UNCHANGED <<waiting, holding>>
  BY <1>1, <1>2, <1>4, BoundAssumption DEF QueueFacts, QueueOK, HoldingOK, Held
<1>5. CASE holding' = holding /\ AddRanking /\ ((public' /\ ~public) \/ (~RankingPending /\ public'))
  BY <1>1, <1>2, <1>5, AddedFits DEF AddRanking
<1>6. CASE EnsureDaily
  BY <1>1, <1>2, <1>6, AddedFits DEF EnsureDaily, AddRanking
<1>7. ASSUME NEW i \in DOMAIN waiting, Claim(i) PROVE QueueFacts'
  <2>1. /\ holding.at = "idle" /\ waiting' = RemoveAt(waiting, i)
        /\ holding' = [task |-> [waiting[i] EXCEPT !.attempts = @ + 1], at |-> "claimed",
                       read |-> 0]
    BY <1>7 DEF Claim
  <2>2. waiting[i] \in Tasks /\ waiting[i].type \in Types
    <3>1. waiting[i] \in Tasks
      BY <1>3
    <3>. QED BY <3>1 DEF Tasks
  <2>3. /\ holding' \in Holdings /\ holding'.task.type = waiting[i].type
        /\ holding'.at = "claimed"
    BY <2>1, <2>2, BoundAssumption DEF Holdings, Tasks, MaxAttempts
  <2>4. HoldingOK' /\ Held' = 1 /\ Held = 0
    BY <2>1, <2>2, <2>3 DEF HoldingOK, Held, Types
  <2>5. /\ waiting' \in Seq(Tasks) /\ Len(waiting') = Len(waiting) - 1
        /\ \A j \in 1..Len(waiting) - 1 :
             waiting'[j] = IF j < i THEN waiting[j] ELSE waiting[j + 1]
        /\ DOMAIN waiting' = 1..Len(waiting) - 1 /\ DOMAIN waiting = 1..Len(waiting)
        /\ Len(waiting) \in Nat
    BY <1>3, <2>1, RemoveAtFacts
  <2>. DEFINE old(j) == IF j < i THEN j ELSE j + 1
  <2>6. \A j \in DOMAIN waiting' :
            old(j) \in DOMAIN waiting /\ old(j) # i /\ waiting'[j] = waiting[old(j)]
    BY <2>5
  <2>7. \A j, k \in DOMAIN waiting' :
            MakesTasks(waiting'[j]) /\ MakesTasks(waiting'[k]) => j = k
    <3>. SUFFICES ASSUME NEW j \in DOMAIN waiting', NEW k \in DOMAIN waiting',
                         MakesTasks(waiting'[j]), MakesTasks(waiting'[k])
                 PROVE  j = k
      OBVIOUS
    <3>1. old(j) = old(k)
      BY <1>3, <2>6 DEF QueueOK
    <3>. QED BY <2>5, <3>1
  <2>8. MakesTasks(holding'.task) => \A j \in DOMAIN waiting' : ~MakesTasks(waiting'[j])
    BY <1>3, <2>3, <2>6 DEF QueueOK, MakesTasks
  <2>9. QueueOK'
    BY <1>2, <1>3, <2>4, <2>5, <2>7, <2>8, BoundAssumption DEF QueueOK
  <2>. QED BY <1>1, <2>3, <2>4, <2>5, <2>9, BoundAssumption DEF QueueFacts
<1>8. CASE MakeTasks \/ Rank
  <2>1. /\ waiting' = waiting /\ holding'.task = holding.task /\ holding' \in Holdings
        /\ holding.at # "idle" /\ holding'.at # "idle"
    <3>1. Ranked \in 0..MaxResults
      <4>1. results \in Seq(JudgeResults) /\ Len(results) <= MaxResults
        BY DEF IInv, PostmatchTypeOK, ResultsOK
      <4>2. Scored \in SUBSET (1..MaxResults)
        BY <4>1, BoundAssumption DEF Scored
      <4>3. Scored # {} => Latest(Scored) \in Scored
        BY <4>2, GreatestExists, BoundAssumption DEF Latest
      <4>4. Ranked = 0 \/ Ranked \in Scored
        BY <4>3 DEF Ranked, Rankable
      <4>5. Ranked = 0 \/ Ranked \in 1..MaxResults
        BY <4>2, <4>4
      <4>. QED BY <4>5, BoundAssumption
    <3>. QED BY <1>3, <1>8, <3>1 DEF MakeTasks, Rank, Holdings
  <2>2. HoldingOK' /\ Held' = Held
    BY <1>3, <2>1 DEF HoldingOK, Held
  <2>. QED BY <1>1, <1>2, <1>3, <2>1, <2>2, BoundAssumption DEF QueueFacts, QueueOK
<1>9. CASE Complete
  <2>1. holding.at # "idle" /\ holding' = Idle /\ waiting' = waiting
    BY <1>9 DEF Complete
  <2>. QED BY <1>1, <1>2, <2>1, GivenBackFits
<1>10. CASE Fail \/ JobsCrash
  <2>1. /\ holding.at # "idle" /\ holding' = Idle
        /\ \/ waiting' = waiting
           \/ MayRetry(holding.task) /\ waiting' = Append(waiting, holding.task)
    BY <1>10 DEF Fail, JobsCrash
  <2>. QED BY <1>1, <1>2, <2>1, GivenBackFits
<1>. QED
  BY <1>4, <1>5, <1>6, <1>7, <1>8, <1>9, <1>10, QueueChanges DEF QueueSteps

-----------------------------------------------------------------------------
(* The theorems *)

\* Every step keeps the invariant.
LEMMA InvStep == IInv /\ [Next]_postmatchVars => IInv'
<1>. SUFFICES ASSUME IInv, [Next]_postmatchVars PROVE IInv'
  OBVIOUS
<1>1. PostmatchTypeOK'
  BY ResultsStep, FlagsStep, CountStep, QueueStep DEF PostmatchTypeOK, QueueFacts
<1>. QED BY <1>1, ResultsStep, CountStep, SecretStep, QueueStep DEF IInv, QueueFacts

\* The invariant holds throughout.
LEMMA Invariant == Spec => []IInv
BY InvInit, InvStep, PTL DEF Spec

\* Every variable keeps its type: the queue of the jobs process stays within one
\* of its bound whatever faults put tasks back, no attempt beyond the last is
\* made, and a judged or failed result is left by its task.
THEOREM TypeCorrect == Spec => []PostmatchTypeOK
BY Invariant, PTL DEF IInv

\* However many debaters there are, and however their submissions, the override,
\* the ranking and faults interleave: nothing is public or ranked before all
\* annotations are submitted or an administrator overrides.
THEOREM SecretsKept == Spec => []ResultsKeptSecret
<1>1. IInv => ResultsKeptSecret
  BY DEF IInv, SecretOK, ResultsKeptSecret
<1>. QED BY <1>1, Invariant, PTL
===============================================================================
