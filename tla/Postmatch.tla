------------------------------ MODULE Postmatch ------------------------------
(* What follows a formal experiment match. The judge scores it                *)
(* (postmatch.py); a job makes the tasks in which its debaters annotate it    *)
(* (experiment_worker.py); when all have submitted theirs, or an              *)
(* administrator overrides, the result is public (experiments/service.py) and *)
(* a job ranks it (leaderboard_worker.py). A step is one transaction, except  *)
(* that a submission is cut between its count and its commit. Jobs is one     *)
(* process that works on one task at a time (cli.py).                         *)
EXTENDS Naturals, Sequences, SequencesExt, FiniteSets

CONSTANTS
    Raters,        \* the debaters of the match; six in the code
    MaxResults,    \* bound: judge results
    MaxWaiting,    \* bound: tasks waiting for the worker
    MaxFaults      \* bound: crashes and transactions that fail

ASSUME RaterAssumption == IsFiniteSet(Raters)
ASSUME BoundAssumption == MaxResults \in Nat /\ MaxWaiting \in Nat \ {0} /\ MaxFaults \in Nat

VARIABLES
    results,       \* JudgeResult, in order of creation, and its _execute task
    due,           \* the finished match is still to ask for its judge
    annotation,    \* participant_annotation_tasks: status of each debater's
    submitting,    \* submit_participant_task: submissions counted, or 0
    public,        \* experiment_match_attempts.public_at is set
    override,      \* experiment_result_overrides has a row
    waiting,       \* background_tasks that may be claimed
    stuck,         \* a LEADERBOARD_DAILY is RUNNING that nobody will claim
    today,         \* one was created today
    holding,       \* the task the worker holds and where it is
    shown,         \* the result in the newest leaderboard batch, or 0
    faults         \* counts up to MaxFaults

postmatchVars == <<results, due, annotation, submitting, public, override, waiting, stuck, today,
                   holding, shown, faults>>

MaxAttempts == 2
NewTask(type) == [type |-> type, attempts |-> 0]
NewResult == [status |-> "PENDING", try |-> 1, task |-> "begin"]
Idle == [task |-> NewTask("none"), at |-> "idle", read |-> 0]
Types == {"LEADERBOARD_DAILY", "EXPERIMENT_POSTMATCH"}

JudgeResults == [status : {"PENDING", "RUNNING", "SUCCEEDED", "FAILED"}, try : {1, 2},
                 task : {"begin", "asked", "failed", "gone"}]
Tasks == [type : Types, attempts : 0..MaxAttempts - 1]
Holdings == [task : [type : Types \cup {"none"}, attempts : 0..MaxAttempts],
             at : {"idle", "claimed", "read", "done"}, read : 0..MaxResults]

PostmatchTypeOK ==
    /\ results \in Seq(JudgeResults)
    /\ \A i \in DOMAIN results :
        results[i].status \in {"SUCCEEDED", "FAILED"} => results[i].task = "gone"
    /\ due \in BOOLEAN /\ public \in BOOLEAN /\ override \in BOOLEAN
    /\ stuck \in BOOLEAN /\ today \in BOOLEAN
    /\ annotation \in [Raters -> {"none", "PENDING", "SUBMITTED"}]
    /\ submitting \in [Raters -> 0..Cardinality(Raters)]
    /\ waiting \in Seq(Tasks) /\ Len(waiting) <= MaxWaiting + 1
    /\ holding \in Holdings
    /\ shown \in 0..MaxResults /\ faults \in 0..MaxFaults

\* _commit of the finished match: the attempt is COMPLETED and effective, and
\* the task that makes the annotation tasks is stored with it.
Init ==
    /\ results = <<>> /\ due = TRUE
    /\ annotation = [r \in Raters |-> "none"] /\ submitting = [r \in Raters |-> 0]
    /\ public = FALSE /\ override = FALSE
    /\ waiting = <<NewTask("EXPERIMENT_POSTMATCH")>> /\ stuck = FALSE /\ today = FALSE
    /\ holding = Idle /\ shown = 0 /\ faults = 0

Fault == faults < MaxFaults /\ faults' = faults + 1

-----------------------------------------------------------------------------
(* The judge *)

judge == <<results, due>>
annotations == <<annotation, submitting>>
visibility == <<public, override>>
jobs == <<waiting, stuck, today, holding, shown>>

Unjudged == results = <<>> \/ Last(results).status \in {"SUCCEEDED", "FAILED"}

\* request_judge after the match has finished; once.
RequestJudge ==
    /\ due /\ due' = FALSE
    /\ results' = IF Unjudged /\ Len(results) < MaxResults THEN Append(results, NewResult) ELSE results
    /\ UNCHANGED <<annotations, visibility, jobs, faults>>

\* retry_judge by the owner of the room or an administrator: force.
RetryJudge ==
    /\ Len(results) < MaxResults
    /\ results' = Append(results, NewResult)
    /\ UNCHANGED <<due, annotations, visibility, jobs, faults>>

\* _execute: an attempt begins, the provider answers, or anything fails; the
\* failure is stored in a transaction of its own, with which the task may die.
Execute(i) ==
    LET r == results[i]
        becomes(fields) == results' = [results EXCEPT ![i] = fields]
    IN  /\ \/ /\ r.task = "begin"
              /\ becomes([r EXCEPT !.status = "RUNNING", !.task = "asked"]) /\ UNCHANGED faults
           \/ /\ r.task = "asked"
              /\ becomes([r EXCEPT !.status = "SUCCEEDED", !.task = "gone"]) /\ UNCHANGED faults
           \/ /\ r.task \in {"begin", "asked"}
              /\ becomes([r EXCEPT !.task = "failed"]) /\ UNCHANGED faults
           \/ /\ r.task = "failed" /\ r.try = 1
              /\ becomes([r EXCEPT !.try = 2, !.task = "begin"]) /\ UNCHANGED faults
           \/ /\ r.task = "failed" /\ r.try = 2
              /\ becomes([r EXCEPT !.status = "FAILED", !.task = "gone"]) /\ UNCHANGED faults
           \/ /\ r.task = "failed" /\ Fault
              /\ becomes([r EXCEPT !.task = "gone"])
        /\ UNCHANGED <<due, annotations, visibility, jobs>>

-----------------------------------------------------------------------------
(* Annotations and publication *)

Submitted == {r \in Raters : annotation[r] = "SUBMITTED"}

AddRanking == waiting' = Append(waiting, NewTask("LEADERBOARD_DAILY")) /\ today' = TRUE

\* submit_participant_task, until the count: the other submissions it can see
\* are the committed ones. It holds the lock of its own row only: when the last
\* two overlap neither counts the other, and nobody publishes.
BeginSubmit(r) ==
    /\ annotation[r] = "PENDING" /\ submitting[r] = 0
    /\ submitting' = [submitting EXCEPT ![r] = Cardinality(Submitted) + 1]
    /\ UNCHANGED <<judge, annotation, visibility, jobs, faults>>

\* Mutant: one submission is enough.
AnySubmitted(r) == submitting[r] > 0

LastOfAll(r) == submitting[r] >= Cardinality(Raters)

\* The rest: the attempt, locked now, becomes public and is to be ranked.
CommitSubmit(r) ==
    /\ submitting[r] > 0
    /\ annotation' = [annotation EXCEPT ![r] = "SUBMITTED"]
    /\ submitting' = [submitting EXCEPT ![r] = 0]
    /\ IF LastOfAll(r) /\ ~public
       THEN public' = TRUE /\ AddRanking
       ELSE UNCHANGED <<public, waiting, today>>
    /\ UNCHANGED <<judge, override, stuck, holding, shown, faults>>

\* override_result_visibility: nothing is added while a ranking is pending, even
\* one that has read already or whose worker died. It may be repeated.
RankingPending ==
    \/ \E i \in DOMAIN waiting : waiting[i].type = "LEADERBOARD_DAILY"
    \/ holding.task.type = "LEADERBOARD_DAILY"
    \/ stuck

Override ==
    /\ override' = TRUE /\ public' = TRUE
    /\ IF RankingPending THEN UNCHANGED <<waiting, today>> ELSE AddRanking
    /\ UNCHANGED <<judge, annotations, stuck, holding, shown, faults>>

-----------------------------------------------------------------------------
(* The jobs process *)

outside == <<judge, annotations, visibility>>

\* A day begins.
NewDay == today /\ today' = FALSE /\ UNCHANGED <<outside, waiting, stuck, holding, shown, faults>>

\* Mutant: like an override, it waits for a ranking that is pending.
EnsureUnlessPending ==
    /\ holding.at = "idle" /\ ~today /\ Len(waiting) < MaxWaiting /\ ~RankingPending
    /\ AddRanking
    /\ UNCHANGED <<outside, stuck, holding, shown, faults>>

\* ensure_daily_tasks, before the process looks for a task.
EnsureDaily ==
    /\ holding.at = "idle" /\ ~today /\ Len(waiting) < MaxWaiting
    /\ AddRanking
    /\ UNCHANGED <<outside, stuck, holding, shown, faults>>

\* claim_next. The code takes rankings first and old ones first; any order here,
\* because the lease of a task whose worker died is over at any time later.
Claim(i) ==
    /\ holding.at = "idle"
    /\ holding' = [task |-> [waiting[i] EXCEPT !.attempts = @ + 1], at |-> "claimed", read |-> 0]
    /\ waiting' = RemoveAt(waiting, i)
    /\ UNCHANGED <<outside, stuck, today, shown, faults>>

\* process_one_experiment_postmatch: ON CONFLICT DO NOTHING.
MakeTasks ==
    /\ holding.task.type = "EXPERIMENT_POSTMATCH" /\ holding.at = "claimed"
    /\ annotation' = [r \in Raters |-> IF annotation[r] = "none" THEN "PENDING" ELSE annotation[r]]
    /\ holding' = [holding EXCEPT !.at = "done"]
    /\ UNCHANGED <<judge, submitting, visibility, waiting, stuck, today, shown, faults>>

Scored == {i \in DOMAIN results : results[i].status = "SUCCEEDED"}
Latest(set) == CHOOSE i \in set : \A j \in set : j <= i

\* Mutant: the ranking does not ask whether the result is public.
RankableAlways == Scored # {}
Rankable == public /\ Scored # {}
Ranked == IF Rankable THEN Latest(Scored) ELSE 0

\* process_one_leaderboard: read in one transaction, write in the next. A
\* ranking without entries writes no row, and the one before stays the newest.
Rank ==
    /\ holding.task.type = "LEADERBOARD_DAILY"
    /\ \/ /\ holding.at = "claimed"
          /\ holding' = [holding EXCEPT !.at = "read", !.read = Ranked]
          /\ UNCHANGED shown
       \/ /\ holding.at = "read"
          /\ shown' = IF holding.read = 0 THEN shown ELSE holding.read
          /\ holding' = [holding EXCEPT !.at = "done"]
    /\ UNCHANGED <<outside, waiting, stuck, today, faults>>

Complete ==
    /\ holding.at = "done" /\ holding' = Idle
    /\ UNCHANGED <<outside, waiting, stuck, today, shown, faults>>

\* Mutant: an attempt too many.
OneMoreAttempt(task) == task.attempts <= MaxAttempts
MayRetry(task) == task.attempts < MaxAttempts

\* A transaction fails: fail() gives the task back unless it was its last attempt.
Fail ==
    /\ holding.at # "idle" /\ Fault /\ holding' = Idle
    /\ waiting' = IF MayRetry(holding.task) THEN Append(waiting, holding.task) ELSE waiting
    /\ UNCHANGED <<outside, stuck, today, shown>>

\* The process dies: its task stays RUNNING, and is claimed again after its lease
\* unless it was its last attempt.
JobsCrash ==
    /\ holding.at # "idle" /\ Fault /\ holding' = Idle
    /\ IF MayRetry(holding.task)
       THEN waiting' = Append(waiting, holding.task) /\ UNCHANGED stuck
       ELSE stuck' = (stuck \/ holding.task.type = "LEADERBOARD_DAILY") /\ UNCHANGED waiting
    /\ UNCHANGED <<outside, today, shown>>

\* The core dies: its judge tasks are gone and open submissions are undone.
CoreCrash ==
    /\ Fault
    /\ results' = [i \in DOMAIN results |-> [results[i] EXCEPT !.task = "gone"]]
    /\ due' = FALSE
    /\ submitting' = [r \in Raters |-> 0]
    /\ UNCHANGED <<annotation, visibility, jobs>>

Work == EnsureDaily \/ (\E i \in DOMAIN waiting : Claim(i)) \/ MakeTasks \/ Rank \/ Complete

Next ==
    \/ RequestJudge \/ RetryJudge \/ \E i \in DOMAIN results : Execute(i)
    \/ \E r \in Raters : BeginSubmit(r) \/ CommitSubmit(r)
    \/ Override \/ NewDay \/ Work \/ Fail \/ JobsCrash \/ CoreCrash

\* Days pass and the jobs process runs, started again when it has died; nothing
\* is assumed of debaters, administrators and the judge.
Fairness == WF_postmatchVars(NewDay) /\ WF_postmatchVars(Work)

Spec == Init /\ [][Next]_postmatchVars
FairSpec == Spec /\ Fairness

-----------------------------------------------------------------------------
(* What must hold *)

\* Spec 201, results: the public learns no result that neither all debaters have
\* submitted their annotations for nor an administrator has published, in the
\* match or in the leaderboard: submissions overlap and are undone by crashes,
\* and the ranking reads before it writes (can_view_experiment_result).
ResultsKeptSecret == public \/ shown > 0 => Submitted = Raters \/ override

\* Spec 201, results: when all debaters have submitted, the public sees the
\* result. The code does not see to that (BeginSubmit): no run claims this.
PublicWhenAllSubmitted == Submitted = Raters => public

\* Spec 201, results: a public result with a score is in the leaderboard at last,
\* in its latest version, whatever tasks failed or were lost
\* (override_result_visibility, ensure_daily_tasks, process_one_leaderboard).
ScoreIsRanked == \A k \in 1..MaxResults : (public /\ k \in Scored) ~> (shown >= k)
=============================================================================
