---------------------------- MODULE Debate_proofs ----------------------------
(* Proofs about the media of the agents and the recognition of a human of     *)
(* MCDebate. The modules that MCDebate puts together share no variable.       *)
EXTENDS MCDebate, FreeDebate_proofs, TLAPS, SequenceTheorems

-----------------------------------------------------------------------------
(* The media of the agents: the inductive invariant *)

Early == {"none", "loading", "creating"}
Late == {"streaming", "drained", "failing", "reporting", "done"}
RunRecords ==
    [at : Early \cup {"created", "connecting"} \cup Late, attempt : {1, 2},
     player : {"none", "frames", "asking", "capturing", "ended", "refused"},
     fenced : BOOLEAN, finalizing : BOOLEAN, spoke : BOOLEAN, natural : BOOLEAN,
     cancelled : BOOLEAN, queued : BOOLEAN, silenced : BOOLEAN]
RowStates == {"none", "GENERATING"} \cup AG!Settled
CancelStates == {"none", "clear", "task", "cleanup", "done"}
FinalStates ==
    {"none", "completed", "truncated", "tail", "tailing", "drain", "check", "persist",
     "delivering", "cancelled", "closing", "closed"}
Handles == 0..MaxRuns

\* The variables have their types, and runs are started one after the other.
MediaRows ==
    /\ runs \in [AG!Runs -> RunRecords] /\ rows \in [AG!Runs \X {1, 2} -> RowStates]
    /\ cancels \in [AG!Runs -> CancelStates] /\ finals \in [AG!Runs -> FinalStates]
    /\ mediaLock \in Handles /\ speaker \in Handles
    /\ started \in Handles /\ registered \in 0..started
    /\ start \in {"none", "pending", "retired"}
    /\ action \in {"PREPARING", "SPEAKING", "FINALIZING", "PAUSED"}
    /\ actor \in [waits : {"idle", "fencing", "cancelling"}, run : Handles]

\* Whoever captures audio has the lock, its player or its tail, not both.
LockOK(r) ==
    /\ runs[r].player \in {"asking", "capturing"} => mediaLock = r /\ finals[r] # "tailing"
    /\ finals[r] = "tailing" => mediaLock = r

\* A run that was silenced is fenced, has nothing queued and nobody capturing;
\* a cancelled one is fenced and no longer registered.
SilenceOK(r) ==
    /\ runs[r].silenced =>
        runs[r].fenced /\ ~runs[r].queued /\ runs[r].player \notin {"asking", "capturing"}
    /\ cancels[r] # "none" => runs[r].fenced /\ registered # r

\* A run that is not started is as it was; the second attempt has a row of its own.
BeginOK(r) ==
    /\ r > started => runs[r].at = "none" /\ cancels[r] = "none"
    /\ runs[r].at \in Early => rows[<<r, runs[r].attempt>>] = "none"
    /\ runs[r].attempt = 1 => rows[<<r, 2>>] = "none"

\* A run plays once it streams, is asked for once and has one finalization.
SpeechOK(r) ==
    /\ runs[r].player # "none" \/ runs[r].spoke => runs[r].at \in Late
    /\ runs[r].player \in {"asking", "capturing"} \/ runs[r].queued => runs[r].spoke
    /\ finals[r] # "none" \/ speaker = r => runs[r].spoke /\ runs[r].player # "asking"
    /\ speaker = r /\ action = "SPEAKING" => finals[r] = "none"

\* A cancelled row is not being stored, and whoever would store it is kept from
\* that: its run is not registered, it is over, or it has never spoken.
RowOK(r) ==
    rows[<<r, runs[r].attempt>>] = "CANCELLED" =>
        /\ finals[r] # "persist"
        /\ \/ cancels[r] = "done" \/ finals[r] \in {"closing", "closed"}
           \/ runs[r].at = "done" /\ ~runs[r].spoke /\ runs[r].player = "none"

RunOK(r) == LockOK(r) /\ SilenceOK(r) /\ BeginOK(r) /\ SpeechOK(r) /\ RowOK(r)

\* The actor fences a run of a match it has paused, and knows who speaks.
ActorOK ==
    /\ actor.waits = "fencing" => action = "PAUSED" /\ actor.run # AG!None /\ runs[actor.run].fenced
    /\ actor = AG!Idle /\ action = "SPEAKING" => speaker # AG!None

MediaInv == MediaRows /\ ActorOK /\ \A r \in AG!Runs : RunOK(r)

\* What was stored or cancelled stays so.
RowsKept ==
    \A row \in AG!Runs \X {1, 2} :
        rows[row] \in {"FINALIZED", "CANCELLED"} => rows'[row] = rows[row]

-----------------------------------------------------------------------------
(* The steps *)

\* A step about one run, or none, leaves the others as they are.
Frame(r) ==
    /\ \A s \in AG!Runs : s # r =>
        /\ runs'[s] = runs[s] /\ cancels'[s] = cancels[s] /\ finals'[s] = finals[s]
        /\ \A a \in {1, 2} : rows'[<<s, a>>] = rows[<<s, a>>]
    /\ registered' \in {registered, AG!None, r} /\ started <= started'
    /\ mediaLock' = mediaLock \/ mediaLock \in {AG!None, r}
    /\ speaker' \in {speaker, AG!None, r}
    /\ action' = action \/ action' # "SPEAKING" \/ speaker' = r

\* The others then keep their part of the invariant.
LEMMA OthersKept ==
    ASSUME MediaInv, NEW r \in Handles, Frame(r), MediaRows', NEW s \in AG!Runs, s # r
    PROVE  RunOK(s)'
<1>1. RunOK(s) /\ s # AG!None /\ s \in Nat /\ started \in Nat /\ started' \in Nat
  BY MediaAssumption DEF MediaInv, MediaRows, Handles, AG!Runs, AG!None
<1>2. /\ runs'[s] = runs[s] /\ cancels'[s] = cancels[s] /\ finals'[s] = finals[s]
      /\ rows'[<<s, 1>>] = rows[<<s, 1>>] /\ rows'[<<s, 2>>] = rows[<<s, 2>>]
      /\ registered' = s => registered = s
      /\ mediaLock = s => mediaLock' = s
      /\ speaker' = s => speaker = s
      /\ speaker' = s /\ action' = "SPEAKING" => action = "SPEAKING"
      /\ s > started' => s > started
  BY <1>1 DEF Frame
<1>3. rows'[<<s, runs'[s].attempt>>] = rows[<<s, runs[s].attempt>>]
  <2>1. runs[s].attempt \in {1, 2}
    BY DEF MediaInv, MediaRows, RunRecords
  <2>. QED BY <1>2, <2>1
<1>4. LockOK(s)' /\ SilenceOK(s)'
  BY <1>1, <1>2 DEF RunOK, LockOK, SilenceOK
<1>5. BeginOK(s)' /\ RowOK(s)'
  BY <1>1, <1>2, <1>3 DEF RunOK, BeginOK, RowOK
<1>6. SpeechOK(s)'
  BY <1>1, <1>2 DEF RunOK, SpeechOK
<1>. QED BY <1>4, <1>5, <1>6 DEF RunOK

\* So a step about one run is a matter of that run and of the actor.
LEMMA OneRun ==
    ASSUME MediaInv, NEW r \in Handles, Frame(r), MediaRows', ActorOK',
           r \in AG!Runs => RunOK(r)'
    PROVE  MediaInv'
BY OthersKept DEF MediaInv

\* _mark_generation_failed: what has ended keeps its end, and other rows theirs.
LEMMA Marked ==
    ASSUME MediaInv, NEW r \in AG!Runs, NEW status \in AG!Settled, rows' = AG!MarkFailed(r, status)
    PROVE  /\ rows' \in [AG!Runs \X {1, 2} -> RowStates] /\ RowsKept
           /\ \A s \in AG!Runs : s # r => \A a \in {1, 2} : rows'[<<s, a>>] = rows[<<s, a>>]
           /\ \A a \in {1, 2} : a # runs[r].attempt => rows'[<<r, a>>] = rows[<<r, a>>]
           /\ rows[<<r, runs[r].attempt>>] = "none" => rows'[<<r, runs[r].attempt>>] = "none"
           /\ rows'[<<r, runs[r].attempt>>] = "CANCELLED" =>
                rows[<<r, runs[r].attempt>>] = "CANCELLED" \/ status = "CANCELLED"
<1>. DEFINE a == runs[r].attempt
<1>1. a \in {1, 2} /\ rows \in [AG!Runs \X {1, 2} -> RowStates] /\ status \in RowStates
  BY DEF MediaInv, MediaRows, RunRecords, RowStates
<1>2. \/ rows[<<r, a>>] = "GENERATING" /\ rows' = [rows EXCEPT ![<<r, a>>] = status]
      \/ rows[<<r, a>>] # "GENERATING" /\ rows' = rows
  BY DEF AG!MarkFailed, AG!RowOf, AG!SetRow
<1>. HIDE DEF a
<1>. QED BY <1>1, <1>2 DEF RowsKept, a

\* The row of the attempt a run makes is written, and no other.
LEMMA RowWritten ==
    ASSUME MediaInv, NEW r \in AG!Runs, NEW status \in RowStates, rows' = AG!SetRow(r, status),
           rows[<<r, runs[r].attempt>>] \in {"FINALIZED", "CANCELLED"} => rows[<<r, runs[r].attempt>>] = status
    PROVE  /\ rows' \in [AG!Runs \X {1, 2} -> RowStates] /\ RowsKept
           /\ \A s \in AG!Runs : s # r => \A a \in {1, 2} : rows'[<<s, a>>] = rows[<<s, a>>]
           /\ \A a \in {1, 2} : a # runs[r].attempt => rows'[<<r, a>>] = rows[<<r, a>>]
           /\ rows'[<<r, runs[r].attempt>>] = status
<1>. DEFINE a == runs[r].attempt
<1>1. a \in {1, 2} /\ rows \in [AG!Runs \X {1, 2} -> RowStates]
  BY DEF MediaInv, MediaRows, RunRecords
<1>2. rows' = [rows EXCEPT ![<<r, a>>] = status]
  BY DEF AG!SetRow
<1>. HIDE DEF a
<1>. QED BY <1>1, <1>2 DEF RowsKept, a

\* What the invariant says of a run.
LEMMA RunFacts ==
    ASSUME MediaInv, NEW r \in AG!Runs
    PROVE  /\ LockOK(r) /\ SilenceOK(r) /\ BeginOK(r) /\ SpeechOK(r) /\ RowOK(r)
           /\ runs[r] \in RunRecords /\ r # AG!None /\ r \in Handles /\ r \in Nat /\ started \in Nat
BY MediaAssumption DEF MediaInv, MediaRows, RunOK, Handles, AG!Runs, AG!None

\* A run is written, and no other.
LEMMA RunWritten ==
    ASSUME MediaInv, NEW r \in AG!Runs, NEW fields, runs' = AG!Update(r, fields),
           AG!With(runs[r], fields) \in RunRecords
    PROVE  /\ runs' \in [AG!Runs -> RunRecords] /\ runs'[r] = AG!With(runs[r], fields)
           /\ \A s \in AG!Runs : s # r => runs'[s] = runs[s]
<1>. DEFINE new == AG!With(runs[r], fields)
<1>1. runs' = [runs EXCEPT ![r] = new] /\ new \in RunRecords
  BY DEF AG!Update
<1>. HIDE DEF new
<1>2. runs \in [AG!Runs -> RunRecords]
  BY DEF MediaInv, MediaRows
<1>. QED BY <1>1, <1>2 DEF new

\* How far a run has come is written, and nothing else of it.
LEMMA AtWritten ==
    ASSUME MediaInv, NEW r \in AG!Runs, NEW at \in Early \cup {"created", "connecting"} \cup Late,
           runs' = AG!At(r, at)
    PROVE  /\ runs' \in [AG!Runs -> RunRecords] /\ \A s \in AG!Runs : s # r => runs'[s] = runs[s]
           /\ runs'[r].at = at /\ runs'[r].attempt = runs[r].attempt /\ runs'[r].player = runs[r].player
           /\ runs'[r].fenced = runs[r].fenced /\ runs'[r].spoke = runs[r].spoke
           /\ runs'[r].queued = runs[r].queued /\ runs'[r].silenced = runs[r].silenced
<1>. DEFINE new == AG!With(runs[r], [at |-> at])
<1>1. /\ new \in RunRecords
      /\ new.at = at /\ new.attempt = runs[r].attempt /\ new.player = runs[r].player
      /\ new.fenced = runs[r].fenced /\ new.spoke = runs[r].spoke
      /\ new.queued = runs[r].queued /\ new.silenced = runs[r].silenced
  BY RunFacts DEF AG!With, RunRecords
<1>2. runs' = AG!Update(r, [at |-> at])
  BY DEF AG!At
<1>. HIDE DEF new
<1>3. runs' \in [AG!Runs -> RunRecords] /\ runs'[r] = new /\ \A s \in AG!Runs : s # r => runs'[s] = runs[s]
  BY <1>1, <1>2, RunWritten DEF new
<1>. QED BY <1>1, <1>3

\* The rest of the media is as it was.
Elsewhere == UNCHANGED <<started, mediaLock, cancels, finals, start, action, speaker, actor, resetting>>

\* The rows of the runs, but for the one of the current attempt of r.
OtherRows(r) ==
    /\ rows' \in [AG!Runs \X {1, 2} -> RowStates] /\ RowsKept
    /\ \A s \in AG!Runs : s # r => \A a \in {1, 2} : rows'[<<s, a>>] = rows[<<s, a>>]
    /\ \A a \in {1, 2} : a # runs[r].attempt => rows'[<<r, a>>] = rows[<<r, a>>]

\* A step that does not touch the rows.
LEMMA RowsSame ==
    ASSUME MediaInv, rows' = rows, NEW r
    PROVE  OtherRows(r)
BY DEF MediaInv, MediaRows, OtherRows, RowsKept

\* _run_with_retry comes further: a run that waits for its provider, its row or
\* its player, or has failed.
LEMMA AtStep ==
    ASSUME MediaInv, NEW r \in AG!Runs, NEW at \in Early \cup {"created", "connecting"} \cup Late,
           runs' = AG!At(r, at), UNCHANGED <<registered, rows>>, Elsewhere,
           runs[r].at \notin {"none", "done"}, at # "none",
           at \in Early => runs[r].at \in Early, at \in Late \/ runs[r].at \notin Late
    PROVE  MediaInv' /\ RowsKept
<1>1. /\ runs' \in [AG!Runs -> RunRecords] /\ \A s \in AG!Runs : s # r => runs'[s] = runs[s]
      /\ runs'[r].at = at /\ runs'[r].attempt = runs[r].attempt /\ runs'[r].player = runs[r].player
      /\ runs'[r].fenced = runs[r].fenced /\ runs'[r].spoke = runs[r].spoke
      /\ runs'[r].queued = runs[r].queued /\ runs'[r].silenced = runs[r].silenced
  BY AtWritten
<1>2. MediaRows'
  BY <1>1 DEF MediaInv, MediaRows, Elsewhere
<1>3. RunOK(r)'
  <2>1. LockOK(r)' /\ SilenceOK(r)'
    BY <1>1, RunFacts DEF LockOK, SilenceOK, Elsewhere
  <2>2. BeginOK(r)' /\ SpeechOK(r)' /\ RowOK(r)'
    BY <1>1, RunFacts DEF BeginOK, SpeechOK, RowOK, Elsewhere
  <2>. QED BY <2>1, <2>2 DEF RunOK
<1>4. Frame(r)
  BY <1>1, RunFacts DEF Frame, Elsewhere
<1>5. ActorOK'
  <2>1. actor.run \in AG!Runs => runs'[actor.run].fenced = runs[actor.run].fenced
    BY <1>1
  <2>2. actor.waits = "fencing" => actor.run \in AG!Runs
    BY MediaAssumption DEF MediaInv, MediaRows, ActorOK, Handles, AG!Runs, AG!None
  <2>. QED BY <2>1, <2>2 DEF MediaInv, ActorOK, Elsewhere
<1>6. RowsKept
  BY RowsSame DEF OtherRows
<1>. QED BY <1>2, <1>3, <1>4, <1>5, <1>6, RunFacts, OneRun

\* The run is over: nobody but a finalizer still owns its handle.
LEMMA ReturnStep ==
    ASSUME MediaInv, NEW r \in AG!Runs, AG!Return(r), Elsewhere, OtherRows(r),
           runs[r].at \notin {"none", "done"},
           rows'[<<r, runs[r].attempt>>] = "CANCELLED" =>
              rows[<<r, runs[r].attempt>>] = "CANCELLED" \/ (~runs[r].spoke /\ runs[r].player = "none")
    PROVE  MediaInv'
<1>1. /\ runs' \in [AG!Runs -> RunRecords] /\ \A s \in AG!Runs : s # r => runs'[s] = runs[s]
      /\ runs'[r].at = "done" /\ runs'[r].attempt = runs[r].attempt /\ runs'[r].player = runs[r].player
      /\ runs'[r].fenced = runs[r].fenced /\ runs'[r].spoke = runs[r].spoke
      /\ runs'[r].queued = runs[r].queued /\ runs'[r].silenced = runs[r].silenced
  BY AtWritten DEF AG!Return, Late
<1>2. registered' \in {registered, AG!None}
  BY DEF AG!Return
<1>3. MediaRows'
  BY <1>1, <1>2, RunFacts DEF MediaInv, MediaRows, Elsewhere, OtherRows, AG!None
<1>4. RunOK(r)'
  <2>1. LockOK(r)' /\ SilenceOK(r)'
    BY <1>1, <1>2, RunFacts DEF LockOK, SilenceOK, Elsewhere
  <2>2. runs[r].attempt \in {1, 2}
    BY RunFacts DEF RunRecords
  <2>3. BeginOK(r)' /\ SpeechOK(r)'
    BY <1>1, <2>2, RunFacts DEF BeginOK, SpeechOK, Elsewhere, OtherRows, Early, Late
  <2>4. RowOK(r)'
    BY <1>1, RunFacts DEF SpeechOK, RowOK, Elsewhere
  <2>. QED BY <2>1, <2>3, <2>4 DEF RunOK
<1>5. Frame(r)
  BY <1>1, <1>2, RunFacts DEF Frame, Elsewhere, OtherRows
<1>6. ActorOK'
  <2>1. actor.run \in AG!Runs => runs'[actor.run].fenced = runs[actor.run].fenced
    BY <1>1
  <2>2. actor.waits = "fencing" => actor.run \in AG!Runs
    BY MediaAssumption DEF MediaInv, MediaRows, ActorOK, Handles, AG!Runs, AG!None
  <2>. QED BY <2>1, <2>2 DEF MediaInv, ActorOK, Elsewhere
<1>. QED BY <1>3, <1>4, <1>5, <1>6, RunFacts, OneRun

\* A step that is not the actor's, and unfences nobody.
LEMMA ActorKept ==
    ASSUME MediaInv, UNCHANGED <<action, speaker, actor>>,
           \A s \in AG!Runs : runs[s].fenced => runs'[s].fenced
    PROVE  ActorOK'
<1>1. actor.waits = "fencing" => actor.run \in AG!Runs
  BY MediaAssumption DEF MediaInv, MediaRows, ActorOK, Handles, AG!Runs, AG!None
<1>. QED BY <1>1 DEF MediaInv, ActorOK

\* _run_with_retry, up to the playback.
LEMMA ProduceStep ==
    ASSUME MediaInv, NEW r \in AG!Runs, AG!Produce(r)
    PROVE  MediaInv' /\ RowsKept
<1>1. Elsewhere
  BY DEF AG!Produce, AG!Unrun, Elsewhere
<1>2. CASE runs[r].at \in {"loading", "connecting", "streaming"} /\ AG!Return(r) /\ UNCHANGED rows
  <2>1. OtherRows(r)
    BY <1>2, RowsSame
  <2>. QED BY <1>1, <1>2, <2>1, ReturnStep DEF OtherRows
<1>3. CASE runs[r].at = "loading" /\ runs' = AG!At(r, "creating") /\ UNCHANGED <<registered, rows>>
  BY <1>1, <1>3, AtStep DEF Early, Late
<1>4. CASE runs[r].at = "created" /\ runs' = AG!At(r, "connecting") /\ UNCHANGED <<registered, rows>>
  BY <1>1, <1>4, AtStep DEF Early, Late
<1>5. CASE runs[r].at = "created" /\ rows' = AG!MarkFailed(r, "CANCELLED") /\ AG!Return(r)
  <2>1. OtherRows(r)
    BY <1>5, Marked DEF OtherRows, AG!Settled
  <2>2. ~runs[r].spoke /\ runs[r].player = "none"
    BY <1>5, RunFacts DEF SpeechOK, Late
  <2>. QED BY <1>1, <1>5, <2>1, <2>2, ReturnStep DEF OtherRows
<1>6. CASE runs[r].at = "creating" /\ rows' = AG!SetRow(r, "GENERATING") /\ runs' = AG!At(r, "created")
           /\ UNCHANGED registered
  <2>1. rows[<<r, runs[r].attempt>>] = "none" /\ runs[r].attempt \in {1, 2}
    BY <1>6, RunFacts DEF BeginOK, Early, RunRecords
  <2>2. OtherRows(r) /\ rows'[<<r, runs[r].attempt>>] = "GENERATING"
    BY <1>6, <2>1, RowWritten DEF OtherRows, RowStates
  <2>3. /\ runs' \in [AG!Runs -> RunRecords] /\ \A s \in AG!Runs : s # r => runs'[s] = runs[s]
        /\ runs'[r].at = "created" /\ runs'[r].attempt = runs[r].attempt /\ runs'[r].player = runs[r].player
        /\ runs'[r].fenced = runs[r].fenced /\ runs'[r].spoke = runs[r].spoke
        /\ runs'[r].queued = runs[r].queued /\ runs'[r].silenced = runs[r].silenced
    BY <1>6, AtWritten
  <2>4. MediaRows'
    BY <1>1, <1>6, <2>2, <2>3 DEF MediaInv, MediaRows, Elsewhere, OtherRows
  <2>5. LockOK(r)' /\ SilenceOK(r)'
    BY <1>1, <1>6, <2>3, RunFacts DEF LockOK, SilenceOK, Elsewhere
  <2>6. BeginOK(r)' /\ SpeechOK(r)' /\ RowOK(r)'
    BY <1>1, <1>6, <2>1, <2>2, <2>3, RunFacts DEF BeginOK, SpeechOK, RowOK, Elsewhere, OtherRows, Early, Late
  <2>7. Frame(r) /\ ActorOK'
    BY SMTT(60), <1>1, <1>6, <2>2, <2>3, RunFacts, ActorKept DEF Frame, Elsewhere, OtherRows
  <2>. QED BY <2>2, <2>4, <2>5, <2>6, <2>7, RunFacts, OneRun DEF OtherRows, RunOK
<1>7. ASSUME NEW fields, runs[r].at \in {"connecting", "streaming"},
             \/ fields = [at |-> "streaming", player |-> "frames"]
             \/ fields = [at |-> "drained", natural |-> TRUE] /\ runs[r].player = "ended",
             runs' = AG!Update(r, fields), rows' = rows, registered' = registered
      PROVE  MediaInv' /\ RowsKept
  <2>. DEFINE new == AG!With(runs[r], fields)
  <2>1. /\ new \in RunRecords /\ new.attempt = runs[r].attempt
        /\ new.at \in {"streaming", "drained"} /\ new.player \in {"frames", "ended"}
        /\ new.fenced = runs[r].fenced /\ new.spoke = runs[r].spoke
        /\ new.queued = runs[r].queued /\ new.silenced = runs[r].silenced
    <3>1. CASE fields = [at |-> "streaming", player |-> "frames"]
      BY <3>1, RunFacts DEF AG!With, RunRecords, Late
    <3>2. CASE fields = [at |-> "drained", natural |-> TRUE] /\ runs[r].player = "ended"
      BY ZenonT(60), <3>2, RunFacts DEF AG!With, RunRecords, Late
    <3>. QED BY <1>7, <3>1, <3>2
  <2>. HIDE DEF new
  <2>2. runs' \in [AG!Runs -> RunRecords] /\ runs'[r] = new /\ \A s \in AG!Runs : s # r => runs'[s] = runs[s]
    BY <1>7, <2>1, RunWritten DEF new
  <2>3. MediaRows' /\ OtherRows(r)
    BY <1>1, <1>7, <2>2, RowsSame DEF MediaInv, MediaRows, Elsewhere
  <2>4. LockOK(r)' /\ SilenceOK(r)'
    BY <1>1, <1>7, <2>1, <2>2, RunFacts DEF LockOK, SilenceOK, Elsewhere
  <2>5. BeginOK(r)' /\ SpeechOK(r)' /\ RowOK(r)'
    BY <1>1, <1>7, <2>1, <2>2, RunFacts DEF BeginOK, SpeechOK, RowOK, Elsewhere, Early, Late
  <2>6. Frame(r) /\ ActorOK'
    BY <1>1, <1>7, <2>1, <2>2, RunFacts, ActorKept DEF Frame, Elsewhere
  <2>. QED BY <2>3, <2>4, <2>5, <2>6, RunFacts, OneRun DEF OtherRows, RunOK
<1>8. CASE runs[r].at = "connecting" /\ runs' = AG!Update(r, [at |-> "streaming", player |-> "frames"])
           /\ UNCHANGED <<registered, rows>>
  BY <1>7, <1>8
<1>9. CASE runs[r].at = "streaming" /\ runs[r].player = "ended"
           /\ runs' = AG!Update(r, [at |-> "drained", natural |-> TRUE]) /\ UNCHANGED <<registered, rows>>
  BY <1>7, <1>9
<1>. QED BY <1>2, <1>3, <1>4, <1>5, <1>6, <1>8, <1>9 DEF AG!Produce

\* A provider, a decoder or a refused callback fails the attempt.
LEMMA FailStep ==
    ASSUME MediaInv, NEW r \in AG!Runs, AG!Fail(r)
    PROVE  MediaInv' /\ RowsKept
<1>1. Elsewhere
  BY DEF AG!Fail, Elsewhere
<1>2. CASE runs[r].at \in {"loading", "creating", "connecting", "streaming"} /\ UNCHANGED rows
           /\ ((runs' = AG!At(r, "failing") /\ UNCHANGED registered) \/ AG!Return(r))
  <2>1. CASE AG!Return(r)
    <3>1. OtherRows(r)
      BY <1>2, RowsSame
    <3>. QED BY <1>1, <1>2, <2>1, <3>1, ReturnStep DEF OtherRows
  <2>2. CASE runs' = AG!At(r, "failing") /\ UNCHANGED registered
    BY <1>1, <1>2, <2>2, AtStep DEF Early, Late
  <2>. QED BY <1>2, <2>1, <2>2
<1>3. ASSUME runs[r].at = "failing", runs[r].player # "capturing", rows' = AG!MarkFailed(r, "FAILED")
      PROVE  /\ OtherRows(r)
             /\ rows'[<<r, runs[r].attempt>>] = "CANCELLED" => rows[<<r, runs[r].attempt>>] = "CANCELLED"
  BY <1>3, Marked DEF OtherRows, AG!Settled
<1>4. CASE runs[r].at = "failing" /\ rows' = AG!MarkFailed(r, "FAILED") /\ runs[r].player # "capturing"
           /\ AG!Return(r)
  BY <1>1, <1>3, <1>4, ReturnStep DEF OtherRows
<1>5. ASSUME runs[r].at = "failing", rows' = AG!MarkFailed(r, "FAILED"), runs[r].player # "capturing",
             UNCHANGED registered, NEW fields,
             \/ /\ fields = [at |-> "loading", attempt |-> 2, player |-> "none"]
                /\ ~runs[r].spoke /\ runs[r].attempt = 1
             \/ fields = [at |-> "reporting", player |-> "none"],
             runs' = AG!Update(r, fields)
      PROVE  MediaInv' /\ RowsKept
  <2>. DEFINE new == AG!With(runs[r], fields)
  <2>1. /\ new \in RunRecords /\ new.player = "none"
        /\ \/ new.at = "loading" /\ new.attempt = 2 /\ ~runs[r].spoke /\ runs[r].attempt = 1
           \/ new.at = "reporting" /\ new.attempt = runs[r].attempt
        /\ new.fenced = runs[r].fenced /\ new.spoke = runs[r].spoke
        /\ new.queued = runs[r].queued /\ new.silenced = runs[r].silenced
    <3>1. CASE /\ fields = [at |-> "loading", attempt |-> 2, player |-> "none"]
               /\ ~runs[r].spoke /\ runs[r].attempt = 1
      BY <3>1, RunFacts DEF AG!With, RunRecords, Early
    <3>2. CASE fields = [at |-> "reporting", player |-> "none"]
      BY <3>2, RunFacts DEF AG!With, RunRecords, Late
    <3>. QED BY <1>5, <3>1, <3>2
  <2>. HIDE DEF new
  <2>2. runs' \in [AG!Runs -> RunRecords] /\ runs'[r] = new /\ \A s \in AG!Runs : s # r => runs'[s] = runs[s]
    BY <1>5, <2>1, RunWritten DEF new
  <2>3. /\ OtherRows(r)
        /\ rows'[<<r, runs[r].attempt>>] = "CANCELLED" => rows[<<r, runs[r].attempt>>] = "CANCELLED"
    BY <1>3, <1>5
  <2>4. MediaRows'
    BY <1>1, <1>5, <2>2, <2>3 DEF MediaInv, MediaRows, Elsewhere, OtherRows
  <2>5. LockOK(r)' /\ SilenceOK(r)'
    BY <1>1, <1>5, <2>1, <2>2, RunFacts DEF LockOK, SilenceOK, Elsewhere
  <2>6. BeginOK(r)' /\ SpeechOK(r)' /\ RowOK(r)'
    <3>1. runs[r].attempt \in {1, 2} /\ (runs[r].attempt = 1 => rows[<<r, 2>>] = "none" /\ rows'[<<r, 2>>] = "none")
      BY <2>3, RunFacts DEF BeginOK, RunRecords, OtherRows
    <3>2. SpeechOK(r)'
      BY <1>1, <1>5, <2>1, <2>2, RunFacts DEF SpeechOK, Elsewhere, Early, Late
    <3>3. BeginOK(r)'
      BY <1>1, <1>5, <2>1, <2>2, <2>3, <3>1, RunFacts DEF BeginOK, Elsewhere, OtherRows, Early, Late
    <3>4. RowOK(r)'
      BY <1>1, <1>5, <2>1, <2>2, <2>3, <3>1, RunFacts DEF RowOK, Elsewhere, OtherRows
    <3>. QED BY <3>2, <3>3, <3>4
  <2>7. Frame(r) /\ ActorOK'
    BY <1>1, <1>5, <2>1, <2>2, <2>3, RunFacts, ActorKept DEF Frame, Elsewhere, OtherRows
  <2>. QED BY <2>3, <2>4, <2>5, <2>6, <2>7, RunFacts, OneRun DEF OtherRows, RunOK
<1>7. CASE runs[r].at = "failing" /\ rows' = AG!MarkFailed(r, "FAILED") /\ runs[r].player # "capturing"
           /\ UNCHANGED registered /\ ~runs[r].spoke /\ runs[r].attempt = 1
           /\ runs' = AG!Update(r, [at |-> "loading", attempt |-> 2, player |-> "none"])
  BY <1>5, <1>7
<1>8. CASE runs[r].at = "failing" /\ rows' = AG!MarkFailed(r, "FAILED") /\ runs[r].player # "capturing"
           /\ UNCHANGED registered /\ runs' = AG!Update(r, [at |-> "reporting", player |-> "none"])
  BY <1>5, <1>8
<1>. QED BY <1>2, <1>4, <1>7, <1>8 DEF AG!Fail

\* CancelledError reaches the task at its await.
LEMMA UnwindStep ==
    ASSUME MediaInv, NEW r \in AG!Runs, AG!Unwind(r)
    PROVE  MediaInv' /\ RowsKept
<1>1. Elsewhere /\ AG!Return(r) /\ runs[r].at \notin {"none", "done"} /\ rows' = rows
  BY DEF AG!Unwind, AG!Unrun, Elsewhere
<1>2. OtherRows(r)
  BY <1>1, RowsSame
<1>. QED BY <1>1, <1>2, ReturnStep DEF OtherRows

\* A run with nothing queued any more.
LEMMA Unqueued ==
    ASSUME NEW run \in RunRecords, NEW new, new = AG!With(run, [queued |-> FALSE])
    PROVE  /\ new \in RunRecords /\ new.at = run.at /\ new.attempt = run.attempt
           /\ new.fenced = run.fenced /\ new.silenced = run.silenced
           /\ new.player = run.player /\ new.spoke = run.spoke /\ ~new.queued
BY DEF AG!With, RunRecords

\* A step that changes of r how far its playback has come.
PlaysOn(r) ==
    /\ runs' \in [AG!Runs -> RunRecords] /\ \A s \in AG!Runs : s # r => runs'[s] = runs[s]
    /\ runs'[r].at = runs[r].at /\ runs'[r].attempt = runs[r].attempt
    /\ runs'[r].fenced = runs[r].fenced /\ runs'[r].silenced = runs[r].silenced
    /\ UNCHANGED <<registered, started, rows, cancels, finals, start, action, speaker, actor>>
    /\ mediaLock' # mediaLock => mediaLock \in {AG!None, r} /\ mediaLock' \in {AG!None, r}

\* It is enough then to look at the lock, the silence and the speech of r.
LEMMA PlaysOnKeeps ==
    ASSUME MediaInv, NEW r \in AG!Runs, PlaysOn(r), LockOK(r)', SilenceOK(r)', SpeechOK(r)',
           ~runs[r].spoke /\ runs[r].player = "none" => ~runs'[r].spoke /\ runs'[r].player = "none"
    PROVE  MediaInv' /\ RowsKept
<1>1. OtherRows(r)
  BY RowsSame DEF PlaysOn
<1>2. MediaRows'
  <2>1. mediaLock' \in Handles
    BY MediaAssumption, RunFacts DEF MediaInv, MediaRows, PlaysOn, AG!None, Handles
  <2>. QED BY <2>1 DEF MediaInv, MediaRows, PlaysOn
<1>3. BeginOK(r)' /\ RowOK(r)'
  BY RunFacts DEF BeginOK, RowOK, PlaysOn
<1>4. Frame(r)
  BY RunFacts DEF Frame, PlaysOn
<1>5. ActorOK'
  BY ActorKept DEF PlaysOn
<1>. QED BY <1>1, <1>2, <1>3, <1>4, <1>5, RunFacts, OneRun DEF OtherRows, RunOK

\* _play_pcm: the lock is taken by a run that is current, and given back.
LEMMA PlayStep ==
    ASSUME MediaInv, NEW r \in AG!Runs, AG!Play(r)
    PROVE  MediaInv' /\ RowsKept
<1>1. /\ UNCHANGED <<registered, started, rows, cancels, finals, start, action, speaker, actor>>
      /\ runs[r] \in RunRecords
  BY RunFacts DEF AG!Play, AG!Unplayed
<1>2. CASE \/ /\ runs[r].player = "frames" /\ runs' = AG!Update(r, [player |-> "none"])
              /\ mediaLock = AG!None /\ mediaLock' = mediaLock
           \/ /\ runs[r].player = "frames" /\ runs[r].spoke
              /\ runs' = AG!Update(r, [player |-> "ended"]) /\ mediaLock' = mediaLock
  <2>. PICK player \in {"none", "ended"} :
         /\ runs[r].player = "frames" /\ runs' = AG!Update(r, [player |-> player])
         /\ mediaLock' = mediaLock
    BY <1>2
  <2>. DEFINE new == AG!With(runs[r], [player |-> player])
  <2>1. /\ new \in RunRecords /\ new.at = runs[r].at /\ new.attempt = runs[r].attempt
        /\ new.fenced = runs[r].fenced /\ new.silenced = runs[r].silenced
        /\ new.player = player /\ new.spoke = runs[r].spoke /\ new.queued = runs[r].queued
    BY <1>1 DEF AG!With, RunRecords
  <2>. HIDE DEF new
  <2>2. runs' \in [AG!Runs -> RunRecords] /\ runs'[r] = new /\ \A s \in AG!Runs : s # r => runs'[s] = runs[s]
    BY <2>1, RunWritten DEF new
  <2>3. PlaysOn(r)
    BY <1>1, <2>1, <2>2 DEF PlaysOn
  <2>4. LockOK(r)' /\ SilenceOK(r)' /\ SpeechOK(r)'
    BY <1>1, <2>1, <2>2, RunFacts DEF LockOK, SilenceOK, SpeechOK
  <2>. QED BY <2>3, <2>4, PlaysOnKeeps
<1>3. CASE /\ runs[r].player = "frames" /\ mediaLock = AG!None /\ AG!Current(r) /\ mediaLock' = r
           /\ runs' = AG!Update(r, [player |-> IF runs[r].spoke THEN "capturing" ELSE "asking",
                                    spoke |-> TRUE])
  <2>0. PICK player \in {"capturing", "asking"} :
          /\ player = IF runs[r].spoke THEN "capturing" ELSE "asking"
          /\ player = "asking" => ~runs[r].spoke
    BY <1>1 DEF RunRecords
  <2>. DEFINE new == AG!With(runs[r], [player |-> player, spoke |-> TRUE])
  <2>5. new = AG!With(runs[r], [player |-> player, spoke |-> TRUE])
    OBVIOUS
  <2>. HIDE DEF new
  <2>1. /\ new \in RunRecords /\ new.at = runs[r].at /\ new.attempt = runs[r].attempt
        /\ new.fenced = runs[r].fenced /\ new.silenced = runs[r].silenced
        /\ new.player = player /\ new.spoke /\ new.queued = runs[r].queued
    <3>1. new.player = player
      BY <1>1, <2>0, <2>5 DEF AG!With, RunRecords
    <3>2. new \in RunRecords
      BY <1>1, <2>0, <2>5 DEF AG!With, RunRecords
    <3>3. /\ new.at = runs[r].at /\ new.attempt = runs[r].attempt /\ new.queued = runs[r].queued
          /\ new.fenced = runs[r].fenced /\ new.silenced = runs[r].silenced
      BY <1>1, <2>0, <2>5 DEF AG!With, RunRecords
    <3>4. new.spoke
      BY <1>1, <2>0, <2>5 DEF AG!With, RunRecords
    <3>. QED BY <3>1, <3>2, <3>3, <3>4
  <2>2. runs' \in [AG!Runs -> RunRecords] /\ runs'[r] = new /\ \A s \in AG!Runs : s # r => runs'[s] = runs[s]
    BY ZenonT(60), <1>3, <2>1, <2>0, RunWritten DEF new
  <2>3. PlaysOn(r)
    BY <1>1, <1>3, <2>1, <2>2 DEF PlaysOn
  <2>4. LockOK(r)' /\ SilenceOK(r)' /\ SpeechOK(r)'
    BY <1>1, <1>3, <2>0, <2>1, <2>2, RunFacts DEF LockOK, SilenceOK, SpeechOK, AG!Current
  <2>. QED BY <1>3, <2>3, <2>4, PlaysOnKeeps
<1>4. CASE /\ runs[r].player = "capturing" /\ mediaLock' = AG!None
           /\ runs' = AG!Update(r, [player |-> "frames", queued |-> TRUE])
  <2>. DEFINE new == AG!With(runs[r], [player |-> "frames", queued |-> TRUE])
  <2>1. /\ new \in RunRecords /\ new.at = runs[r].at /\ new.attempt = runs[r].attempt
        /\ new.fenced = runs[r].fenced /\ new.silenced = runs[r].silenced
        /\ new.player = "frames" /\ new.spoke = runs[r].spoke
    BY ZenonT(60), <1>1 DEF AG!With, RunRecords
  <2>. HIDE DEF new
  <2>2. runs' \in [AG!Runs -> RunRecords] /\ runs'[r] = new /\ \A s \in AG!Runs : s # r => runs'[s] = runs[s]
    BY <1>4, <2>1, RunWritten DEF new
  <2>3. PlaysOn(r)
    BY <1>1, <1>4, <2>1, <2>2, RunFacts DEF PlaysOn, LockOK
  <2>4. LockOK(r)' /\ SilenceOK(r)' /\ SpeechOK(r)'
    BY <1>1, <1>4, <2>1, <2>2, RunFacts DEF LockOK, SilenceOK, SpeechOK
  <2>. QED BY <1>4, <2>3, <2>4, PlaysOnKeeps
<1>5. CASE runs[r].queued /\ runs' = AG!Update(r, [queued |-> FALSE]) /\ mediaLock' = mediaLock
  <2>. DEFINE new == AG!With(runs[r], [queued |-> FALSE])
  <2>1. /\ new \in RunRecords /\ new.at = runs[r].at /\ new.attempt = runs[r].attempt
        /\ new.fenced = runs[r].fenced /\ new.silenced = runs[r].silenced
        /\ new.player = runs[r].player /\ new.spoke = runs[r].spoke /\ ~new.queued
    BY <1>1, Unqueued
  <2>. HIDE DEF new
  <2>2. runs' \in [AG!Runs -> RunRecords] /\ runs'[r] = new /\ \A s \in AG!Runs : s # r => runs'[s] = runs[s]
    BY <1>5, <2>1, RunWritten DEF new
  <2>3. PlaysOn(r)
    BY <1>1, <1>5, <2>1, <2>2 DEF PlaysOn
  <2>4. LockOK(r)' /\ SilenceOK(r)' /\ SpeechOK(r)'
    BY <1>1, <1>5, <2>1, <2>2, RunFacts DEF LockOK, SilenceOK, SpeechOK
  <2>. QED BY <2>1, <2>2, <2>3, <2>4, PlaysOnKeeps
<1>. QED BY <1>2, <1>3, <1>4, <1>5 DEF AG!Play, AG!MayCapture

\* The end of the run cancels its player: the frame it captured may be queued,
\* but for a run that is silenced.
LEMMA StopPlayerStep ==
    ASSUME MediaInv, NEW r \in AG!Runs, AG!StopPlayer(r)
    PROVE  MediaInv' /\ RowsKept
<1>1. /\ UNCHANGED <<registered, started, rows, cancels, finals, start, action, speaker, actor>>
      /\ mediaLock' = IF runs[r].player \in {"asking", "capturing"} THEN AG!None ELSE mediaLock
      /\ runs[r] \in RunRecords /\ runs[r].player # "none"
  BY RunFacts DEF AG!StopPlayer, AG!Unplayed
<1>. PICK captured \in {runs[r].queued, runs[r].player = "capturing" \/ runs[r].queued} :
        runs' = AG!Update(r, [player |-> "none", queued |-> captured])
  BY DEF AG!StopPlayer
<1>2. captured \in BOOLEAN /\ (captured => runs[r].queued \/ runs[r].player = "capturing")
  BY <1>1 DEF RunRecords
<1>. DEFINE new == AG!With(runs[r], [player |-> "none", queued |-> captured])
<1>3. /\ new \in RunRecords /\ new.at = runs[r].at /\ new.attempt = runs[r].attempt
      /\ new.fenced = runs[r].fenced /\ new.silenced = runs[r].silenced
      /\ new.player = "none" /\ new.spoke = runs[r].spoke /\ new.queued = captured
  BY <1>1, <1>2 DEF AG!With, RunRecords
<1>. HIDE DEF new
<1>4. runs' \in [AG!Runs -> RunRecords] /\ runs'[r] = new /\ \A s \in AG!Runs : s # r => runs'[s] = runs[s]
  BY <1>3, RunWritten DEF new
<1>5. PlaysOn(r)
  BY <1>1, <1>3, <1>4, RunFacts DEF PlaysOn, LockOK
<1>6. LockOK(r)' /\ SilenceOK(r)' /\ SpeechOK(r)'
  BY <1>1, <1>2, <1>3, <1>4, RunFacts DEF LockOK, SilenceOK, SpeechOK
<1>. QED BY <1>1, <1>5, <1>6, PlaysOnKeeps

\* A run with nothing queued any more, and silenced.
LEMMA Hushed ==
    ASSUME NEW run \in RunRecords, NEW new, new = AG!With(run, [queued |-> FALSE, silenced |-> TRUE])
    PROVE  /\ new \in RunRecords /\ new.at = run.at /\ new.attempt = run.attempt
           /\ new.fenced = run.fenced /\ new.player = run.player /\ new.spoke = run.spoke
           /\ ~new.queued
BY DEF AG!With, RunRecords

\* The run whose player cannot be in between its check and its frame is silenced.
LEMMA Silenced ==
    ASSUME MediaInv, NEW r \in AG!Runs, runs' = AG!Silence(r), AG!Quiet, runs[r].fenced,
           cancels'[r] # "none" => registered' # r
    PROVE  /\ runs' \in [AG!Runs -> RunRecords] /\ \A s \in AG!Runs : s # r => runs'[s] = runs[s]
           /\ runs'[r].at = runs[r].at /\ runs'[r].attempt = runs[r].attempt
           /\ runs'[r].fenced = runs[r].fenced /\ runs'[r].player = runs[r].player
           /\ runs'[r].spoke = runs[r].spoke /\ (runs'[r].queued => runs[r].queued)
           /\ SilenceOK(r)'
<1>. DEFINE new == AG!With(runs[r], [queued |-> FALSE, silenced |-> TRUE])
<1>1. /\ new \in RunRecords /\ new.at = runs[r].at /\ new.attempt = runs[r].attempt
      /\ new.fenced = runs[r].fenced /\ new.player = runs[r].player /\ new.spoke = runs[r].spoke
      /\ ~new.queued
  BY RunFacts, Hushed
<1>2. runs' = AG!Update(r, [queued |-> FALSE, silenced |-> TRUE])
  BY DEF AG!Silence
<1>. HIDE DEF new
<1>3. runs' \in [AG!Runs -> RunRecords] /\ runs'[r] = new /\ \A s \in AG!Runs : s # r => runs'[s] = runs[s]
  BY <1>1, <1>2, RunWritten DEF new
<1>4. runs[r].player \notin {"asking", "capturing"}
  BY RunFacts DEF LockOK, AG!Quiet
<1>. QED BY <1>1, <1>3, <1>4 DEF SilenceOK

\* _cancel_run: the lock, the task, the row.
LEMMA CancelStep ==
    ASSUME MediaInv, NEW r \in AG!Runs, AG!Cancel(r)
    PROVE  MediaInv' /\ RowsKept
<1>1. /\ UNCHANGED <<registered, started, mediaLock, finals, start, action, speaker, actor>>
      /\ runs[r] \in RunRecords /\ cancels[r] # "none"
  BY RunFacts DEF AG!Cancel
<1>2. PICK to \in CancelStates \ {"none"} :
        /\ cancels' = [cancels EXCEPT ![r] = to] /\ (cancels[r] = "done" => to = "done")
        /\ to # "done" => rows' = rows
  BY DEF AG!Cancel, CancelStates
<1>3. /\ cancels' \in [AG!Runs -> CancelStates] /\ cancels'[r] = to
      /\ \A s \in AG!Runs : s # r => cancels'[s] = cancels[s]
  BY <1>2 DEF MediaInv, MediaRows
<1>4. /\ runs' \in [AG!Runs -> RunRecords] /\ \A s \in AG!Runs : s # r => runs'[s] = runs[s]
      /\ runs'[r].at = runs[r].at /\ runs'[r].attempt = runs[r].attempt
      /\ runs'[r].fenced = runs[r].fenced /\ runs'[r].player = runs[r].player
      /\ runs'[r].spoke = runs[r].spoke /\ (runs'[r].queued => runs[r].queued)
      /\ SilenceOK(r)'
  <2>1. CASE cancels[r] = "clear" /\ AG!Quiet /\ runs' = AG!Silence(r)
    <3>1. runs[r].fenced /\ registered' # r
      BY <1>1, RunFacts DEF SilenceOK
    <3>. QED BY <2>1, <3>1, Silenced
  <2>2. CASE runs' = AG!Update(r, [cancelled |-> TRUE])
    <3>. DEFINE new == AG!With(runs[r], [cancelled |-> TRUE])
    <3>1. new \in RunRecords
      BY ZenonT(60), <1>1 DEF AG!With, RunRecords
    <3>2. /\ new.at = runs[r].at /\ new.attempt = runs[r].attempt
          /\ new.fenced = runs[r].fenced /\ new.silenced = runs[r].silenced
          /\ new.player = runs[r].player /\ new.spoke = runs[r].spoke /\ new.queued = runs[r].queued
      BY <1>1 DEF AG!With, RunRecords
    <3>. HIDE DEF new
    <3>3. runs' \in [AG!Runs -> RunRecords] /\ runs'[r] = new /\ \A s \in AG!Runs : s # r => runs'[s] = runs[s]
      BY <2>2, <3>1, RunWritten DEF new
    <3>. QED BY <1>1, <3>2, <3>3, RunFacts DEF SilenceOK
  <2>3. CASE runs' = AG!Update(r, [queued |-> FALSE])
    <3>. DEFINE new == AG!With(runs[r], [queued |-> FALSE])
    <3>1. /\ new \in RunRecords /\ new.at = runs[r].at /\ new.attempt = runs[r].attempt
          /\ new.fenced = runs[r].fenced /\ new.silenced = runs[r].silenced
          /\ new.player = runs[r].player /\ new.spoke = runs[r].spoke /\ ~new.queued
      BY <1>1, Unqueued
    <3>. HIDE DEF new
    <3>2. runs' \in [AG!Runs -> RunRecords] /\ runs'[r] = new /\ \A s \in AG!Runs : s # r => runs'[s] = runs[s]
      BY <2>3, <3>1, RunWritten DEF new
    <3>. QED BY <1>1, <3>1, <3>2, RunFacts DEF SilenceOK
  <2>. QED BY <2>1, <2>2, <2>3 DEF AG!Cancel
<1>5. /\ OtherRows(r)
      /\ rows[<<r, runs[r].attempt>>] = "none" => rows'[<<r, runs[r].attempt>>] = "none"
      /\ rows'[<<r, runs[r].attempt>>] = "CANCELLED" =>
            rows[<<r, runs[r].attempt>>] = "CANCELLED" \/ (finals[r] # "persist" /\ to = "done")
  <2>1. CASE rows' = rows
    BY <2>1, RowsSame
  <2>2. CASE rows' = AG!MarkFailed(r, "CANCELLED") /\ finals[r] # "persist" /\ to = "done"
    BY <2>2, Marked DEF OtherRows, AG!Settled
  <2>3. rows' = rows \/ (rows' = AG!MarkFailed(r, "CANCELLED") /\ finals[r] # "persist")
    BY DEF AG!Cancel, AG!MayMarkCancelled
  <2>. QED BY <1>2, <2>1, <2>2, <2>3
<1>6. MediaRows'
  BY <1>1, <1>3, <1>4, <1>5 DEF MediaInv, MediaRows, OtherRows
<1>7. LockOK(r)' /\ SpeechOK(r)'
  BY <1>1, <1>4, RunFacts DEF LockOK, SpeechOK
<1>8. runs[r].attempt \in {1, 2}
  BY <1>1 DEF RunRecords
<1>9. BeginOK(r)'
  BY <1>1, <1>3, <1>4, <1>5, <1>8, RunFacts DEF BeginOK, OtherRows
<1>10. RowOK(r)'
  BY <1>1, <1>2, <1>3, <1>4, <1>5, RunFacts DEF RowOK
<1>11. Frame(r) /\ ActorOK'
  BY <1>1, <1>3, <1>4, <1>5, RunFacts, ActorKept DEF Frame, OtherRows
<1>. QED BY <1>4, <1>5, <1>6, <1>7, <1>9, <1>10, <1>11, RunFacts, OneRun DEF OtherRows, RunOK

\* A run that is fenced stays so, and the fence of _cancel_run comes first.
LEMMA Retired ==
    ASSUME MediaInv, NEW r \in AG!Runs, AG!Retire(r)
    PROVE  /\ runs' \in [AG!Runs -> RunRecords] /\ \A s \in AG!Runs : s # r => runs'[s] = runs[s]
           /\ runs'[r].at = runs[r].at /\ runs'[r].attempt = runs[r].attempt
           /\ runs'[r].fenced /\ runs'[r].silenced = runs[r].silenced
           /\ runs'[r].player = runs[r].player /\ runs'[r].spoke = runs[r].spoke
           /\ runs'[r].queued = runs[r].queued
           /\ cancels' \in [AG!Runs -> CancelStates] /\ cancels'[r] # "none"
           /\ cancels[r] = "done" => cancels'[r] = "done"
           /\ \A s \in AG!Runs : s # r => cancels'[s] = cancels[s]
<1>. DEFINE new == AG!With(runs[r], [fenced |-> TRUE])
<1>1. new \in RunRecords
  BY ZenonT(60), RunFacts DEF AG!With, RunRecords
<1>2. /\ new.at = runs[r].at /\ new.attempt = runs[r].attempt /\ new.silenced = runs[r].silenced
      /\ new.player = runs[r].player /\ new.spoke = runs[r].spoke /\ new.queued = runs[r].queued
  BY RunFacts DEF AG!With, RunRecords
<1>3. new.fenced
  BY RunFacts DEF AG!With, RunRecords
<1>. HIDE DEF new
<1>4. runs' \in [AG!Runs -> RunRecords] /\ runs'[r] = new /\ \A s \in AG!Runs : s # r => runs'[s] = runs[s]
  BY <1>1, RunWritten DEF new, AG!Retire
<1>5. PICK to \in CancelStates \ {"none"} :
        cancels' = [cancels EXCEPT ![r] = to] /\ (cancels[r] = "done" => to = "done")
  <2>1. cancels[r] \in CancelStates /\ cancels' = [cancels EXCEPT ![r] = IF cancels[r] = "none" THEN "clear" ELSE cancels[r]]
    BY DEF AG!Retire, MediaInv, MediaRows
  <2>. QED BY <2>1 DEF CancelStates
<1>6. /\ cancels' \in [AG!Runs -> CancelStates] /\ cancels'[r] = to
      /\ \A s \in AG!Runs : s # r => cancels'[s] = cancels[s]
  BY <1>5 DEF MediaInv, MediaRows
<1>. QED BY <1>2, <1>3, <1>4, <1>5, <1>6

\* start_agent: the next run, or nothing at all if the start was retired.
LEMMA StartStep ==
    ASSUME MediaInv, AG!Start
    PROVE  MediaInv' /\ RowsKept
<1>1. UNCHANGED <<mediaLock, rows, cancels, finals, action, speaker, actor>> /\ start' = "none"
  BY DEF AG!Start
<1>2. CASE UNCHANGED <<runs, started, registered>>
  <2>1. AG!None \in Handles /\ AG!None \notin AG!Runs
    BY MediaAssumption DEF Handles, AG!None, AG!Runs
  <2>2. MediaRows' /\ RowsKept
    BY <1>1, <1>2, RowsSame DEF MediaInv, MediaRows, OtherRows
  <2>3. Frame(AG!None)
    BY <1>1, <1>2 DEF MediaInv, MediaRows, Frame, Handles
  <2>4. ActorOK'
    BY <1>1, <1>2, ActorKept
  <2>. QED BY <2>1, <2>2, <2>3, <2>4, OneRun
<1>3. ASSUME started < MaxRuns, started' = started + 1, registered = AG!None,
             registered' = started + 1, runs' = AG!At(started + 1, "loading")
      PROVE  MediaInv' /\ RowsKept
  <2>. PICK r \in AG!Runs : r = started + 1
    BY <1>3, MediaAssumption DEF MediaInv, MediaRows, Handles, AG!Runs
  <2>1. r \in AG!Runs /\ r \in Handles /\ r > started /\ started \in Nat /\ started' \in Handles /\ registered' \in 0..started'
    BY <1>3, MediaAssumption DEF MediaInv, MediaRows, Handles, AG!Runs
  <2>2. started' = r /\ registered' = r /\ runs' = AG!At(r, "loading")
    BY <1>3
  <2>3. runs[r].at = "none" /\ cancels[r] = "none" /\ rows[<<r, runs[r].attempt>>] = "none"
    BY <2>1, RunFacts DEF BeginOK, Early
  <2>4. /\ runs' \in [AG!Runs -> RunRecords] /\ \A s \in AG!Runs : s # r => runs'[s] = runs[s]
        /\ runs'[r].at = "loading" /\ runs'[r].attempt = runs[r].attempt /\ runs'[r].player = runs[r].player
        /\ runs'[r].fenced = runs[r].fenced /\ runs'[r].spoke = runs[r].spoke
        /\ runs'[r].queued = runs[r].queued /\ runs'[r].silenced = runs[r].silenced
    BY <2>1, <2>2, AtWritten DEF Early
  <2>5. MediaRows' /\ OtherRows(r)
    BY <1>1, <2>1, <2>4, RowsSame DEF MediaInv, MediaRows
  <2>6. LockOK(r)' /\ SilenceOK(r)'
    BY <1>1, <2>1, <2>3, <2>4, RunFacts DEF LockOK, SilenceOK
  <2>7. BeginOK(r)'
    <3>1. ~(r > started')
      BY <2>1, <2>2
    <3>. QED BY <1>1, <2>1, <2>3, <2>4, <3>1, RunFacts DEF BeginOK
  <2>8. SpeechOK(r)' /\ RowOK(r)'
    BY <1>1, <2>1, <2>3, <2>4, RunFacts DEF SpeechOK, RowOK, Late
  <2>9. Frame(r)
    <3>1. started <= started'
      BY <2>1, <2>2
    <3>. QED BY <1>1, <2>2, <2>4, <3>1 DEF Frame
  <2>10. ActorOK'
    BY <1>1, <2>1, <2>4, ActorKept
  <2>. QED BY <2>1, <2>5, <2>6, <2>7, <2>8, <2>9, <2>10, OneRun DEF OtherRows, RunOK
<1>. QED BY <1>2, <1>3 DEF AG!Start

\* The registered run is retired, or there is none: the rest of its invariant
\* does not depend on what the actor goes on to.
LEMMA RetireStep ==
    ASSUME MediaInv, UNCHANGED <<started, mediaLock, rows, finals>>, registered' = AG!None,
           registered \in AG!Runs => AG!Retire(registered),
           registered = AG!None => UNCHANGED <<runs, cancels>>,
           action' = action, speaker' \in {speaker, AG!None},
           start' \in {"none", "retired"},
           actor' \in [waits : {"idle", "fencing", "cancelling"}, run : Handles], ActorOK'
    PROVE  MediaInv' /\ RowsKept
<1>1. /\ registered \in Handles /\ registered \in 0..started /\ started \in Nat /\ AG!None \in Handles
      /\ AG!None \in 0..started' /\ AG!None \notin AG!Runs
      /\ registered = AG!None \/ registered \in AG!Runs
  BY MediaAssumption DEF MediaInv, MediaRows, Handles, AG!Runs, AG!None
<1>2. RowsKept /\ OtherRows(registered)
  BY RowsSame DEF OtherRows
<1>3. CASE registered = AG!None
  <2>1. MediaRows'
    BY <1>1, <1>3 DEF MediaInv, MediaRows
  <2>2. Frame(registered)
    BY <1>1, <1>3 DEF Frame
  <2>. QED BY <1>1, <1>2, <1>3, <2>1, <2>2, OneRun
<1>4. CASE registered \in AG!Runs
  <2>. PICK r \in AG!Runs : r = registered
    BY <1>4
  <2>1. /\ runs' \in [AG!Runs -> RunRecords] /\ \A s \in AG!Runs : s # r => runs'[s] = runs[s]
        /\ runs'[r].at = runs[r].at /\ runs'[r].attempt = runs[r].attempt
        /\ runs'[r].fenced /\ runs'[r].silenced = runs[r].silenced
        /\ runs'[r].player = runs[r].player /\ runs'[r].spoke = runs[r].spoke
        /\ runs'[r].queued = runs[r].queued
        /\ cancels' \in [AG!Runs -> CancelStates] /\ cancels'[r] # "none"
        /\ cancels[r] = "done" => cancels'[r] = "done"
        /\ \A s \in AG!Runs : s # r => cancels'[s] = cancels[s]
    BY <1>4, Retired
  <2>2. /\ LockOK(r) /\ SilenceOK(r) /\ BeginOK(r) /\ SpeechOK(r) /\ RowOK(r)
        /\ r \in AG!Runs /\ r # AG!None /\ r \in Handles /\ ~(r > started) /\ registered' # r
    BY <1>1, <1>4, RunFacts
  <2>3. MediaRows'
    BY <1>1, <2>1 DEF MediaInv, MediaRows
  <2>4. Frame(r)
    BY <1>1, <2>1 DEF Frame
  <2>5. LockOK(r)' /\ SilenceOK(r)' /\ BeginOK(r)'
    BY <2>1, <2>2 DEF LockOK, SilenceOK, BeginOK
  <2>6. SpeechOK(r)' /\ RowOK(r)'
    BY <2>1, <2>2 DEF SpeechOK, RowOK
  <2>. QED BY <1>2, <2>2, <2>3, <2>4, <2>5, <2>6, OneRun DEF RunOK
<1>. QED BY <1>1, <1>3, <1>4

\* _reset_interrupted_agent
LEMMA ResetInterruptedStep ==
    ASSUME MediaInv, AG!ResetInterrupted
    PROVE  MediaInv' /\ RowsKept
<1>1. /\ UNCHANGED <<started, mediaLock, rows, finals, action, speaker, actor>> /\ registered' = AG!None
      /\ registered = AG!None => UNCHANGED <<runs, cancels>>
      /\ registered # AG!None => AG!Retire(registered)
      /\ start' \in {"none", "retired"}
  BY DEF AG!ResetInterrupted, AG!RetireStart
<1>2. AG!None \notin AG!Runs
  BY DEF AG!None, AG!Runs
<1>3. ActorOK'
  <2>1. \A s \in AG!Runs : runs[s].fenced => runs'[s].fenced
    <3>1. CASE registered \in AG!Runs
      BY <1>1, <1>2, <3>1, Retired
    <3>2. CASE registered = AG!None
      BY <1>1, <3>2
    <3>. QED BY <3>1, <3>2, MediaAssumption DEF MediaInv, MediaRows, Handles, AG!Runs, AG!None
  <2>. QED BY <1>1, <2>1, ActorKept
<1>4. actor' \in [waits : {"idle", "fencing", "cancelling"}, run : Handles]
  BY <1>1 DEF MediaInv, MediaRows
<1>. QED BY <1>1, <1>2, <1>3, <1>4, RetireStep

\* speech.reset
LEMMA ResetSpeechStep ==
    ASSUME MediaInv, AG!ResetSpeech
    PROVE  MediaInv' /\ RowsKept
<1>1. /\ UNCHANGED <<started, mediaLock, rows, finals, action>> /\ registered' = AG!None
      /\ registered = AG!None => UNCHANGED <<runs, cancels>>
      /\ registered # AG!None => AG!Retire(registered)
      /\ start' \in {"none", "retired"} /\ speaker' = AG!None
      /\ actor' = AG!Busy("cancelling", registered)
  BY DEF AG!ResetSpeech, AG!RetireStart
<1>2. AG!None \notin AG!Runs
  BY DEF AG!None, AG!Runs
<1>3. /\ actor' \in [waits : {"idle", "fencing", "cancelling"}, run : Handles]
      /\ actor'.waits = "cancelling" /\ actor' # AG!Idle
  BY <1>1, MediaAssumption DEF MediaInv, MediaRows, Handles, AG!Busy, AG!Idle
<1>4. ActorOK'
  BY <1>3 DEF ActorOK, AG!Idle
<1>. QED BY <1>1, <1>2, <1>3, <1>4, RetireStep

\* A step of the finalization of r: r is as far as it was, its finalization goes
\* on to another state, and whoever is registered may be so no longer.
FinalizesOn(r, to) ==
    /\ finals' = [finals EXCEPT ![r] = to] /\ finals[r] # "none"
    /\ runs' \in [AG!Runs -> RunRecords] /\ \A s \in AG!Runs : s # r => runs'[s] = runs[s]
    /\ runs'[r].at = runs[r].at /\ runs'[r].attempt = runs[r].attempt
    /\ runs'[r].fenced = runs[r].fenced /\ runs'[r].silenced = runs[r].silenced
    /\ runs'[r].player = runs[r].player /\ runs'[r].spoke = runs[r].spoke
    /\ runs'[r].queued => runs[r].queued \/ ~runs[r].fenced
    /\ registered' \in {registered, AG!None}
    /\ UNCHANGED <<started, cancels, speaker, actor>>
    /\ mediaLock' # mediaLock => mediaLock \in {AG!None, r} /\ mediaLock' \in {AG!None, r}

\* It is enough then to look at the lock, the actor and the row of r.
LEMMA FinalizesOnKeeps ==
    ASSUME MediaInv, NEW r \in AG!Runs, NEW to \in FinalStates \ {"none"}, FinalizesOn(r, to),
           UNCHANGED <<action, start>>, OtherRows(r),
           mediaLock # mediaLock' => finals[r] # "tailing" \/ to # "tailing",
           to = "tailing" => mediaLock' = r /\ (mediaLock = AG!None \/ finals[r] = "tailing"),
           mediaLock # mediaLock' => runs[r].player \notin {"asking", "capturing"},
           rows'[<<r, runs[r].attempt>>] = "CANCELLED" =>
              /\ to # "persist"
              /\ \/ to \in {"closing", "closed"}
                 \/ rows[<<r, runs[r].attempt>>] = "CANCELLED" /\ finals[r] \notin {"closing", "closed"}
    PROVE  MediaInv'
<1>1. /\ finals' \in [AG!Runs -> FinalStates] /\ finals'[r] = to
      /\ \A s \in AG!Runs : s # r => finals'[s] = finals[s]
  BY DEF MediaInv, MediaRows, FinalizesOn
<1>2. mediaLock' \in Handles /\ registered' \in 0..started'
  BY RunFacts, MediaAssumption DEF MediaInv, MediaRows, FinalizesOn, AG!None, Handles
<1>3. MediaRows'
  BY <1>1, <1>2 DEF MediaInv, MediaRows, FinalizesOn, OtherRows
<1>4. /\ runs'[r].at = runs[r].at /\ runs'[r].attempt = runs[r].attempt
      /\ runs'[r].fenced = runs[r].fenced /\ runs'[r].silenced = runs[r].silenced
      /\ runs'[r].player = runs[r].player /\ runs'[r].spoke = runs[r].spoke
      /\ runs'[r].queued => runs[r].queued \/ ~runs[r].fenced
      /\ registered' \in {registered, AG!None} /\ finals[r] # "none"
      /\ UNCHANGED <<started, cancels, speaker, action, actor>>
      /\ runs[r].at \in Late /\ runs[r].spoke /\ runs[r].player # "asking"
      /\ runs[r].attempt \in {1, 2}
  BY RunFacts DEF FinalizesOn, SpeechOK, RunRecords
<1>5. LockOK(r)'
  BY <1>1, <1>4, RunFacts DEF LockOK
<1>6. SilenceOK(r)'
  BY <1>4, RunFacts DEF SilenceOK
<1>7. BeginOK(r)' /\ SpeechOK(r)'
  BY <1>1, <1>4, RunFacts DEF BeginOK, SpeechOK, OtherRows, Early, Late
<1>8. RowOK(r)'
  BY <1>1, <1>4, RunFacts DEF RowOK
<1>9. Frame(r)
  BY <1>1, RunFacts DEF FinalizesOn, Frame, OtherRows
<1>10. ActorOK'
  <2>1. \A s \in AG!Runs : runs[s].fenced => runs'[s].fenced
    BY <1>4 DEF FinalizesOn
  <2>. QED BY <1>4, <2>1, ActorKept
<1>. QED BY <1>3, <1>5, <1>6, <1>7, <1>8, <1>9, <1>10, RunFacts, OneRun DEF RunOK

\* The run keeps what the finalization does not write of it.
LEMMA FinalizerWrites ==
    ASSUME MediaInv, NEW r \in AG!Runs, NEW fields, NEW queued \in BOOLEAN,
           queued => runs[r].queued \/ ~runs[r].fenced,
           \/ fields = [finalizing |-> TRUE] /\ queued = runs[r].queued
           \/ fields = [finalizing |-> TRUE, queued |-> FALSE, cancelled |-> TRUE] /\ queued = FALSE
           \/ fields = [queued |-> queued],
           runs' = AG!Update(r, fields)
    PROVE  /\ runs' \in [AG!Runs -> RunRecords] /\ \A s \in AG!Runs : s # r => runs'[s] = runs[s]
           /\ runs'[r].at = runs[r].at /\ runs'[r].attempt = runs[r].attempt
           /\ runs'[r].fenced = runs[r].fenced /\ runs'[r].silenced = runs[r].silenced
           /\ runs'[r].player = runs[r].player /\ runs'[r].spoke = runs[r].spoke
           /\ runs'[r].queued => runs[r].queued \/ ~runs[r].fenced
<1>. DEFINE new == AG!With(runs[r], fields)
<1>1. runs[r] \in RunRecords
  BY RunFacts
<1>2. CASE fields = [finalizing |-> TRUE] /\ queued = runs[r].queued
  <2>1. new \in RunRecords
    BY ZenonT(60), <1>1, <1>2 DEF AG!With, RunRecords
  <2>2. /\ new.at = runs[r].at /\ new.attempt = runs[r].attempt
        /\ new.fenced = runs[r].fenced /\ new.silenced = runs[r].silenced
        /\ new.player = runs[r].player /\ new.spoke = runs[r].spoke
        /\ new.queued = runs[r].queued
    BY <1>1, <1>2 DEF AG!With, RunRecords
  <2>. HIDE DEF new
  <2>3. runs' \in [AG!Runs -> RunRecords] /\ runs'[r] = new /\ \A s \in AG!Runs : s # r => runs'[s] = runs[s]
    BY <2>1, RunWritten DEF new
  <2>. QED BY <2>2, <2>3
<1>3. CASE fields = [finalizing |-> TRUE, queued |-> FALSE, cancelled |-> TRUE] /\ queued = FALSE
  <2>1. new \in RunRecords
    BY ZenonT(60), <1>1, <1>3 DEF AG!With, RunRecords
  <2>2. /\ new.at = runs[r].at /\ new.attempt = runs[r].attempt
        /\ new.fenced = runs[r].fenced /\ new.silenced = runs[r].silenced
        /\ new.player = runs[r].player /\ new.spoke = runs[r].spoke
    BY <1>1, <1>3 DEF AG!With, RunRecords
  <2>3. ~new.queued
    BY <1>1, <1>3 DEF AG!With, RunRecords
  <2>. HIDE DEF new
  <2>4. runs' \in [AG!Runs -> RunRecords] /\ runs'[r] = new /\ \A s \in AG!Runs : s # r => runs'[s] = runs[s]
    BY <2>1, RunWritten DEF new
  <2>. QED BY <2>2, <2>3, <2>4
<1>4. CASE fields = [queued |-> queued]
  <2>1. new \in RunRecords
    BY <1>1, <1>4 DEF AG!With, RunRecords
  <2>2. /\ new.at = runs[r].at /\ new.attempt = runs[r].attempt
        /\ new.fenced = runs[r].fenced /\ new.silenced = runs[r].silenced
        /\ new.player = runs[r].player /\ new.spoke = runs[r].spoke
    BY <1>1, <1>4 DEF AG!With, RunRecords
  <2>3. new.queued <=> queued
    BY <1>1, <1>4 DEF AG!With, RunRecords
  <2>. HIDE DEF new
  <2>4. runs' \in [AG!Runs -> RunRecords] /\ runs'[r] = new /\ \A s \in AG!Runs : s # r => runs'[s] = runs[s]
    BY <2>1, RunWritten DEF new
  <2>. QED BY <2>2, <2>3, <2>4
<1>. QED BY <1>2, <1>3, <1>4

\* A run that is registered and was asked for has no cancelled row, until its
\* finalization closes.
LEMMA NotCancelled ==
    ASSUME MediaInv, NEW r \in AG!Runs, registered = r, finals[r] \notin {"none", "closing", "closed"}
    PROVE  rows[<<r, runs[r].attempt>>] # "CANCELLED"
BY RunFacts DEF RowOK, SilenceOK, SpeechOK

\* finalize_agent, up to the row: it gives up, starts, waits for its tail.
LEMMA FinalizeRun ==
    ASSUME MediaInv, NEW r \in AG!Runs, NEW to \in FinalStates \ {"none"}, finals[r] # "none",
           finals' = [finals EXCEPT ![r] = to],
           UNCHANGED <<started, cancels, speaker, actor, action, start, rows>>,
           registered' \in {registered, AG!None},
           NEW fields, NEW queued \in BOOLEAN, queued => runs[r].queued \/ ~runs[r].fenced,
           \/ runs' = runs
           \/ /\ runs' = AG!Update(r, fields)
              /\ \/ fields = [finalizing |-> TRUE] /\ queued = runs[r].queued
                 \/ fields = [finalizing |-> TRUE, queued |-> FALSE, cancelled |-> TRUE] /\ queued = FALSE
                 \/ fields = [queued |-> queued],
           \/ mediaLock' = mediaLock /\ to # "tailing"
           \/ to = "tailing" /\ mediaLock = AG!None /\ mediaLock' = r
           \/ to # "tailing" /\ finals[r] = "tailing" /\ mediaLock' = AG!None,
           to = "persist" => registered = r /\ finals[r] = "check",
           finals[r] \in {"closing", "closed"} => to \in {"closing", "closed"}
    PROVE  MediaInv' /\ RowsKept
<1>1. OtherRows(r)
  BY RowsSame
<1>2. /\ runs' \in [AG!Runs -> RunRecords] /\ \A s \in AG!Runs : s # r => runs'[s] = runs[s]
      /\ runs'[r].at = runs[r].at /\ runs'[r].attempt = runs[r].attempt
      /\ runs'[r].fenced = runs[r].fenced /\ runs'[r].silenced = runs[r].silenced
      /\ runs'[r].player = runs[r].player /\ runs'[r].spoke = runs[r].spoke
      /\ runs'[r].queued => runs[r].queued \/ ~runs[r].fenced
  <2>1. CASE runs' = runs
    BY <2>1 DEF MediaInv, MediaRows
  <2>2. CASE runs' = AG!Update(r, fields)
    <3>1. CASE runs' # runs
      BY <2>2, <3>1, FinalizerWrites
    <3>. QED BY <2>1, <3>1
  <2>. QED BY <2>1, <2>2
<1>3. /\ mediaLock # mediaLock' => finals[r] # "tailing" \/ to # "tailing"
      /\ to = "tailing" => mediaLock' = r /\ (mediaLock = AG!None \/ finals[r] = "tailing")
      /\ mediaLock # mediaLock' => runs[r].player \notin {"asking", "capturing"}
      /\ mediaLock' # mediaLock => mediaLock \in {AG!None, r} /\ mediaLock' \in {AG!None, r}
  BY RunFacts DEF LockOK
<1>4. FinalizesOn(r, to)
  BY <1>2, <1>3 DEF FinalizesOn
<1>5. rows[<<r, runs[r].attempt>>] = "CANCELLED" => to # "persist"
  BY NotCancelled
<1>. QED BY <1>1, <1>3, <1>4, <1>5, FinalizesOnKeeps DEF OtherRows

\* finalize_agent and the row: stored, or cancelled if it was not stored.
LEMMA FinalizeRow ==
    ASSUME MediaInv, NEW r \in AG!Runs, UNCHANGED <<started, cancels, speaker, actor, action, start, runs, mediaLock>>,
           registered' \in {registered, AG!None},
           NEW to \in {"closing", "delivering"}, finals' = [finals EXCEPT ![r] = to],
           \/ finals[r] = "persist" /\ rows' = AG!SetRow(r, "FINALIZED")
           \/ finals[r] = "cancelled" /\ rows' = AG!MarkFailed(r, "CANCELLED") /\ to = "closing"
    PROVE  MediaInv' /\ RowsKept
<1>1. OtherRows(r) /\ (rows'[<<r, runs[r].attempt>>] = "CANCELLED" => to = "closing")
  <2>1. CASE finals[r] = "persist" /\ rows' = AG!SetRow(r, "FINALIZED")
    <3>1. rows[<<r, runs[r].attempt>>] # "CANCELLED"
      BY <2>1, RunFacts DEF RowOK
    <3>. QED BY ZenonT(60), <2>1, <3>1, RowWritten DEF OtherRows, RowStates, AG!Settled
  <2>2. CASE finals[r] = "cancelled" /\ rows' = AG!MarkFailed(r, "CANCELLED") /\ to = "closing"
    BY <2>2, Marked DEF OtherRows, AG!Settled
  <2>. QED BY <2>1, <2>2
<1>2. FinalizesOn(r, to)
  BY DEF FinalizesOn, MediaInv, MediaRows
<1>3. to \in FinalStates \ {"none"}
  BY DEF FinalStates
<1>. QED BY <1>1, <1>2, <1>3, FinalizesOnKeeps DEF OtherRows

\* finalize_agent
LEMMA FinalizeStep ==
    ASSUME MediaInv, NEW r \in AG!Runs, AG!Finalize(r)
    PROVE  MediaInv' /\ RowsKept
<1>1. /\ UNCHANGED <<started, cancels, start, action, speaker, actor>>
      /\ runs[r].queued \in BOOLEAN /\ runs[r].fenced \in BOOLEAN /\ finals[r] \in FinalStates
  BY RunFacts DEF AG!Finalize, AG!Unfinal, RunRecords, MediaInv, MediaRows
<1>2. CASE /\ finals[r] \in {"completed", "truncated"}
           /\ finals' = [finals EXCEPT ![r] = "closed"] /\ UNCHANGED <<runs, registered, mediaLock, rows>>
  <2>. DEFINE to == "closed"
  <2>1. to \in FinalStates \ {"none"} /\ to \notin {"persist", "tailing"} /\ to \in {"closing", "closed"}
    BY DEF FinalStates
  <2>2. finals' = [finals EXCEPT ![r] = to]
    BY <1>2
  <2>. HIDE DEF to
  <2>. QED BY <1>1, <1>2, <2>1, <2>2, FinalizeRun
<1>3. CASE /\ AG!Final(r, "completed", "tail")
           /\ runs' = AG!Update(r, [finalizing |-> TRUE]) /\ UNCHANGED <<registered, mediaLock, rows>>
  <2>. DEFINE to == "tail"
             fields == [finalizing |-> TRUE]
  <2>1. to \in FinalStates \ {"none"} /\ to \notin {"persist", "tailing"} /\ fields = [finalizing |-> TRUE]
    BY DEF FinalStates
  <2>2. finals' = [finals EXCEPT ![r] = to] /\ finals[r] = "completed" /\ runs' = AG!Update(r, fields)
    BY <1>3 DEF AG!Final
  <2>. HIDE DEF to, fields
  <2>. QED BY <1>1, <1>3, <2>1, <2>2, FinalizeRun
<1>4. CASE /\ AG!Final(r, "truncated", "check")
           /\ runs' = AG!Update(r, [finalizing |-> TRUE, queued |-> FALSE, cancelled |-> TRUE])
           /\ UNCHANGED <<registered, mediaLock, rows>>
  <2>. DEFINE to == "check"
             fields == [finalizing |-> TRUE, queued |-> FALSE, cancelled |-> TRUE]
             queued == FALSE
  <2>1. to \in FinalStates \ {"none"} /\ to \notin {"persist", "tailing"}
    BY DEF FinalStates
  <2>2. /\ finals' = [finals EXCEPT ![r] = to] /\ finals[r] = "truncated" /\ runs' = AG!Update(r, fields)
        /\ fields = [finalizing |-> TRUE, queued |-> FALSE, cancelled |-> TRUE] /\ queued = FALSE
    BY <1>4 DEF AG!Final
  <2>. HIDE DEF to, fields, queued
  <2>. QED BY ZenonT(60), <1>1, <1>4, <2>1, <2>2, FinalizeRun
<1>5. CASE /\ AG!Final(r, "tail", IF AG!Current(r) THEN "tailing" ELSE "cancelled") /\ mediaLock = AG!None
           /\ mediaLock' = (IF AG!Current(r) THEN r ELSE AG!None)
           /\ UNCHANGED <<runs, registered, rows>>
  <2>. PICK to \in {"tailing", "cancelled"} :
         /\ finals' = [finals EXCEPT ![r] = to] /\ finals[r] = "tail"
         /\ IF to = "tailing" THEN mediaLock' = r ELSE mediaLock' = mediaLock
    BY <1>5 DEF AG!Final
  <2>1. to \in FinalStates \ {"none"} /\ to # "persist"
    BY DEF FinalStates
  <2>. QED BY <1>1, <1>5, <2>1, FinalizeRun
<1>6. CASE /\ \/ /\ AG!Final(r, "tailing", IF AG!Current(r) THEN "drain" ELSE "cancelled")
                 /\ mediaLock' = AG!None /\ runs' = AG!Update(r, [queued |-> AG!Current(r)])
              \/ /\ AG!Final(r, "drain", IF AG!Current(r) THEN "check" ELSE "cancelled")
                 /\ mediaLock' = mediaLock /\ runs' = AG!Update(r, [queued |-> FALSE])
           /\ UNCHANGED <<registered, rows>>
  <2>. PICK to \in {"drain", "check", "cancelled"}, queued \in {AG!Current(r), FALSE} :
         /\ finals' = [finals EXCEPT ![r] = to] /\ runs' = AG!Update(r, [queued |-> queued])
         /\ \/ finals[r] = "drain" /\ mediaLock' = mediaLock
            \/ finals[r] = "tailing" /\ mediaLock' = AG!None
    BY <1>6 DEF AG!Final
  <2>. DEFINE fields == [queued |-> queued]
  <2>1. to \in FinalStates \ {"none"} /\ to \notin {"persist", "tailing"}
    BY DEF FinalStates
  <2>2. queued \in BOOLEAN /\ (queued => ~runs[r].fenced)
    BY <1>1 DEF AG!Current
  <2>3. runs' = AG!Update(r, fields) /\ fields = [queued |-> queued]
    OBVIOUS
  <2>. HIDE DEF fields
  <2>. QED BY ZenonT(60), <1>1, <1>6, <2>1, <2>2, <2>3, FinalizeRun
<1>7. CASE /\ AG!Final(r, "check", IF AG!MayPersist(r) THEN "persist" ELSE "cancelled")
           /\ UNCHANGED <<runs, registered, mediaLock, rows>>
  <2>. PICK to \in {"persist", "cancelled"} :
         /\ finals' = [finals EXCEPT ![r] = to] /\ finals[r] = "check" /\ (to = "persist" => registered = r)
    BY <1>7 DEF AG!Final, AG!MayPersist
  <2>1. to \in FinalStates \ {"none"} /\ to # "tailing"
    BY DEF FinalStates
  <2>. QED BY <1>1, <1>7, <2>1, FinalizeRun
<1>8. CASE /\ AG!Final(r, "persist", IF runs[r].natural /\ ~AG!Current(r) THEN "closing" ELSE "delivering")
           /\ rows' = AG!SetRow(r, "FINALIZED") /\ UNCHANGED <<runs, mediaLock>>
           /\ registered' \in {registered, AG!None}
  <2>. PICK to \in {"closing", "delivering"} : finals' = [finals EXCEPT ![r] = to] /\ finals[r] = "persist"
    BY <1>8 DEF AG!Final
  <2>. QED BY <1>1, <1>8, FinalizeRow
<1>9. CASE AG!Final(r, "persist", "cancelled") /\ UNCHANGED <<runs, registered, mediaLock, rows>>
  <2>. DEFINE to == "cancelled"
  <2>1. to \in FinalStates \ {"none"} /\ to \notin {"persist", "tailing"}
    BY DEF FinalStates
  <2>2. finals' = [finals EXCEPT ![r] = to] /\ finals[r] = "persist"
    BY <1>9 DEF AG!Final
  <2>. HIDE DEF to
  <2>. QED BY <1>1, <1>9, <2>1, <2>2, FinalizeRun
<1>10. CASE /\ AG!Final(r, "cancelled", "closing")
            /\ rows' = AG!MarkFailed(r, "CANCELLED") /\ UNCHANGED <<runs, registered, mediaLock>>
  <2>. DEFINE to == "closing"
  <2>1. to \in {"closing", "delivering"} /\ to = "closing"
    OBVIOUS
  <2>2. finals' = [finals EXCEPT ![r] = to] /\ finals[r] = "cancelled"
    BY <1>10 DEF AG!Final
  <2>. HIDE DEF to
  <2>. QED BY <1>1, <1>10, <2>1, <2>2, FinalizeRow
<1>11. CASE /\ AG!Final(r, "closing", "closed") /\ runs' = AG!Update(r, [queued |-> FALSE])
            /\ registered' \in {registered, AG!None} /\ UNCHANGED <<mediaLock, rows>>
  <2>. DEFINE to == "closed"
             queued == FALSE
             fields == [queued |-> queued]
  <2>1. to \in FinalStates \ {"none"} /\ to \notin {"persist", "tailing"} /\ to \in {"closing", "closed"}
    BY DEF FinalStates
  <2>2. /\ finals' = [finals EXCEPT ![r] = to] /\ finals[r] = "closing"
        /\ runs' = AG!Update(r, fields) /\ queued = FALSE
    BY <1>11 DEF AG!Final
  <2>3. fields = [queued |-> queued]
    OBVIOUS
  <2>. HIDE DEF to, fields, queued
  <2>. QED BY <1>1, <1>11, <2>1, <2>2, <2>3, FinalizeRun
<1>12. /\ AG!Final(r, "persist", IF runs[r].natural /\ ~AG!Current(r) THEN "closing" ELSE "delivering")
       /\ registered' = (IF registered = r /\ finals'[r] = "delivering" THEN AG!None ELSE registered)
       => registered' \in {registered, AG!None}
  OBVIOUS
<1>. QED BY <1>2, <1>3, <1>4, <1>5, <1>6, <1>7, <1>8, <1>9, <1>10, <1>11, <1>12 DEF AG!Finalize

\* The player is answered: it may capture its first frame, or is refused.
LEMMA PlaybackStartedStep ==
    ASSUME MediaInv, NEW r \in AG!Runs, AG!PlaybackStarted(r)
    PROVE  MediaInv' /\ RowsKept
<1>1. /\ UNCHANGED <<started, rows, cancels, finals, registered, start, actor>>
      /\ actor = AG!Idle /\ runs[r].player = "asking" /\ runs[r] \in RunRecords
      /\ runs[r].spoke /\ mediaLock = r /\ finals[r] = "none" /\ speaker # r
      /\ runs[r].at \in Late
  BY RunFacts DEF AG!PlaybackStarted, AG!Unacted, LockOK, SpeechOK, FinalStates, MediaInv, MediaRows
<1>2. PICK player \in {"capturing", "refused"} :
        /\ runs' = AG!Update(r, [player |-> player])
        /\ \/ /\ player = "capturing" /\ AG!Current(r) /\ action' = "SPEAKING" /\ speaker' = r
              /\ mediaLock' = mediaLock
           \/ player = "refused" /\ mediaLock' = AG!None /\ UNCHANGED <<action, speaker>>
  BY DEF AG!PlaybackStarted
<1>. DEFINE new == AG!With(runs[r], [player |-> player])
<1>3. /\ new \in RunRecords /\ new.at = runs[r].at /\ new.attempt = runs[r].attempt
      /\ new.fenced = runs[r].fenced /\ new.silenced = runs[r].silenced
      /\ new.spoke = runs[r].spoke /\ new.queued = runs[r].queued
  BY ZenonT(60), <1>1 DEF AG!With, RunRecords
<1>4. new.player = player
  BY <1>1 DEF AG!With, RunRecords
<1>. HIDE DEF new
<1>5. runs' \in [AG!Runs -> RunRecords] /\ runs'[r] = new /\ \A s \in AG!Runs : s # r => runs'[s] = runs[s]
  BY <1>2, <1>3, RunWritten DEF new
<1>6. OtherRows(r)
  BY <1>1, RowsSame
<1>7. MediaRows'
  <2>1. mediaLock' \in Handles /\ speaker' \in Handles /\ action' \in {action, "SPEAKING"}
    BY <1>2, MediaAssumption, RunFacts DEF MediaInv, MediaRows, AG!None, Handles
  <2>. QED BY <1>1, <1>5, <2>1 DEF MediaInv, MediaRows
<1>8. LockOK(r)' /\ SilenceOK(r)'
  BY <1>1, <1>2, <1>3, <1>4, <1>5, RunFacts DEF LockOK, SilenceOK, AG!Current
<1>9. BeginOK(r)' /\ RowOK(r)'
  BY <1>1, <1>3, <1>4, <1>5, RunFacts DEF BeginOK, RowOK
<1>10. SpeechOK(r)'
  BY <1>1, <1>2, <1>3, <1>4, <1>5, RunFacts DEF SpeechOK
<1>11. Frame(r)
  BY <1>1, <1>2, <1>5, RunFacts DEF Frame
<1>12. ActorOK'
  BY <1>1, <1>2, RunFacts DEF MediaInv, ActorOK, AG!Idle
<1>. QED BY <1>6, <1>7, <1>8, <1>9, <1>10, <1>11, <1>12, RunFacts, OneRun DEF OtherRows, RunOK

\* The speech was heard to its end: handed to the finalizer, or refused.
LEMMA PlaybackFinishedStep ==
    ASSUME MediaInv, NEW r \in AG!Runs, AG!PlaybackFinished(r)
    PROVE  MediaInv' /\ RowsKept
<1>1. /\ UNCHANGED <<registered, started, mediaLock, rows, cancels, start, speaker, actor>>
      /\ actor = AG!Idle /\ runs[r].at = "drained"
  BY DEF AG!PlaybackFinished
<1>2. PICK at \in {"done", "failing"}, to \in {"completed", finals[r]} :
        /\ runs' = AG!At(r, at) /\ finals' = [finals EXCEPT ![r] = to]
        /\ \/ /\ action = "SPEAKING" /\ speaker = r /\ action' = "FINALIZING"
              /\ at = "done" /\ to = "completed"
           \/ action' = action /\ to = finals[r] /\ at = "failing"
  <2>1. CASE action = "SPEAKING" /\ speaker = r
    BY <2>1 DEF AG!PlaybackFinished
  <2>2. CASE ~(action = "SPEAKING" /\ speaker = r)
    <3>1. finals' = [finals EXCEPT ![r] = finals[r]]
      BY <2>2 DEF AG!PlaybackFinished, MediaInv, MediaRows
    <3>. QED BY <2>2, <3>1 DEF AG!PlaybackFinished
  <2>. QED BY <2>1, <2>2
<1>3. /\ runs' \in [AG!Runs -> RunRecords] /\ \A s \in AG!Runs : s # r => runs'[s] = runs[s]
      /\ runs'[r].at = at /\ runs'[r].attempt = runs[r].attempt /\ runs'[r].player = runs[r].player
      /\ runs'[r].fenced = runs[r].fenced /\ runs'[r].spoke = runs[r].spoke
      /\ runs'[r].queued = runs[r].queued /\ runs'[r].silenced = runs[r].silenced
  BY <1>2, AtWritten DEF Late
<1>4. /\ finals' \in [AG!Runs -> FinalStates] /\ finals'[r] = to
      /\ \A s \in AG!Runs : s # r => finals'[s] = finals[s]
      /\ action' \in {action, "FINALIZING"}
  BY <1>2 DEF MediaInv, MediaRows, FinalStates
<1>5. OtherRows(r)
  BY <1>1, RowsSame
<1>6. MediaRows'
  BY <1>1, <1>3, <1>4 DEF MediaInv, MediaRows
<1>7. LockOK(r)' /\ SilenceOK(r)' /\ BeginOK(r)'
  BY <1>1, <1>2, <1>3, <1>4, RunFacts DEF LockOK, SilenceOK, BeginOK, Early
<1>8. SpeechOK(r)'
  BY <1>1, <1>2, <1>3, <1>4, RunFacts DEF SpeechOK, Late
<1>9. RowOK(r)'
  BY <1>1, <1>2, <1>3, <1>4, RunFacts DEF RowOK, SpeechOK
<1>10. Frame(r)
  BY <1>1, <1>2, <1>3, <1>4, RunFacts DEF Frame
<1>11. ActorOK'
  BY <1>1, <1>2 DEF MediaInv, ActorOK, AG!Idle
<1>. QED BY <1>5, <1>6, <1>7, <1>8, <1>9, <1>10, <1>11, RunFacts, OneRun DEF OtherRows, RunOK

\* The time of the speech is up while it is heard.
LEMMA SpeechDeadlineStep ==
    ASSUME MediaInv, AG!SpeechDeadline
    PROVE  MediaInv' /\ RowsKept
<1>1. /\ UNCHANGED <<runs, registered, started, mediaLock, rows, cancels, start, speaker, actor>>
      /\ actor = AG!Idle /\ action = "SPEAKING" /\ action' = "FINALIZING"
      /\ finals' = [finals EXCEPT ![speaker] = "truncated"]
  BY DEF AG!SpeechDeadline
<1>. PICK r \in AG!Runs : r = speaker
  BY <1>1, MediaAssumption DEF MediaInv, MediaRows, ActorOK, Handles, AG!Runs, AG!None
<1>2. /\ finals' \in [AG!Runs -> FinalStates] /\ finals'[r] = "truncated"
      /\ \A s \in AG!Runs : s # r => finals'[s] = finals[s]
  BY <1>1 DEF MediaInv, MediaRows, FinalStates
<1>3. MediaRows' /\ OtherRows(r)
  BY <1>1, <1>2, RowsSame DEF MediaInv, MediaRows
<1>4. LockOK(r)' /\ SilenceOK(r)' /\ BeginOK(r)' /\ SpeechOK(r)'
  BY <1>1, <1>2, RunFacts DEF LockOK, SilenceOK, BeginOK, SpeechOK
<1>5. RowOK(r)'
  BY <1>1, <1>2, RunFacts DEF RowOK, SpeechOK
<1>6. Frame(r) /\ ActorOK'
  BY <1>1, <1>2, RunFacts DEF Frame, MediaInv, MediaRows, ActorOK, AG!Idle
<1>. QED BY <1>3, <1>4, <1>5, <1>6, RunFacts, OneRun DEF OtherRows, RunOK

\* The finalizer tells the actor that the speech is stored.
LEMMA FinalizedStep ==
    ASSUME MediaInv, NEW r \in AG!Runs, AG!Finalized(r)
    PROVE  MediaInv' /\ RowsKept
<1>1. /\ UNCHANGED <<runs, registered, started, mediaLock, rows, cancels, actor>>
      /\ actor = AG!Idle /\ finals[r] = "delivering" /\ finals' = [finals EXCEPT ![r] = "closing"]
      /\ \/ action' = "PREPARING" /\ speaker' = AG!None /\ start' = "pending"
         \/ UNCHANGED <<action, speaker, start>>
  BY DEF AG!Finalized, AG!Final
<1>2. /\ finals' \in [AG!Runs -> FinalStates] /\ finals'[r] = "closing"
      /\ \A s \in AG!Runs : s # r => finals'[s] = finals[s]
      /\ action' \in {action, "PREPARING"} /\ start' \in {start, "pending"}
      /\ speaker' \in {speaker, AG!None} /\ AG!None \in Handles
  BY <1>1, MediaAssumption DEF MediaInv, MediaRows, FinalStates, AG!None, Handles
<1>3. MediaRows' /\ OtherRows(r)
  BY <1>1, <1>2, RowsSame DEF MediaInv, MediaRows
<1>4. LockOK(r)' /\ SilenceOK(r)' /\ BeginOK(r)' /\ RowOK(r)'
  BY <1>1, <1>2, RunFacts DEF LockOK, SilenceOK, BeginOK, RowOK
<1>5. SpeechOK(r)'
  BY <1>1, <1>2, RunFacts DEF SpeechOK
<1>6. Frame(r) /\ ActorOK'
  BY <1>1, <1>2, RunFacts DEF Frame, MediaInv, MediaRows, ActorOK, AG!Idle
<1>. QED BY <1>3, <1>4, <1>5, <1>6, RunFacts, OneRun DEF OtherRows, RunOK

\* match.paused and a failure: the match is paused, the run that goes on is
\* fenced, and the actor waits for its lock.
LEMMA FenceStep ==
    ASSUME MediaInv, NEW r \in AG!Runs, NEW fields,
           \/ fields = [fenced |-> TRUE]
           \/ fields = [at |-> "done", fenced |-> TRUE] /\ runs[r].at = "reporting",
           runs' = AG!Update(r, fields), actor' = AG!Busy("fencing", r),
           action' = "PAUSED", start' \in {"none", "retired"},
           UNCHANGED <<registered, started, mediaLock, rows, cancels, finals, speaker>>
    PROVE  MediaInv' /\ RowsKept
<1>. DEFINE new == AG!With(runs[r], fields)
<1>1. runs[r] \in RunRecords
  BY RunFacts
<1>2. /\ new \in RunRecords
      /\ new.at = runs[r].at \/ (runs[r].at = "reporting" /\ new.at = "done")
      /\ new.attempt = runs[r].attempt /\ new.silenced = runs[r].silenced
      /\ new.player = runs[r].player /\ new.spoke = runs[r].spoke /\ new.queued = runs[r].queued
      /\ new.fenced
  <2>1. CASE fields = [fenced |-> TRUE]
    <3>1. new \in RunRecords
      BY ZenonT(60), <1>1, <2>1 DEF AG!With, RunRecords
    <3>2. /\ new.at = runs[r].at /\ new.attempt = runs[r].attempt /\ new.silenced = runs[r].silenced
          /\ new.player = runs[r].player /\ new.spoke = runs[r].spoke /\ new.queued = runs[r].queued
      BY <1>1, <2>1 DEF AG!With, RunRecords
    <3>3. new.fenced
      BY <1>1, <2>1 DEF AG!With, RunRecords
    <3>. QED BY <3>1, <3>2, <3>3
  <2>2. CASE fields = [at |-> "done", fenced |-> TRUE] /\ runs[r].at = "reporting"
    <3>1. new \in RunRecords
      BY ZenonT(60), <1>1, <2>2 DEF AG!With, RunRecords, Late
    <3>2. /\ new.at = "done" /\ new.attempt = runs[r].attempt /\ new.silenced = runs[r].silenced
          /\ new.player = runs[r].player /\ new.spoke = runs[r].spoke /\ new.queued = runs[r].queued
      BY <1>1, <2>2 DEF AG!With, RunRecords
    <3>3. new.fenced
      BY <1>1, <2>2 DEF AG!With, RunRecords
    <3>. QED BY <2>2, <3>1, <3>2, <3>3
  <2>. QED BY <2>1, <2>2
<1>. HIDE DEF new
<1>3. runs' \in [AG!Runs -> RunRecords] /\ runs'[r] = new /\ \A s \in AG!Runs : s # r => runs'[s] = runs[s]
  BY <1>2, RunWritten DEF new
<1>4. /\ actor' \in [waits : {"idle", "fencing", "cancelling"}, run : Handles]
      /\ actor'.waits = "fencing" /\ actor'.run = r
  BY RunFacts DEF AG!Busy
<1>5. MediaRows' /\ OtherRows(r)
  BY <1>3, <1>4, RowsSame DEF MediaInv, MediaRows
<1>6. LockOK(r)' /\ SilenceOK(r)'
  BY <1>2, <1>3, RunFacts DEF LockOK, SilenceOK
<1>7. BeginOK(r)' /\ SpeechOK(r)' /\ RowOK(r)'
  BY <1>2, <1>3, RunFacts DEF BeginOK, SpeechOK, RowOK, Early, Late
<1>8. Frame(r)
  BY <1>3, RunFacts DEF Frame
<1>9. ActorOK'
  BY <1>2, <1>3, <1>4, RunFacts DEF ActorOK, AG!Idle
<1>. QED BY <1>5, <1>6, <1>7, <1>8, <1>9, RunFacts, OneRun DEF OtherRows, RunOK

\* The actor alone goes on: no run is about to be answered.
LEMMA ActorStep ==
    ASSUME MediaInv, UNCHANGED <<runs, registered, started, mediaLock, rows, cancels, finals>>,
           action' = action \/ action' \in {"PREPARING", "PAUSED"}, speaker' \in {speaker, AG!None},
           actor' = AG!Idle, action' # "SPEAKING", start' \in {start, "none", "pending", "retired"}
    PROVE  MediaInv' /\ RowsKept
<1>1. AG!None \in Handles /\ AG!None \notin AG!Runs
  BY MediaAssumption DEF Handles, AG!None, AG!Runs
<1>2. AG!Idle \in [waits : {"idle", "fencing", "cancelling"}, run : Handles] /\ AG!Idle.waits = "idle"
  BY <1>1 DEF AG!Idle
<1>3. MediaRows' /\ RowsKept
  BY <1>1, <1>2, RowsSame DEF MediaInv, MediaRows, OtherRows
<1>4. Frame(AG!None)
  BY DEF MediaInv, MediaRows, Frame, Handles
<1>5. ActorOK'
  BY <1>2 DEF ActorOK
<1>. QED BY <1>1, <1>3, <1>4, <1>5, OneRun

\* match.paused, match.error
LEMMA PauseStep ==
    ASSUME MediaInv, AG!Pause
    PROVE  MediaInv' /\ RowsKept
<1>1. /\ UNCHANGED <<registered, started, mediaLock, rows, cancels, finals, speaker>>
      /\ action' = "PAUSED" /\ start' \in {"none", "retired"}
  BY DEF AG!Pause, AG!Interrupt, AG!RetireStart
<1>2. CASE registered = AG!None /\ actor' = AG!Idle /\ runs' = runs
  BY <1>1, <1>2, ActorStep
<1>3. CASE /\ registered # AG!None /\ actor' = AG!Busy("fencing", registered)
           /\ runs' = AG!Update(registered, [fenced |-> TRUE])
  <2>. PICK r \in AG!Runs : r = registered
    BY <1>3, MediaAssumption DEF MediaInv, MediaRows, Handles, AG!Runs, AG!None
  <2>. DEFINE fields == [fenced |-> TRUE]
  <2>1. fields = [fenced |-> TRUE] /\ runs' = AG!Update(r, fields) /\ actor' = AG!Busy("fencing", r)
    BY <1>3
  <2>. HIDE DEF fields
  <2>. QED BY <1>1, <2>1, FenceStep
<1>. QED BY <1>2, <1>3 DEF AG!Pause, AG!Interrupt

\* handle_agent_failure
LEMMA FailureReportedStep ==
    ASSUME MediaInv, NEW r \in AG!Runs, AG!FailureReported(r)
    PROVE  MediaInv' /\ RowsKept
<1>1. /\ UNCHANGED <<started, rows, cancels, finals, mediaLock, speaker>>
      /\ runs[r].at = "reporting"
  BY DEF AG!FailureReported, AG!Unacted
<1>2. CASE /\ action' = "PAUSED" /\ AG!RetireStart /\ registered' = registered
           /\ runs' = AG!Update(r, [at |-> "done", fenced |-> TRUE]) /\ actor' = AG!Busy("fencing", r)
  <2>. DEFINE fields == [at |-> "done", fenced |-> TRUE]
  <2>1. /\ fields = [at |-> "done", fenced |-> TRUE] /\ runs' = AG!Update(r, fields)
        /\ start' \in {"none", "retired"}
    BY <1>2 DEF AG!RetireStart
  <2>. HIDE DEF fields
  <2>. QED BY <1>1, <1>2, <2>1, FenceStep
<1>3. CASE AG!Return(r) /\ UNCHANGED <<action, start, actor, resetting>>
  <2>1. OtherRows(r) /\ Elsewhere
    BY <1>1, <1>3, RowsSame DEF Elsewhere
  <2>. QED BY <1>1, <1>3, <2>1, ReturnStep DEF OtherRows
<1>. QED BY <1>2, <1>3 DEF AG!FailureReported

\* fence_agent has the lock at last, and silences the run.
LEMMA FenceDoneStep ==
    ASSUME MediaInv, AG!FenceDone
    PROVE  MediaInv' /\ RowsKept
<1>1. /\ UNCHANGED <<started, rows, cancels, finals, registered, mediaLock, start, action, speaker>>
      /\ actor.waits = "fencing" /\ AG!Quiet /\ runs' = AG!Silence(actor.run) /\ actor' = AG!Idle
  BY DEF AG!FenceDone, AG!Unacted
<1>. PICK r \in AG!Runs : r = actor.run
  BY <1>1, MediaAssumption DEF MediaInv, MediaRows, ActorOK, Handles, AG!Runs, AG!None
<1>2. runs[r].fenced /\ action = "PAUSED"
  BY <1>1 DEF MediaInv, ActorOK
<1>3. cancels'[r] # "none" => registered' # r
  BY <1>1, RunFacts DEF SilenceOK
<1>4. /\ runs' \in [AG!Runs -> RunRecords] /\ \A s \in AG!Runs : s # r => runs'[s] = runs[s]
      /\ runs'[r].at = runs[r].at /\ runs'[r].attempt = runs[r].attempt
      /\ runs'[r].fenced = runs[r].fenced /\ runs'[r].player = runs[r].player
      /\ runs'[r].spoke = runs[r].spoke /\ (runs'[r].queued => runs[r].queued)
      /\ SilenceOK(r)'
  BY <1>1, <1>2, <1>3, Silenced
<1>5. AG!Idle \in [waits : {"idle", "fencing", "cancelling"}, run : Handles] /\ AG!Idle.waits = "idle"
  BY MediaAssumption DEF AG!Idle, Handles, AG!None
<1>6. MediaRows' /\ OtherRows(r)
  BY <1>1, <1>4, <1>5, RowsSame DEF MediaInv, MediaRows
<1>7. LockOK(r)' /\ BeginOK(r)' /\ SpeechOK(r)' /\ RowOK(r)'
  BY <1>1, <1>4, RunFacts DEF LockOK, BeginOK, SpeechOK, RowOK
<1>8. Frame(r) /\ ActorOK'
  BY <1>1, <1>2, <1>4, <1>5, RunFacts DEF Frame, ActorOK
<1>. QED BY <1>4, <1>6, <1>7, <1>8, RunFacts, OneRun DEF OtherRows, RunOK

-----------------------------------------------------------------------------
(* The theorems *)

\* Every step of the media keeps the invariant, and what was stored or cancelled.
LEMMA MediaStep ==
    ASSUME MediaInv, AG!Next
    PROVE  MediaInv' /\ RowsKept
<1>1. CASE AG!Resume
  BY <1>1, ActorStep DEF AG!Resume, AG!Unacted
<1>2. CASE AG!ResetDone
  BY <1>2, ActorStep DEF AG!ResetDone, AG!Unacted
<1>3. ASSUME NEW r \in AG!Runs, AG!Produce(r) \/ AG!Fail(r) \/ AG!Unwind(r) \/ AG!Play(r)
                                \/ AG!StopPlayer(r) \/ AG!Cancel(r) \/ AG!Finalize(r)
      PROVE  MediaInv' /\ RowsKept
  BY <1>3, ProduceStep, FailStep, UnwindStep, PlayStep, StopPlayerStep, CancelStep, FinalizeStep
<1>4. ASSUME NEW r \in AG!Runs, AG!PlaybackStarted(r) \/ AG!PlaybackFinished(r) \/ AG!Finalized(r)
                                \/ AG!FailureReported(r)
      PROVE  MediaInv' /\ RowsKept
  BY <1>4, PlaybackStartedStep, PlaybackFinishedStep, FinalizedStep, FailureReportedStep
<1>. QED BY <1>1, <1>2, <1>3, <1>4, StartStep, ResetInterruptedStep, SpeechDeadlineStep, PauseStep,
            FenceDoneStep, ResetSpeechStep DEF AG!Next

\* Nothing has happened at the start.
LEMMA MediaStart ==
    ASSUME AG!Init
    PROVE  MediaInv
<1>1. AG!NoRun \in RunRecords
  BY DEF AG!NoRun, RunRecords, Early
<1>2. /\ AG!NoRun.at = "none" /\ AG!NoRun.player = "none" /\ AG!NoRun.attempt = 1
      /\ ~AG!NoRun.silenced /\ ~AG!NoRun.spoke /\ ~AG!NoRun.queued
  BY DEF AG!NoRun
<1>3. AG!Idle \in [waits : {"idle", "fencing", "cancelling"}, run : Handles] /\ AG!Idle.waits = "idle"
  BY MediaAssumption DEF AG!Idle, Handles, AG!None
<1>4. MediaRows
  BY <1>1, <1>3, MediaAssumption DEF MediaRows, AG!Init, RowStates, CancelStates, FinalStates, AG!None, Handles
<1>5. ActorOK
  BY <1>3 DEF ActorOK, AG!Init
<1>6. ASSUME NEW r \in AG!Runs
      PROVE  RunOK(r)
  <2>1. /\ runs[r] = AG!NoRun /\ cancels[r] = "none" /\ finals[r] = "none"
        /\ speaker # r /\ mediaLock # r /\ action = "PREPARING"
        /\ rows[<<r, 1>>] = "none" /\ rows[<<r, 2>>] = "none"
    BY <1>6 DEF AG!Init, AG!None, AG!Runs
  <2>2. LockOK(r) /\ SilenceOK(r)
    BY <1>2, <2>1 DEF LockOK, SilenceOK
  <2>3. BeginOK(r) /\ SpeechOK(r) /\ RowOK(r)
    BY <1>2, <2>1 DEF BeginOK, SpeechOK, RowOK
  <2>. QED BY <2>2, <2>3 DEF RunOK
<1>. QED BY <1>4, <1>5, <1>6 DEF MediaInv

\* A step in which the media stays as it is.
LEMMA MediaStutter ==
    ASSUME MediaInv, UNCHANGED media
    PROVE  MediaInv' /\ RowsKept
BY DEF media, MediaInv, MediaRows, ActorOK, RunOK, LockOK, SilenceOK, BeginOK, SpeechOK, RowOK, RowsKept

\* So the invariant holds throughout, whatever else the behaviour is of.
LEMMA MediaNext ==
    ASSUME MediaInv, [MCNext]_MCvars
    PROVE  MediaInv' /\ RowsKept
BY MediaStep, MediaStutter DEF MCNext, OfDebate, OfMedia, OfSpeech, MCvars

\* The lock of the media, its fences, its finalizations and its rows agree.
THEOREM MediaInvariance == MCSpec => []MediaInv
<1>1. MCInit => MediaInv
  BY MediaStart DEF MCInit
<1>2. MediaInv /\ [MCNext]_MCvars => MediaInv'
  BY MediaNext
<1>. QED BY <1>1, <1>2, PTL DEF MCSpec

\* runtime.py, _cancel_run: a generation that was silenced by a reset or a fence
\* never has a frame queued again, in any number of runs, pauses and failures.
THEOREM SilencedStaysSilent == MCSpec => []NoLateAudio
<1>1. MediaInv => NoLateAudio
  BY RunFacts DEF NoLateAudio, AG!NoLateAudio, SilenceOK
<1>. QED BY <1>1, MediaInvariance, PTL

\* finalize_agent and _cancel_run settle a row once: what was stored stays
\* stored and a speech that was cancelled is never stored after all.
THEOREM RowsSettleOnce == MCSpec => SettledOnce
<1>1. MediaInv /\ [MCNext]_MCvars => [RowsKept]_AG!agentVars
  BY MediaNext
<1>. QED BY <1>1, MediaInvariance, PTL DEF MCSpec, SettledOnce, AG!SettledOnce, RowsKept

-----------------------------------------------------------------------------
(* The recognition of a human: the inductive invariant *)

\* The text of a session is what came with it and the audio confirmed since.
Fits(s) ==
    /\ s \in RG!Sessions
    /\ s.confirmed <= Len(s.history) /\ Len(s.history) <= MaxAudio
    /\ s.text = s.initial \o SubSeq(s.history, 1, s.confirmed)
    /\ s.at \in {"saving", "reporting"} => s.confirmed = Len(s.history)
    /\ s.retriesLeft = 1 => ~s.retried /\ ~s.replay

\* All that was heard is the text that came with a session and its audio.
Whole(s) == s.initial \o s.history = heard

SpeechTypes ==
    /\ core \in [status : {"RUNNING", "PAUSED", "ERROR", "DONE"},
                 action : {"READY", "STARTING", "SPEAKING", "FINALIZING"},
                 failed : BOOLEAN, operation : BOOLEAN]
    /\ Fits(session) /\ Fits(retained.session)
    /\ retained \in [session : RG!Sessions, current : BOOLEAN]
    /\ retained.session.envelope <= envelopes
    /\ paused \in [kept : BOOLEAN, text : RG!Audio, retried : BOOLEAN]
    /\ pauseRequested \in BOOLEAN /\ waits \in [finish : BOOLEAN, pause : BOOLEAN, retry : BOOLEAN]
    /\ heard \in RG!Audio /\ Len(heard) <= MaxAudio
    /\ envelopes \in Nat /\ replays \in {0, 1}

\* A retry is of a match in error, a start of one that runs; what is stored is
\* the end of the speech.
CoreOK ==
    /\ core.operation => core.status = "ERROR"
    /\ core.action = "STARTING" =>
         core.status = "RUNNING" /\ (RG!HasSession => session.at = "ready" /\ ~session.replay)
    /\ stored # RG!NotStored =>
         core.status = "DONE" /\ core.action = "FINALIZING" /\ ~RG!HasSession /\ stored = heard

\* A session holds all that was heard. One that has failed is also retained;
\* before that nothing is, but the source of a replay.
LiveOK ==
    RG!HasSession =>
        /\ session.envelope \in 1..envelopes /\ session.at # "none"
        /\ Whole(session) /\ paused = RG!NotPaused
        /\ pauseRequested => session.fenced /\ ~session.replay
        /\ session.replay => core.status = "ERROR"
        /\ session.at = "failing" => Whole(retained.session)
        /\ session.at # "failing" => retained.session.envelope # session.envelope
        /\ session.at # "failing" /\ ~session.replay => retained = RG!NoSource
        /\ ~session.retried /\ ~session.replay => replays = 0

\* Without a session a checkpoint holds it, or else the recording.
GoneOK ==
    ~RG!HasSession =>
        /\ ~pauseRequested
        /\ stored = RG!NotStored =>
             /\ paused.kept => /\ paused.text = heard /\ retained = RG!NoSource
                               /\ ~paused.retried => replays = 0
             /\ ~paused.kept => paused = RG!NotPaused /\ Whole(retained.session)

\* A final text on its way to the actor is all of the session that reports it.
ReportOK(r) ==
    /\ r \in [kind : {"finalized", "failed", "retry failed"}, envelope : 0..envelopes,
              text : RG!Audio, recovery : BOOLEAN]
    /\ r.kind = "finalized" =>
         /\ r.envelope # 0 /\ ~r.recovery
         /\ RG!HasSession /\ session.envelope = r.envelope =>
              session.at = "reporting" /\ r.text = session.text
         /\ retained.session.envelope = r.envelope =>
              /\ r.text = retained.session.text
              /\ retained.session.confirmed = Len(retained.session.history)

SpeechInv == SpeechTypes /\ CoreOK /\ LiveOK /\ GoneOK /\ \A r \in reports : ReportOK(r)

-----------------------------------------------------------------------------
(* Texts *)

\* A prefix of a sequence and the rest of it are sequences of the same members.
LEMMA PrefixAndRest ==
    ASSUME NEW S, NEW h \in Seq(S), NEW c \in Nat, c <= Len(h)
    PROVE  /\ SubSeq(h, 1, c) \in Seq(S) /\ SubSeq(h, c + 1, Len(h)) \in Seq(S)
           /\ Len(SubSeq(h, c + 1, Len(h))) = Len(h) - c
           /\ SubSeq(h, 1, c) \o SubSeq(h, c + 1, Len(h)) = h
<1>1. Len(h) \in Nat
  BY LenProperties
<1>2. ASSUME NEW k \in 1..Len(h) PROVE h[k] \in S
  BY ElementOfSeq
<1>3. SubSeq(h, 1, c) \in Seq(S)
  <2>1. \A k \in 1..c : h[k] \in S
    BY <1>1, <1>2
  <2>. QED BY <2>1, SubSeqProperties
<1>4. /\ SubSeq(h, c + 1, Len(h)) \in Seq(S)
      /\ Len(SubSeq(h, c + 1, Len(h))) = IF c + 1 <= Len(h) THEN Len(h) - (c + 1) + 1 ELSE 0
  <2>1. \A k \in c + 1 .. Len(h) : h[k] \in S
    BY <1>1, <1>2
  <2>2. c + 1 \in Int /\ Len(h) \in Int
    BY <1>1
  <2>. QED BY <2>1, <2>2, SubSeqProperties
<1>5. SubSeq(h, 1, c) \o SubSeq(h, c + 1, Len(h)) = h
  <2>1. 1 \in 1..Len(h) + 1 /\ c \in 1 - 1 .. Len(h) /\ Len(h) \in c..Len(h)
    BY <1>1
  <2>2. SubSeq(h, 1, c) \o SubSeq(h, c + 1, Len(h)) = SubSeq(h, 1, Len(h))
    BY <2>1, ConcatAdjacentSubSeq
  <2>. QED BY <2>2, SubSeqFull
<1>6. Len(SubSeq(h, c + 1, Len(h))) = Len(h) - c
  <2>1. (IF c + 1 <= Len(h) THEN Len(h) - (c + 1) + 1 ELSE 0) = Len(h) - c
    BY <1>1
  <2>. QED BY <2>1, <1>4
<1>. QED BY <1>3, <1>4, <1>5, <1>6

\* Of three sequences the first two may be joined first, or the last two.
Associates(S, i, a, b) ==
    i \in Seq(S) /\ a \in Seq(S) /\ b \in Seq(S) => (i \o a) \o b = i \o (a \o b)

\* Joining sequences is associative, whatever their members.
LEMMA Appended == \A S, i, a, b : Associates(S, i, a, b)
<1>. SUFFICES ASSUME NEW S, NEW i \in Seq(S), NEW a \in Seq(S), NEW b \in Seq(S)
             PROVE  (i \o a) \o b = i \o (a \o b)
  BY SMTT(60) DEF Associates
<1>. QED BY ConcatAssociative, SMTT(60)

\* A text, the confirmed prefix of its audio and the rest of it are all of it.
LEMMA TextOfRest ==
    ASSUME NEW S, NEW i \in Seq(S), NEW h \in Seq(S), NEW c \in Nat, c <= Len(h)
    PROVE  /\ (i \o SubSeq(h, 1, c)) \in Seq(S)
           /\ (i \o SubSeq(h, 1, c)) \o SubSeq(h, c + 1, Len(h)) = i \o h
           /\ SubSeq(h, c + 1, Len(h)) = << >> => i \o SubSeq(h, 1, c) = i \o h /\ c = Len(h)
           /\ c = Len(h) => SubSeq(h, c + 1, Len(h)) = << >> /\ i \o SubSeq(h, 1, c) = i \o h
<1>1. /\ SubSeq(h, 1, c) \in Seq(S) /\ SubSeq(h, c + 1, Len(h)) \in Seq(S)
      /\ Len(SubSeq(h, c + 1, Len(h))) = Len(h) - c
      /\ SubSeq(h, 1, c) \o SubSeq(h, c + 1, Len(h)) = h
  BY PrefixAndRest
<1>2. (i \o SubSeq(h, 1, c)) \in Seq(S)
  BY <1>1, ConcatProperties
<1>3. (i \o SubSeq(h, 1, c)) \o SubSeq(h, c + 1, Len(h)) = i \o h
  <2>1. PICK a, b : a = SubSeq(h, 1, c) /\ b = SubSeq(h, c + 1, Len(h))
    OBVIOUS
  <2>2. a \in Seq(S) /\ b \in Seq(S)
    BY <1>1, <2>1
  <2>3. (i \o a) \o b = i \o (a \o b)
    <3>1. Associates(S, i, a, b)
      BY Appended
    <3>. QED BY <3>1, <2>2 DEF Associates
  <2>4. a \o b = h
    BY <1>1, <2>1
  <2>. QED BY <2>1, <2>3, <2>4
<1>4. Len(h) \in Nat
  BY LenProperties
<1>5. ASSUME SubSeq(h, c + 1, Len(h)) = << >>
      PROVE  i \o SubSeq(h, 1, c) = i \o h /\ c = Len(h)
  <2>1. (i \o SubSeq(h, 1, c)) \o << >> = i \o SubSeq(h, 1, c)
    BY <1>2, ConcatEmptySeq
  <2>2. Len(h) - c = 0
    BY <1>1, <1>5, EmptySeq
  <2>. QED BY <1>3, <1>4, <1>5, <2>1, <2>2
<1>6. c = Len(h) => SubSeq(h, c + 1, Len(h)) = << >>
  <2>1. c = Len(h) => Len(SubSeq(h, c + 1, Len(h))) = 0
    BY <1>1, <1>4
  <2>. QED BY <2>1, <1>1, EmptySeq
<1>. QED BY <1>2, <1>3, <1>5, <1>6

\* A piece is appended to the audio that follows a text.
LEMMA OneMore ==
    ASSUME NEW S, NEW i \in Seq(S), NEW h \in Seq(S), NEW e \in S
    PROVE  /\ Append(h, e) \in Seq(S) /\ Len(Append(h, e)) = Len(h) + 1
           /\ i \o Append(h, e) = Append(i \o h, e)
           /\ Len(Append(i \o h, e)) = Len(i) + Len(h) + 1
           /\ (i \o h) \in Seq(S) /\ Len(i \o h) = Len(i) + Len(h)
           /\ Len(i) \in Nat /\ Len(h) \in Nat
           /\ \A c \in 0..Len(h) : SubSeq(Append(h, e), 1, c) = SubSeq(h, 1, c)
<1>1. Append(h, e) \in Seq(S) /\ Len(Append(h, e)) = Len(h) + 1
  BY AppendProperties
<1>2. Append(h, e) = h \o <<e>> /\ <<e>> \in Seq(S) /\ Len(<<e>>) = 1
  BY AppendIsConcat
<1>3. (i \o h) \in Seq(S) /\ Len(i \o h) = Len(i) + Len(h) /\ Len(i) \in Nat /\ Len(h) \in Nat
  BY ConcatProperties, LenProperties
<1>4. PICK g, u : g = i \o h /\ u = <<e>>
  OBVIOUS
<1>5. Append(g, e) = g \o u /\ Len(Append(g, e)) = Len(g) + 1
  BY <1>3, <1>4, AppendIsConcat, AppendProperties
<1>6. i \o (h \o u) = (i \o h) \o u
  <2>1. Associates(S, i, h, u)
    BY Appended
  <2>. QED BY <1>2, <1>4, <2>1 DEF Associates
<1>7. ASSUME NEW c \in 0..Len(h) PROVE SubSeq(Append(h, e), 1, c) = SubSeq(h, 1, c)
  <2>1. CASE c = 0
    BY <2>1, SubSeqEmpty
  <2>2. CASE c # 0
    <3>1. 1 \in 1..Len(h) /\ c \in 1..Len(h)
      BY <1>3, <2>2
    <3>2. SubSeq(h \o <<e>>, 1, c) = SubSeq(h, 1, c)
      BY <1>2, <3>1, SubSeqOfConcat1
    <3>. QED BY <1>2, <3>2
  <2>. QED BY <2>1, <2>2
<1>. QED BY <1>1, <1>2, <1>3, <1>4, <1>5, <1>6, <1>7

\* A text that follows a prefix of some audio goes on to a longer prefix.
LEMMA TextTo ==
    ASSUME NEW S, NEW i \in Seq(S), NEW h \in Seq(S), NEW c \in Nat, NEW n \in Nat,
           c <= n, n <= Len(h)
    PROVE  /\ (i \o SubSeq(h, 1, c)) \o SubSeq(h, c + 1, n) = i \o SubSeq(h, 1, n)
           /\ (i \o SubSeq(h, 1, n)) \in Seq(S)
<1>1. Len(h) \in Nat
  BY LenProperties
<1>2. ASSUME NEW k \in 1..Len(h) PROVE h[k] \in S
  BY ElementOfSeq
<1>3. SubSeq(h, 1, c) \in Seq(S) /\ SubSeq(h, 1, n) \in Seq(S)
  <2>1. (\A k \in 1..c : h[k] \in S) /\ (\A k \in 1..n : h[k] \in S)
    BY <1>1, <1>2
  <2>. QED BY <2>1, SubSeqProperties
<1>4. SubSeq(h, c + 1, n) \in Seq(S)
  <2>1. \A k \in c + 1 .. n : h[k] \in S
    BY <1>1, <1>2
  <2>. QED BY <2>1, SubSeqProperties
<1>5. SubSeq(h, 1, c) \o SubSeq(h, c + 1, n) = SubSeq(h, 1, n)
  <2>1. 1 \in 1..Len(h) + 1 /\ c \in 1 - 1 .. Len(h) /\ n \in c..Len(h)
    BY <1>1
  <2>. QED BY <2>1, ConcatAdjacentSubSeq
<1>6. PICK a, b : a = SubSeq(h, 1, c) /\ b = SubSeq(h, c + 1, n)
  OBVIOUS
<1>7. (i \o a) \o b = i \o (a \o b)
  <2>1. Associates(S, i, a, b)
    BY Appended
  <2>2. a \in Seq(S) /\ b \in Seq(S)
    BY <1>3, <1>4, <1>6
  <2>. QED BY <2>1, <2>2 DEF Associates
<1>8. (i \o SubSeq(h, 1, n)) \in Seq(S)
  BY <1>3, ConcatProperties, ZenonT(60)
<1>. QED BY <1>5, <1>6, <1>7, <1>8

\* What is confirmed and what is not are the audio of a session.
LEMMA TextAndRest ==
    ASSUME NEW s, Fits(s)
    PROVE  /\ s.text \o RG!Unconfirmed(s) = s.initial \o s.history
           /\ RG!Unconfirmed(s) \in RG!Audio
           /\ RG!Unconfirmed(s) = << >> =>
                s.text = s.initial \o s.history /\ s.confirmed = Len(s.history)
           /\ s.confirmed = Len(s.history) =>
                RG!Unconfirmed(s) = << >> /\ s.text = s.initial \o s.history
           /\ Len(RG!Unconfirmed(s)) = Len(s.history) - s.confirmed
<1>1. /\ s.history \in Seq(1..MaxAudio) /\ s.initial \in Seq(1..MaxAudio)
      /\ s.confirmed \in Nat /\ s.confirmed <= Len(s.history)
      /\ s.text = s.initial \o SubSeq(s.history, 1, s.confirmed)
  BY MediaAssumption DEF Fits, RG!Sessions, RG!Audio
<1>2. RG!Unconfirmed(s) = SubSeq(s.history, s.confirmed + 1, Len(s.history))
  BY SMTT(60) DEF RG!Unconfirmed
<1>3. /\ (s.initial \o SubSeq(s.history, 1, s.confirmed))
           \o SubSeq(s.history, s.confirmed + 1, Len(s.history)) = s.initial \o s.history
      /\ SubSeq(s.history, s.confirmed + 1, Len(s.history)) = << >> =>
           /\ s.initial \o SubSeq(s.history, 1, s.confirmed) = s.initial \o s.history
           /\ s.confirmed = Len(s.history)
      /\ s.confirmed = Len(s.history) =>
           /\ SubSeq(s.history, s.confirmed + 1, Len(s.history)) = << >>
           /\ s.initial \o SubSeq(s.history, 1, s.confirmed) = s.initial \o s.history
  <2>1. PICK S, i, h, c : S = 1..MaxAudio /\ i = s.initial /\ h = s.history /\ c = s.confirmed
    OBVIOUS
  <2>2. i \in Seq(S) /\ h \in Seq(S) /\ c \in Nat /\ c <= Len(h)
    BY <1>1, <2>1
  <2>3. /\ (i \o SubSeq(h, 1, c)) \in Seq(S)
        /\ (i \o SubSeq(h, 1, c)) \o SubSeq(h, c + 1, Len(h)) = i \o h
        /\ SubSeq(h, c + 1, Len(h)) = << >> => i \o SubSeq(h, 1, c) = i \o h /\ c = Len(h)
        /\ c = Len(h) => SubSeq(h, c + 1, Len(h)) = << >> /\ i \o SubSeq(h, 1, c) = i \o h
    BY <2>2, TextOfRest, ZenonT(60)
  <2>. QED BY <2>1, <2>3
<1>4. /\ SubSeq(s.history, s.confirmed + 1, Len(s.history)) \in Seq(1..MaxAudio)
      /\ Len(SubSeq(s.history, s.confirmed + 1, Len(s.history))) = Len(s.history) - s.confirmed
  BY <1>1, PrefixAndRest
<1>. QED BY <1>1, <1>2, <1>3, <1>4 DEF RG!Audio

-----------------------------------------------------------------------------
(* Sessions *)

\* Two sessions with the same text and audio.
Kin(s, t) ==
    /\ t \in RG!Sessions
    /\ t.envelope = s.envelope /\ t.initial = s.initial /\ t.text = s.text /\ t.history = s.history
    /\ t.confirmed = s.confirmed /\ t.retriesLeft = s.retriesLeft /\ t.retried = s.retried
    /\ t.replay = s.replay

\* The text of a session fits if that of one with the same text and audio does.
LEMMA KinFits ==
    ASSUME NEW s, NEW t, Fits(s), Kin(s, t),
           t.at \in {"saving", "reporting"} => s.confirmed = Len(s.history)
    PROVE  Fits(t) /\ RG!Unconfirmed(t) = RG!Unconfirmed(s)
BY DEF Fits, Kin, RG!Unconfirmed

\* The input of a session is closed.
LEMMA Closed ==
    ASSUME NEW s \in RG!Sessions, NEW t, t = [s EXCEPT !.closed = TRUE]
    PROVE  Kin(s, t) /\ t.at = s.at /\ t.fenced = s.fenced
<1>1. t \in RG!Sessions
  BY DEF RG!Sessions
<1>. QED BY <1>1 DEF RG!Sessions, Kin

\* A session is closed and fenced by a pause.
LEMMA Fenced ==
    ASSUME NEW s \in RG!Sessions, NEW t, t = [s EXCEPT !.closed = TRUE, !.fenced = TRUE]
    PROVE  Kin(s, t) /\ t.at = s.at /\ t.fenced
<1>1. t \in RG!Sessions
  BY DEF RG!Sessions
<1>2. Kin(s, t)
  BY <1>1 DEF RG!Sessions, Kin
<1>3. t.at = s.at
  BY DEF RG!Sessions
<1>4. t.fenced
  BY DEF RG!Sessions
<1>. QED BY <1>2, <1>3, <1>4

\* A retry is cancelled: its session is fenced (_cancel_retry).
LEMMA FencedOnly ==
    ASSUME NEW s \in RG!Sessions, NEW t, t = [s EXCEPT !.fenced = TRUE]
    PROVE  Kin(s, t) /\ t.at = s.at
<1>1. t \in RG!Sessions
  BY DEF RG!Sessions
<1>. QED BY <1>1 DEF RG!Sessions, Kin

\* A session moves on in AsrSpeechSession.run.
LEMMA Moved ==
    ASSUME NEW s \in RG!Sessions, NEW t, NEW at \in {"streaming", "reporting", "failing"},
           t = [s EXCEPT !.at = at]
    PROVE  Kin(s, t) /\ t.at = at /\ t.fenced = s.fenced
<1>1. t \in RG!Sessions
  BY DEF RG!Sessions
<1>2. Kin(s, t)
  BY <1>1 DEF RG!Sessions, Kin
<1>3. t.at = at
  BY DEF RG!Sessions
<1>4. t.fenced = s.fenced
  BY DEF RG!Sessions
<1>. QED BY <1>2, <1>3, <1>4

\* The fields of no session.
LEMMA NoSessionFields ==
    /\ RG!NoSession \in RG!Sessions
    /\ RG!NoSession.envelope = 0 /\ RG!NoSession.at = "none" /\ RG!NoSession.history = << >>
    /\ RG!NoSession.initial = << >> /\ RG!NoSession.text = << >> /\ RG!NoSession.confirmed = 0
    /\ ~RG!NoSession.closed /\ ~RG!NoSession.fenced /\ RG!NoSession.retriesLeft = 0
    /\ ~RG!NoSession.retried /\ ~RG!NoSession.replay
<1>1. << >> \in RG!Audio
  BY EmptySeq DEF RG!Audio
<1>2. RG!NoSession \in RG!Sessions
  BY <1>1, MediaAssumption DEF RG!Sessions, RG!NoSession
<1>. QED BY <1>2 DEF RG!NoSession

\* A session of no audio has the text that came with it.
LEMMA NoAudioFits ==
    ASSUME NEW s \in RG!Sessions, s.history = << >>, s.confirmed = 0, s.text = s.initial,
           s.retriesLeft = 1 => ~s.retried /\ ~s.replay
    PROVE  Fits(s) /\ s.initial \o s.history = s.initial
<1>1. s.initial \in Seq(1..MaxAudio)
  BY DEF RG!Sessions, RG!Audio
<1>2. s.initial \o << >> = s.initial
  BY <1>1, ConcatEmptySeq
<1>3. SubSeq(s.history, 1, s.confirmed) = << >>
  <2>1. \A x : SubSeq(x, 1, 0) = << >>
    BY SubSeqEmpty
  <2>. QED BY <2>1
<1>4. Len(s.history) = 0
  BY EmptySeq
<1>5. s.text = s.initial \o SubSeq(s.history, 1, s.confirmed)
  <2>1. PICK x : x = SubSeq(s.history, 1, s.confirmed)
    OBVIOUS
  <2>2. x = << >>
    BY <1>3, <2>1
  <2>3. s.text = s.initial \o x
    BY <1>2, <2>2
  <2>. QED BY <2>1, <2>3
<1>6. s.confirmed <= Len(s.history) /\ Len(s.history) <= MaxAudio /\ s.confirmed = Len(s.history)
  BY <1>4, MediaAssumption
<1>7. s.initial \o s.history = s.initial
  BY <1>2
<1>. QED BY <1>5, <1>6, <1>7, Zenon DEF Fits

\* There is no audio in no session.
LEMMA NothingFits ==
    Fits(RG!NoSession) /\ RG!NoSession.initial \o RG!NoSession.history = << >> /\ << >> \in RG!Audio
BY NoSessionFields, NoAudioFits DEF RG!Sessions

-----------------------------------------------------------------------------
(* The receiver *)

\* The reports of n envelopes.
Reports(n) ==
    [kind : {"finalized", "failed", "retry failed"}, envelope : 0..n, text : RG!Audio,
     recovery : BOOLEAN]

\* Envelopes are numbered from one.
LEMMA Ranges == \A n \in Nat : (\A e \in 1..n : e \in 0..n) /\ (\A e \in 0..n : e <= n)
OBVIOUS

\* A failure that is reported, by the session or by a pause that waited for it.
LEMMA FailureReport ==
    ASSUME NEW s \in RG!Sessions, NEW n, s.envelope \in 0..n
    PROVE  /\ \A kind \in {"failed", "retry failed"} :
                RG!Report(kind, s) \in Reports(n) /\ RG!Report(kind, s).kind = kind
           /\ [RG!Report("failed", s) EXCEPT !.recovery = TRUE] \in Reports(n)
           /\ [RG!Report("failed", s) EXCEPT !.recovery = TRUE].kind = "failed"
<1>1. ASSUME NEW kind \in {"failed", "retry failed"}
      PROVE  RG!Report(kind, s) \in Reports(n) /\ RG!Report(kind, s).kind = kind
  <2>1. s.envelope \in 0..n /\ s.text \in RG!Audio
    BY DEF RG!Sessions
  <2>2. RG!Report(kind, s).kind = kind
    BY DEF RG!Report
  <2>3. RG!Report(kind, s) \in Reports(n)
    BY <2>1 DEF RG!Report, Reports
  <2>. QED BY <2>2, <2>3
<1>2. PICK r : r = RG!Report("failed", s)
  OBVIOUS
<1>3. r \in Reports(n) /\ r.kind = "failed"
  BY <1>1, <1>2
<1>4. [r EXCEPT !.recovery = TRUE] \in Reports(n)
  BY <1>3 DEF Reports
<1>5. [r EXCEPT !.recovery = TRUE].kind = "failed"
  BY <1>3 DEF Reports
<1>. QED BY <1>1, <1>2, <1>4, <1>5

\* While there is a session its speech is not stored.
LEMMA NotStoredYet ==
    SpeechInv /\ RG!HasSession => stored = RG!NotStored
BY DEF SpeechInv, CoreOK

\* What the end of a session leaves: a checkpoint or a recording of all that was
\* heard (_run_speech, in its finally).
Left(p, source) ==
    /\ p \in [kept : BOOLEAN, text : RG!Audio, retried : BOOLEAN]
    /\ source \in [session : RG!Sessions, current : BOOLEAN]
    /\ Fits(source.session) /\ source.session.envelope <= envelopes

\* The match after the end: it goes on, or what was heard is stored.
Holds(p, source) ==
    \/ /\ stored' = stored
       /\ p.kept => p.text = heard /\ source = RG!NoSource /\ (~p.retried => replays = 0)
       /\ ~p.kept => p = RG!NotPaused /\ Whole(source.session)
    \/ stored' = heard /\ core'.status = "DONE" /\ core'.action = "FINALIZING"

CoreTypes ==
    core \in [status : {"RUNNING", "PAUSED", "ERROR", "DONE"},
              action : {"READY", "STARTING", "SPEAKING", "FINALIZING"},
              failed : BOOLEAN, operation : BOOLEAN]

\* What is stored is told from what is not.
LEMMA HeardIsNoMark == SpeechInv => heard # RG!NotStored
<1>. SUFFICES ASSUME SpeechInv, heard = << 0 >> PROVE FALSE
  BY DEF RG!NotStored
<1>1. heard \in Seq(1..MaxAudio)
  BY DEF SpeechInv, SpeechTypes, RG!Audio
<1>2. << 0 >> \in Seq(1..MaxAudio)
  BY <1>1
<1>3. << 0 >>[1] \in 1..MaxAudio
  BY <1>2, ElementOfSeq
<1>. QED BY <1>3

\* The end of a session keeps the invariant.
LEMMA EndKeeps ==
    ASSUME SpeechInv, RG!HasSession, NEW p, NEW source, NEW others,
           RG!End(p, source, others), Left(p, source), Holds(p, source),
           CoreTypes', core'.operation => core'.status = "ERROR",
           core'.action = "STARTING" => core'.status = "RUNNING",
           others \subseteq reports,
           \A r \in others : r.kind = "finalized" /\ source.session.envelope = r.envelope =>
             r.text = source.session.text
               /\ source.session.confirmed = Len(source.session.history),
           UNCHANGED <<envelopes, heard, replays>>
    PROVE  SpeechInv'
<1>1. /\ session' = RG!NoSession /\ paused' = p /\ retained' = source /\ ~pauseRequested'
      /\ waits' = RG!Nobody /\ pauseRequested' = FALSE
  BY DEF RG!End
<1>2. envelopes' = envelopes /\ heard' = heard /\ replays' = replays
  OBVIOUS
<1>3. SpeechTypes'
  <2>1. waits' \in [finish : BOOLEAN, pause : BOOLEAN, retry : BOOLEAN]
    BY <1>1 DEF RG!Nobody
  <2>. QED BY ZenonT(60), <1>1, <1>2, <2>1, NothingFits DEF SpeechTypes, SpeechInv, Left, CoreTypes
<1>4. ~RG!HasSession'
  BY <1>1 DEF RG!HasSession
<1>5. CoreOK'
  BY <1>2, <1>4, NotStoredYet DEF CoreOK, Holds
<1>6. stored' = RG!NotStored =>
        /\ p.kept => p.text = heard /\ source = RG!NoSource /\ (~p.retried => replays = 0)
        /\ (~p.kept => p = RG!NotPaused /\ Whole(source.session))
  BY HeardIsNoMark DEF Holds
<1>7. GoneOK'
  BY <1>1, <1>2, <1>6 DEF GoneOK, Whole
<1>8. LiveOK'
  BY <1>4 DEF LiveOK
<1>9. ASSUME NEW r \in reports' PROVE ReportOK(r)'
  <2>1. session \in RG!Sessions /\ session.envelope \in 0..envelopes
    BY DEF SpeechInv, SpeechTypes, LiveOK, Fits, RG!Sessions
  <2>2. CASE r \in others
    BY <1>1, <1>2, <1>4, <2>2 DEF ReportOK, SpeechInv
  <2>3. CASE r = [RG!Report("failed", session) EXCEPT !.recovery = TRUE]
    BY <1>2, <2>1, <2>3, FailureReport DEF ReportOK, Reports
  <2>. QED BY <2>2, <2>3 DEF RG!End
<1>. QED BY <1>3, <1>5, <1>7, <1>8, <1>9 DEF SpeechInv

\* The recording of a session that failed.
LEMMA RecordingOf ==
    ASSUME SpeechInv, RG!HasSession, NEW s, Kin(session, s), s.at \notin {"saving", "reporting"},
           NEW source, NEW current \in BOOLEAN, source = [session |-> s, current |-> current]
    PROVE  /\ source \in [session : RG!Sessions, current : BOOLEAN]
           /\ source.session = s /\ Fits(s) /\ Whole(s) /\ s.envelope <= envelopes
           /\ s.envelope = session.envelope
<1>1. Fits(session) /\ Whole(session) /\ session.envelope <= envelopes /\ envelopes \in Nat
  BY DEF SpeechInv, SpeechTypes, LiveOK, Fits, RG!Sessions
<1>2. Fits(s)
  BY <1>1, KinFits
<1>. QED BY <1>1, <1>2 DEF Kin, Whole

\* A checkpoint of a session without unconfirmed audio is all that was heard.
LEMMA CheckpointWhole ==
    ASSUME SpeechInv, RG!HasSession, RG!Unconfirmed(session) = << >>,
           pauseRequested, session.at # "failing", NEW p, p = RG!Checkpoint(session)
    PROVE  /\ p \in [kept : BOOLEAN, text : RG!Audio, retried : BOOLEAN] /\ p.kept
           /\ p.text = heard /\ retained = RG!NoSource /\ (~p.retried => replays = 0)
<1>1. Fits(session) /\ Whole(session) /\ ~session.replay /\ (~session.retried => replays = 0)
  BY DEF SpeechInv, SpeechTypes, LiveOK
<1>2. retained = RG!NoSource
  BY <1>1 DEF SpeechInv, LiveOK
<1>3. session.text = heard
  BY <1>1, TextAndRest DEF Whole
<1>4. session \in RG!Sessions
  BY <1>1 DEF Fits
<1>. QED BY <1>1, <1>2, <1>3, <1>4 DEF RG!Checkpoint, RG!Sessions

\* What is left when a session fails: its recording, in _retained_speech.
LEMMA RunFailsKeeps ==
    ASSUME SpeechInv, RG!HasSession, session.at # "failing", NEW others, others \subseteq reports,
           \A r \in others : r.kind = "finalized" => r.envelope # session.envelope,
           RG!RunFails(session, others), UNCHANGED <<core, stored, envelopes, heard, replays>>
    PROVE  SpeechInv'
<1>1. Fits(session) /\ session \in RG!Sessions /\ Whole(session) /\ paused = RG!NotPaused
  BY DEF SpeechInv, SpeechTypes, LiveOK, Fits
<1>2. PICK c : c = [session EXCEPT !.closed = TRUE]
  OBVIOUS
<1>3. PICK f : f = [c EXCEPT !.at = "failing"]
  OBVIOUS
<1>4. Kin(session, f) /\ f.at = "failing" /\ f.fenced = session.fenced
  <2>1. Kin(session, c) /\ c.fenced = session.fenced
    BY <1>1, <1>2, Closed
  <2>2. Kin(c, f) /\ f.at = "failing" /\ f.fenced = c.fenced
    BY <1>3, <2>1, Moved DEF Kin
  <2>. QED BY <2>1, <2>2 DEF Kin
<1>5. PICK source : source = [session |-> f, current |-> TRUE]
  OBVIOUS
<1>6. /\ source \in [session : RG!Sessions, current : BOOLEAN] /\ source.session = f /\ Fits(f)
      /\ Whole(f) /\ f.envelope <= envelopes /\ f.envelope = session.envelope
  BY <1>4, <1>5, RecordingOf
<1>7. /\ CoreTypes' /\ (core'.operation => core'.status = "ERROR")
      /\ (core'.action = "STARTING" => core'.status = "RUNNING")
  BY DEF SpeechInv, SpeechTypes, CoreOK, CoreTypes
<1>8. UNCHANGED <<envelopes, heard, replays>> /\ stored' = stored
  OBVIOUS
<1>9. CASE pauseRequested /\ RG!Unconfirmed(session) = << >>
  <2>1. PICK p : p = RG!Checkpoint(session)
    OBVIOUS
  <2>2. RG!End(p, retained, others)
    BY <1>9, <2>1 DEF RG!RunFails
  <2>3. /\ p \in [kept : BOOLEAN, text : RG!Audio, retried : BOOLEAN] /\ p.kept
        /\ p.text = heard /\ retained = RG!NoSource /\ (~p.retried => replays = 0)
    BY <1>9, <2>1, CheckpointWhole
  <2>4. Left(p, retained)
    BY <2>3 DEF Left, SpeechInv, SpeechTypes
  <2>5. Holds(p, retained)
    BY <1>8, <2>3 DEF Holds
  <2>6. \A r \in others : r.kind = "finalized" /\ retained.session.envelope = r.envelope =>
          r.text = retained.session.text
            /\ retained.session.confirmed = Len(retained.session.history)
    BY DEF SpeechInv, ReportOK
  <2>. QED BY <1>7, <1>8, <2>2, <2>4, <2>5, <2>6, EndKeeps
<1>10. CASE ~(pauseRequested /\ RG!Unconfirmed(session) = << >>) /\ ~RG!MayReport(session)
  <2>1. RG!End(paused, source, others)
    BY <1>2, <1>3, <1>5, <1>10 DEF RG!RunFails
  <2>2. Left(paused, source)
    BY <1>6 DEF Left, SpeechInv, SpeechTypes
  <2>3. Holds(paused, source)
    BY <1>1, <1>6, <1>8 DEF Holds, RG!NotPaused
  <2>4. \A r \in others : r.kind = "finalized" => source.session.envelope # r.envelope
    BY <1>6
  <2>. QED BY <1>7, <1>8, <2>1, <2>2, <2>3, <2>4, EndKeeps
<1>11. CASE ~(pauseRequested /\ RG!Unconfirmed(session) = << >>) /\ RG!MayReport(session)
  <2>1. /\ session' = f /\ retained' = source
        /\ reports' = others \cup {RG!Report("failed", session)}
        /\ UNCHANGED <<paused, pauseRequested, waits>>
    BY <1>2, <1>3, <1>5, <1>11 DEF RG!RunFails
  <2>2. ~session.fenced /\ ~pauseRequested
    BY <1>11 DEF RG!MayReport, RG!Owns, SpeechInv, LiveOK
  <2>3. core.action # "STARTING"
    BY <1>11 DEF RG!MayReport, SpeechInv, CoreOK
  <2>4. /\ session.envelope \in 1..envelopes /\ (session.replay => core.status = "ERROR")
        /\ (~session.retried /\ ~session.replay => replays = 0) /\ stored = RG!NotStored
    BY NotStoredYet DEF SpeechInv, LiveOK
  <2>5. RG!HasSession'
    BY <1>6, <2>1, <2>4, NoSessionFields DEF RG!HasSession
  <2>6. SpeechTypes'
    BY <1>6, <1>8, <2>1 DEF SpeechInv, SpeechTypes
  <2>7. CoreOK'
    BY <1>8, <2>3, <2>4 DEF SpeechInv, CoreOK
  <2>8. LiveOK'
    BY <1>1, <1>4, <1>6, <1>8, <2>1, <2>2, <2>4 DEF LiveOK, Whole, Kin
  <2>9. GoneOK'
    BY <2>5 DEF GoneOK
  <2>10. ASSUME NEW r \in reports' PROVE ReportOK(r)'
    <3>1. CASE r \in others
      BY <1>6, <1>8, <2>1, <3>1 DEF SpeechInv, ReportOK
    <3>2. CASE r = RG!Report("failed", session)
      <4>1. session.envelope \in 0..envelopes
        BY <2>4 DEF SpeechInv, SpeechTypes
      <4>2. r \in Reports(envelopes) /\ r.kind = "failed"
        BY <1>1, <3>2, <4>1, FailureReport
      <4>. QED BY <1>8, <4>2 DEF ReportOK, Reports
    <3>. QED BY <2>1, <3>1, <3>2
  <2>. QED BY <2>6, <2>7, <2>8, <2>9, <2>10 DEF SpeechInv
<1>. QED BY <1>9, <1>10, <1>11

-----------------------------------------------------------------------------
(* The steps of the provider and the session *)

\* A piece of audio is taken (feed_pcm).
LEMMA SpeakKeeps == SpeechInv /\ RG!Speak => SpeechInv'
<1>. SUFFICES ASSUME SpeechInv, RG!Speak PROVE SpeechInv'
  OBVIOUS
<1>1. PICK piece : piece = Len(heard) + 1
  OBVIOUS
<1>2. PICK h : h = Append(session.history, piece)
  OBVIOUS
<1>3. PICK s : s = [session EXCEPT !.history = h]
  OBVIOUS
<1>4. /\ session.at = "streaming" /\ Len(heard) < MaxAudio /\ heard' = Append(heard, piece)
      /\ session' = s
      /\ UNCHANGED <<paused, retained, pauseRequested, waits, reports, replays, core, envelopes,
                     stored>>
  BY <1>1, <1>2, <1>3 DEF RG!Speak, RG!Listening, RG!Progress
<1>5. /\ Fits(session) /\ session \in RG!Sessions /\ session.history \in Seq(1..MaxAudio)
      /\ session.initial \in Seq(1..MaxAudio) /\ heard \in Seq(1..MaxAudio)
      /\ session.confirmed \in 0..Len(session.history)
  <2>1. Fits(session) /\ session \in RG!Sessions /\ heard \in Seq(1..MaxAudio)
    BY DEF SpeechInv, SpeechTypes, Fits, RG!Audio
  <2>2. /\ session.history \in Seq(1..MaxAudio) /\ session.initial \in Seq(1..MaxAudio)
        /\ session.confirmed \in Nat
    BY <2>1, MediaAssumption DEF RG!Sessions, RG!Audio
  <2>3. Len(session.history) \in Nat
    BY <2>2, LenProperties
  <2>. QED BY <2>1, <2>2, <2>3 DEF Fits
<1>6. RG!HasSession
  BY <1>4, NoSessionFields DEF RG!HasSession
<1>7. Whole(session) /\ stored = RG!NotStored
  BY <1>6, NotStoredYet DEF SpeechInv, LiveOK
<1>8. piece \in 1..MaxAudio
  <2>1. Len(heard) \in Nat
    BY <1>5, LenProperties
  <2>. QED BY <1>1, <1>4, <2>1, MediaAssumption
<1>9. PICK i, g, c : i = session.initial /\ g = session.history /\ c = session.confirmed
  OBVIOUS
<1>10. /\ i \in Seq(1..MaxAudio) /\ g \in Seq(1..MaxAudio) /\ c \in 0..Len(g)
       /\ h = Append(g, piece) /\ i \o g = heard
  BY <1>2, <1>5, <1>7, <1>9 DEF Whole
<1>11. /\ h \in Seq(1..MaxAudio) /\ Len(h) = Len(g) + 1
       /\ i \o h = Append(i \o g, piece) /\ Len(Append(i \o g, piece)) = Len(i) + Len(g) + 1
       /\ (i \o g) \in Seq(1..MaxAudio) /\ Len(i \o g) = Len(i) + Len(g)
       /\ Len(i) \in Nat /\ Len(g) \in Nat
       /\ \A k \in 0..Len(g) : SubSeq(Append(g, piece), 1, k) = SubSeq(g, 1, k)
  <2>1. g \in Seq(1..MaxAudio) /\ i \in Seq(1..MaxAudio) /\ piece \in 1..MaxAudio
    BY <1>8, <1>10
  <2>2. /\ Append(g, piece) \in Seq(1..MaxAudio) /\ Len(Append(g, piece)) = Len(g) + 1
        /\ i \o Append(g, piece) = Append(i \o g, piece)
        /\ Len(Append(i \o g, piece)) = Len(i) + Len(g) + 1
        /\ (i \o g) \in Seq(1..MaxAudio) /\ Len(i \o g) = Len(i) + Len(g)
        /\ Len(i) \in Nat /\ Len(g) \in Nat
        /\ \A k \in 0..Len(g) : SubSeq(Append(g, piece), 1, k) = SubSeq(g, 1, k)
    BY SMTT(60), <2>1, OneMore
  <2>3. h = Append(g, piece)
    BY <1>10
  <2>. QED BY <2>2, <2>3
<1>12. /\ i \o h = heard' /\ Len(h) <= MaxAudio /\ Len(heard') <= MaxAudio
       /\ heard' \in Seq(1..MaxAudio) /\ c <= Len(h)
  <2>1. i \o h = heard' /\ Len(heard') = Len(heard) + 1 /\ Len(heard) = Len(i) + Len(g)
    BY <1>4, <1>10, <1>11
  <2>2. heard' \in Seq(1..MaxAudio)
    BY <1>4, <1>5, <1>8, AppendProperties
  <2>. QED BY <1>4, <1>10, <1>11, <2>1, <2>2, MediaAssumption
<1>13. s \in RG!Sessions
  BY <1>3, <1>5, <1>11 DEF RG!Sessions, RG!Audio
<1>14. /\ s.envelope = session.envelope /\ s.at = session.at /\ s.initial = i
       /\ s.text = session.text /\ s.history = h /\ s.confirmed = c
       /\ s.fenced = session.fenced /\ s.retriesLeft = session.retriesLeft
       /\ s.retried = session.retried /\ s.replay = session.replay
  BY <1>3, <1>5, <1>9 DEF RG!Sessions
<1>15. Fits(s)
  <2>1. session.text = i \o SubSeq(g, 1, c)
    BY <1>5, <1>9 DEF Fits
  <2>2. SubSeq(h, 1, c) = SubSeq(g, 1, c)
    BY <1>10, <1>11
  <2>3. s.text = s.initial \o SubSeq(s.history, 1, s.confirmed)
    BY <1>14, <2>1, <2>2
  <2>4. s.at \notin {"saving", "reporting"}
    BY <1>4, <1>14
  <2>5. s.retriesLeft = 1 => ~s.retried /\ ~s.replay
    BY <1>5, <1>14 DEF Fits
  <2>6. s.confirmed <= Len(s.history) /\ Len(s.history) <= MaxAudio
    BY <1>12, <1>14
  <2>. QED BY <1>13, <2>3, <2>4, <2>5, <2>6, Zenon DEF Fits
<1>16. Whole(s)'
  BY <1>12, <1>14 DEF Whole
<1>17. SpeechTypes'
  BY <1>4, <1>12, <1>15 DEF SpeechInv, SpeechTypes, RG!Audio
<1>18. session.envelope \in 1..envelopes /\ RG!HasSession'
  <2>1. session.envelope \in 1..envelopes
    BY <1>6 DEF SpeechInv, LiveOK
  <2>. QED BY <1>4, <1>14, <2>1, NoSessionFields DEF RG!HasSession
<1>19. CoreOK'
  BY <1>4, <1>6, <1>7 DEF SpeechInv, CoreOK
<1>20. LiveOK'
  BY <1>4, <1>6, <1>14, <1>16, <1>18 DEF SpeechInv, LiveOK
<1>21. GoneOK'
  BY <1>18 DEF GoneOK
<1>22. ASSUME NEW r \in reports' PROVE ReportOK(r)'
  BY <1>4, <1>6, <1>14 DEF SpeechInv, ReportOK
<1>. QED BY <1>17, <1>19, <1>20, <1>21, <1>22 DEF SpeechInv

\* The recording that is retained stays, if not its claim to be the current one.
SourceStays ==
    /\ retained' \in [session : RG!Sessions, current : BOOLEAN]
    /\ retained'.session = retained.session
    /\ retained = RG!NoSource => retained' = RG!NoSource

\* A session goes on with the audio it has.
LEMMA StaysKeeps ==
    ASSUME SpeechInv, RG!HasSession, NEW s, session' = s, Fits(s), s.at # "none",
           s.envelope = session.envelope, s.initial = session.initial, s.history = session.history,
           s.replay = session.replay, s.at = "failing" <=> session.at = "failing",
           SourceStays, UNCHANGED <<paused, envelopes, stored, heard>>,
           pauseRequested' \in BOOLEAN, pauseRequested' => s.fenced /\ ~s.replay,
           waits' \in [finish : BOOLEAN, pause : BOOLEAN, retry : BOOLEAN],
           replays' \in {0, 1}, ~s.retried /\ ~s.replay => replays' = 0,
           CoreTypes', core'.operation => core'.status = "ERROR",
           core'.action = "STARTING" => core'.status = "RUNNING" /\ s.at = "ready",
           s.replay => core'.status = "ERROR",
           \A r \in reports' : ReportOK(r)'
    PROVE  SpeechInv'
<1>1. /\ session.envelope \in 1..envelopes /\ Whole(session) /\ paused = RG!NotPaused
      /\ (session.at = "failing" => Whole(retained.session))
      /\ (session.at # "failing" => retained.session.envelope # session.envelope)
      /\ (session.at # "failing" /\ ~session.replay => retained = RG!NoSource)
      /\ stored = RG!NotStored
  BY NotStoredYet DEF SpeechInv, LiveOK
<1>2. RG!HasSession'
  BY <1>1, NoSessionFields DEF RG!HasSession
<1>3. SpeechTypes'
  BY DEF SpeechInv, SpeechTypes, SourceStays, CoreTypes
<1>4. CoreOK'
  BY <1>1 DEF CoreOK
<1>5. LiveOK'
  BY <1>1 DEF LiveOK, Whole, SourceStays
<1>6. GoneOK'
  BY <1>2 DEF GoneOK
<1>. QED BY <1>3, <1>4, <1>5, <1>6 DEF SpeechInv

\* Only a session that has ended its recognition has reported its text.
LEMMA NoFinalReport ==
    ASSUME SpeechInv, RG!HasSession, session.at # "reporting", NEW r \in reports,
           r.kind = "finalized"
    PROVE  r.envelope # session.envelope
BY DEF SpeechInv, ReportOK

\* The reports stay right when the session goes on and does not report.
LEMMA ReportsStay ==
    ASSUME SpeechInv, RG!HasSession, session.at # "reporting",
           session'.envelope = session.envelope, SourceStays, reports' \subseteq reports,
           envelopes' = envelopes
    PROVE  \A r \in reports' : ReportOK(r)'
<1>. SUFFICES ASSUME NEW r \in reports' PROVE ReportOK(r)'
  OBVIOUS
<1>1. ReportOK(r) /\ (r.kind = "finalized" => r.envelope # session.envelope)
  BY NoFinalReport DEF SpeechInv
<1>. QED BY <1>1 DEF ReportOK, SourceStays

\* A sentence ends: the audio before it is confirmed (on_sentence).
LEMMA SentenceKeeps == SpeechInv /\ RG!Sentence => SpeechInv'
<1>. SUFFICES ASSUME SpeechInv, RG!Sentence PROVE SpeechInv'
  OBVIOUS
<1>1. PICK n \in session.confirmed + 1 .. Len(session.history) :
        session' = [session EXCEPT !.confirmed = n,
                       !.text = @ \o SubSeq(session.history, session.confirmed + 1, n)]
  BY DEF RG!Sentence
<1>2. PICK x : x = session.text \o SubSeq(session.history, session.confirmed + 1, n)
  OBVIOUS
<1>3. PICK s : s = [session EXCEPT !.confirmed = n, !.text = x]
  OBVIOUS
<1>4. session' = s
  BY <1>1, <1>2, <1>3
<1>5. /\ session.at = "streaming"
      /\ UNCHANGED <<paused, retained, pauseRequested, waits, reports, heard, replays, core,
                     envelopes, stored>>
  BY DEF RG!Sentence, RG!Listening, RG!Progress
<1>6. RG!HasSession
  BY <1>5, NoSessionFields DEF RG!HasSession
<1>7. /\ Fits(session) /\ session \in RG!Sessions /\ session.history \in Seq(1..MaxAudio)
      /\ session.initial \in Seq(1..MaxAudio) /\ session.confirmed \in Nat
      /\ session.text = session.initial \o SubSeq(session.history, 1, session.confirmed)
      /\ Len(session.history) <= MaxAudio
  BY MediaAssumption DEF SpeechInv, SpeechTypes, Fits, RG!Sessions, RG!Audio
<1>8. n \in Nat /\ session.confirmed <= n /\ n <= Len(session.history) /\ n \in 0..MaxAudio
  <2>1. PICK l, c : l = Len(session.history) /\ c = session.confirmed
    OBVIOUS
  <2>2. l \in Nat /\ l <= MaxAudio /\ c \in Nat /\ n \in c..l
    BY <1>1, <1>7, <2>1, LenProperties
  <2>3. n \in Nat /\ c <= n /\ n <= l /\ n \in 0..MaxAudio
    BY SMTT(60), <2>2, MediaAssumption
  <2>. QED BY <2>1, <2>3
<1>9. x = session.initial \o SubSeq(session.history, 1, n) /\ x \in Seq(1..MaxAudio)
  <2>1. PICK i, h, c : i = session.initial /\ h = session.history /\ c = session.confirmed
    OBVIOUS
  <2>2. i \in Seq(1..MaxAudio) /\ h \in Seq(1..MaxAudio) /\ c \in Nat /\ c <= n /\ n <= Len(h)
    BY <1>7, <1>8, <2>1
  <2>3. /\ (i \o SubSeq(h, 1, c)) \o SubSeq(h, c + 1, n) = i \o SubSeq(h, 1, n)
        /\ (i \o SubSeq(h, 1, n)) \in Seq(1..MaxAudio)
    BY <1>8, <2>2, TextTo
  <2>. QED BY <1>2, <1>7, <2>1, <2>3
<1>10. s \in RG!Sessions
  BY <1>3, <1>7, <1>8, <1>9 DEF RG!Sessions, RG!Audio
<1>11. /\ s.envelope = session.envelope /\ s.at = session.at /\ s.initial = session.initial
       /\ s.text = x /\ s.history = session.history /\ s.confirmed = n
       /\ s.fenced = session.fenced /\ s.retriesLeft = session.retriesLeft
       /\ s.retried = session.retried /\ s.replay = session.replay
  BY <1>3, <1>7 DEF RG!Sessions
<1>12. Fits(s)
  <2>1. s.text = s.initial \o SubSeq(s.history, 1, s.confirmed)
    BY <1>9, <1>11
  <2>2. s.at \notin {"saving", "reporting"}
    BY <1>5, <1>11
  <2>3. s.retriesLeft = 1 => ~s.retried /\ ~s.replay
    BY <1>7, <1>11 DEF Fits
  <2>4. s.confirmed <= Len(s.history) /\ Len(s.history) <= MaxAudio
    BY <1>7, <1>8, <1>11
  <2>. QED BY <1>10, <2>1, <2>2, <2>3, <2>4, Zenon DEF Fits
<1>13. SourceStays
  BY <1>5 DEF SpeechInv, SpeechTypes, SourceStays
<1>14. \A r \in reports' : ReportOK(r)'
  BY <1>4, <1>5, <1>6, <1>11, <1>13, ReportsStay
<1>15. /\ CoreTypes' /\ (core'.operation => core'.status = "ERROR")
       /\ (core'.action = "STARTING" => core'.status = "RUNNING" /\ s.at = "ready")
       /\ (s.replay => core'.status = "ERROR") /\ (pauseRequested' => s.fenced /\ ~s.replay)
       /\ (~s.retried /\ ~s.replay => replays' = 0) /\ s.at # "none"
       /\ (s.at = "failing" <=> session.at = "failing")
  BY <1>5, <1>6, <1>11 DEF SpeechInv, SpeechTypes, CoreTypes, CoreOK, LiveOK
<1>16. /\ pauseRequested' \in BOOLEAN /\ replays' \in {0, 1}
       /\ waits' \in [finish : BOOLEAN, pause : BOOLEAN, retry : BOOLEAN]
       /\ UNCHANGED <<paused, envelopes, stored, heard>>
  BY <1>5 DEF SpeechInv, SpeechTypes
<1>. QED BY <1>4, <1>6, <1>11, <1>12, <1>13, <1>14, <1>15, <1>16, StaysKeeps

\* The reports stay right, and a failure may join them, while the session and
\* its recording stay what they are.
LEMMA ReportsSame ==
    ASSUME SpeechInv, session'.envelope = session.envelope, session'.at = session.at,
           session'.text = session.text, RG!HasSession' => RG!HasSession, SourceStays,
           envelopes' = envelopes,
           \A r \in reports' : r \in reports \/ (r \in Reports(envelopes) /\ r.kind # "finalized")
    PROVE  \A r \in reports' : ReportOK(r)'
<1>. SUFFICES ASSUME NEW r \in reports' PROVE ReportOK(r)'
  OBVIOUS
<1>1. CASE r \in reports
  BY ZenonT(60), <1>1 DEF SpeechInv, ReportOK, SourceStays
<1>2. CASE r \in Reports(envelopes) /\ r.kind # "finalized"
  BY <1>2 DEF Reports, ReportOK
<1>. QED BY <1>1, <1>2

\* The match goes on as it was.
LEMMA CoreSame ==
    ASSUME SpeechInv, core' = core
    PROVE  /\ CoreTypes' /\ (core'.operation => core'.status = "ERROR")
           /\ (core'.action = "STARTING" => core'.status = "RUNNING")
BY DEF SpeechInv, SpeechTypes, CoreTypes, CoreOK

\* Recognition is replayed once, from the first piece that is not confirmed.
LEMMA ReplayKeeps == SpeechInv /\ RG!Replay => SpeechInv'
<1>. SUFFICES ASSUME SpeechInv, RG!Replay PROVE SpeechInv'
  OBVIOUS
<1>1. PICK s : s = [session EXCEPT !.retriesLeft = 0, !.retried = TRUE]
  OBVIOUS
<1>2. /\ session.at = "streaming" /\ session.retriesLeft > 0 /\ session' = s
      /\ replays' = replays + 1
      /\ UNCHANGED <<paused, retained, pauseRequested, waits, reports, heard, core, envelopes,
                     stored>>
  BY <1>1 DEF RG!Replay, RG!Replayed, RG!Listening, RG!Progress
<1>3. RG!HasSession
  BY <1>2, NoSessionFields DEF RG!HasSession
<1>4. Fits(session) /\ session \in RG!Sessions
  BY DEF SpeechInv, SpeechTypes, Fits
<1>5. s \in RG!Sessions
  BY <1>1, <1>4 DEF RG!Sessions
<1>6. /\ s.envelope = session.envelope /\ s.at = session.at /\ s.initial = session.initial
      /\ s.text = session.text /\ s.history = session.history /\ s.confirmed = session.confirmed
      /\ s.replay = session.replay
  BY <1>1, <1>4 DEF RG!Sessions
<1>7. s.retriesLeft = 0
  BY <1>1, <1>4 DEF RG!Sessions
<1>8. s.retried
  BY <1>1, <1>4 DEF RG!Sessions
<1>9. s.fenced = session.fenced
  BY <1>1, <1>4 DEF RG!Sessions
<1>10. session.retriesLeft = 1
  BY <1>2, <1>4 DEF RG!Sessions
<1>11. Fits(s)
  BY <1>4, <1>5, <1>6, <1>7 DEF Fits
<1>12. replays' \in {0, 1}
  <2>1. ~session.retried /\ ~session.replay
    BY <1>4, <1>10 DEF Fits
  <2>2. replays = 0
    BY <1>3, <2>1 DEF SpeechInv, LiveOK
  <2>. QED BY <1>2, <2>2
<1>13. SourceStays
  BY <1>2 DEF SpeechInv, SpeechTypes, SourceStays
<1>14. \A r \in reports' : ReportOK(r)'
  BY <1>2, <1>3, <1>6, <1>13, ReportsStay
<1>15. /\ (core'.action = "STARTING" => core'.status = "RUNNING" /\ s.at = "ready")
       /\ (s.replay => core'.status = "ERROR") /\ (pauseRequested' => s.fenced /\ ~s.replay)
       /\ s.at # "none" /\ (s.at = "failing" <=> session.at = "failing")
  BY <1>2, <1>3, <1>6, <1>9 DEF SpeechInv, SpeechTypes, CoreOK, LiveOK
<1>16. /\ pauseRequested' \in BOOLEAN
       /\ waits' \in [finish : BOOLEAN, pause : BOOLEAN, retry : BOOLEAN]
       /\ UNCHANGED <<paused, envelopes, stored, heard>>
       /\ CoreTypes' /\ (core'.operation => core'.status = "ERROR")
  BY <1>2, CoreSame DEF SpeechInv, SpeechTypes
<1>. QED BY <1>2, <1>3, <1>6, <1>8, <1>11, <1>12, <1>13, <1>14, <1>15, <1>16, StaysKeeps

\* The provider has finished: all audio is confirmed.
LEMMA CompleteKeeps == SpeechInv /\ RG!Complete => SpeechInv'
<1>. SUFFICES ASSUME SpeechInv, RG!Complete PROVE SpeechInv'
  OBVIOUS
<1>1. PICK n, x : n = Len(session.history) /\ x = session.text \o RG!Unconfirmed(session)
  OBVIOUS
<1>2. PICK s : s = [session EXCEPT !.at = "saving", !.confirmed = n, !.text = x]
  OBVIOUS
<1>3. /\ session.at = "streaming" /\ session' = s
      /\ UNCHANGED <<paused, retained, pauseRequested, waits, reports, heard, replays, core,
                     envelopes, stored>>
  BY <1>1, <1>2 DEF RG!Complete, RG!Listening, RG!Progress
<1>4. RG!HasSession
  BY <1>3, NoSessionFields DEF RG!HasSession
<1>5. /\ Fits(session) /\ session \in RG!Sessions /\ session.history \in Seq(1..MaxAudio)
      /\ session.initial \in Seq(1..MaxAudio) /\ n <= MaxAudio
  BY <1>1 DEF SpeechInv, SpeechTypes, Fits, RG!Sessions, RG!Audio
<1>6. n \in 0..MaxAudio
  <2>1. n \in Nat
    BY <1>1, <1>5, LenProperties
  <2>. QED BY <1>5, <2>1, MediaAssumption
<1>7. x = session.initial \o session.history /\ x \in Seq(1..MaxAudio)
  <2>1. x = session.initial \o session.history
    BY <1>1, <1>5, TextAndRest
  <2>. QED BY <1>5, <2>1, ConcatProperties
<1>8. s \in RG!Sessions
  BY <1>2, <1>5, <1>6, <1>7 DEF RG!Sessions, RG!Audio
<1>9. /\ s.envelope = session.envelope /\ s.initial = session.initial
      /\ s.history = session.history
      /\ s.fenced = session.fenced /\ s.retriesLeft = session.retriesLeft
      /\ s.retried = session.retried /\ s.replay = session.replay
  BY <1>2, <1>5 DEF RG!Sessions
<1>10. s.at = "saving" /\ s.text = x /\ s.confirmed = n
  BY <1>2, <1>5 DEF RG!Sessions
<1>11. Fits(s)
  <2>1. SubSeq(session.history, 1, n) = session.history
    BY <1>1, <1>5, SubSeqFull
  <2>2. s.text = s.initial \o SubSeq(s.history, 1, s.confirmed)
    BY <1>7, <1>9, <1>10, <2>1
  <2>3. s.retriesLeft = 1 => ~s.retried /\ ~s.replay
    BY <1>5, <1>9 DEF Fits
  <2>4. s.confirmed = Len(s.history) /\ s.confirmed <= Len(s.history) /\ Len(s.history) <= MaxAudio
    BY <1>1, <1>5, <1>6, <1>9, <1>10
  <2>. QED BY <1>8, <2>2, <2>3, <2>4, Zenon DEF Fits
<1>12. SourceStays
  BY <1>3 DEF SpeechInv, SpeechTypes, SourceStays
<1>13. \A r \in reports' : ReportOK(r)'
  BY <1>3, <1>4, <1>9, <1>12, ReportsStay
<1>14. core.action # "STARTING"
  BY <1>3, <1>4 DEF SpeechInv, CoreOK
<1>15. /\ (s.replay => core'.status = "ERROR") /\ (pauseRequested' => s.fenced /\ ~s.replay)
       /\ (~s.retried /\ ~s.replay => replays' = 0)
  BY <1>3, <1>4, <1>9 DEF SpeechInv, LiveOK
<1>16. /\ pauseRequested' \in BOOLEAN /\ replays' \in {0, 1}
       /\ waits' \in [finish : BOOLEAN, pause : BOOLEAN, retry : BOOLEAN]
       /\ UNCHANGED <<paused, envelopes, stored, heard>>
       /\ CoreTypes' /\ (core'.operation => core'.status = "ERROR")
  BY <1>3, CoreSame DEF SpeechInv, SpeechTypes
<1>17. /\ (core'.action = "STARTING" => core'.status = "RUNNING" /\ s.at = "ready")
       /\ s.at # "none" /\ (s.at = "failing" <=> session.at = "failing")
  BY <1>3, <1>10, <1>14
<1>. QED BY <1>3, <1>4, <1>9, <1>11, <1>12, <1>13, <1>15, <1>16, <1>17, StaysKeeps

\* A failure that is not replayed.
LEMMA FailsKeeps == SpeechInv /\ RG!Fails => SpeechInv'
<1>. SUFFICES ASSUME SpeechInv, RG!Fails PROVE SpeechInv'
  OBVIOUS
<1>1. /\ session.at \in {"ready", "streaming", "saving"} /\ RG!RunFails(session, reports)
      /\ UNCHANGED <<core, stored, envelopes, heard, replays>>
  BY DEF RG!Fails, RG!Listening, RG!Progress
<1>2. RG!HasSession
  BY <1>1, NoSessionFields DEF RG!HasSession
<1>3. \A r \in reports : r.kind = "finalized" => r.envelope # session.envelope
  BY <1>1, <1>2, NoFinalReport
<1>. QED BY <1>1, <1>2, <1>3, RunFailsKeeps

\* The final text is on its way to the actor, or is kept for a pause.
LEMMA SavedKeeps == SpeechInv /\ RG!Saved => SpeechInv'
<1>. SUFFICES ASSUME SpeechInv, RG!Saved PROVE SpeechInv'
  OBVIOUS
<1>1. session.at = "saving" /\ UNCHANGED <<heard, replays, core, envelopes, stored>>
  BY DEF RG!Saved, RG!Progress
<1>2. RG!HasSession
  BY <1>1, NoSessionFields DEF RG!HasSession
<1>3. /\ Fits(session) /\ session \in RG!Sessions /\ session.confirmed = Len(session.history)
      /\ session.envelope \in 1..envelopes
  BY <1>1, <1>2 DEF SpeechInv, SpeechTypes, Fits, LiveOK
<1>4. CASE pauseRequested
  <2>1. PICK p : p = RG!Checkpoint(session)
    OBVIOUS
  <2>2. RG!End(p, retained, reports)
    BY <1>4, <2>1 DEF RG!Saved
  <2>3. RG!Unconfirmed(session) = << >>
    BY <1>3, TextAndRest
  <2>4. /\ p \in [kept : BOOLEAN, text : RG!Audio, retried : BOOLEAN] /\ p.kept
        /\ p.text = heard /\ retained = RG!NoSource /\ (~p.retried => replays = 0)
    BY <1>1, <1>2, <1>4, <2>1, <2>3, CheckpointWhole
  <2>5. Left(p, retained)
    BY <2>4 DEF Left, SpeechInv, SpeechTypes
  <2>6. Holds(p, retained)
    BY <1>1, <2>4 DEF Holds
  <2>7. \A r \in reports : r.kind = "finalized" /\ retained.session.envelope = r.envelope =>
          r.text = retained.session.text
            /\ retained.session.confirmed = Len(retained.session.history)
    BY DEF SpeechInv, ReportOK
  <2>. QED BY <1>1, <1>2, <2>2, <2>5, <2>6, <2>7, CoreSame, EndKeeps
<1>5. CASE ~pauseRequested
  <2>1. PICK s : s = [session EXCEPT !.at = "reporting"]
    OBVIOUS
  <2>2. PICK f : f = RG!Report("finalized", session)
    OBVIOUS
  <2>3. /\ session' = s /\ reports' \subseteq reports \cup {f}
        /\ UNCHANGED <<paused, retained, pauseRequested, waits>>
    BY <1>5, <2>1, <2>2 DEF RG!Saved
  <2>4. Kin(session, s) /\ s.at = "reporting" /\ s.fenced = session.fenced
    BY <1>3, <2>1, Moved
  <2>5. Fits(s)
    BY <1>3, <2>4, KinFits
  <2>6. SourceStays
    BY <2>3 DEF SpeechInv, SpeechTypes, SourceStays
  <2>7. core.action # "STARTING"
    BY <1>1, <1>2 DEF SpeechInv, CoreOK
  <2>8. retained.session.envelope # session.envelope
    BY <1>1, <1>2 DEF SpeechInv, LiveOK
  <2>9. ASSUME NEW r \in reports' PROVE ReportOK(r)'
    <3>1. CASE r \in reports
      <4>1. ReportOK(r) /\ (r.kind = "finalized" => r.envelope # session.envelope)
        BY <1>1, <1>2, <3>1, NoFinalReport DEF SpeechInv
      <4>. QED BY <1>1, <2>3, <2>4, <4>1 DEF ReportOK, Kin
    <3>2. CASE r = f
      <4>1. /\ f.kind = "finalized" /\ f.envelope = session.envelope /\ f.text = session.text
            /\ ~f.recovery
        BY <2>2 DEF RG!Report
      <4>2. f \in Reports(envelopes)
        <5>1. session.envelope \in 0..envelopes /\ session.text \in RG!Audio
          BY <1>3 DEF RG!Sessions
        <5>. QED BY <2>2, <5>1 DEF RG!Report, Reports
      <4>3. f.envelope # 0 /\ retained'.session.envelope # f.envelope
        BY <1>3, <2>3, <2>8, <4>1
      <4>4. session'.at = "reporting" /\ f.text = session'.text
        BY <2>3, <2>4, <4>1 DEF Kin
      <4>5. f \in Reports(envelopes')
        BY <1>1, <4>2
      <4>. QED BY <3>2, <4>1, <4>3, <4>4, <4>5 DEF ReportOK, Reports
    <3>. QED BY <2>3, <3>1, <3>2
  <2>10. /\ (s.replay => core'.status = "ERROR") /\ (pauseRequested' => s.fenced /\ ~s.replay)
         /\ (~s.retried /\ ~s.replay => replays' = 0)
    BY <1>1, <1>2, <2>3, <2>4 DEF SpeechInv, LiveOK, Kin
  <2>11. /\ pauseRequested' \in BOOLEAN /\ replays' \in {0, 1}
         /\ waits' \in [finish : BOOLEAN, pause : BOOLEAN, retry : BOOLEAN]
         /\ UNCHANGED <<paused, envelopes, stored, heard>>
         /\ CoreTypes' /\ (core'.operation => core'.status = "ERROR")
    BY <1>1, <2>3, CoreSame DEF SpeechInv, SpeechTypes
  <2>12. /\ (core'.action = "STARTING" => core'.status = "RUNNING" /\ s.at = "ready")
         /\ s.at # "none" /\ (s.at = "failing" <=> session.at = "failing")
    BY <1>1, <2>4, <2>7
  <2>13. /\ s.envelope = session.envelope /\ s.initial = session.initial
         /\ s.history = session.history /\ s.replay = session.replay
    BY <2>4 DEF Kin
  <2>. QED BY <1>2, <2>3, <2>5, <2>6, <2>9, <2>10, <2>11, <2>12, <2>13, StaysKeeps
<1>. QED BY <1>4, <1>5

\* The reports after the end of a session are those before it, and failures.
LEMMA ReportsGone ==
    ASSUME SpeechInv, RG!HasSession, session' = RG!NoSession, envelopes' = envelopes,
           Kin(session, retained'.session), retained'.session.at = session.at,
           \A r \in reports' : r \in reports \/ (r \in Reports(envelopes) /\ r.kind # "finalized")
    PROVE  \A r \in reports' : ReportOK(r)'
<1>. SUFFICES ASSUME NEW r \in reports' PROVE ReportOK(r)'
  OBVIOUS
<1>1. ~RG!HasSession'
  BY DEF RG!HasSession
<1>2. Fits(session)
  BY DEF SpeechInv, SpeechTypes
<1>3. CASE r \in reports
  <2>1. /\ ReportOK(r)
        /\ r.kind = "finalized" /\ r.envelope = session.envelope =>
             r.text = session.text /\ session.confirmed = Len(session.history)
    BY <1>2, <1>3 DEF SpeechInv, ReportOK, Fits
  <2>. QED BY <1>1, <2>1 DEF ReportOK, Kin
<1>4. CASE r \in Reports(envelopes) /\ r.kind # "finalized"
  BY <1>4 DEF Reports, ReportOK
<1>. QED BY <1>3, <1>4

\* A session loses the receiver and its recording is retained.
LEMMA RetireKeeps ==
    ASSUME SpeechInv, RG!HasSession, session' = RG!NoSession, UNCHANGED paused,
           pauseRequested' = FALSE, waits' = RG!Nobody,
           NEW s, NEW current \in BOOLEAN, retained' = [session |-> s, current |-> current],
           Kin(session, s), s.at = session.at,
           UNCHANGED <<envelopes, heard, replays, stored>>,
           CoreTypes', core'.operation => core'.status = "ERROR",
           core'.action = "STARTING" => core'.status = "RUNNING",
           \A r \in reports' : r \in reports \/ (r \in Reports(envelopes) /\ r.kind # "finalized")
    PROVE  SpeechInv'
<1>1. /\ Fits(session) /\ Whole(session) /\ session.envelope <= envelopes
      /\ paused = RG!NotPaused /\ stored = RG!NotStored
  BY NotStoredYet DEF SpeechInv, SpeechTypes, LiveOK
<1>2. Fits(s) /\ Whole(s) /\ s.envelope <= envelopes
  <2>1. Fits(s)
    BY <1>1, KinFits DEF Fits
  <2>. QED BY <1>1, <2>1 DEF Kin, Whole
<1>3. /\ retained'.session = s
      /\ retained' \in [session : RG!Sessions, current : BOOLEAN]
  BY DEF Kin
<1>4. ~RG!HasSession'
  BY DEF RG!HasSession
<1>5. SpeechTypes'
  <2>1. waits' \in [finish : BOOLEAN, pause : BOOLEAN, retry : BOOLEAN]
    BY DEF RG!Nobody
  <2>. QED BY <1>2, <1>3, <2>1, NothingFits DEF SpeechTypes, SpeechInv, CoreTypes
<1>6. CoreOK'
  BY <1>1, <1>4 DEF CoreOK
<1>7. LiveOK'
  BY <1>4 DEF LiveOK
<1>8. GoneOK'
  BY <1>1, <1>2, <1>3 DEF GoneOK, Whole, RG!NotPaused
<1>9. \A r \in reports' : ReportOK(r)'
  BY <1>3, ReportsGone
<1>. QED BY <1>5, <1>6, <1>7, <1>8, <1>9 DEF SpeechInv

\* What the deadline tells the match.
LEMMA DeadlineReports ==
    ASSUME SpeechInv, RG!HasSession, NEW r,
           r \in {RG!Report("retry failed", session), RG!Report("failed", session)}
    PROVE  r \in Reports(envelopes) /\ r.kind # "finalized"
<1>1. session \in RG!Sessions /\ session.envelope \in 1..envelopes /\ envelopes \in Nat
  BY DEF SpeechInv, SpeechTypes, LiveOK, Fits
<1>2. session.envelope \in 0..envelopes
  BY <1>1, Ranges
<1>. QED BY <1>1, <1>2, FailureReport

\* Recognition takes too long (finish_speech, _finish_human_speech).
LEMMA DeadlineKeeps == SpeechInv /\ RG!Deadline => SpeechInv'
<1>. SUFFICES ASSUME SpeechInv, RG!Deadline PROVE SpeechInv'
  OBVIOUS
<1>1. session.closed /\ UNCHANGED <<heard, replays, spent, core, envelopes, stored>>
  BY DEF RG!Deadline, RG!Progress
<1>2. RG!HasSession
  BY <1>1, NoSessionFields DEF RG!HasSession
<1>3. Fits(session) /\ session \in RG!Sessions
  BY DEF SpeechInv, SpeechTypes, Fits
<1>4. \A r \in reports' : r \in reports \/ (r \in Reports(envelopes) /\ r.kind # "finalized")
  <2>1. ASSUME NEW r \in reports', r \notin reports
        PROVE  r \in {RG!Report("retry failed", session), RG!Report("failed", session)}
    BY <2>1 DEF RG!Deadline
  <2>. QED BY <1>2, <2>1, DeadlineReports
<1>5. CASE RG!Retire
  <2>1. PICK s : s = [session EXCEPT !.closed = TRUE]
    OBVIOUS
  <2>2. Kin(session, s) /\ s.at = session.at
    BY <1>3, <2>1, Closed
  <2>3. /\ retained' = [session |-> s, current |-> TRUE] /\ session' = RG!NoSession
        /\ pauseRequested' = FALSE /\ waits' = RG!Nobody /\ UNCHANGED paused
    BY <1>5, <2>1 DEF RG!Retire
  <2>. QED BY <1>1, <1>2, <1>4, <2>2, <2>3, CoreSame, RetireKeeps
<1>6. CASE waits' = RG!Nobody /\ UNCHANGED <<session, paused, retained, pauseRequested>>
  <2>1. SourceStays
    BY <1>6 DEF SpeechInv, SpeechTypes, SourceStays
  <2>2. \A r \in reports' : ReportOK(r)'
    BY <1>1, <1>2, <1>4, <1>6, <2>1, ReportsSame
  <2>3. waits' \in [finish : BOOLEAN, pause : BOOLEAN, retry : BOOLEAN]
    BY <1>6 DEF RG!Nobody
  <2>4. /\ (session.replay => core'.status = "ERROR") /\ session.at # "none"
        /\ (pauseRequested' => session.fenced /\ ~session.replay)
        /\ (~session.retried /\ ~session.replay => replays' = 0)
        /\ (core'.action = "STARTING" => core'.status = "RUNNING" /\ session.at = "ready")
    BY <1>1, <1>2, <1>6 DEF SpeechInv, LiveOK, CoreOK
  <2>5. /\ pauseRequested' \in BOOLEAN /\ replays' \in {0, 1}
        /\ UNCHANGED <<paused, envelopes, stored, heard>> /\ session' = session
        /\ CoreTypes' /\ (core'.operation => core'.status = "ERROR")
    BY <1>1, <1>6, CoreSame DEF SpeechInv, SpeechTypes
  <2>. QED BY <1>2, <1>3, <2>1, <2>2, <2>3, <2>4, <2>5, StaysKeeps
<1>. QED BY <1>5, <1>6 DEF RG!Deadline

-----------------------------------------------------------------------------
(* The steps of the match actor *)

\* The receiver stays what it is, whatever the match does.
LEMMA AllStays ==
    ASSUME SpeechInv,
           UNCHANGED <<session, paused, pauseRequested, envelopes, heard, replays, stored>>,
           SourceStays, waits' \in [finish : BOOLEAN, pause : BOOLEAN, retry : BOOLEAN],
           CoreTypes', core'.operation => core'.status = "ERROR",
           core'.action = "STARTING" =>
             core'.status = "RUNNING" /\ (RG!HasSession => session.at = "ready"),
           RG!HasSession /\ session.replay => core'.status = "ERROR",
           stored # RG!NotStored => core'.status = "DONE" /\ core'.action = "FINALIZING",
           \A r \in reports' : r \in reports \/ (r \in Reports(envelopes) /\ r.kind # "finalized")
    PROVE  SpeechInv'
<1>1. \A r \in reports' : ReportOK(r)'
  BY ReportsSame DEF RG!HasSession
<1>2. CASE RG!HasSession
  <2>1. /\ Fits(session) /\ session.at # "none"
        /\ (pauseRequested => session.fenced /\ ~session.replay)
        /\ (~session.retried /\ ~session.replay => replays = 0)
        /\ pauseRequested \in BOOLEAN /\ replays \in {0, 1}
    BY <1>2 DEF SpeechInv, SpeechTypes, LiveOK
  <2>. QED BY <1>1, <1>2, <2>1, StaysKeeps
<1>3. CASE ~RG!HasSession
  <2>1. ~RG!HasSession'
    BY <1>3 DEF RG!HasSession
  <2>2. SpeechTypes'
    BY DEF SpeechInv, SpeechTypes, SourceStays, CoreTypes
  <2>3. CoreOK'
    BY <1>3, <2>1 DEF SpeechInv, CoreOK
  <2>4. LiveOK'
    BY <2>1 DEF LiveOK
  <2>5. GoneOK'
    BY <1>3, <2>1 DEF SpeechInv, GoneOK, SourceStays, Whole
  <2>. QED BY <1>1, <2>2, <2>3, <2>4, <2>5 DEF SpeechInv
<1>. QED BY <1>2, <1>3

\* Nothing is retained when a speech is detached, and nothing was heard.
LEMMA DetachKeeps ==
    ASSUME SpeechInv, RG!Detach, UNCHANGED <<reports, envelopes, stored>>, stored = RG!NotStored,
           CoreTypes', core'.operation => core'.status = "ERROR", core'.action # "STARTING"
    PROVE  SpeechInv'
<1>1. /\ session' = RG!NoSession /\ paused' = RG!NotPaused /\ retained' = RG!NoSource
      /\ pauseRequested' = FALSE /\ waits' = RG!Nobody /\ heard' = << >> /\ replays' = 0
  BY DEF RG!Detach
<1>2. ~RG!HasSession'
  BY <1>1 DEF RG!HasSession
<1>3. retained'.session = RG!NoSession /\ retained'.session.envelope = 0
  BY <1>1, NoSessionFields DEF RG!NoSource
<1>4. SpeechTypes'
  <2>1. waits' \in [finish : BOOLEAN, pause : BOOLEAN, retry : BOOLEAN]
    BY <1>1 DEF RG!Nobody
  <2>2. paused' \in [kept : BOOLEAN, text : RG!Audio, retried : BOOLEAN]
    BY <1>1, NothingFits DEF RG!NotPaused
  <2>3. retained' \in [session : RG!Sessions, current : BOOLEAN]
    BY <1>1, NoSessionFields DEF RG!NoSource
  <2>4. Len(heard') <= MaxAudio
    BY <1>1, EmptySeq, MediaAssumption
  <2>5. Fits(session)' /\ Fits(retained.session)' /\ heard' \in RG!Audio
    BY <1>1, <1>3, NothingFits
  <2>6. envelopes' \in Nat /\ retained'.session.envelope <= envelopes'
    BY <1>3 DEF SpeechInv, SpeechTypes
  <2>. QED BY <1>1, <2>1, <2>2, <2>3, <2>4, <2>5, <2>6 DEF SpeechTypes, CoreTypes
<1>5. CoreOK'
  BY DEF CoreOK
<1>6. LiveOK'
  BY <1>2 DEF LiveOK
<1>7. GoneOK'
  BY <1>1, <1>3, NothingFits DEF GoneOK, Whole, RG!NotPaused
<1>8. ASSUME NEW r \in reports' PROVE ReportOK(r)'
  <2>1. ReportOK(r)
    BY <1>8 DEF SpeechInv
  <2>. QED BY <1>2, <1>3, <2>1 DEF ReportOK
<1>. QED BY <1>4, <1>5, <1>6, <1>7, <1>8 DEF SpeechInv

\* A speech starts, anew or where it was paused (_start_speech_locked).
LEMMA BeginStartKeeps == SpeechInv /\ RG!BeginStart => SpeechInv'
<1>. SUFFICES ASSUME SpeechInv, RG!BeginStart PROVE SpeechInv'
  OBVIOUS
<1>1. PICK n, text, retried : n = envelopes + 1 /\ text = paused.text /\ retried = paused.retried
  OBVIOUS
<1>2. PICK s : s = [RG!NoSession EXCEPT !.envelope = n, !.at = "ready", !.initial = text,
                       !.text = text, !.retriesLeft = IF retried THEN 0 ELSE 1, !.retried = retried]
  OBVIOUS
<1>3. /\ core.status = "RUNNING" /\ core.action = "READY" /\ ~RG!HasSession
      /\ session' = s /\ envelopes' = n /\ paused' = RG!NotPaused
      /\ UNCHANGED <<pauseRequested, waits, reports, stored>>
  BY <1>1, <1>2 DEF RG!BeginStart, RG!NewSession
<1>4. /\ envelopes \in Nat /\ text \in RG!Audio /\ retried \in BOOLEAN
      /\ n \in Nat /\ n = envelopes + 1
  BY <1>1 DEF SpeechInv, SpeechTypes
<1>5. s \in RG!Sessions
  BY <1>2, <1>4, NoSessionFields DEF RG!Sessions
<1>6. s.envelope = n /\ s.at = "ready" /\ s.initial = text /\ s.text = text /\ s.retried = retried
  BY <1>2, NoSessionFields DEF RG!Sessions
<1>7. s.history = << >> /\ s.confirmed = 0 /\ s.replay = FALSE /\ s.fenced = FALSE
  BY <1>2, NoSessionFields DEF RG!Sessions, RG!NoSession
<1>8. s.retriesLeft = 1 => ~s.retried
  <2>1. s.retriesLeft = IF retried THEN 0 ELSE 1
    BY <1>2, NoSessionFields DEF RG!Sessions
  <2>. QED BY <1>6, <2>1
<1>9. Fits(s) /\ s.initial \o s.history = text
  BY <1>5, <1>6, <1>7, <1>8, NoAudioFits
<1>10. stored = RG!NotStored /\ ~pauseRequested /\ ~core.operation
  BY <1>3 DEF SpeechInv, CoreOK, GoneOK
<1>11. core' = [core EXCEPT !.action = "STARTING"]
  BY DEF RG!BeginStart
<1>12. CoreTypes' /\ core'.status = "RUNNING" /\ ~core'.operation
  <2>1. CoreTypes'
    BY <1>11 DEF SpeechInv, SpeechTypes, CoreTypes
  <2>2. core'.status = core.status
    BY <1>11 DEF SpeechInv, SpeechTypes
  <2>3. core'.operation = core.operation
    BY <1>11 DEF SpeechInv, SpeechTypes
  <2>. QED BY <1>3, <1>10, <2>1, <2>2, <2>3
<1>13. /\ retained' = RG!NoSource /\ heard' = text /\ (~retried => replays' = 0)
       /\ replays' \in {0, 1} /\ Len(heard') <= MaxAudio
  <2>1. CASE paused.kept
    BY <1>1, <1>3, <1>10, <2>1 DEF RG!BeginStart, SpeechInv, SpeechTypes, GoneOK
  <2>2. CASE ~paused.kept
    <3>1. paused = RG!NotPaused
      BY <1>3, <1>10, <2>2 DEF SpeechInv, GoneOK
    <3>2. text = << >> /\ retained' = RG!NoSource /\ heard' = << >> /\ replays' = 0
      BY <1>1, <2>2, <3>1 DEF RG!BeginStart, RG!NotPaused
    <3>3. Len(heard') <= MaxAudio
      BY <3>2, EmptySeq, MediaAssumption
    <3>. QED BY <3>2, <3>3
  <2>. QED BY <2>1, <2>2
<1>14. retained'.session = RG!NoSession /\ retained'.session.envelope = 0
  BY <1>13, NoSessionFields DEF RG!NoSource
<1>15. RG!HasSession'
  BY <1>3, <1>4, <1>6, NoSessionFields DEF RG!HasSession
<1>16. SpeechTypes'
  <2>1. paused' \in [kept : BOOLEAN, text : RG!Audio, retried : BOOLEAN]
    BY <1>3, NothingFits DEF RG!NotPaused
  <2>2. retained' \in [session : RG!Sessions, current : BOOLEAN]
    BY <1>13, NoSessionFields DEF RG!NoSource
  <2>3. Fits(session)' /\ Fits(retained.session)' /\ heard' \in RG!Audio
    BY <1>3, <1>4, <1>9, <1>13, <1>14, NothingFits
  <2>4. envelopes' \in Nat /\ retained'.session.envelope <= envelopes'
    BY <1>3, <1>4, <1>14
  <2>5. /\ pauseRequested' \in BOOLEAN
        /\ waits' \in [finish : BOOLEAN, pause : BOOLEAN, retry : BOOLEAN]
    BY <1>3 DEF SpeechInv, SpeechTypes
  <2>. QED BY <1>12, <1>13, <2>1, <2>2, <2>3, <2>4, <2>5 DEF SpeechTypes, CoreTypes
<1>17. CoreOK'
  BY <1>3, <1>6, <1>7, <1>10, <1>12 DEF CoreOK
<1>18. LiveOK'
  <2>1. session'.envelope \in 1..envelopes' /\ retained'.session.envelope # session'.envelope
    BY <1>3, <1>4, <1>6, <1>14
  <2>. QED BY <1>3, <1>6, <1>7, <1>9, <1>10, <1>13, <2>1 DEF LiveOK, Whole
<1>19. GoneOK'
  BY <1>15 DEF GoneOK
<1>20. ASSUME NEW r \in reports' PROVE ReportOK(r)'
  <2>1. ReportOK(r) /\ r.envelope \in 0..envelopes
    BY <1>3, <1>20 DEF SpeechInv, ReportOK
  <2>2. r.envelope # n /\ r.envelope \in 0..n
    BY <1>4, <2>1
  <2>3. r \in Reports(n)
    BY <2>1, <2>2 DEF ReportOK, Reports
  <2>. QED BY <1>3, <1>6, <1>14, <2>1, <2>2, <2>3 DEF ReportOK, Reports
<1>. QED BY <1>16, <1>17, <1>18, <1>19, <1>20 DEF SpeechInv

\* The provider and the track are not ready in time, or the transaction fails.
LEMMA StartFailsKeeps == SpeechInv /\ RG!StartFails => SpeechInv'
<1>. SUFFICES ASSUME SpeechInv, RG!StartFails PROVE SpeechInv'
  OBVIOUS
<1>1. /\ core.action = "STARTING" /\ core' = [core EXCEPT !.action = "READY"] /\ RG!Detach
      /\ UNCHANGED <<reports, envelopes, stored>>
  BY DEF RG!StartFails
<1>2. stored = RG!NotStored /\ ~core.operation
  BY <1>1 DEF SpeechInv, CoreOK
<1>3. CoreTypes'
  BY <1>1 DEF SpeechInv, SpeechTypes, CoreTypes
<1>4. core'.operation = core.operation
  BY <1>1 DEF SpeechInv, SpeechTypes
<1>5. core'.action = "READY"
  BY <1>1 DEF SpeechInv, SpeechTypes
<1>. QED BY <1>1, <1>2, <1>3, <1>4, <1>5, DetachKeeps

\* An operator resets the speech.
LEMMA ResetKeeps == SpeechInv /\ RG!Reset => SpeechInv'
<1>. SUFFICES ASSUME SpeechInv, RG!Reset PROVE SpeechInv'
  OBVIOUS
<1>1. /\ core.status # "DONE" /\ core' = RG!Running("READY") /\ RG!Detach
      /\ UNCHANGED <<reports, envelopes, stored>>
  BY DEF RG!Reset
<1>2. stored = RG!NotStored
  BY <1>1 DEF SpeechInv, CoreOK
<1>3. CoreTypes' /\ ~core'.operation /\ core'.action = "READY"
  BY <1>1 DEF RG!Running, CoreTypes
<1>. QED BY <1>1, <1>2, <1>3, DetachKeeps

\* The start of the speech is stored and the input of its session is opened.
LEMMA CommitStartKeeps == SpeechInv /\ RG!CommitStart => SpeechInv'
<1>. SUFFICES ASSUME SpeechInv, RG!CommitStart PROVE SpeechInv'
  OBVIOUS
<1>1. /\ core.action = "STARTING" /\ core' = [core EXCEPT !.action = "SPEAKING"]
      /\ UNCHANGED <<paused, retained, pauseRequested, waits, reports, envelopes, heard, replays,
                     stored>>
  BY DEF RG!CommitStart
<1>2. /\ core.status = "RUNNING" /\ ~core.operation /\ stored = RG!NotStored
      /\ (RG!HasSession => session.at = "ready" /\ ~session.replay)
  BY <1>1 DEF SpeechInv, CoreOK
<1>3. CoreTypes' /\ core'.action = "SPEAKING" /\ ~core'.operation
  <2>1. CoreTypes'
    BY <1>1 DEF SpeechInv, SpeechTypes, CoreTypes
  <2>2. core'.action = "SPEAKING"
    BY <1>1 DEF SpeechInv, SpeechTypes
  <2>3. core'.operation = core.operation
    BY <1>1 DEF SpeechInv, SpeechTypes
  <2>. QED BY <1>2, <2>1, <2>2, <2>3
<1>4. SourceStays /\ waits' \in [finish : BOOLEAN, pause : BOOLEAN, retry : BOOLEAN]
  BY <1>1 DEF SpeechInv, SpeechTypes, SourceStays
<1>5. CASE RG!HasSession
  <2>1. PICK s : s = [session EXCEPT !.at = "streaming"]
    OBVIOUS
  <2>2. session' = s
    BY <1>5, <2>1 DEF RG!CommitStart
  <2>3. Fits(session) /\ session \in RG!Sessions
    BY DEF SpeechInv, SpeechTypes, Fits
  <2>4. Kin(session, s) /\ s.at = "streaming" /\ s.fenced = session.fenced
    BY <2>1, <2>3, Moved
  <2>5. Fits(s)
    BY <2>3, <2>4, KinFits
  <2>6. /\ s.envelope = session.envelope /\ s.initial = session.initial
        /\ s.history = session.history /\ s.replay = session.replay /\ s.retried = session.retried
    BY <2>4 DEF Kin
  <2>7. \A r \in reports' : ReportOK(r)'
    BY <1>1, <1>2, <1>4, <1>5, <2>2, <2>6, ReportsStay
  <2>8. /\ pauseRequested' \in BOOLEAN /\ replays' \in {0, 1}
        /\ UNCHANGED <<paused, envelopes, stored, heard>>
        /\ (pauseRequested' => s.fenced /\ ~s.replay)
        /\ (~s.retried /\ ~s.replay => replays' = 0)
    BY <1>1, <1>5, <2>4, <2>6 DEF SpeechInv, SpeechTypes, LiveOK
  <2>. QED BY <1>2, <1>3, <1>4, <1>5, <2>2, <2>4, <2>5, <2>6, <2>7, <2>8, StaysKeeps
<1>6. CASE ~RG!HasSession
  <2>1. UNCHANGED <<session, paused, pauseRequested, envelopes, heard, replays, stored, reports>>
    BY <1>1, <1>6 DEF RG!CommitStart
  <2>. QED BY <1>2, <1>3, <1>4, <1>6, <2>1, AllStays
<1>. QED BY <1>5, <1>6

\* The speech is finished or its time is up: its input is closed.
LEMMA FinishKeeps == SpeechInv /\ RG!Finish => SpeechInv'
<1>. SUFFICES ASSUME SpeechInv, RG!Finish PROVE SpeechInv'
  OBVIOUS
<1>1. /\ core.status = "RUNNING" /\ core.action = "SPEAKING"
      /\ core' = [core EXCEPT !.action = "FINALIZING"]
      /\ UNCHANGED <<paused, retained, pauseRequested, envelopes, heard, replays, stored>>
  BY DEF RG!Finish
<1>2. ~core.operation /\ stored = RG!NotStored /\ (RG!HasSession => ~session.replay)
  BY <1>1 DEF SpeechInv, CoreOK, LiveOK
<1>3. CoreTypes' /\ core'.action = "FINALIZING" /\ ~core'.operation
  <2>1. CoreTypes'
    BY <1>1 DEF SpeechInv, SpeechTypes, CoreTypes
  <2>2. core'.action = "FINALIZING"
    BY <1>1 DEF SpeechInv, SpeechTypes
  <2>3. core'.operation = core.operation
    BY <1>1 DEF SpeechInv, SpeechTypes
  <2>. QED BY <1>2, <2>1, <2>2, <2>3
<1>4. SourceStays
  BY <1>1 DEF SpeechInv, SpeechTypes, SourceStays
<1>5. CASE RG!HasSession
  <2>1. PICK s : s = [session EXCEPT !.closed = TRUE]
    OBVIOUS
  <2>2. session' = s /\ UNCHANGED reports /\ waits' = [waits EXCEPT !.finish = TRUE]
    BY <1>5, <2>1 DEF RG!Finish
  <2>3. /\ Fits(session) /\ session \in RG!Sessions
        /\ waits' \in [finish : BOOLEAN, pause : BOOLEAN, retry : BOOLEAN]
    BY <2>2 DEF SpeechInv, SpeechTypes, Fits
  <2>4. Kin(session, s) /\ s.at = session.at /\ s.fenced = session.fenced
    BY <2>1, <2>3, Closed
  <2>5. Fits(s)
    BY <2>3, <2>4, KinFits DEF Fits
  <2>6. /\ s.envelope = session.envelope /\ s.initial = session.initial /\ s.text = session.text
        /\ s.history = session.history /\ s.replay = session.replay /\ s.retried = session.retried
    BY <2>4 DEF Kin
  <2>7. \A r \in reports' : ReportOK(r)'
    BY <1>1, <1>4, <1>5, <2>2, <2>4, <2>6, ReportsSame
  <2>8. /\ pauseRequested' \in BOOLEAN /\ replays' \in {0, 1} /\ s.at # "none"
        /\ UNCHANGED <<paused, envelopes, stored, heard>>
        /\ (pauseRequested' => s.fenced /\ ~s.replay)
        /\ (~s.retried /\ ~s.replay => replays' = 0)
    BY <1>1, <1>5, <2>4, <2>6 DEF SpeechInv, SpeechTypes, LiveOK
  <2>. QED BY <1>2, <1>3, <1>4, <1>5, <2>2, <2>3, <2>4, <2>5, <2>6, <2>7, <2>8, StaysKeeps
<1>6. CASE ~RG!HasSession
  <2>1. PICK f : f = RG!Report("failed", retained.session)
    OBVIOUS
  <2>2. /\ UNCHANGED <<session, paused, pauseRequested, envelopes, heard, replays, stored>>
        /\ reports' \subseteq reports \cup {f} /\ UNCHANGED waits
    BY <1>1, <1>6, <2>1 DEF RG!Finish
  <2>3. f \in Reports(envelopes) /\ f.kind # "finalized"
    <3>1. /\ retained.session \in RG!Sessions /\ retained.session.envelope <= envelopes
          /\ envelopes \in Nat /\ retained.session.envelope \in Nat
      BY DEF SpeechInv, SpeechTypes, Fits, RG!Sessions
    <3>2. retained.session.envelope \in 0..envelopes
      BY <3>1
    <3>. QED BY <2>1, <3>1, <3>2, FailureReport
  <2>4. waits' \in [finish : BOOLEAN, pause : BOOLEAN, retry : BOOLEAN]
    BY <2>2 DEF SpeechInv, SpeechTypes
  <2>. QED BY <1>2, <1>3, <1>4, <1>6, <2>2, <2>3, <2>4, AllStays
<1>. QED BY <1>5, <1>6

\* The match resumes: the speaker has the floor again.
LEMMA ResumeKeeps == SpeechInv /\ RG!Resume => SpeechInv'
<1>. SUFFICES ASSUME SpeechInv, RG!Resume PROVE SpeechInv'
  OBVIOUS
<1>1. /\ core.status = "PAUSED" /\ core' = RG!Running("READY")
      /\ UNCHANGED <<session, paused, retained, pauseRequested, waits, reports, envelopes, heard,
                     replays, stored>>
  BY DEF RG!Resume, RG!Receiver
<1>2. stored = RG!NotStored /\ (RG!HasSession => ~session.replay)
  BY <1>1 DEF SpeechInv, CoreOK, LiveOK
<1>3. CoreTypes' /\ ~core'.operation /\ core'.action = "READY"
  BY <1>1 DEF RG!Running, CoreTypes
<1>4. SourceStays /\ waits' \in [finish : BOOLEAN, pause : BOOLEAN, retry : BOOLEAN]
  BY <1>1 DEF SpeechInv, SpeechTypes, SourceStays
<1>. QED BY <1>1, <1>2, <1>3, <1>4, AllStays

\* A pause closes the input and fences the callbacks of the session.
LEMMA FenceKeeps ==
    ASSUME SpeechInv, RG!Fence, RG!HasSession => ~session.replay, stored = RG!NotStored,
           UNCHANGED <<reports, envelopes, heard, replays, stored>>,
           CoreTypes', core'.operation => core'.status = "ERROR", core'.action # "STARTING"
    PROVE  SpeechInv'
<1>1. UNCHANGED paused
  BY DEF RG!Fence
<1>2. SourceStays
  <2>1. PICK q : q = [retained EXCEPT !.current = FALSE]
    OBVIOUS
  <2>2. retained' = q /\ retained \in [session : RG!Sessions, current : BOOLEAN]
    BY <2>1 DEF RG!Fence, SpeechInv, SpeechTypes
  <2>3. q \in [session : RG!Sessions, current : BOOLEAN] /\ q.session = retained.session
    BY <2>1, <2>2
  <2>4. ASSUME retained = RG!NoSource PROVE q = RG!NoSource
    <3>1. q.current = FALSE
      BY <2>1, <2>2
    <3>2. /\ RG!NoSource \in [session : RG!Sessions, current : BOOLEAN]
          /\ RG!NoSource.current = FALSE
      BY NoSessionFields DEF RG!NoSource
    <3>3. q.session = RG!NoSource.session
      BY <2>3, <2>4
    <3>4. \A x, y \in [session : RG!Sessions, current : BOOLEAN] :
            x.session = y.session /\ x.current = y.current => x = y
      OBVIOUS
    <3>. QED BY <2>3, <3>1, <3>2, <3>3, <3>4
  <2>. QED BY <2>2, <2>3, <2>4 DEF SourceStays
<1>3. CASE RG!HasSession
  <2>1. PICK s : s = [session EXCEPT !.closed = TRUE, !.fenced = TRUE]
    OBVIOUS
  <2>2. session' = s /\ pauseRequested' = TRUE /\ waits' = [waits EXCEPT !.pause = TRUE]
    BY <1>3, <2>1 DEF RG!Fence
  <2>3. /\ Fits(session) /\ session \in RG!Sessions
        /\ waits' \in [finish : BOOLEAN, pause : BOOLEAN, retry : BOOLEAN]
    BY <2>2 DEF SpeechInv, SpeechTypes, Fits
  <2>4. Kin(session, s) /\ s.at = session.at /\ s.fenced
    BY <2>1, <2>3, Fenced
  <2>5. Fits(s)
    BY <2>3, <2>4, KinFits DEF Fits
  <2>6. /\ s.envelope = session.envelope /\ s.initial = session.initial /\ s.text = session.text
        /\ s.history = session.history /\ s.replay = session.replay /\ s.retried = session.retried
    BY <2>4 DEF Kin
  <2>7. \A r \in reports' : ReportOK(r)'
    BY <1>2, <1>3, <2>2, <2>4, <2>6, ReportsSame
  <2>8. /\ replays' \in {0, 1} /\ s.at # "none" /\ (~s.retried /\ ~s.replay => replays' = 0)
    BY <1>3, <2>4, <2>6 DEF SpeechInv, SpeechTypes, LiveOK
  <2>. QED BY <1>1, <1>2, <1>3, <2>2, <2>3, <2>4, <2>5, <2>6, <2>7, <2>8, StaysKeeps
<1>4. CASE ~RG!HasSession
  <2>1. UNCHANGED <<session, pauseRequested, waits>>
    BY <1>4 DEF RG!Fence
  <2>2. waits' \in [finish : BOOLEAN, pause : BOOLEAN, retry : BOOLEAN]
    BY <2>1 DEF SpeechInv, SpeechTypes
  <2>. QED BY <1>1, <1>2, <1>4, <2>1, <2>2, AllStays
<1>. QED BY <1>3, <1>4

\* The match pauses.
LEMMA PauseKeeps == SpeechInv /\ RG!Pause => SpeechInv'
<1>. SUFFICES ASSUME SpeechInv, RG!Pause PROVE SpeechInv'
  OBVIOUS
<1>1. /\ core.status = "RUNNING" /\ core.action # "STARTING" /\ RG!Fence
      /\ core' = [core EXCEPT !.status = "PAUSED"]
      /\ UNCHANGED <<reports, envelopes, heard, replays, stored>>
  BY DEF RG!Pause, RG!Free
<1>2. stored = RG!NotStored /\ ~core.operation /\ (RG!HasSession => ~session.replay)
  BY <1>1 DEF SpeechInv, CoreOK, LiveOK
<1>3. CoreTypes'
  BY <1>1 DEF SpeechInv, SpeechTypes, CoreTypes
<1>4. core'.operation = core.operation
  BY <1>1 DEF SpeechInv, SpeechTypes
<1>5. core'.action = core.action
  BY <1>1 DEF SpeechInv, SpeechTypes
<1>. QED BY <1>1, <1>2, <1>3, <1>4, <1>5, FenceKeeps

\* A pause during a retry cancels it (_cancel_retry).
LEMMA RetryCancelKeeps == SpeechInv /\ RG!RetryCancel => SpeechInv'
<1>. SUFFICES ASSUME SpeechInv, RG!RetryCancel PROVE SpeechInv'
  OBVIOUS
<1>1. /\ core.status = "ERROR" /\ core.operation /\ core' = [core EXCEPT !.operation = FALSE]
      /\ UNCHANGED <<reports, envelopes, heard, replays, stored>>
  BY DEF RG!RetryCancel
<1>2. stored = RG!NotStored /\ core.action # "STARTING"
  BY <1>1 DEF SpeechInv, CoreOK
<1>3. CoreTypes'
  BY <1>1 DEF SpeechInv, SpeechTypes, CoreTypes
<1>4. core'.operation = FALSE
  BY <1>1 DEF SpeechInv, SpeechTypes
<1>5. core'.action = core.action
  BY <1>1 DEF SpeechInv, SpeechTypes
<1>6. CASE session.replay
  <2>1. PICK s : s = [session EXCEPT !.fenced = TRUE]
    OBVIOUS
  <2>2. session \in RG!Sessions /\ RG!HasSession
    BY <1>6, NoSessionFields DEF SpeechInv, SpeechTypes, Fits, RG!HasSession
  <2>3. Kin(session, s) /\ s.at = session.at
    BY <2>1, <2>2, FencedOnly
  <2>4. /\ retained' = [session |-> s, current |-> FALSE] /\ session' = RG!NoSession
        /\ pauseRequested' = FALSE /\ waits' = RG!Nobody /\ UNCHANGED paused
    BY <1>6, <2>1 DEF RG!RetryCancel
  <2>. QED BY <1>1, <1>2, <1>3, <1>4, <1>5, <2>2, <2>3, <2>4, RetireKeeps
<1>7. CASE ~session.replay
  <2>1. RG!Fence
    BY <1>7 DEF RG!RetryCancel
  <2>. QED BY <1>1, <1>2, <1>3, <1>4, <1>5, <1>7, <2>1, FenceKeeps
<1>. QED BY <1>6, <1>7

\* Reports are told apart by their fields.
LEMMA SameRecord ==
    ASSUME NEW A, NEW B, NEW C, NEW D
    PROVE  \A x, y \in [kind : A, envelope : B, text : C, recovery : D] :
             x.kind = y.kind /\ x.envelope = y.envelope /\ x.text = y.text
               /\ x.recovery = y.recovery => x = y
OBVIOUS

\* Two final texts of one session are one report.
LEMMA OneFinalReport ==
    ASSUME SpeechInv, RG!HasSession, NEW r \in reports, NEW q \in reports,
           r.kind = "finalized", q.kind = "finalized",
           r.envelope = session.envelope, q.envelope = session.envelope
    PROVE  r = q
<1>1. /\ r \in Reports(envelopes) /\ q \in Reports(envelopes) /\ ~r.recovery /\ ~q.recovery
      /\ r.text = session.text /\ q.text = session.text
  BY DEF SpeechInv, ReportOK, Reports
<1>2. \A x, y \in Reports(envelopes) :
        x.kind = y.kind /\ x.envelope = y.envelope /\ x.text = y.text /\ x.recovery = y.recovery =>
          x = y
  BY SameRecord DEF Reports
<1>3. r.recovery = q.recovery
  BY <1>1 DEF Reports
<1>. QED BY <1>1, <1>2, <1>3

\* A session whose callbacks are accepted is the one that reports, or is gone.
LEMMA FinalReportOf ==
    ASSUME SpeechInv, NEW r \in reports, r.kind = "finalized", RG!Owns(r.envelope)
    PROVE  /\ RG!HasSession => RG!Sender(r, "reporting") /\ r.text = session.text
           /\ ~RG!HasSession => /\ r.text = retained.session.text
                                /\ retained.session.confirmed = Len(retained.session.history)
                                /\ retained.session # RG!NoSession
<1>1. /\ r.envelope # 0
      /\ (RG!HasSession /\ session.envelope = r.envelope =>
            session.at = "reporting" /\ r.text = session.text)
      /\ (retained.session.envelope = r.envelope =>
            r.text = retained.session.text
              /\ retained.session.confirmed = Len(retained.session.history))
  BY DEF SpeechInv, ReportOK
<1>. QED BY <1>1, NoSessionFields DEF RG!Owns, RG!Sender

\* The speech is stored: its text is all that was heard (_asr_finalized).
LEMMA StoredKeeps ==
    ASSUME SpeechInv, NEW r \in reports, r.kind = "finalized", RG!MayFinalize(r), stored' = r.text,
           core' = [RG!Running("FINALIZING") EXCEPT !.status = "DONE"],
           IF RG!Sender(r, "reporting") THEN RG!End(paused, RG!NoSource, reports \ {r})
           ELSE reports' = reports \ {r} /\ UNCHANGED RG!Receiver,
           UNCHANGED <<envelopes, heard, replays>>
    PROVE  SpeechInv'
<1>1. /\ CoreTypes' /\ ~core'.operation /\ core'.status = "DONE" /\ core'.action = "FINALIZING"
  BY DEF RG!Running, CoreTypes
<1>2. stored = RG!NotStored
  BY DEF RG!MayFinalize, SpeechInv, CoreOK
<1>3. Fits(session) /\ Fits(retained.session)
  BY DEF SpeechInv, SpeechTypes
<1>4. CASE RG!HasSession
  <2>1. RG!Sender(r, "reporting") /\ r.text = session.text
    BY <1>4, FinalReportOf DEF RG!MayFinalize
  <2>2. RG!End(paused, RG!NoSource, reports \ {r})
    BY <2>1
  <2>3. stored' = heard
    <3>1. session.confirmed = Len(session.history) /\ Whole(session)
      BY <1>3, <1>4, <2>1 DEF Fits, RG!Sender, SpeechInv, LiveOK
    <3>. QED BY <1>3, <2>1, <3>1, TextAndRest DEF Whole
  <2>4. RG!NoSource.session = RG!NoSession
    BY DEF RG!NoSource
  <2>5. Left(paused, RG!NoSource)
    <3>1. RG!NoSource \in [session : RG!Sessions, current : BOOLEAN]
      BY NoSessionFields DEF RG!NoSource
    <3>. QED BY <2>4, <3>1, NothingFits, NoSessionFields DEF Left, SpeechInv, SpeechTypes
  <2>6. Holds(paused, RG!NoSource)
    BY <1>1, <2>3 DEF Holds
  <2>7. \A q \in reports : q.kind = "finalized" => q.envelope # RG!NoSource.session.envelope
    BY <2>4, NoSessionFields DEF SpeechInv, ReportOK
  <2>. QED BY <1>1, <1>4, <2>2, <2>5, <2>6, <2>7, EndKeeps
<1>5. CASE ~RG!HasSession
  <2>1. ~RG!Sender(r, "reporting")
    BY <1>5, NoSessionFields DEF RG!Sender, RG!HasSession
  <2>2. reports' = reports \ {r} /\ UNCHANGED <<session, paused, retained, pauseRequested, waits>>
    BY <2>1 DEF RG!Receiver
  <2>3. /\ r.text = retained.session.text /\ retained.session # RG!NoSession
        /\ retained.session.confirmed = Len(retained.session.history)
    BY <1>5, FinalReportOf DEF RG!MayFinalize
  <2>4. Whole(retained.session)
    <3>1. retained # RG!NoSource
      BY <2>3 DEF RG!NoSource
    <3>. QED BY <1>2, <1>5, <3>1 DEF SpeechInv, GoneOK
  <2>5. stored' = heard
    BY <1>3, <2>3, <2>4, TextAndRest DEF Whole
  <2>6. stored' # RG!NotStored
    BY <2>5, HeardIsNoMark
  <2>7. ~RG!HasSession'
    BY <1>5, <2>2 DEF RG!HasSession
  <2>8. SpeechTypes'
    BY <1>1, <2>2 DEF SpeechInv, SpeechTypes, CoreTypes
  <2>9. CoreOK'
    BY <1>1, <2>5, <2>7 DEF CoreOK
  <2>10. LiveOK'
    BY <2>7 DEF LiveOK
  <2>11. GoneOK'
    BY <1>5, <2>2, <2>6 DEF SpeechInv, GoneOK
  <2>12. \A q \in reports' : ReportOK(q)'
    BY <1>5, <2>2, <2>7 DEF SpeechInv, ReportOK
  <2>. QED BY <2>8, <2>9, <2>10, <2>11, <2>12 DEF SpeechInv
<1>. QED BY <1>4, <1>5

\* A report is taken off the queue and nothing comes of it.
LEMMA QueueShrinks ==
    ASSUME SpeechInv, reports' \subseteq reports,
           UNCHANGED <<core, session, paused, retained, pauseRequested, waits, envelopes, heard,
                       replays, stored>>
    PROVE  SpeechInv'
<1>1. SourceStays /\ waits' \in [finish : BOOLEAN, pause : BOOLEAN, retry : BOOLEAN]
  BY DEF SpeechInv, SpeechTypes, SourceStays
<1>2. /\ (core'.action = "STARTING" =>
            core'.status = "RUNNING" /\ (RG!HasSession => session.at = "ready"))
      /\ (RG!HasSession /\ session.replay => core'.status = "ERROR")
      /\ (stored # RG!NotStored => core'.status = "DONE" /\ core'.action = "FINALIZING")
  BY DEF SpeechInv, CoreOK, LiveOK
<1>3. CoreTypes' /\ (core'.operation => core'.status = "ERROR")
  BY CoreSame
<1>. QED BY <1>1, <1>2, <1>3, AllStays

\* The final text reaches the actor: it is stored, or refused and its session fails.
LEMMA FinalizedKeeps == ASSUME SpeechInv, NEW r \in reports, RG!Finalized(r) PROVE SpeechInv'
<1>1. r.kind = "finalized" /\ UNCHANGED <<envelopes, heard, replays>>
  BY DEF RG!Finalized
<1>2. CASE /\ RG!MayFinalize(r)
           /\ stored' = r.text /\ core' = [RG!Running("FINALIZING") EXCEPT !.status = "DONE"]
           /\ IF RG!Sender(r, "reporting") THEN RG!End(paused, RG!NoSource, reports \ {r})
              ELSE reports' = reports \ {r} /\ UNCHANGED RG!Receiver
  BY <1>1, <1>2, StoredKeeps
<1>3. CASE /\ IF RG!Sender(r, "reporting") THEN RG!RunFails(session, reports \ {r})
              ELSE reports' = reports \ {r} /\ UNCHANGED RG!Receiver
           /\ UNCHANGED <<core, stored>>
  <2>1. CASE RG!Sender(r, "reporting")
    <3>1. /\ session.at = "reporting" /\ session.envelope = r.envelope
          /\ RG!RunFails(session, reports \ {r})
      BY <1>3, <2>1 DEF RG!Sender
    <3>2. RG!HasSession
      BY <3>1, NoSessionFields DEF RG!HasSession
    <3>3. \A q \in reports \ {r} : q.kind = "finalized" => q.envelope # session.envelope
      BY <1>1, <3>1, <3>2, OneFinalReport
    <3>4. reports \ {r} \subseteq reports /\ session.at # "failing"
      BY <3>1
    <3>. QED BY <1>1, <1>3, <3>1, <3>2, <3>3, <3>4, RunFailsKeeps
  <2>2. CASE ~RG!Sender(r, "reporting")
    <3>1. /\ reports' = reports \ {r} /\ UNCHANGED <<core, stored>>
          /\ UNCHANGED <<session, paused, retained, pauseRequested, waits>>
      BY <1>3, <2>2 DEF RG!Receiver
    <3>. QED BY <1>1, <3>1, QueueShrinks
  <2>. QED BY <2>1, <2>2
<1>. QED BY <1>2, <1>3 DEF RG!Finalized

\* A failure reaches the actor (_asr_failed).
LEMMA FailedKeeps == ASSUME SpeechInv, NEW r \in reports, RG!Failed(r) PROVE SpeechInv'
<1>1. /\ r.kind = "failed" /\ core.action # "STARTING"
      /\ UNCHANGED <<envelopes, heard, replays, stored>>
  BY DEF RG!Failed, RG!Free
<1>2. /\ CoreTypes' /\ (core'.operation => core'.status = "ERROR") /\ core'.action # "STARTING"
      /\ (core.status = "ERROR" => core'.status = "ERROR")
      /\ (stored # RG!NotStored => core'.status = "DONE" /\ core'.action = "FINALIZING")
  <2>1. CASE ~RG!MayFail(r)
    <3>1. core' = core
      BY <2>1 DEF RG!Failed
    <3>. QED BY <1>1, <3>1, CoreSame DEF SpeechInv, CoreOK
  <2>2. CASE RG!MayFail(r)
    <3>1. core' = [core EXCEPT !.status = "ERROR", !.failed = TRUE, !.operation = FALSE]
      BY <2>2 DEF RG!Failed
    <3>2. CoreTypes'
      BY <3>1 DEF SpeechInv, SpeechTypes, CoreTypes
    <3>3. core'.status = "ERROR" /\ core'.action = core.action
      BY <3>1 DEF SpeechInv, SpeechTypes
    <3>4. core.status # "DONE"
      BY <2>2 DEF RG!MayFail, SpeechInv, CoreOK
    <3>. QED BY <1>1, <3>2, <3>3, <3>4 DEF SpeechInv, CoreOK
  <2>. QED BY <2>1, <2>2
<1>3. CASE RG!Sender(r, "failing") /\ ~r.recovery
  <2>1. RG!End(paused, retained, reports \ {r}) /\ session.at = "failing"
    BY <1>3 DEF RG!Failed, RG!Sender
  <2>2. RG!HasSession
    BY <2>1, NoSessionFields DEF RG!HasSession
  <2>3. Left(paused, retained)
    BY DEF Left, SpeechInv, SpeechTypes
  <2>4. Holds(paused, retained)
    <3>1. paused = RG!NotPaused /\ Whole(retained.session)
      BY <2>1, <2>2 DEF SpeechInv, LiveOK
    <3>. QED BY <1>1, <3>1 DEF Holds, RG!NotPaused
  <2>5. \A q \in reports \ {r} : q.kind = "finalized" /\ retained.session.envelope = q.envelope =>
          q.text = retained.session.text
            /\ retained.session.confirmed = Len(retained.session.history)
    BY DEF SpeechInv, ReportOK
  <2>. QED BY <1>1, <1>2, <2>1, <2>2, <2>3, <2>4, <2>5, EndKeeps
<1>4. CASE ~(RG!Sender(r, "failing") /\ ~r.recovery)
  <2>1. reports' = reports \ {r} /\ UNCHANGED <<session, paused, retained, pauseRequested, waits>>
    BY <1>4 DEF RG!Failed, RG!Receiver
  <2>2. SourceStays /\ waits' \in [finish : BOOLEAN, pause : BOOLEAN, retry : BOOLEAN]
    BY <2>1 DEF SpeechInv, SpeechTypes, SourceStays
  <2>3. RG!HasSession /\ session.replay => core'.status = "ERROR"
    BY <1>2 DEF SpeechInv, LiveOK
  <2>. QED BY <1>1, <1>2, <2>1, <2>2, <2>3, AllStays
<1>. QED BY <1>3, <1>4

\* A retry that failed reaches the actor (_asr_retry_failed).
LEMMA RetryFailedKeeps == ASSUME SpeechInv, NEW r \in reports, RG!RetryFailed(r) PROVE SpeechInv'
<1>1. /\ core' = [core EXCEPT !.operation = FALSE] /\ reports' = reports \ {r}
      /\ UNCHANGED <<session, paused, retained, pauseRequested, waits>>
      /\ UNCHANGED <<envelopes, heard, replays, stored>>
  BY DEF RG!RetryFailed, RG!Receiver
<1>2. CoreTypes'
  BY <1>1 DEF SpeechInv, SpeechTypes, CoreTypes
<1>3. ~core'.operation
  BY <1>1 DEF SpeechInv, SpeechTypes
<1>4. core'.status = core.status /\ core'.action = core.action
  BY <1>1 DEF SpeechInv, SpeechTypes
<1>5. SourceStays /\ waits' \in [finish : BOOLEAN, pause : BOOLEAN, retry : BOOLEAN]
  BY <1>1 DEF SpeechInv, SpeechTypes, SourceStays
<1>6. /\ (core'.action = "STARTING" =>
            core'.status = "RUNNING" /\ (RG!HasSession => session.at = "ready"))
      /\ (RG!HasSession /\ session.replay => core'.status = "ERROR")
      /\ (stored # RG!NotStored => core'.status = "DONE" /\ core'.action = "FINALIZING")
  BY <1>4 DEF SpeechInv, CoreOK, LiveOK
<1>. QED BY <1>1, <1>2, <1>3, <1>5, <1>6, AllStays

\* The recording is recognised again (retry_from_recording).
LEMMA RecoveryFits ==
    ASSUME SpeechInv, NEW q, Fits(q), NEW s, s = RG!Recovery(q)
    PROVE  /\ Fits(s) /\ s.initial \o s.history = q.initial \o q.history
           /\ s.envelope = envelopes + 1 /\ s.at = "streaming" /\ s.replay /\ ~s.fenced
<1>1. PICK rest : rest = RG!Unconfirmed(q)
  OBVIOUS
<1>2. PICK text, audio, n :
        /\ text = IF rest = << >> THEN q.initial ELSE q.text
        /\ audio = IF rest = << >> THEN q.history ELSE rest
        /\ n = envelopes + 1
  OBVIOUS
<1>3. s = [RG!NoSession EXCEPT !.envelope = n, !.at = "streaming", !.closed = TRUE,
              !.initial = text, !.text = text, !.retried = q.retried, !.replay = TRUE,
              !.history = audio]
  BY <1>1, <1>2 DEF RG!Recovery
<1>4. /\ q \in RG!Sessions /\ q.retried \in BOOLEAN /\ q.text \in RG!Audio /\ q.initial \in RG!Audio
      /\ q.history \in RG!Audio /\ q.confirmed \in Nat /\ q.confirmed <= Len(q.history)
      /\ Len(q.history) <= MaxAudio
  <2>1. q \in RG!Sessions /\ q.confirmed <= Len(q.history) /\ Len(q.history) <= MaxAudio
    BY DEF Fits
  <2>2. /\ q.retried \in BOOLEAN /\ q.text \in RG!Audio /\ q.initial \in RG!Audio
        /\ q.history \in RG!Audio /\ q.confirmed \in 0..MaxAudio
    BY <2>1 DEF RG!Sessions
  <2>3. q.confirmed \in Nat
    BY <2>2, MediaAssumption
  <2>. QED BY <2>1, <2>2, <2>3
<1>5. /\ q.text \o rest = q.initial \o q.history /\ rest \in RG!Audio
      /\ Len(rest) = Len(q.history) - q.confirmed
  BY <1>1, TextAndRest
<1>6. text \in RG!Audio /\ audio \in RG!Audio /\ text \o audio = q.initial \o q.history
  BY <1>2, <1>4, <1>5
<1>7. n \in Nat /\ Len(audio) \in Nat /\ Len(audio) <= MaxAudio
  <2>1. Len(q.history) \in Nat
    BY <1>4, LenProperties DEF RG!Audio
  <2>2. Len(rest) <= Len(q.history) /\ Len(rest) \in Nat
    BY <1>4, <1>5, <2>1
  <2>3. n \in Nat
    BY <1>2 DEF SpeechInv, SpeechTypes
  <2>. QED BY <1>2, <1>4, <2>1, <2>2, <2>3, MediaAssumption
<1>8. s \in RG!Sessions
  BY <1>3, <1>4, <1>6, <1>7, NoSessionFields, ZenonT(60) DEF RG!Sessions
<1>9. /\ s.envelope = n /\ s.at = "streaming" /\ s.initial = text /\ s.text = text
      /\ s.history = audio
  BY <1>3, NoSessionFields DEF RG!Sessions
<1>10. s.confirmed = 0 /\ s.retriesLeft = 0 /\ s.fenced = FALSE
  BY <1>3, NoSessionFields DEF RG!Sessions
<1>11. s.replay = TRUE
  BY <1>3, NoSessionFields DEF RG!Sessions
<1>12. s.text = s.initial \o SubSeq(s.history, 1, s.confirmed)
  <2>1. SubSeq(audio, 1, 0) = << >>
    BY SubSeqEmpty
  <2>2. text \o << >> = text
    BY <1>6, ConcatEmptySeq DEF RG!Audio
  <2>3. s.initial \o SubSeq(s.history, 1, s.confirmed) = text \o SubSeq(audio, 1, 0)
    BY <1>9, <1>10
  <2>. QED BY <1>9, <2>1, <2>2, <2>3
<1>13. /\ s.confirmed <= Len(s.history) /\ Len(s.history) <= MaxAudio
       /\ s.at \notin {"saving", "reporting"} /\ s.retriesLeft # 1
  BY <1>7, <1>9, <1>10
<1>14. Fits(s)
  BY <1>8, <1>12, <1>13, Zenon DEF Fits
<1>. QED BY <1>2, <1>6, <1>9, <1>10, <1>11, <1>14

\* An operator retries: the recording becomes a session again.
LEMMA RetryBeginKeeps == SpeechInv /\ RG!RetryBegin => SpeechInv'
<1>. SUFFICES ASSUME SpeechInv, RG!RetryBegin PROVE SpeechInv'
  OBVIOUS
<1>1. /\ core.status = "ERROR" /\ RG!HasSource /\ core' = [core EXCEPT !.operation = TRUE]
      /\ UNCHANGED <<paused, pauseRequested, heard, replays, stored>>
  BY DEF RG!RetryBegin
<1>2. stored = RG!NotStored /\ core.action # "STARTING"
  BY <1>1 DEF SpeechInv, CoreOK
<1>3. CoreTypes'
  BY <1>1 DEF SpeechInv, SpeechTypes, CoreTypes
<1>4. core'.status = core.status /\ core'.action = core.action
  BY <1>1 DEF SpeechInv, SpeechTypes
<1>5. Fits(retained.session) /\ retained.session.envelope \in 0..envelopes /\ envelopes \in Nat
  <2>1. /\ Fits(retained.session) /\ retained.session.envelope <= envelopes /\ envelopes \in Nat
        /\ retained.session.envelope \in Nat
    BY DEF SpeechInv, SpeechTypes, Fits, RG!Sessions
  <2>. QED BY <2>1
<1>6. CASE RG!HasSession
  <2>1. PICK f : f = RG!Report("retry failed", retained.session)
    OBVIOUS
  <2>2. reports' = reports \cup {f} /\ UNCHANGED <<session, retained, waits, envelopes>>
    BY <1>6, <2>1 DEF RG!RetryBegin
  <2>3. f \in Reports(envelopes) /\ f.kind # "finalized"
    BY <1>5, <2>1, FailureReport DEF Fits
  <2>4. SourceStays /\ waits' \in [finish : BOOLEAN, pause : BOOLEAN, retry : BOOLEAN]
    BY <2>2 DEF SpeechInv, SpeechTypes, SourceStays
  <2>. QED BY <1>1, <1>2, <1>3, <1>4, <2>2, <2>3, <2>4, AllStays
<1>7. CASE ~RG!HasSession
  <2>1. PICK s, q : s = RG!Recovery(retained.session) /\ q = [retained EXCEPT !.current = FALSE]
    OBVIOUS
  <2>2. /\ session' = s /\ envelopes' = envelopes + 1 /\ retained' = q /\ UNCHANGED reports
        /\ waits' = [waits EXCEPT !.retry = TRUE]
    BY <1>7, <2>1 DEF RG!RetryBegin
  <2>3. /\ q \in [session : RG!Sessions, current : BOOLEAN] /\ q.session = retained.session
        /\ waits' \in [finish : BOOLEAN, pause : BOOLEAN, retry : BOOLEAN]
    <3>1. retained \in [session : RG!Sessions, current : BOOLEAN]
      BY DEF SpeechInv, SpeechTypes
    <3>2. q \in [session : RG!Sessions, current : BOOLEAN] /\ q.session = retained.session
      BY <2>1, <3>1
    <3>3. waits' \in [finish : BOOLEAN, pause : BOOLEAN, retry : BOOLEAN]
      BY <2>2 DEF SpeechInv, SpeechTypes
    <3>. QED BY <3>2, <3>3
  <2>4. /\ Fits(s) /\ s.initial \o s.history = retained.session.initial \o retained.session.history
        /\ s.envelope = envelopes + 1 /\ s.at = "streaming" /\ s.replay /\ ~s.fenced
    BY <1>5, <2>1, RecoveryFits
  <2>5. /\ ~pauseRequested /\ paused = RG!NotPaused /\ Whole(retained.session)
    <3>1. ~paused.kept
      BY <1>1, <1>2, <1>7 DEF SpeechInv, GoneOK, RG!HasSource
    <3>. QED BY <1>2, <1>7, <3>1 DEF SpeechInv, GoneOK
  <2>6. RG!HasSession'
    BY <1>5, <2>2, <2>4, NoSessionFields DEF RG!HasSession
  <2>7. SpeechTypes'
    <3>1. envelopes' \in Nat /\ retained'.session.envelope <= envelopes'
      BY <1>5, <2>2, <2>3
    <3>2. Fits(session)' /\ Fits(retained.session)'
      BY <1>5, <2>2, <2>3, <2>4
    <3>. QED BY <1>1, <1>3, <2>2, <2>3, <3>1, <3>2 DEF SpeechInv, SpeechTypes, CoreTypes
  <2>8. CoreOK'
    BY <1>1, <1>2, <1>4 DEF CoreOK
  <2>9. LiveOK'
    <3>1. session'.envelope \in 1..envelopes' /\ retained'.session.envelope # session'.envelope
      BY <1>5, <2>2, <2>3, <2>4
    <3>. QED BY <1>1, <1>4, <2>2, <2>4, <2>5, <3>1 DEF LiveOK, Whole
  <2>10. GoneOK'
    BY <2>6 DEF GoneOK
  <2>11. ASSUME NEW r \in reports' PROVE ReportOK(r)'
    <3>1. ReportOK(r) /\ r.envelope \in 0..envelopes
      BY <2>2, <2>11 DEF SpeechInv, ReportOK
    <3>2. r.envelope # envelopes + 1 /\ r.envelope \in 0..(envelopes + 1)
      BY <1>5, <3>1
    <3>3. r \in Reports(envelopes + 1)
      BY <3>1, <3>2 DEF ReportOK, Reports
    <3>. QED BY <2>2, <2>3, <2>4, <3>1, <3>2, <3>3 DEF ReportOK, Reports
  <2>. QED BY <2>7, <2>8, <2>9, <2>10, <2>11 DEF SpeechInv
<1>. QED BY <1>6, <1>7

-----------------------------------------------------------------------------
(* The theorem *)

\* The invariant holds in every state before the speech.
LEMMA SpeechStarts == RG!Init => SpeechInv
<1>. SUFFICES ASSUME RG!Init PROVE SpeechInv
  OBVIOUS
<1>1. /\ core = RG!Running("READY") /\ session = RG!NoSession /\ paused = RG!NotPaused
      /\ retained = RG!NoSource /\ pauseRequested = FALSE /\ waits = RG!Nobody /\ reports = {}
      /\ envelopes = 0 /\ heard = << >> /\ replays = 0 /\ stored = RG!NotStored
  BY DEF RG!Init
<1>2. retained.session = RG!NoSession /\ ~RG!HasSession
  BY <1>1 DEF RG!NoSource, RG!HasSession
<1>3. SpeechTypes
  <2>1. waits \in [finish : BOOLEAN, pause : BOOLEAN, retry : BOOLEAN]
    BY <1>1 DEF RG!Nobody
  <2>2. paused \in [kept : BOOLEAN, text : RG!Audio, retried : BOOLEAN]
    BY <1>1, NothingFits DEF RG!NotPaused
  <2>3. retained \in [session : RG!Sessions, current : BOOLEAN]
    BY <1>1, NoSessionFields DEF RG!NoSource
  <2>4. Len(heard) <= MaxAudio
    BY <1>1, EmptySeq, MediaAssumption
  <2>5. Fits(session) /\ Fits(retained.session) /\ heard \in RG!Audio
    BY <1>1, <1>2, NothingFits
  <2>6. CoreTypes
    BY <1>1 DEF RG!Running, CoreTypes
  <2>7. retained.session.envelope <= envelopes
    BY <1>1, <1>2, NoSessionFields
  <2>. QED BY <1>1, <2>1, <2>2, <2>3, <2>4, <2>5, <2>6, <2>7 DEF SpeechTypes, CoreTypes
<1>4. CoreOK
  BY <1>1 DEF CoreOK, RG!Running
<1>5. LiveOK
  BY <1>2 DEF LiveOK
<1>6. GoneOK
  BY <1>1, <1>2, NothingFits DEF GoneOK, Whole, RG!NotPaused
<1>. QED BY <1>1, <1>3, <1>4, <1>5, <1>6 DEF SpeechInv

\* Each step of the recognition keeps it.
LEMMA SpeechSteps == SpeechInv /\ RG!Next => SpeechInv'
<1>. SUFFICES ASSUME SpeechInv, RG!Next PROVE SpeechInv'
  OBVIOUS
<1>1. CASE RG!Handle
  <2>1. PICK r \in reports : RG!Finalized(r) \/ RG!Failed(r) \/ RG!RetryFailed(r)
    BY <1>1 DEF RG!Handle
  <2>. QED BY <2>1, FinalizedKeeps, FailedKeeps, RetryFailedKeeps
<1>2. CASE \/ RG!Speak \/ RG!Sentence \/ RG!Replay \/ RG!Fails
           \/ RG!Complete \/ RG!Saved \/ RG!Deadline
  BY <1>2, SpeakKeeps, SentenceKeeps, ReplayKeeps, FailsKeeps, CompleteKeeps, SavedKeeps,
     DeadlineKeeps
<1>3. CASE RG!BeginStart \/ RG!CommitStart \/ RG!StartFails \/ RG!Finish
  BY <1>3, BeginStartKeeps, CommitStartKeeps, StartFailsKeeps, FinishKeeps
<1>4. CASE RG!Pause \/ RG!Resume \/ RG!RetryBegin \/ RG!RetryCancel \/ RG!Reset
  BY <1>4, PauseKeeps, ResumeKeeps, RetryBeginKeeps, RetryCancelKeeps, ResetKeeps
<1>. QED BY <1>1, <1>2, <1>3, <1>4 DEF RG!Next

\* The invariant says that what can still become text is what was heard.
LEMMA SpeechCovered == SpeechInv => TranscriptExact
<1>. SUFFICES ASSUME SpeechInv PROVE TranscriptExact
  OBVIOUS
<1>1. replays <= 1
  BY DEF SpeechInv, SpeechTypes
<1>2. Fits(session) /\ Fits(retained.session)
  BY DEF SpeechInv, SpeechTypes
<1>3. CASE stored # RG!NotStored
  <2>1. RG!Covered = stored /\ stored = heard
    BY <1>3 DEF RG!Covered, SpeechInv, CoreOK
  <2>. QED BY <1>1, <2>1 DEF TranscriptExact, RG!TranscriptExact
<1>4. CASE stored = RG!NotStored /\ RG!HasSession
  <2>1. RG!Covered = session.text \o RG!Unconfirmed(session)
    BY <1>4 DEF RG!Covered
  <2>2. session.text \o RG!Unconfirmed(session) = session.initial \o session.history
    BY <1>2, TextAndRest
  <2>3. Whole(session)
    BY <1>4 DEF SpeechInv, LiveOK
  <2>. QED BY <1>1, <2>1, <2>2, <2>3 DEF TranscriptExact, RG!TranscriptExact, Whole
<1>5. CASE stored = RG!NotStored /\ ~RG!HasSession /\ paused.kept
  <2>1. RG!Covered = paused.text /\ paused.text = heard
    BY <1>5 DEF RG!Covered, SpeechInv, GoneOK
  <2>. QED BY <1>1, <2>1 DEF TranscriptExact, RG!TranscriptExact
<1>6. CASE stored = RG!NotStored /\ ~RG!HasSession /\ ~paused.kept
  <2>1. RG!Covered = retained.session.text \o RG!Unconfirmed(retained.session)
    BY <1>6 DEF RG!Covered
  <2>2. retained.session.text \o RG!Unconfirmed(retained.session)
          = retained.session.initial \o retained.session.history
    BY <1>2, TextAndRest
  <2>3. Whole(retained.session)
    BY <1>6 DEF SpeechInv, GoneOK
  <2>. QED BY <1>1, <2>1, <2>2, <2>3 DEF TranscriptExact, RG!TranscriptExact, Whole
<1>. QED BY <1>3, <1>4, <1>5, <1>6

\* The speech keeps its types (RecognitionTypeOK).
LEMMA SpeechTyped == SpeechInv => RG!RecognitionTypeOK
<1>. SUFFICES ASSUME SpeechInv PROVE RG!RecognitionTypeOK
  OBVIOUS
<1>1. stored = RG!NotStored \/ stored \in RG!Audio
  BY DEF SpeechInv, SpeechTypes, CoreOK
<1>2. ASSUME NEW r \in reports
      PROVE  r.kind \in {"finalized", "failed", "retry failed"} /\ r.envelope <= envelopes
  <2>1. r.kind \in {"finalized", "failed", "retry failed"} /\ r.envelope \in 0..envelopes
    BY DEF SpeechInv, ReportOK
  <2>2. envelopes \in Nat
    BY DEF SpeechInv, SpeechTypes
  <2>3. r.envelope <= envelopes
    BY <2>1, <2>2, Ranges
  <2>. QED BY <2>1, <2>3
<1>3. session \in RG!Sessions
  BY DEF SpeechInv, SpeechTypes, Fits
<1>. QED BY <1>1, <1>2, <1>3 DEF SpeechInv, SpeechTypes, RG!RecognitionTypeOK

\* Whatever fails, is replayed, paused, continued or retried, the audio taken
\* since recognition began is or will be the text of the speech, each piece
\* once and in order (AsrSpeechSession.run, _start_speech_locked, _run_speech).
THEOREM SpeechInvariance == MCSpec => []SpeechInv
<1>1. MCInit => SpeechInv
  BY SpeechStarts DEF MCInit
<1>2. SpeechInv /\ [MCNext]_MCvars => SpeechInv'
  <2>. SUFFICES ASSUME SpeechInv, [MCNext]_MCvars PROVE SpeechInv'
    OBVIOUS
  <2>1. CASE OfSpeech
    BY <2>1, SpeechSteps DEF OfSpeech
  <2>2. CASE OfDebate \/ OfMedia \/ UNCHANGED MCvars
    <3>1. UNCHANGED <<core, session, paused, retained, pauseRequested, waits, reports, envelopes,
                      heard, replays, stored>>
      BY <2>2 DEF OfDebate, OfMedia, MCvars, speech
    <3>. QED BY <3>1, QueueShrinks
  <2>. QED BY <2>1, <2>2 DEF MCNext
<1>. QED BY <1>1, <1>2, PTL DEF MCSpec

\* What the text of the speech is or will be is the audio, exactly.
THEOREM EachPieceOnce == MCSpec => []TranscriptExact
<1>1. SpeechInv => TranscriptExact
  BY SpeechCovered
<1>. QED BY <1>1, SpeechInvariance, PTL

-----------------------------------------------------------------------------
(* The debate among the others *)

\* The media keeps its types: audio waits only of a run that has spoken
\* (AgentTypeOK, AgentRun).
LEMMA MediaTyped == MediaInv => AG!AgentTypeOK
<1>. SUFFICES ASSUME MediaInv PROVE AG!AgentTypeOK
  OBVIOUS
<1>1. ASSUME NEW r \in AG!Runs
      PROVE  /\ runs[r].at \in Early \cup {"created", "connecting"} \cup Late
             /\ runs[r].player \in {"none", "frames", "asking", "capturing", "ended", "refused"}
             /\ runs[r].attempt \in {1, 2} /\ (runs[r].queued => runs[r].at \in Late)
  BY RunFacts DEF RunRecords, SpeechOK
<1>2. {registered, mediaLock, started, speaker} \subseteq 0..MaxRuns
  BY MediaAssumption DEF MediaInv, MediaRows, Handles
<1>3. /\ rows \in [AG!Runs \X {1, 2} -> {"none", "GENERATING"} \cup AG!Settled]
      /\ actor \in [waits : {"idle", "fencing", "cancelling"}, run : 0..MaxRuns]
  BY DEF MediaInv, MediaRows, RowStates, Handles
<1>. QED BY <1>1, <1>2, <1>3 DEF AG!AgentTypeOK, MediaInv, MediaRows, Early, Late, CancelStates, FinalStates

\* Beside the media and the speech the debate takes its own steps only, so it
\* keeps its invariant and its budgets there.
THEOREM DebateInvariance == MCSpec => [](TypeInv /\ Balance)
<1>1. MCSpec => Spec
  <2>1. MCInit => Init
    BY DEF MCInit
  <2>2. [MCNext]_MCvars => [Next]_vars
    BY DEF MCNext, OfDebate, OfMedia, OfSpeech, MCvars
  <2>. QED BY <2>1, <2>2, PTL DEF MCSpec, Spec
<1>. QED BY <1>1, BalanceKept, PTL

\* All that was spoken is charged, once, whatever interrupts it.
THEOREM BudgetsAccounted == MCSpec => []BudgetAccounts
BY DebateInvariance, AccountsFollow, PTL

\* The actor, the media of the agents and the recognition of a human keep their
\* types (MatchRuntimeState, AgentRun, AsrSpeechSession).
THEOREM TypeCorrect == MCSpec => []MCTypeOK
<1>1. TypeInv /\ MediaInv /\ SpeechInv => MCTypeOK
  BY TypesFollow, MediaTyped, SpeechTyped DEF MCTypeOK
<1>. QED BY <1>1, DebateInvariance, MediaInvariance, SpeechInvariance, PTL
=============================================================================
