------------------------ MODULE ActorPipeline_proofs ------------------------
(* Proofs about ActorPipeline for any number of processes, submissions and   *)
(* message ids, and any capacity of the queue and of the result cache.       *)
EXTENDS ActorPipeline, TLAPS

-----------------------------------------------------------------------------
(* Facts about sequences *)

\* IsPrefix of SequencesExt, element by element.
LEMMA PrefixElements ==
    ASSUME NEW S, NEW s \in Seq(S), NEW t \in Seq(S)
    PROVE  IsPrefix(s, t) <=>
              /\ Len(s) <= Len(t)
              /\ \A i \in 1..Len(s) : s[i] = t[i]
<1>1. ASSUME IsPrefix(s, t), NEW i \in 1..Len(s) PROVE s[i] = t[i]
  <2>1. /\ Len(s) <= Len(t)
        /\ SubSeq(s, 1, Len(s)) = SubSeq(t, 1, Len(s))
    BY <1>1 DEF IsPrefix
  <2>2. SubSeq(s, 1, Len(s))[i] = s[i] /\ SubSeq(t, 1, Len(s))[i] = t[i]
    BY <2>1
  <2>. QED BY <2>1, <2>2
<1>2. ASSUME Len(s) <= Len(t), \A i \in 1..Len(s) : s[i] = t[i]
      PROVE  SubSeq(s, 1, Len(s)) = SubSeq(t, 1, Len(s))
  BY <1>2
<1>. QED BY <1>1, <1>2 DEF IsPrefix

\* Prefixes are transitive, and two histories of one length that are prefixes
\* of each other's extension are the same history.
LEMMA PrefixTransitive ==
    ASSUME NEW S, NEW s \in Seq(S), NEW t \in Seq(S), NEW u \in Seq(S),
           IsPrefix(s, t), IsPrefix(t, u)
    PROVE  IsPrefix(s, u)
<1>1. Len(s) <= Len(t) /\ \A i \in 1..Len(s) : s[i] = t[i]
  BY PrefixElements
<1>2. Len(t) <= Len(u) /\ \A i \in 1..Len(t) : t[i] = u[i]
  BY PrefixElements
<1>3. Len(s) <= Len(u) /\ \A i \in 1..Len(s) : s[i] = u[i]
  BY <1>1, <1>2
<1>. QED BY <1>3, PrefixElements

\* A prefix as long as the sequence is the sequence.
LEMMA PrefixSameLength ==
    ASSUME NEW S, NEW s \in Seq(S), NEW t \in Seq(S), IsPrefix(s, t), Len(s) = Len(t)
    PROVE  s = t
<1>1. \A i \in 1..Len(s) : s[i] = t[i]
  BY PrefixElements
<1>. QED BY <1>1

\* A sequence is a prefix of itself.
LEMMA PrefixReflexive ==
    ASSUME NEW S, NEW s \in Seq(S)
    PROVE  IsPrefix(s, s) /\ IsPrefix(<< >>, s)
<1>1. << >> \in Seq(S)
  OBVIOUS
<1>2. IsPrefix(s, s)
  BY PrefixElements
<1>3. Len(<< >>) <= Len(s) /\ \A i \in 1..Len(<< >>) : << >>[i] = s[i]
  OBVIOUS
<1>4. IsPrefix(<< >>, s)
  BY <1>1, <1>3, PrefixElements
<1>. QED BY <1>2, <1>4

\* A prefix stays one when the sequence grows.
LEMMA PrefixOfAppend ==
    ASSUME NEW S, NEW s \in Seq(S), NEW m \in S
    PROVE  IsPrefix(s, Append(s, m)) /\ s \o <<m>> = Append(s, m) /\ s \o << >> = s
<1>1. /\ Append(s, m) \in Seq(S)
      /\ Len(s) <= Len(Append(s, m))
      /\ \A i \in 1..Len(s) : s[i] = Append(s, m)[i]
  OBVIOUS
<1>2. IsPrefix(s, Append(s, m))
  BY <1>1, PrefixElements
<1>. QED BY <1>2

\* Every element of a sequence is in its set of elements.
LEMMA ElementInSet ==
    ASSUME NEW S, NEW s \in Seq(S), NEW k \in 1..Len(s)
    PROVE  s[k] \in ToSet(s)
BY DEF ToSet

-----------------------------------------------------------------------------
(* Type correctness *)

\* Caching an answer keeps the type of the cache.
LEMMA RememberType ==
    ASSUME NEW p \in Procs, cache \in [Procs -> Seq(Msgs)], NEW m \in Msgs
    PROVE  Remember(p, m) \in Seq(Msgs)
<1>1. Append(cache[p], m) \in Seq(Msgs) /\ Append(cache[p], m) # << >>
  OBVIOUS
<1>2. Tail(Append(cache[p], m)) \in Seq(Msgs)
  BY <1>1
<1>. QED BY <1>1, <1>2 DEF Remember

\* A command is in hand exactly when the actor is not idle, only a running
\* runner has one, and only a serving or stopping process has a runner.
HandOK ==
    \A p \in Procs :
        /\ (phase[p] = "idle") <=> (current[p] = NoCaller)
        /\ current[p] # NoCaller => runner[p] = "running"
        /\ runner[p] # "none" => life[p] \in {"serving", "stopping"}

\* What a command in hand says of the candidate: it extends the memory by at
\* most one effect, and once stored it is part of the row.
CandidateOK ==
    \A p \in Procs :
        /\ phase[p] \in {"processing", "stored"} =>
              \/ cand[p] = mem[p]
              \/ cand[p] = Append(mem[p], MsgOf[current[p]])
        /\ phase[p] = "stored" => IsPrefix(cand[p], row)

\* Every effect an actor remembers is one it would recognise again: its result
\* is cached, about to be cached, or accounted for as forgotten.
RecognisedOK ==
    \A p \in Procs : \A i \in 1..Len(mem[p]) :
        \/ mem[p][i] \in forgotten \cup ToSet(cache[p])
        \/ phase[p] = "publishing" /\ mem[p][i] = MsgOf[current[p]]

\* A command in hand was not in the cache when it was taken, and still is not.
FreshOK ==
    \A p \in Procs :
        phase[p] \in {"processing", "stored"} => MsgOf[current[p]] \notin ToSet(cache[p])

\* The inductive invariant.
IInv ==
    /\ TypeOK
    /\ HandOK
    /\ MemoryIsPrefix
    /\ CandidateOK
    /\ RecognisedOK
    /\ FreshOK
    /\ EffectOnce

\* A sequence with its first element dropped.
LEMMA TailType ==
    ASSUME NEW S, NEW s \in Seq(S), s # << >>
    PROVE  Tail(s) \in Seq(S) /\ Head(s) \in S
OBVIOUS

\* An actor just started.
LEMMA InvInit == Init => IInv
<1>. SUFFICES ASSUME Init PROVE IInv
  OBVIOUS
<1>1. << >> \in Seq(Msgs) /\ << >> \in Seq(Callers)
  OBVIOUS
<1>2. TypeOK
  BY <1>1 DEF Init, TypeOK, Phases, Fates
<1>3. HandOK /\ CandidateOK /\ RecognisedOK /\ FreshOK /\ EffectOnce
  BY DEF Init, HandOK, CandidateOK, RecognisedOK, FreshOK, EffectOnce
<1>4. MemoryIsPrefix
  BY <1>1, PrefixReflexive DEF Init, MemoryIsPrefix
<1>. QED BY <1>2, <1>3, <1>4 DEF IInv

\* The part of TypeOK that Settle touches.
SettledType ==
    /\ future \in [Callers -> Fates]
    /\ cand \in [Procs -> Seq(Msgs)]
    /\ current \in [Procs -> Callers \cup {NoCaller}]
    /\ phase \in [Procs -> Phases]

\* Every step keeps the types.
LEMMA TypeStep == TypeOK /\ HandOK /\ [Next]_vars => TypeOK'
<1>. SUFFICES ASSUME TypeOK, HandOK, [Next]_vars PROVE TypeOK'
  OBVIOUS
<1>. USE DEF TypeOK, Phases, Fates
<1>0. << >> \in Seq(Msgs) /\ << >> \in Seq(Callers)
  OBVIOUS
<1>1. CASE UNCHANGED vars
  BY <1>1 DEF vars, db, actor
<1>2. CASE LoseLease
  BY <1>2 DEF LoseLease, actor
<1>3. ASSUME NEW p \in Procs, Acquire(p) \/ Stop(p) PROVE TypeOK'
  BY <1>3 DEF Acquire, Stop, actor, db
<1>4. ASSUME NEW p \in Procs, Recover(p) PROVE TypeOK'
  <2>1. ToSet(row) \in SUBSET Msgs
    BY DEF ToSet
  <2>. QED BY <1>4, <2>1 DEF Recover, db
<1>5. ASSUME NEW p \in Procs, CancelRunner(p) PROVE TypeOK'
  <2>1. CASE current[p] = NoCaller
    BY <1>5, <2>1 DEF CancelRunner, db
  <2>2. CASE current[p] # NoCaller
    <3>1. current[p] \in Callers /\ MsgOf[current[p]] \in Msgs
      BY <2>2, CallerAssumption
    <3>2. /\ Settle(p, "cancelled")
          /\ forgotten' = forgotten \cup {MsgOf[current[p]]}
      BY <1>5, <2>2 DEF CancelRunner
    <3>3. SettledType'
      BY <3>1, <3>2 DEF Settle, Answer, SettledType
    <3>. QED BY <1>5, <3>1, <3>2, <3>3 DEF CancelRunner, SettledType, db
  <2>. QED BY <2>1, <2>2
<1>6. ASSUME NEW p \in Procs, DrainQueue(p) PROVE TypeOK'
  <2>1. future' \in [Callers -> Fates]
    BY <1>6 DEF DrainQueue
  <2>. QED BY <1>6, <1>0, <2>1 DEF DrainQueue, db
<1>7. ASSUME NEW p \in Procs, Exit(p) \/ Crash(p) PROVE TypeOK'
  <2>1. future' \in [Callers -> Fates]
    BY <1>7 DEF Exit, Crash, Gone
  <2>2. Gone(p)
    BY <1>7 DEF Exit, Crash
  <2>3. /\ lock' \in Procs \cup {NoProc}
        /\ life' \in [Procs -> {"down", "starting", "serving", "stopping"}]
        /\ runner' \in [Procs -> {"none", "running", "cancelled"}]
        /\ sent' \in [Procs -> Nat]
        /\ row' \in Seq(Msgs) /\ forgotten' \in SUBSET Msgs
    BY <2>2 DEF Gone
  <2>4. /\ queue' \in [Procs -> Seq(Callers)]
        /\ current' \in [Procs -> Callers \cup {NoCaller}]
        /\ phase' \in [Procs -> Phases]
    BY <2>2, <1>0 DEF Gone
  <2>5. /\ mem' \in [Procs -> Seq(Msgs)]
        /\ cand' \in [Procs -> Seq(Msgs)]
        /\ cache' \in [Procs -> Seq(Msgs)]
    BY <2>2, <1>0 DEF Gone
  <2>. QED BY <2>1, <2>3, <2>4, <2>5
<1>8. ASSUME NEW p \in Procs, TakeDuplicate(p) PROVE TypeOK'
  BY <1>8, TailType DEF TakeDuplicate, CanTake, Answer, db
<1>9. ASSUME NEW p \in Procs, Take(p) PROVE TypeOK'
  <2>1. Head(queue[p]) \in Callers /\ Tail(queue[p]) \in Seq(Callers)
    BY <1>9, TailType DEF Take, CanTake
  <2>2. MsgOf[Head(queue[p])] \in Msgs
    BY <2>1, CallerAssumption
  <2>3. mem[p] \o << >> = mem[p] /\ mem[p] \o <<MsgOf[Head(queue[p])]>> \in Seq(Msgs)
    BY <2>2, PrefixOfAppend
  <2>4. cand' \in [Procs -> Seq(Msgs)]
    <3>1. PICK e \in {<< >>, <<MsgOf[Head(queue[p])]>>} :
             cand' = [cand EXCEPT ![p] = mem[p] \o e]
      BY <1>9 DEF Take
    <3>2. mem[p] \o e \in Seq(Msgs)
      BY ZenonT(60), <2>3
    <3>. QED BY <3>1, <3>2
  <2>5. current' \in [Procs -> Callers \cup {NoCaller}] /\ queue' \in [Procs -> Seq(Callers)]
    BY <1>9, <2>1 DEF Take
  <2>6. phase' \in [Procs -> Phases]
    BY <1>9 DEF Take
  <2>. QED BY <1>9, <2>4, <2>5, <2>6 DEF Take, db
<1>10. ASSUME NEW p \in Procs, Store(p) PROVE TypeOK'
  BY <1>10 DEF Store
<1>11. ASSUME NEW p \in Procs, Abort(p) \/ LoseAck(p) \/ PublishFails(p) PROVE TypeOK'
  <2>1. current[p] \in Callers /\ MsgOf[current[p]] \in Msgs
    BY <1>11, CallerAssumption DEF Abort, LoseAck, PublishFails, HandOK
  <2>2. Settle(p, "error")
    BY <1>11 DEF Abort, LoseAck, PublishFails
  <2>3. SettledType'
    BY <2>1, <2>2 DEF Settle, Answer, SettledType
  <2>4. forgotten' \in SUBSET Msgs
    BY <1>11, <2>1 DEF Abort, LoseAck, PublishFails
  <2>. QED BY SMTT(60), <1>11, <2>3, <2>4 DEF Abort, LoseAck, PublishFails, SettledType, db
<1>12. ASSUME NEW p \in Procs, Ack(p) PROVE TypeOK'
  BY <1>12 DEF Ack, db
<1>13. ASSUME NEW p \in Procs, Publish(p) PROVE TypeOK'
  <2>1. current[p] \in Callers /\ MsgOf[current[p]] \in Msgs
    BY <1>13, CallerAssumption DEF Publish, HandOK
  <2>2. Remember(p, MsgOf[current[p]]) \in Seq(Msgs)
    BY <2>1, RememberType
  <2>3. forgotten' \in SUBSET Msgs
    <3>1. CASE Len(cache[p]) >= CacheSize
      <4>1. cache[p] # << >>
        BY <3>1, SizeAssumption
      <4>. QED BY <1>13, <3>1, <4>1, TailType DEF Publish
    <3>. QED BY <1>13, <3>1 DEF Publish
  <2>. QED BY SMTT(60), <1>13, <2>1, <2>2, <2>3 DEF Publish, Settle, Answer, db
<1>14. ASSUME NEW p \in Procs, NEW c \in Callers, Submit(p, c) PROVE TypeOK'
  <2>1. Append(queue[p], c) \in Seq(Callers)
    OBVIOUS
  <2>. QED BY ZenonT(60), <1>14, <2>1 DEF Submit, Answer, db
<1>. QED
  BY <1>1, <1>2, <1>3, <1>4, <1>5, <1>6, <1>7, <1>8, <1>9, <1>10, <1>11, <1>12, <1>13, <1>14
  DEF Next

\* Every step keeps what is known of the command in hand.
LEMMA HandStep == TypeOK /\ HandOK /\ [Next]_vars => HandOK'
<1>. SUFFICES ASSUME TypeOK, HandOK, [Next]_vars PROVE HandOK'
  OBVIOUS
<1>. USE DEF HandOK, TypeOK
<1>1. CASE UNCHANGED vars
  BY <1>1 DEF vars, db, actor
<1>2. CASE LoseLease
  BY <1>2 DEF LoseLease, actor
<1>3. ASSUME NEW p \in Procs, Acquire(p) \/ Stop(p) \/ Recover(p) PROVE HandOK'
  BY ZenonT(60), <1>3 DEF Acquire, Stop, Recover, actor, db
<1>4. ASSUME NEW p \in Procs, CancelRunner(p) PROVE HandOK'
  BY ZenonT(60), <1>4 DEF CancelRunner, Settle, db
<1>5. ASSUME NEW p \in Procs, DrainQueue(p) PROVE HandOK'
  BY <1>5 DEF DrainQueue, db
<1>6. ASSUME NEW p \in Procs, Exit(p) \/ Crash(p) PROVE HandOK'
  BY ZenonT(60), <1>6 DEF Exit, Crash, Gone
<1>7. ASSUME NEW p \in Procs, TakeDuplicate(p) PROVE HandOK'
  BY <1>7 DEF TakeDuplicate, db
<1>8. ASSUME NEW p \in Procs, Take(p) PROVE HandOK'
  <2>1. Head(queue[p]) # NoCaller
    BY <1>8, TailType, CallerAssumption DEF Take, CanTake
  <2>. QED BY <1>8, <2>1 DEF Take, CanTake, db
<1>9. ASSUME NEW p \in Procs,
             Abort(p) \/ LoseAck(p) \/ Publish(p) \/ PublishFails(p)
      PROVE  HandOK'
  BY ZenonT(60), <1>9 DEF Abort, LoseAck, Publish, PublishFails, Settle, db
<1>10. ASSUME NEW p \in Procs, Store(p) \/ Ack(p) PROVE HandOK'
  BY ZenonT(60), <1>10 DEF Store, Ack, db
<1>11. ASSUME NEW p \in Procs, NEW c \in Callers, Submit(p, c) PROVE HandOK'
  BY <1>11 DEF Submit, db
<1>. QED
  BY <1>1, <1>2, <1>3, <1>4, <1>5, <1>6, <1>7, <1>8, <1>9, <1>10, <1>11 DEF Next

-----------------------------------------------------------------------------
(* The row is only ever extended, by the message of the command in hand *)

\* The one step that writes the row: the actor's memory is the whole row, so
\* the row gains at most the effect of the command, and nothing is lost.
LEMMA StoreExtends ==
    ASSUME TypeOK, HandOK, MemoryIsPrefix, CandidateOK, NEW p \in Procs, Store(p)
    PROVE  /\ mem[p] = row
           /\ current[p] \in Callers /\ MsgOf[current[p]] \in Msgs
           /\ row' = row \/ row' = Append(row, MsgOf[current[p]])
<1>1. IsPrefix(mem[p], row) /\ mem[p] \in Seq(Msgs) /\ row \in Seq(Msgs)
  BY DEF MemoryIsPrefix, TypeOK
<1>2. Len(mem[p]) = Len(row) /\ phase[p] = "processing" /\ row' = cand[p]
  BY DEF Store
<1>3. mem[p] = row
  BY <1>1, <1>2, PrefixSameLength
<1>4. current[p] \in Callers /\ MsgOf[current[p]] \in Msgs
  BY <1>2, CallerAssumption DEF HandOK, TypeOK
<1>5. cand[p] = mem[p] \/ cand[p] = Append(mem[p], MsgOf[current[p]])
  BY <1>2 DEF CandidateOK
<1>. QED BY <1>2, <1>3, <1>4, <1>5

\* A step adds at most one effect to the row.
LEMMA RowGrows ==
    ASSUME TypeOK, HandOK, MemoryIsPrefix, CandidateOK, [Next]_vars
    PROVE  \/ row' = row
           \/ \E m \in Msgs : row' = Append(row, m)
<1>1. CASE \E p \in Procs : Store(p)
  BY <1>1, StoreExtends
<1>2. CASE ~ \E p \in Procs : Store(p)
  <2>1. row' = row
    BY ZenonT(60), <1>2 DEF Next, vars, db, LoseLease, Acquire, Recover, Stop, CancelRunner, DrainQueue,
       Exit, Crash, Gone, Submit, TakeDuplicate, Take, Abort, LoseAck, Ack, Publish, PublishFails
  <2>. QED BY <2>1
<1>. QED BY <1>1, <1>2

\* What the row said, it still says.
LEMMA RowPrefix ==
    ASSUME TypeOK, HandOK, MemoryIsPrefix, CandidateOK, [Next]_vars
    PROVE  \A s \in Seq(Msgs) : IsPrefix(s, row) => IsPrefix(s, row')
<1>. SUFFICES ASSUME NEW s \in Seq(Msgs), IsPrefix(s, row) PROVE IsPrefix(s, row')
  OBVIOUS
<1>0. row \in Seq(Msgs)
  BY DEF TypeOK
<1>1. CASE row' = row
  BY <1>1
<1>2. ASSUME NEW m \in Msgs, row' = Append(row, m) PROVE IsPrefix(s, row')
  <2>1. Append(row, m) \in Seq(Msgs) /\ IsPrefix(row, Append(row, m))
    BY <1>0, PrefixOfAppend
  <2>2. IsPrefix(s, Append(row, m))
    BY <2>1, <1>0, PrefixTransitive
  <2>. QED BY <2>2, <1>2
<1>. QED BY <1>1, <1>2, RowGrows

\* The memory of a running actor stays what the row says.
LEMMA MemoryStep ==
    ASSUME TypeOK, HandOK, MemoryIsPrefix, CandidateOK, [Next]_vars
    PROVE  MemoryIsPrefix'
<1>. SUFFICES ASSUME NEW q \in Procs PROVE IsPrefix(mem'[q], row')
  BY DEF MemoryIsPrefix
<1>0. row \in Seq(Msgs) /\ mem[q] \in Seq(Msgs) /\ cand[q] \in Seq(Msgs)
  BY DEF TypeOK
<1>1. \A s \in Seq(Msgs) : IsPrefix(s, row) => IsPrefix(s, row')
  BY RowPrefix
<1>2. CASE mem'[q] = mem[q]
  BY <1>0, <1>1, <1>2 DEF MemoryIsPrefix
<1>3. CASE mem'[q] = row /\ row' = row
  BY <1>0, <1>3, PrefixReflexive
<1>4. CASE mem'[q] = << >> /\ row' = row
  BY <1>0, <1>4, PrefixReflexive
<1>5. CASE mem'[q] = cand[q] /\ phase[q] = "stored"
  BY <1>0, <1>1, <1>5 DEF CandidateOK
<1>6. ASSUME NEW p \in Procs, Recover(p) PROVE IsPrefix(mem'[q], row')
  BY <1>6, <1>2, <1>3 DEF Recover, db, TypeOK
<1>7. ASSUME NEW p \in Procs, Exit(p) \/ Crash(p) PROVE IsPrefix(mem'[q], row')
  BY <1>7, <1>2, <1>4 DEF Exit, Crash, Gone, TypeOK
<1>8. ASSUME NEW p \in Procs, Ack(p) PROVE IsPrefix(mem'[q], row')
  BY SMTT(60), <1>8, <1>2, <1>5 DEF Ack, TypeOK
<1>9. ASSUME ~ \E p \in Procs : Recover(p) \/ Exit(p) \/ Crash(p) \/ Ack(p)
      PROVE  mem' = mem
  BY ZenonT(60), <1>9 DEF Next, vars, actor, LoseLease, Acquire, Stop, CancelRunner, DrainQueue,
     Submit, TakeDuplicate, Take, Store, Abort, LoseAck, Publish, PublishFails
<1>. QED BY <1>2, <1>6, <1>7, <1>8, <1>9

\* The state a handler computed extends the memory by at most its own effect.
LEMMA CandidateStep ==
    ASSUME TypeOK, HandOK, MemoryIsPrefix, CandidateOK, [Next]_vars
    PROVE  CandidateOK'
<1>. SUFFICES ASSUME NEW q \in Procs
              PROVE  /\ phase'[q] \in {"processing", "stored"} =>
                           \/ cand'[q] = mem'[q]
                           \/ cand'[q] = Append(mem'[q], MsgOf[current'[q]])
                     /\ phase'[q] = "stored" => IsPrefix(cand'[q], row')
  BY DEF CandidateOK
<1>. DEFINE Goal == /\ phase'[q] \in {"processing", "stored"} =>
                           \/ cand'[q] = mem'[q]
                           \/ cand'[q] = Append(mem'[q], MsgOf[current'[q]])
                    /\ phase'[q] = "stored" => IsPrefix(cand'[q], row')
<1>0. row \in Seq(Msgs) /\ mem[q] \in Seq(Msgs) /\ cand[q] \in Seq(Msgs)
  BY DEF TypeOK
<1>1. \A s \in Seq(Msgs) : IsPrefix(s, row) => IsPrefix(s, row')
  BY RowPrefix
<1>2. CASE phase'[q] \notin {"processing", "stored"}
  BY <1>2
<1>3. CASE /\ phase'[q] = phase[q] /\ cand'[q] = cand[q]
           /\ mem'[q] = mem[q] /\ current'[q] = current[q]
  BY <1>0, <1>1, <1>3 DEF CandidateOK
<1>5. ASSUME NEW p \in Procs, Recover(p) PROVE Goal
  <2>1. CASE q = p
    BY <1>5, <2>1 DEF Recover, TypeOK, HandOK, CandidateOK
  <2>2. CASE q # p
    BY <1>5, <2>2, <1>3 DEF Recover, TypeOK
  <2>. QED BY <2>1, <2>2
<1>6. ASSUME NEW p \in Procs, Exit(p) \/ Crash(p) PROVE Goal
  BY <1>2, <1>3, <1>6 DEF Exit, Crash, Gone, TypeOK
<1>7. ASSUME NEW p \in Procs,
             CancelRunner(p) \/ Abort(p) \/ LoseAck(p) \/ Publish(p) \/ PublishFails(p)
      PROVE  Goal
  BY SMTT(60), <1>2, <1>3, <1>7
  DEF CancelRunner, Abort, LoseAck, Publish, PublishFails, Settle, TypeOK
<1>8. ASSUME NEW p \in Procs, Take(p) PROVE Goal
  <2>1. CASE q # p
    BY <1>8, <2>1, <1>3 DEF Take, TypeOK
  <2>2. CASE q = p
    <3>1. /\ phase'[p] = "processing" /\ mem'[p] = mem[p]
          /\ current'[p] = Head(queue[p])
      BY <1>8 DEF Take, TypeOK
    <3>2. PICK e \in {<< >>, <<MsgOf[Head(queue[p])]>>} : cand'[p] = mem[p] \o e
      BY <1>8 DEF Take, TypeOK
    <3>3. MsgOf[Head(queue[p])] \in Msgs
      BY <1>8, TailType, CallerAssumption DEF Take, CanTake, TypeOK
    <3>4. cand'[p] = mem[p] \/ cand'[p] = Append(mem[p], MsgOf[Head(queue[p])])
      BY ZenonT(60), <1>0, <2>2, <3>2, <3>3, PrefixOfAppend
    <3>. QED BY <2>2, <3>1, <3>4
  <2>. QED BY <2>1, <2>2
<1>9. ASSUME NEW p \in Procs, Store(p) PROVE Goal
  <2>1. CASE q # p
    BY <1>9, <2>1, <1>3 DEF Store, TypeOK
  <2>2. CASE q = p
    <3>1. /\ phase[p] = "processing" /\ phase'[p] = "stored" /\ row' = cand[p]
          /\ cand' = cand /\ mem' = mem /\ current' = current
      BY <1>9 DEF Store, TypeOK
    <3>2. IsPrefix(cand[p], cand[p])
      BY <1>0, <2>2, PrefixReflexive
    <3>. QED BY <2>2, <3>1, <3>2 DEF CandidateOK
  <2>. QED BY <2>1, <2>2
<1>10. ASSUME NEW p \in Procs, Ack(p) PROVE Goal
  BY <1>2, <1>3, <1>10 DEF Ack, TypeOK
<1>. QED
  <2>1. CASE UNCHANGED vars
    BY <2>1, <1>3 DEF vars, actor
  <2>2. CASE LoseLease
    BY <2>2, <1>3 DEF LoseLease, actor
  <2>3. CASE Next /\ ~LoseLease
    <3>1. PICK p \in Procs :
            \/ Acquire(p) \/ Recover(p) \/ Stop(p) \/ CancelRunner(p) \/ DrainQueue(p)
            \/ Exit(p) \/ Crash(p)
            \/ TakeDuplicate(p) \/ Take(p) \/ Store(p) \/ Abort(p) \/ LoseAck(p) \/ Ack(p)
            \/ Publish(p) \/ PublishFails(p)
            \/ \E c \in Callers : Submit(p, c)
      BY <2>3 DEF Next
    <3>2. CASE Acquire(p) \/ Stop(p) \/ DrainQueue(p) \/ TakeDuplicate(p)
               \/ \E c \in Callers : Submit(p, c)
      BY <3>2, <1>3 DEF Acquire, Stop, DrainQueue, TakeDuplicate, Submit, actor
    <3>. QED BY <3>1, <3>2, <1>5, <1>6, <1>7, <1>8, <1>9, <1>10
  <2>. QED BY <2>1, <2>2, <2>3

-----------------------------------------------------------------------------
(* No effect happens twice unless its first result was forgotten *)

\* Remembering a result keeps every other one, or drops the oldest.
LEMMA RememberKeeps ==
    ASSUME TypeOK, NEW p \in Procs, NEW m \in Msgs
    PROVE  /\ m \in ToSet(Remember(p, m))
           /\ \A x \in ToSet(cache[p]) :
                 \/ x \in ToSet(Remember(p, m))
                 \/ Len(cache[p]) >= CacheSize /\ x = Head(cache[p])
<1>. DEFINE old == cache[p]
            all == Append(old, m)
<1>1. /\ old \in Seq(Msgs) /\ all \in Seq(Msgs) /\ Len(all) = Len(old) + 1
      /\ \A i \in 1..Len(old) : all[i] = old[i]
      /\ all[Len(all)] = m
  BY DEF TypeOK
<1>2. CASE Len(all) <= CacheSize
  <2>1. Remember(p, m) = all
    BY <1>1, <1>2, SizeAssumption DEF Remember
  <2>. QED BY <1>1, <2>1 DEF ToSet
<1>3. CASE Len(all) > CacheSize
  <2>1. Remember(p, m) = Tail(all) /\ Len(old) >= CacheSize /\ Len(old) >= 1
    BY <1>1, <1>3, SizeAssumption DEF Remember
  <2>2. /\ Len(Tail(all)) = Len(old)
        /\ \A i \in 1..Len(old) : Tail(all)[i] = all[i + 1]
    BY <1>1, <2>1
  <2>3. m \in ToSet(Tail(all))
    <3>1. /\ Len(old) \in Nat /\ Len(old) >= 1
          /\ Len(old) \in 1..Len(old) /\ Len(old) + 1 = Len(all)
      BY <1>1, <2>1
    <3>2. Len(old) \in DOMAIN Tail(all) /\ Tail(all)[Len(old)] = m
      <4>1. Tail(all) \in Seq(Msgs)
        BY <1>1, <3>1
      <4>2. Tail(all)[Len(old)] = all[Len(old) + 1]
        BY <2>2, <3>1
      <4>. QED BY <1>1, <2>2, <3>1, <4>1, <4>2
    <3>. HIDE DEF all, old
    <3>. QED BY <3>2, Zenon DEF ToSet
  <2>4. ASSUME NEW x \in ToSet(old)
        PROVE  x \in ToSet(Tail(all)) \/ x = Head(old)
    <3>1. PICK i \in 1..Len(old) : x = old[i]
      BY <1>1 DEF ToSet
    <3>2. CASE i = 1
      BY <1>1, <3>1, <3>2
    <3>3. CASE i > 1
      <4>1. i - 1 \in 1..Len(old) /\ Tail(all)[i - 1] = old[i]
        BY <1>1, <2>2, <3>3
      <4>2. Tail(all) \in Seq(Msgs) /\ DOMAIN Tail(all) = 1..Len(old)
        BY <1>1, <2>1, <2>2
      <4>3. Tail(all)[i - 1] \in ToSet(Tail(all))
        BY <2>2, <4>1, <4>2, ElementInSet
      <4>. QED BY <3>1, <4>1, <4>3
    <3>. QED BY <3>2, <3>3
  <2>. QED BY <2>1, <2>3, <2>4
<1>. QED BY <1>1, <1>2, <1>3, SizeAssumption

\* Every effect an actor remembers stays one it would recognise.
LEMMA RecognisedStep == IInv /\ [Next]_vars => RecognisedOK'
<1>. SUFFICES ASSUME IInv, [Next]_vars, NEW q \in Procs, NEW i \in 1..Len(mem'[q])
              PROVE  \/ mem'[q][i] \in forgotten' \cup ToSet(cache'[q])
                     \/ phase'[q] = "publishing" /\ mem'[q][i] = MsgOf[current'[q]]
  BY DEF RecognisedOK
<1>. DEFINE Goal == \/ mem'[q][i] \in forgotten' \cup ToSet(cache'[q])
                    \/ phase'[q] = "publishing" /\ mem'[q][i] = MsgOf[current'[q]]
<1>. USE DEF IInv
<1>1. CASE /\ mem'[q] = mem[q] /\ cache'[q] = cache[q] /\ forgotten \subseteq forgotten'
           /\ \/ phase[q] # "publishing"
              \/ phase'[q] = phase[q] /\ current'[q] = current[q]
              \/ MsgOf[current[q]] \in forgotten'
  BY <1>1 DEF RecognisedOK
<1>2. CASE mem'[q] = << >>
  BY <1>2
<1>3. CASE UNCHANGED vars \/ LoseLease
  BY <1>1, <1>3 DEF vars, actor, LoseLease
<1>4. ASSUME NEW p \in Procs, Acquire(p) \/ Stop(p) \/ DrainQueue(p) \/ TakeDuplicate(p)
      PROVE  Goal
  BY <1>1, <1>4 DEF Acquire, Stop, DrainQueue, TakeDuplicate, actor
<1>5. ASSUME NEW p \in Procs, NEW c \in Callers, Submit(p, c) PROVE Goal
  BY <1>1, <1>5 DEF Submit
<1>6. ASSUME NEW p \in Procs, Recover(p) PROVE Goal
  <2>1. CASE q = p
    <3>1. mem'[q] = row /\ ToSet(row) \subseteq forgotten'
      BY <1>6, <2>1 DEF Recover, TypeOK
    <3>2. row[i] \in ToSet(row)
      BY SMTT(60), <3>1 DEF ToSet, TypeOK
    <3>. QED BY <3>1, <3>2
  <2>2. CASE q # p
    BY <1>1, <1>6, <2>2 DEF Recover, TypeOK
  <2>. QED BY <2>1, <2>2
<1>7. ASSUME NEW p \in Procs, Exit(p) \/ Crash(p) PROVE Goal
  BY SMTT(60), <1>1, <1>2, <1>7 DEF Exit, Crash, Gone, TypeOK
<1>8. ASSUME NEW p \in Procs, CancelRunner(p) PROVE Goal
  <2>1. CASE current[p] = NoCaller
    BY <1>1, <1>8, <2>1 DEF CancelRunner
  <2>2. CASE current[p] # NoCaller
    BY SMTT(60), <1>1, <1>8, <2>2 DEF CancelRunner, Settle, TypeOK
  <2>. QED BY <2>1, <2>2
<1>9. ASSUME NEW p \in Procs, Take(p) PROVE Goal
  BY <1>1, <1>9 DEF Take, CanTake, HandOK, TypeOK
<1>10. ASSUME NEW p \in Procs, Store(p) PROVE Goal
  BY <1>1, <1>10 DEF Store, TypeOK
<1>11. ASSUME NEW p \in Procs, Abort(p) \/ LoseAck(p) \/ PublishFails(p) PROVE Goal
  BY <1>1, <1>11 DEF Abort, LoseAck, PublishFails, Settle, TypeOK
<1>12. ASSUME NEW p \in Procs, Ack(p) PROVE Goal
  <2>1. CASE q # p
    BY <1>1, <1>12, <2>1 DEF Ack, TypeOK
  <2>2. CASE q = p
    <3>1. /\ phase[p] = "stored" /\ phase'[p] = "publishing" /\ mem'[p] = cand[p]
          /\ current' = current /\ cache' = cache /\ forgotten' = forgotten
      BY <1>12 DEF Ack, TypeOK
    <3>2. mem[p] \in Seq(Msgs) /\ cand[p] \in Seq(Msgs)
      BY DEF TypeOK
    <3>3. CASE cand[p] = mem[p]
      BY <2>2, <3>1, <3>3 DEF RecognisedOK
    <3>4. CASE cand[p] = Append(mem[p], MsgOf[current[p]])
      <4>1. i \in 1..(Len(mem[p]) + 1)
        BY <2>2, <3>1, <3>2, <3>4
      <4>2. CASE i \in 1..Len(mem[p])
        BY <2>2, <3>1, <3>2, <3>4, <4>2 DEF RecognisedOK
      <4>3. CASE i = Len(mem[p]) + 1
        BY <2>2, <3>1, <3>2, <3>4, <4>3
      <4>. QED BY SMTT(60), <3>2, <4>1, <4>2, <4>3
    <3>. QED BY <3>1, <3>3, <3>4 DEF CandidateOK
  <2>. QED BY <2>1, <2>2
<1>13. ASSUME NEW p \in Procs, Publish(p) PROVE Goal
  <2>1. CASE q # p
    <3>1. forgotten \subseteq forgotten'
      BY <1>13 DEF Publish
    <3>. QED BY <1>1, <1>13, <2>1, <3>1 DEF Publish, Settle, TypeOK
  <2>2. CASE q = p
    <3>1. MsgOf[current[p]] \in Msgs /\ phase[p] = "publishing"
      BY <1>13, CallerAssumption DEF Publish, HandOK, TypeOK
    <3>2. /\ mem' = mem /\ forgotten \subseteq forgotten'
          /\ cache'[p] = Remember(p, MsgOf[current[p]])
          /\ Len(cache[p]) >= CacheSize => Head(cache[p]) \in forgotten'
      BY <1>13 DEF Publish, TypeOK
    <3>3. mem[p][i] \in forgotten \cup ToSet(cache[p]) \cup {MsgOf[current[p]]}
      BY <2>2, <3>2 DEF RecognisedOK
    <3>. QED BY <2>2, <3>1, <3>2, <3>3, RememberKeeps
  <2>. QED BY <2>1, <2>2
<1>. QED
  BY <1>3, <1>4, <1>5, <1>6, <1>7, <1>8, <1>9, <1>10, <1>11, <1>12, <1>13 DEF Next

\* A command in hand stays one whose result is not cached.
LEMMA FreshStep == IInv /\ [Next]_vars => FreshOK'
<1>. SUFFICES ASSUME IInv, [Next]_vars, NEW q \in Procs,
                     phase'[q] \in {"processing", "stored"}
              PROVE  MsgOf[current'[q]] \notin ToSet(cache'[q])
  BY DEF FreshOK
<1>. DEFINE Goal == MsgOf[current'[q]] \notin ToSet(cache'[q])
<1>. USE DEF IInv
<1>1. CASE /\ phase[q] \in {"processing", "stored"}
           /\ current'[q] = current[q] /\ cache'[q] = cache[q]
  BY <1>1 DEF FreshOK
<1>2. CASE UNCHANGED vars \/ LoseLease
  BY <1>1, <1>2 DEF vars, actor, LoseLease
<1>3. ASSUME NEW p \in Procs,
             Acquire(p) \/ Stop(p) \/ DrainQueue(p) \/ TakeDuplicate(p) \/ Recover(p)
      PROVE  Goal
  BY <1>1, <1>3 DEF Acquire, Stop, DrainQueue, TakeDuplicate, Recover, actor
<1>4. ASSUME NEW p \in Procs, NEW c \in Callers, Submit(p, c) PROVE Goal
  BY <1>1, <1>4 DEF Submit
<1>5. ASSUME NEW p \in Procs, Exit(p) \/ Crash(p) PROVE Goal
  BY <1>1, <1>5 DEF Exit, Crash, Gone, TypeOK
<1>6. ASSUME NEW p \in Procs,
             CancelRunner(p) \/ Abort(p) \/ LoseAck(p) \/ Publish(p) \/ PublishFails(p)
      PROVE  Goal
  BY <1>1, <1>6 DEF CancelRunner, Abort, LoseAck, Publish, PublishFails, Settle, TypeOK
<1>7. ASSUME NEW p \in Procs, Take(p) PROVE Goal
  BY <1>1, <1>7 DEF Take, TypeOK
<1>8. ASSUME NEW p \in Procs, Store(p) \/ Ack(p) PROVE Goal
  BY <1>1, <1>8 DEF Store, Ack, TypeOK
<1>. QED BY <1>2, <1>3, <1>4, <1>5, <1>6, <1>7, <1>8 DEF Next

\* No step applies a command a second time, but for those accounted for as forgotten.
LEMMA EffectStep == IInv /\ [Next]_vars => EffectOnce'
<1>. SUFFICES ASSUME IInv, [Next]_vars PROVE EffectOnce'
  BY SMTT(60)
<1>. USE DEF IInv
<1>1. forgotten \subseteq forgotten'
  BY ZenonT(60) DEF Next, vars, actor, db, LoseLease, Acquire, Recover, Stop, CancelRunner, DrainQueue,
     Exit, Crash, Gone, Submit, TakeDuplicate, Take, Store, Abort, LoseAck, Ack, Publish,
     PublishFails
<1>2. CASE row' = row
  BY <1>1, <1>2 DEF EffectOnce
<1>3. ASSUME NEW p \in Procs, Store(p), row' # row PROVE EffectOnce'
  <2>. DEFINE m == MsgOf[current[p]]
  <2>1. mem[p] = row /\ m \in Msgs /\ row' = Append(row, m) /\ row \in Seq(Msgs)
    BY <1>3, StoreExtends DEF TypeOK
  <2>2. \A i \in 1..Len(row) : row[i] = m => m \in forgotten
    <3>1. phase[p] = "processing" /\ m \notin ToSet(cache[p])
      BY <1>3 DEF Store, FreshOK
    <3>. QED BY <2>1, <3>1 DEF RecognisedOK
  <2>. SUFFICES ASSUME NEW i \in 1..Len(row'), NEW j \in 1..Len(row'), i # j,
                       row'[i] = row'[j]
                PROVE  row'[i] \in forgotten'
    BY DEF EffectOnce
  <2>3. /\ Len(row') = Len(row) + 1
        /\ row'[Len(row) + 1] = m
        /\ \A k \in 1..Len(row) : row'[k] = row[k]
    BY <2>1
  <2>4. CASE i \in 1..Len(row) /\ j \in 1..Len(row)
    BY <1>1, <2>3, <2>4 DEF EffectOnce
  <2>5. CASE i = Len(row) + 1 /\ j \in 1..Len(row)
    BY <1>1, <2>2, <2>3, <2>5
  <2>6. CASE i \in 1..Len(row) /\ j = Len(row) + 1
    BY SMTT(60), <1>1, <2>2, <2>3, <2>6
  <2>. QED BY <2>1, <2>3, <2>4, <2>5, <2>6
<1>4. ASSUME ~ \E p \in Procs : Store(p) PROVE row' = row
  BY ZenonT(60), <1>4 DEF Next, vars, db, LoseLease, Acquire, Recover, Stop, CancelRunner, DrainQueue,
     Exit, Crash, Gone, Submit, TakeDuplicate, Take, Abort, LoseAck, Ack, Publish, PublishFails
<1>. QED BY <1>2, <1>3, <1>4

-----------------------------------------------------------------------------
(* No caller is stranded *)

\* Whoever waits for an answer stays with a runner that owes it.
LEMMA StrandedStep == IInv /\ NobodyStranded /\ [Next]_vars => NobodyStranded'
<1>. SUFFICES ASSUME IInv, NobodyStranded, [Next]_vars,
                     NEW x \in Callers, future'[x] = "pending"
              PROVE  \E p \in Procs : runner'[p] # "none" /\ x \in Owed(p)'
  BY DEF NobodyStranded
<1>. DEFINE Goal == \E p \in Procs : runner'[p] # "none" /\ x \in Owed(p)'
<1>. USE DEF IInv
<1>0. ASSUME future[x] = "pending"
      PROVE  \E p \in Procs : runner[p] # "none" /\ x \in Owed(p)
  BY <1>0 DEF NobodyStranded
<1>1. CASE /\ future' = future /\ queue' = queue /\ current' = current
           /\ \A p \in Procs : runner[p] # "none" => runner'[p] # "none"
  BY <1>0, <1>1 DEF Owed
<1>2. CASE UNCHANGED vars \/ LoseLease
  BY <1>1, <1>2 DEF vars, actor, LoseLease
<1>3. ASSUME NEW p \in Procs,
             Acquire(p) \/ Stop(p) \/ Recover(p) \/ Store(p) \/ Ack(p)
      PROVE  Goal
  BY <1>1, <1>3 DEF Acquire, Stop, Recover, Store, Ack, actor, TypeOK
<1>4. ASSUME NEW p \in Procs, Exit(p) PROVE Goal
  <2>1. PICK o \in Procs : runner[o] # "none" /\ x \in Owed(o)
    BY <1>0, <1>4 DEF Exit
  <2>2. o # p
    BY <1>4, <2>1 DEF Exit
  <2>3. runner'[o] = runner[o] /\ queue'[o] = queue[o] /\ current'[o] = current[o]
    BY <1>4, <2>2 DEF Exit, Gone, TypeOK
  <2>. QED BY <2>1, <2>3 DEF Owed
<1>5. ASSUME NEW p \in Procs, Crash(p) PROVE Goal
  <2>1. future[x] = "pending" /\ x \notin Owed(p)
    BY <1>5 DEF Crash, TypeOK
  <2>2. PICK o \in Procs : runner[o] # "none" /\ x \in Owed(o)
    BY <1>0, <2>1
  <2>3. runner'[o] = runner[o] /\ queue'[o] = queue[o] /\ current'[o] = current[o]
    BY <1>5, <2>1, <2>2 DEF Crash, Gone, TypeOK
  <2>. QED BY <2>2, <2>3 DEF Owed
<1>6. ASSUME NEW p \in Procs, DrainQueue(p) PROVE Goal
  <2>1. future[x] = "pending" /\ x \notin ToSet(queue[p])
    BY <1>6 DEF DrainQueue, TypeOK
  <2>2. PICK o \in Procs : runner[o] # "none" /\ x \in Owed(o)
    BY <1>0, <2>1
  <2>3. current[p] = NoCaller
    BY <1>6 DEF DrainQueue, HandOK
  <2>4. o # p
    BY <2>1, <2>2, <2>3 DEF Owed
  <2>5. runner'[o] = runner[o] /\ queue'[o] = queue[o] /\ current'[o] = current[o]
    BY <1>6, <2>4 DEF DrainQueue, TypeOK
  <2>. QED BY <2>2, <2>5 DEF Owed
<1>7. ASSUME NEW p \in Procs, NEW fate \in {"ok", "error", "cancelled"},
             Settle(p, fate), current[p] \in Callers, queue' = queue,
             \A o \in Procs : runner[o] # "none" => runner'[o] # "none"
      PROVE  Goal
  <2>1. x # current[p] /\ future[x] = "pending"
    BY <1>7 DEF Settle, Answer, TypeOK
  <2>2. PICK o \in Procs : runner[o] # "none" /\ x \in Owed(o)
    BY <1>0, <2>1
  <2>3. current'[o] = current[o] \/ o = p
    BY <1>7 DEF Settle, TypeOK
  <2>4. x \in Owed(o)'
    BY <1>7, <2>1, <2>2, <2>3 DEF Owed
  <2>. QED BY <1>7, <2>2, <2>4
<1>8. ASSUME NEW p \in Procs, CancelRunner(p) PROVE Goal
  <2>1. queue' = queue /\ \A o \in Procs : runner[o] # "none" => runner'[o] # "none"
    BY <1>8 DEF CancelRunner, TypeOK
  <2>2. CASE current[p] = NoCaller
    BY <1>0, <1>8, <2>1, <2>2 DEF CancelRunner, Owed
  <2>3. CASE current[p] # NoCaller
    BY <1>7, <1>8, <2>1, <2>3 DEF CancelRunner, TypeOK
  <2>. QED BY <2>2, <2>3
<1>9. ASSUME NEW p \in Procs,
             Abort(p) \/ LoseAck(p) \/ Publish(p) \/ PublishFails(p)
      PROVE  Goal
  <2>1. queue' = queue /\ runner' = runner /\ current[p] \in Callers
    BY <1>9 DEF Abort, LoseAck, Publish, PublishFails, HandOK, TypeOK
  <2>2. Settle(p, "error") \/ Settle(p, "ok")
    BY <1>9 DEF Abort, LoseAck, Publish, PublishFails
  <2>. QED BY <1>7, <2>1, <2>2
<1>10. ASSUME NEW p \in Procs, NEW c \in Callers, Submit(p, c) PROVE Goal
  <2>1. current' = current /\ runner' = runner
    BY <1>10 DEF Submit
  <2>2. CASE x = c
    <3>1. runner[p] # "none" /\ queue'[p] = Append(queue[p], c)
      BY <1>10, <2>2 DEF Submit, Answer, TypeOK
    <3>2. queue[p] \in Seq(Callers)
      BY DEF TypeOK
    <3>3. c \in ToSet(Append(queue[p], c))
      <4>1. /\ Append(queue[p], c) \in Seq(Callers)
            /\ Len(queue[p]) + 1 \in 1..Len(Append(queue[p], c))
            /\ Append(queue[p], c)[Len(queue[p]) + 1] = c
        BY <3>2
      <4>. QED BY <4>1, ElementInSet
    <3>. QED BY <2>1, <2>2, <3>1, <3>3 DEF Owed
  <2>3. CASE x # c
    <3>1. future[x] = "pending"
      BY <1>10, <2>3 DEF Submit, Answer, TypeOK
    <3>2. PICK o \in Procs : runner[o] # "none" /\ x \in Owed(o)
      BY <1>0, <3>1
    <3>3. queue'[o] = queue[o] \/ queue'[o] = Append(queue[o], c)
      BY ZenonT(60), <1>10 DEF Submit, TypeOK
    <3>4. queue[o] \in Seq(Callers)
      BY DEF TypeOK
    <3>5. ToSet(queue[o]) \subseteq ToSet(Append(queue[o], c))
      BY <3>4 DEF ToSet
    <3>. QED BY <2>1, <3>2, <3>3, <3>5 DEF Owed
  <2>. QED BY <2>2, <2>3
<1>11. ASSUME NEW p \in Procs, TakeDuplicate(p) \/ Take(p) PROVE Goal
  <2>1. /\ queue[p] \in Seq(Callers) /\ queue[p] # << >> /\ runner' = runner
        /\ queue'[p] = Tail(queue[p]) /\ current[p] = NoCaller
        /\ \A o \in Procs \ {p} : queue'[o] = queue[o] /\ current'[o] = current[o]
    BY <1>11 DEF TakeDuplicate, Take, CanTake, TypeOK
  <2>2. future[x] = "pending" /\ (x # Head(queue[p]) \/ x = current'[p])
    BY <1>11 DEF TakeDuplicate, Take, Answer, TypeOK
  <2>3. PICK o \in Procs : runner[o] # "none" /\ x \in Owed(o)
    BY <1>0, <2>2
  <2>4. CASE o # p
    BY <2>1, <2>3, <2>4 DEF Owed
  <2>5. CASE o = p /\ x = current'[p]
    BY <2>1, <2>3, <2>5, CallerAssumption DEF Owed
  <2>6. CASE o = p /\ x # Head(queue[p])
    <3>1. PICK k \in 1..Len(queue[p]) : x = queue[p][k]
      BY <2>1, <2>3, <2>6 DEF Owed, ToSet
    <3>2. k # 1
      BY <2>1, <2>6, <3>1
    <3>3. k - 1 \in 1..Len(Tail(queue[p])) /\ Tail(queue[p])[k - 1] = x
      BY <2>1, <3>1, <3>2
    <3>4. x \in ToSet(Tail(queue[p]))
      BY <2>1, <3>3, TailType, ElementInSet
    <3>. QED BY <2>1, <2>3, <2>6, <3>4 DEF Owed
  <2>. QED BY <2>2, <2>4, <2>5, <2>6
<1>. QED
  BY <1>2, <1>3, <1>4, <1>5, <1>6, <1>8, <1>9, <1>10, <1>11 DEF Next

\* Subscribers are given the sequence that publishing, or the recovery of the
\* actor, puts in sent; until it publishes again an actor that remembers more
\* only falls behind what it may tell.
SentOK == \A p \in Procs : sent[p] <= Len(mem[p])

\* publish comes after the acknowledged commit in _process, and recovery counts
\* from the stored row.
LEMMA SentStep == IInv /\ SentOK /\ [Next]_vars => SentOK'
<1>. SUFFICES ASSUME IInv, SentOK, [Next]_vars, NEW q \in Procs
             PROVE  sent'[q] <= Len(mem'[q])
  BY DEF SentOK
<1>. USE DEF IInv, TypeOK
<1>1. sent[q] \in Nat /\ mem[q] \in Seq(Msgs) /\ sent[q] <= Len(mem[q])
  BY DEF SentOK
<1>2. ASSUME sent'[q] = sent[q], mem'[q] = mem[q]
      PROVE  sent'[q] <= Len(mem'[q])
  BY <1>1, <1>2
<1>3. CASE UNCHANGED vars \/ LoseLease
  BY <1>2, <1>3 DEF vars, actor, LoseLease
<1>4. ASSUME NEW p \in Procs,
             \/ Acquire(p) \/ Stop(p) \/ CancelRunner(p) \/ DrainQueue(p)
             \/ TakeDuplicate(p) \/ Take(p) \/ Store(p) \/ Abort(p) \/ LoseAck(p)
             \/ PublishFails(p) \/ \E c \in Callers : Submit(p, c)
      PROVE  sent'[q] <= Len(mem'[q])
  BY <1>2, <1>4 DEF Acquire, Stop, CancelRunner, DrainQueue, TakeDuplicate, Take, Store,
                    Abort, LoseAck, PublishFails, Submit, actor
<1>5. ASSUME NEW p \in Procs, Recover(p) PROVE sent'[q] <= Len(mem'[q])
  BY <1>1, <1>5 DEF Recover
<1>6. ASSUME NEW p \in Procs, Exit(p) \/ Crash(p) PROVE sent'[q] <= Len(mem'[q])
  <2>1. sent' = [sent EXCEPT ![p] = 0] /\ mem' = [mem EXCEPT ![p] = << >>]
    BY <1>6 DEF Exit, Crash, Gone
  <2>2. CASE q = p
    BY <2>1, <2>2
  <2>3. CASE q # p
    BY <1>1, <2>1, <2>3
  <2>. QED BY <2>2, <2>3
<1>7. ASSUME NEW p \in Procs, Ack(p) PROVE sent'[q] <= Len(mem'[q])
  <2>1. phase[p] = "stored" /\ mem' = [mem EXCEPT ![p] = cand[p]] /\ sent' = sent
    BY <1>7 DEF Ack
  <2>2. cand[p] = mem[p] \/ cand[p] = Append(mem[p], MsgOf[current[p]])
    BY <2>1 DEF CandidateOK
  <2>3. Len(mem[p]) <= Len(cand[p])
    BY <2>2
  <2>. QED BY <1>1, <2>1, <2>3
<1>8. ASSUME NEW p \in Procs, Publish(p) PROVE sent'[q] <= Len(mem'[q])
  BY <1>1, <1>8 DEF Publish
<1>. QED BY <1>3, <1>4, <1>5, <1>6, <1>7, <1>8 DEF Next

-----------------------------------------------------------------------------
(* The theorems *)

\* Every step keeps the invariant.
LEMMA InvStep == IInv /\ [Next]_vars => IInv'
BY TypeStep, HandStep, MemoryStep, CandidateStep, RecognisedStep, FreshStep, EffectStep
DEF IInv

\* The invariant holds throughout.
LEMMA Invariant == Spec => []IInv
BY InvInit, InvStep, PTL DEF Spec

\* Every variable keeps its type: in particular no runner, queue or command in
\* hand is ever left in a state the code of MatchActor has no branch for.
THEOREM TypeCorrect == Spec => []TypeOK
BY Invariant, PTL DEF IInv

\* With any number of jx-core processes, alive at once or not, what an actor
\* remembers is part of what PostgreSQL stores: self.state never forks.
THEOREM MemoryNeverForks == Spec => []MemoryIsPrefix
BY Invariant, PTL DEF IInv

\* Subscribers are never told of an effect PostgreSQL does not store, nor of
\* more than the actor that tells them knows.
THEOREM PublishedAfterStored == Spec => []PublishedIsStored
<1>1. Init => SentOK
  BY DEF Init, SentOK
<1>2. IInv /\ SentOK => PublishedIsStored
  <2>. SUFFICES ASSUME IInv, SentOK, NEW p \in Procs
               PROVE  sent[p] <= Len(mem[p]) /\ sent[p] <= Len(row)
    BY DEF PublishedIsStored
  <2>1. sent[p] \in Nat /\ mem[p] \in Seq(Msgs) /\ row \in Seq(Msgs)
    BY DEF IInv, TypeOK
  <2>2. IsPrefix(mem[p], row)
    BY DEF IInv, MemoryIsPrefix
  <2>3. Len(mem[p]) <= Len(row)
    BY <2>1, <2>2, PrefixElements
  <2>. QED BY <2>1, <2>3 DEF SentOK
<1>. QED BY <1>1, <1>2, SentStep, Invariant, PTL DEF Spec

\* A message id whose result is still available never takes effect again,
\* whatever retries, evictions, restarts and lost acknowledgements happen.
THEOREM EffectsAreIdempotent == Spec => []EffectOnce
BY Invariant, PTL DEF IInv

\* A caller that waits is in the queue or in the hands of a runner that still
\* exists: submit, _run and close leave no Future behind.
THEOREM NobodyIsStranded == Spec => []NobodyStranded
<1>1. Init => NobodyStranded
  BY DEF Init, NobodyStranded
<1>. QED BY <1>1, StrandedStep, Invariant, PTL DEF Spec

\* The stored match refines one history that is only ever extended: no process
\* overwrites, reorders or drops what another one has recorded.
THEOREM HistoryRefined == Spec => HistoryOnlyGrows
<1>1. Init => History!Init
  BY DEF Init, History!Init
<1>2. IInv /\ [Next]_vars => [History!Next]_row
  BY RowGrows DEF IInv, History!Next, History!Record
<1>. QED BY <1>1, <1>2, Invariant, PTL DEF Spec, History!Spec, HistoryOnlyGrows
=============================================================================
