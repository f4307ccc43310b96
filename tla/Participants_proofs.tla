------------------------ MODULE Participants_proofs ------------------------
(* Proofs about the parts of MCParticipants, which share no variable: a step   *)
(* of one leaves the invariant of the other alone. Of the connection of a      *)
(* participant, for any number of connections, LiveKit sessions and incidents: *)
(* what the coordinator has announced, what the actor knows, and what an       *)
(* invalidated session may still cause. Of rooms: what they promise of each    *)
(* other holds as long as nobody closes one through its own API during its     *)
(* match (~CloseRunning), for terminate_room does not ask the match; what is   *)
(* promised of one room and its rows holds in any case.                        *)
EXTENDS MCParticipants, FiniteSetTheorems, TLAPS

-----------------------------------------------------------------------------
(* The connection of a participant: the inductive invariant *)

Calls == [kind : {"none", "join", "left", "media", "revoke"}, epoch : 0..highWater,
          online : BOOLEAN, conn : 0..highWater, hook : SUBSET Hooks,
          sock : SUBSET (1..highWater), media : SUBSET (tokens \X Sids)]

\* The transition that holds the lock, webhooks of tokens that were issued, and
\* the counters of incidents.
CallTypeOK ==
    /\ call \in Calls
    /\ Free <=> call.kind = "none"
    /\ \A h \in hooks \cup seen \cup call.hook : h.who \in tokens \X Sids
    /\ \A p \in Participants : part[p] # "new" => p[1] \in tokens
    /\ incidents \in [Kinds -> Nat]

Fallbacks == {"fallbackOn", "fallbackOff"}

\* Where the handlers of connections are: the one whose transition holds the
\* lock waits for it, one that is over holds no lease, and one that never joined
\* is not in _websocket.
HandlerOK ==
    /\ call.kind = "join" => conn[call.conn] = "opening" /\ call.conn \in sock
    /\ call.kind = "left" => call.conn \in Epochs /\ conn[call.conn] \in {"closing", "stale"}
    /\ \A e \in Epochs :
        /\ conn[e] \in {"closing", "stale", "fallbackOff", "closed"} => lease # e
        /\ conn[e] \in {"opening", "fallbackOn"} =>
              e \notin call.sock /\ (e \in sock => call.kind = "join" /\ call.conn = e)
        /\ conn[e] = "fallbackOn" => e \notin sock

\* The connection with the lease has both channels.
Connected(sk, md) == lease \in sk /\ \E s \in Sids : <<lease, s>> \in md

\* A connected user is announced, about to be announced, or was announced in
\* the state a failed announcement goes back to.
ToldOK ==
    /\ Free /\ ~closed /\ Connected(sock, media) => online = "on" /\ announced = lease
    /\ ~Free => /\ ~closed
                /\ Connected(sock, media) => call.online /\ call.epoch = lease
                /\ Connected(call.sock, call.media) => online = "on" /\ announced = lease

\* An open handler that holds the lease is in _websocket, unless a logout threw
\* it out.
OpenOK ==
    /\ call.kind = "revoke" \/ revoking => incidents["logout"] # 0
    /\ incidents["logout"] = 0 /\ ~closed =>
        \A e \in Epochs : conn[e] = "open" /\ lease = e =>
            e \in sock /\ (~Free => e \in call.sock)

\* What the actor took is what it still knows: reports that go around the
\* coordinator are of older connections.
KnownOK ==
    /\ taken /\ online = "on" =>
        /\ known = announced /\ ~absent
        /\ \A e \in Epochs : conn[e] \in Fallbacks => e < announced
    /\ ~Free /\ call.online =>
        /\ known <= call.epoch /\ announced <= call.epoch
        /\ \A e \in Epochs : conn[e] \in Fallbacks => e < call.epoch

\* Nobody without a session has a token for the lease; and while no announcement
\* failed, no process died and the match is not over, a user is announced on
\* media that is there, and one whose sessions are gone is not announced at all.
RevokeOK ==
    /\ ~authed => lease \notin tokens
    /\ closed => status = "over"
    /\ incidents["fault"] = 0 /\ incidents["crash"] = 0 /\ status # "over" =>
        /\ Free /\ online = "on" => \E s \in Sids : <<announced, s>> \in media
        /\ ~Free /\ call.online =>
              announced <= call.epoch /\ \E s \in Sids : <<call.epoch, s>> \in media
        /\ ~authed /\ revoking /\ member => media # {}
        /\ ~authed /\ ~revoking =>
              ~member /\ (Free => online # "on") /\ (~Free => ~call.online)

IInv == TypeOK /\ CallTypeOK /\ HandlerOK /\ ToldOK /\ OpenOK /\ KnownOK /\ RevokeOK

-----------------------------------------------------------------------------
(* Facts *)

\* A set of epochs that is not empty has a greatest one, and Max is it.
LEMMA MaxIsGreatest ==
    ASSUME NEW n \in Nat, NEW T \in SUBSET (0..n), T # {}
    PROVE  Max(T) \in T /\ \A y \in T : y <= Max(T)
<1>. DEFINE D == {n - x : x \in T}
<1>1. D \subseteq Nat /\ D # {}
  <2>1. \A x \in T : n - x \in Nat
    OBVIOUS
  <2>2. PICK x \in T : TRUE
    OBVIOUS
  <2>3. n - x \in D
    BY <2>2
  <2>. QED BY <2>1, <2>3
<1>2. PICK d \in D : \A e \in D : ~(<<e, d>> \in OpToRel(<, Nat))
  BY <1>1, NatLessThanWellFounded, WFMin
<1>3. \A e \in D : ~(e < d)
  BY <1>1, <1>2 DEF OpToRel
<1>4. PICK x \in T : d = n - x
  OBVIOUS
<1>5. ASSUME NEW y \in T PROVE x >= y
  <2>1. n - y \in D
    OBVIOUS
  <2>2. ~(n - y < n - x)
    BY <1>3, <1>4, <2>1
  <2>. QED BY <2>2
<1>6. Max(T) \in T /\ \A y \in T : Max(T) >= y
  BY <1>5 DEF Max
<1>. QED BY <1>6

\* What a transition finds: a complete connection is the lease with both
\* channels, or the announced one that still has media.
LEMMA CompleteFacts ==
    ASSUME TypeOK, NEW sk \in SUBSET (1..highWater), NEW md \in SUBSET (tokens \X Sids)
    PROVE  /\ Complete(sk, md) \subseteq {lease, announced} \ {0}
           /\ Complete(sk, md) \subseteq 1..highWater
           /\ Connected(sk, md) => lease \in Complete(sk, md)
           /\ \A e \in Complete(sk, md) : \E s \in Sids : <<e, s>> \in md
           /\ \A e \in Complete(sk, md) : \/ e = lease /\ Connected(sk, md)
                                          \/ e = announced /\ online = "on"
<1>1. highWater \in Nat /\ lease \in {0, highWater} /\ announced \in 0..highWater
  BY BoundAssumption DEF TypeOK
<1>2. 0 \notin sk
  OBVIOUS
<1>3. ASSUME NEW e \in Complete(sk, md)
      PROVE  /\ e \in {lease, announced} \ {0}
             /\ \E s \in Sids : <<e, s>> \in md
             /\ (e = lease /\ Connected(sk, md)) \/ (e = announced /\ online = "on")
  <2>1. CASE e \in {lease} \ {0} /\ e \in sk /\ \E s \in Sids : <<e, s>> \in md
    BY <2>1 DEF Connected
  <2>2. CASE e \in {announced} \ {0} /\ online = "on" /\ \E s \in Sids : <<e, s>> \in md
    BY <2>2
  <2>. QED BY <1>3, <2>1, <2>2 DEF Complete
<1>4. Complete(sk, md) \subseteq 1..highWater
  BY <1>1, <1>3
<1>5. Connected(sk, md) => lease \in Complete(sk, md)
  BY <1>2 DEF Complete, Connected
<1>. QED BY <1>3, <1>4, <1>5

-----------------------------------------------------------------------------
(* The inductive invariant holds at first *)

\* Nobody is connected.
LEMMA InvInit == Init => IInv
<1>. SUFFICES ASSUME Init PROVE IInv
  OBVIOUS
<1>1. TypeOK
  <2>1. highWater \in 0..MaxEpoch /\ lease \in {0, highWater} /\ announced \in 0..highWater
    BY BoundAssumption DEF Init
  <2>2. /\ conn \in [Epochs -> ConnStates]
        /\ \A e \in Epochs : conn[e] = "none" <=> e > highWater
    BY BoundAssumption DEF Init, Epochs, ConnStates
  <2>3. tokens \subseteq 1..highWater /\ sock \subseteq 1..highWater /\ media \subseteq tokens \X Sids
    BY DEF Init
  <2>4. part \in [Participants -> {"new", "in", "out"}] /\ hooks \subseteq Hooks /\ seen \subseteq Hooks
    BY DEF Init
  <2>5. /\ online \in {"none", "on", "off"} /\ call.kind \in {"none", "join", "left", "media", "revoke"}
        /\ status \in Statuses /\ known \in 0..highWater
    BY DEF Init, NoCall, Statuses
  <2>6. member \in BOOLEAN /\ authed \in BOOLEAN /\ entering \in BOOLEAN
    BY DEF Init
  <2>7. closed \in BOOLEAN /\ revoking \in BOOLEAN
    BY DEF Init
  <2>8. absent \in BOOLEAN /\ since \in BOOLEAN /\ taken \in BOOLEAN
    BY DEF Init
  <2>. QED BY <2>1, <2>2, <2>3, <2>4, <2>5, <2>6, <2>7, <2>8 DEF TypeOK
<1>2. CallTypeOK /\ Free /\ call = NoCall
  BY DEF Init, CallTypeOK, NoCall, Free, Calls, Kinds
<1>3. HandlerOK /\ ToldOK /\ OpenOK /\ KnownOK /\ RevokeOK
  BY <1>2, BoundAssumption
  DEF Init, HandlerOK, ToldOK, OpenOK, KnownOK, RevokeOK, NoCall, Connected, Fallbacks, Kinds,
      Epochs
<1>. QED BY <1>1, <1>2, <1>3 DEF IInv

-----------------------------------------------------------------------------
(* A transition of the coordinator *)

\* The greatest of the epochs a transition considers is one of them.
LEMMA EventEpoch ==
    ASSUME TypeOK, NEW epoch \in 0..highWater,
           NEW e, e = Max({epoch, announced} \cup ({lease} \ {0}))
    PROVE  e \in announced..highWater
<1>. DEFINE T == {epoch, announced} \cup ({lease} \ {0})
<1>1. highWater \in Nat /\ lease \in {0, highWater} /\ announced \in 0..highWater
  BY BoundAssumption DEF TypeOK
<1>2. T \in SUBSET (0..highWater) /\ T # {} /\ announced \in T
  BY <1>1
<1>3. e \in T /\ \A y \in T : y <= e
  BY <1>1, <1>2, MaxIsGreatest
<1>. QED BY <1>1, <1>2, <1>3

\* What a transition of a match that is not over decides: whether the user is
\* there (on), on which epoch (evt), and whether that is news.
Decides(kind, epoch, hook, sk, md, evt, on) ==
    /\ on => \E s \in Sids : <<evt, s>> \in md
    /\ Connected(sk, md) => on /\ evt = lease
    /\ on => \/ evt = lease /\ Connected(sk, md)
             \/ evt = announced /\ online = "on"
    /\ \/ call' = NoCall /\ evt = announced /\ online = IF on THEN "on" ELSE "off"
       \/ /\ call' = [kind |-> kind, epoch |-> evt, online |-> on, conn |-> epoch, hook |-> hook,
                      sock |-> IF kind = "revoke" THEN sk ELSE sock,
                      media |-> IF kind = "revoke" THEN md ELSE media]
          /\ on => evt = lease /\ Connected(sk, md)

\* What a transition of a match that is not over stores.
Stores(hook, sk, md, on) ==
    /\ member' = on /\ sock' = sk /\ media' = md /\ seen' = seen \cup hook
    /\ closed' = closed /\ online' = online /\ announced' = announced

\* Every transition of a match that is not over decides.
LEMMA TransitionDecides ==
    ASSUME TypeOK, status # "over", NEW kind, NEW epoch \in 0..highWater, NEW hook,
           NEW sk \in SUBSET (1..highWater), NEW md \in SUBSET (tokens \X Sids),
           Transition(kind, epoch, hook, sk, md)
    PROVE  \E evt \in announced..highWater : \E on \in BOOLEAN :
              Decides(kind, epoch, hook, sk, md, evt, on) /\ Stores(hook, sk, md, on)
<1>. DEFINE complete == Complete(sk, md)
            on == complete # {}
            evt == IF on THEN Max(complete) ELSE Max({epoch, announced} \cup ({lease} \ {0}))
<1>1. highWater \in Nat /\ lease \in {0, highWater} /\ announced \in 0..highWater
  BY BoundAssumption DEF TypeOK
<1>2. /\ complete \subseteq {lease, announced} \ {0}
      /\ complete \subseteq 1..highWater
      /\ Connected(sk, md) => lease \in complete
      /\ \A e \in complete : \E s \in Sids : <<e, s>> \in md
      /\ \A e \in complete : \/ e = lease /\ Connected(sk, md)
                             \/ e = announced /\ online = "on"
  BY CompleteFacts
<1>3. on => evt \in complete /\ \A e \in complete : e <= evt
  <2>1. complete \in SUBSET (0..highWater)
    BY <1>1, <1>2
  <2>. QED BY <1>1, <2>1, MaxIsGreatest
<1>4. evt \in announced..highWater
  <2>1. CASE on
    <3>1. evt \in 1..highWater /\ (evt = announced \/ evt = lease) /\ evt # 0
      BY <1>2, <1>3, <2>1
    <3>. HIDE DEF evt
    <3>. QED BY <1>1, <3>1
  <2>2. CASE ~on
    BY <2>2, EventEpoch
  <2>. QED BY <2>1, <2>2
<1>5. Connected(sk, md) => on /\ evt = lease
  <2>. HAVE Connected(sk, md)
  <2>1. lease \in complete /\ lease = highWater /\ on
    BY <1>1, <1>2
  <2>2. evt >= lease
    BY <1>3, <2>1
  <2>. HIDE DEF evt
  <2>. QED BY <1>1, <1>4, <2>1, <2>2
<1>6. on => /\ \E s \in Sids : <<evt, s>> \in md
            /\ \/ evt = lease /\ Connected(sk, md)
               \/ evt = announced /\ online = "on"
  BY <1>2, <1>3
<1>7. /\ Stores(hook, sk, md, on)
      /\ call' = IF online = (IF on THEN "on" ELSE "off") /\ evt <= announced
                 THEN NoCall
                 ELSE [kind |-> kind, epoch |-> evt, online |-> on, conn |-> epoch, hook |-> hook,
                       sock |-> IF kind = "revoke" THEN sk ELSE sock,
                       media |-> IF kind = "revoke" THEN md ELSE media]
  <2>1. /\ Stores(hook, sk, md, on)
        /\ call' = IF online = (IF on THEN "on" ELSE "off") /\ evt <= announced
                   THEN NoCall
                   ELSE [kind |-> kind, epoch |-> evt, online |-> on, conn |-> epoch, hook |-> hook,
                         sock |-> (IF kind = "revoke" THEN <<sk, md>> ELSE <<sock, media>>)[1],
                         media |-> (IF kind = "revoke" THEN <<sk, md>> ELSE <<sock, media>>)[2]]
    BY Zenon DEF Transition, Stores, told
  <2>. QED BY <2>1
<1>8. evt <= announced <=> evt = announced
  <2>. HIDE DEF evt
  <2>. QED BY <1>1, <1>4
<1>9. Decides(kind, epoch, hook, sk, md, evt, on)
  <2>. HIDE DEF evt, on
  <2>. QED BY <1>5, <1>6, <1>7, <1>8 DEF Decides
<1>. QED BY <1>4, <1>7, <1>9

\* What a handler of the coordinator may ask of a transition: a connection joins
\* or leaves, media comes or goes, or everything is revoked.
Asks(kind, epoch, sk, md) ==
    \/ kind = "join" /\ epoch \in Epochs /\ conn[epoch] = "opening" /\ sk = sock \cup {epoch} /\ md = media
    \/ kind = "left" /\ epoch \in Epochs /\ conn[epoch] \in {"closing", "stale"} /\ sk = sock \ {epoch} /\ md = media
    \/ kind = "media" /\ sk = sock
    \/ kind = "revoke" /\ revoking /\ sk = {} /\ md = {}

\* What the handlers leave alone, and where they leave the connection.
HandlerFrame(kind, epoch) ==
    /\ UNCHANGED <<highWater, lease, authed, entering, tokens, part, actor, taken>>
    /\ hooks' \subseteq hooks
    /\ incidents' \in [Kinds -> Nat]
    /\ \A k \in {"logout", "fault", "crash"} : incidents'[k] = incidents[k]
    /\ revoking' = (kind # "revoke" /\ revoking)
    /\ conn' = IF call' # NoCall THEN conn
               ELSE CASE kind = "join" -> [conn EXCEPT ![epoch] = "open"]
                      [] kind = "left" -> [conn EXCEPT ![epoch] = "closed"]
                      [] OTHER -> conn

\* Where the connections are after the first half of a transition.
LEMMA HandlerMoves ==
    ASSUME TypeOK, NEW kind, NEW epoch, NEW sk, NEW md,
           Asks(kind, epoch, sk, md), HandlerFrame(kind, epoch)
    PROVE  /\ conn' \in [Epochs -> ConnStates]
           /\ \A e \in Epochs :
                \/ conn'[e] = conn[e]
                   /\ (call' = NoCall => kind \notin {"join", "left"} \/ e # epoch)
                \/ /\ e = epoch /\ call' = NoCall
                   /\ \/ kind = "join" /\ conn[e] = "opening" /\ conn'[e] = "open"
                      \/ kind = "left" /\ conn[e] \in {"closing", "stale"} /\ conn'[e] = "closed"
<1>1. conn \in [Epochs -> ConnStates]
  BY DEF TypeOK
<1>2. CASE call' # NoCall
  BY <1>1, <1>2 DEF HandlerFrame
<1>3. CASE call' = NoCall /\ kind = "join"
  BY <1>1, <1>3 DEF HandlerFrame, Asks, ConnStates
<1>4. CASE call' = NoCall /\ kind = "left"
  BY <1>1, <1>4 DEF HandlerFrame, Asks, ConnStates
<1>5. CASE call' = NoCall /\ kind \notin {"join", "left"}
  BY <1>1, <1>5 DEF HandlerFrame
<1>. QED BY <1>2, <1>3, <1>4, <1>5

\* A transition of a match that is not over keeps the invariant.
LEMMA TransitionStep ==
    ASSUME IInv, Free, ~closed, status # "over",
           NEW kind \in {"join", "left", "media", "revoke"}, NEW epoch \in 0..highWater,
           NEW hook \in SUBSET Hooks, \A h \in hook : h.who \in tokens \X Sids,
           NEW sk \in SUBSET (1..highWater), NEW md \in SUBSET (tokens \X Sids),
           Asks(kind, epoch, sk, md), HandlerFrame(kind, epoch),
           Transition(kind, epoch, hook, sk, md)
    PROVE  IInv'
<1>1. PICK evt \in announced..highWater, on \in BOOLEAN :
         Decides(kind, epoch, hook, sk, md, evt, on) /\ Stores(hook, sk, md, on)
  BY TransitionDecides DEF IInv
<1>2. /\ highWater \in 0..MaxEpoch /\ lease \in {0, highWater} /\ announced \in 0..highWater
      /\ evt \in 0..highWater /\ known \in 0..highWater
  BY BoundAssumption DEF IInv, TypeOK
<1>3. /\ conn' \in [Epochs -> ConnStates]
      /\ \A e \in Epochs :
           \/ conn'[e] = conn[e]
              /\ (call' = NoCall => kind \notin {"join", "left"} \/ e # epoch)
           \/ /\ e = epoch /\ call' = NoCall
              /\ \/ kind = "join" /\ conn[e] = "opening" /\ conn'[e] = "open"
                 \/ kind = "left" /\ conn[e] \in {"closing", "stale"} /\ conn'[e] = "closed"
  BY HandlerMoves DEF IInv
<1>4. /\ highWater' = highWater /\ lease' = lease /\ authed' = authed /\ entering' = entering
      /\ tokens' = tokens /\ part' = part /\ status' = status /\ known' = known
      /\ absent' = absent /\ since' = since /\ taken' = taken
      /\ hooks' \subseteq hooks /\ revoking' = (kind # "revoke" /\ revoking)
      /\ incidents' \in [Kinds -> Nat]
      /\ incidents'["logout"] = incidents["logout"] /\ incidents'["fault"] = incidents["fault"]
      /\ incidents'["crash"] = incidents["crash"]
  BY DEF HandlerFrame, actor
<1>5. call' # NoCall =>
         /\ call'.kind = kind /\ call'.epoch = evt /\ call'.conn = epoch /\ call'.hook = hook
         /\ call'.online = on
         /\ kind # "revoke" => call'.sock = sock /\ call'.media = media
         /\ kind = "revoke" => call'.sock = {} /\ call'.media = {}
  <2>. SUFFICES ASSUME call' # NoCall PROVE <1>5!2
    OBVIOUS
  <2>1. call' = [kind |-> kind, epoch |-> evt, online |-> on, conn |-> epoch, hook |-> hook,
                 sock |-> IF kind = "revoke" THEN sk ELSE sock,
                 media |-> IF kind = "revoke" THEN md ELSE media]
    BY <1>1, Zenon DEF Decides
  <2>2. call'.online = on
    BY <2>1, Zenon
  <2>. QED BY <2>1, <2>2 DEF Asks
<1>6. call' = NoCall => evt = announced /\ online = IF on THEN "on" ELSE "off"
  <2>. SUFFICES ASSUME call' = NoCall,
                       call' = [kind |-> kind, epoch |-> evt, online |-> on, conn |-> epoch, hook |-> hook,
                                sock |-> IF kind = "revoke" THEN sk ELSE sock,
                                media |-> IF kind = "revoke" THEN md ELSE media]
                PROVE  FALSE
    BY <1>1, Zenon DEF Decides
  <2>. QED BY DEF NoCall
<1>7. NoCall.kind = "none" /\ NoCall.sock = {} /\ NoCall.media = {} /\ NoCall.hook = {}
  BY DEF NoCall
<1>8. /\ member' = on /\ sock' = sk /\ media' = md /\ seen' = seen \cup hook
       /\ closed' = closed /\ online' = online /\ announced' = announced
  BY <1>1 DEF Stores
<1>9. on \in {TRUE, FALSE}
  OBVIOUS
<1>10. TypeOK'
  <2>1. /\ highWater' \in 0..MaxEpoch /\ lease' \in {0, highWater'} /\ announced' \in 0..highWater'
        /\ known' \in 0..highWater'
    BY <1>1, <1>2, <1>4 DEF Stores
  <2>2. member' \in BOOLEAN /\ authed' \in BOOLEAN /\ entering' \in BOOLEAN
    BY <1>1, <1>4 DEF Stores, IInv, TypeOK
  <2>3. conn' \in [Epochs -> ConnStates] /\ \A e \in Epochs : conn'[e] = "none" <=> e > highWater'
    BY <1>3, <1>4 DEF IInv, TypeOK
  <2>4. /\ tokens' \subseteq 1..highWater' /\ sock' \subseteq 1..highWater' /\ media' \subseteq tokens' \X Sids
        /\ part' \in [Participants -> {"new", "in", "out"}]
        /\ hooks' \subseteq Hooks /\ seen' \subseteq Hooks
    BY <1>1, <1>4 DEF Stores, IInv, TypeOK
  <2>5. online' \in {"none", "on", "off"} /\ status' \in Statuses
    BY <1>1, <1>4 DEF Stores, IInv, TypeOK
  <2>6. call'.kind \in {"none", "join", "left", "media", "revoke"}
    BY <1>1 DEF Decides, NoCall
  <2>7. closed' \in BOOLEAN /\ revoking' \in BOOLEAN
    BY <1>1, <1>4 DEF Stores, IInv, TypeOK
  <2>8. absent' \in BOOLEAN /\ since' \in BOOLEAN /\ taken' \in BOOLEAN
    BY <1>4 DEF IInv, TypeOK
  <2>. QED BY <2>1, <2>2, <2>3, <2>4, <2>5, <2>6, <2>7, <2>8 DEF TypeOK
<1>11. CallTypeOK'
  <2>1. sock \subseteq 1..highWater /\ media \subseteq tokens \X Sids
    BY DEF IInv, TypeOK
  <2>2. call' \in [kind : {"none", "join", "left", "media", "revoke"}, epoch : 0..highWater,
                   online : BOOLEAN, conn : 0..highWater, hook : SUBSET Hooks,
                   sock : SUBSET (1..highWater), media : SUBSET (tokens \X Sids)]
    <3>1. CASE call' = NoCall
      BY <1>2, <3>1 DEF NoCall
    <3>2. CASE call' # NoCall
      <4>1. call' = [kind |-> kind, epoch |-> evt, online |-> on, conn |-> epoch, hook |-> hook,
                     sock |-> call'.sock, media |-> call'.media]
        BY <1>1, <3>2 DEF Decides
      <4>2. call'.sock \in SUBSET (1..highWater) /\ call'.media \in SUBSET (tokens \X Sids)
        BY <1>5, <2>1, <3>2
      <4>. QED BY <1>2, <4>1, <4>2
    <3>. QED BY <3>1, <3>2
  <2>3. call' = NoCall <=> call'.kind = "none"
    BY <1>5, <1>7
  <2>4. \A h \in hooks' \cup seen' \cup call'.hook : h.who \in tokens \X Sids
    BY <1>1, <1>4 DEF Decides, Stores, NoCall, IInv, CallTypeOK
  <2>5. \A p \in Participants : part'[p] # "new" => p[1] \in tokens'
    BY <1>4 DEF IInv, CallTypeOK
  <2>. QED BY <1>4, <2>2, <2>3, <2>4, <2>5 DEF CallTypeOK, Calls, Free
<1>12. HandlerOK'
  <2>1. call'.kind = "join" => conn'[call'.conn] = "opening" /\ call'.conn \in sock'
    BY <1>1, <1>4 DEF Decides, Stores, Asks, HandlerFrame, NoCall
  <2>2. call'.kind = "left" => call'.conn \in Epochs /\ conn'[call'.conn] \in {"closing", "stale"}
    BY <1>1, <1>4 DEF Decides, Asks, HandlerFrame, NoCall
  <2>3. ASSUME NEW e \in Epochs, conn'[e] \in {"closing", "stale", "fallbackOff", "closed"}
        PROVE  lease' # e
    BY <1>3, <1>4, <2>3 DEF IInv, HandlerOK
  <2>4. ASSUME NEW e \in Epochs, conn'[e] \in {"opening", "fallbackOn"}
        PROVE  /\ e \notin call'.sock
               /\ e \in sock' => call'.kind = "join" /\ call'.conn = e
               /\ conn'[e] = "fallbackOn" => e \notin sock'
    <3>1. /\ conn[e] = conn'[e]
          /\ call' = NoCall => kind \notin {"join", "left"} \/ e # epoch
      BY <1>3, <2>4
    <3>2. e \notin sock
      BY <3>1, <2>4 DEF IInv, HandlerOK, Free, NoCall
    <3>3. e \notin call'.sock
      BY <1>5, <1>7, <3>2
    <3>4. e \in sock' => kind = "join" /\ e = epoch
      BY <1>1, <3>2 DEF Stores, Asks
    <3>. QED BY <1>1, <2>4, <3>1, <3>3, <3>4 DEF Decides, Asks
  <2>. QED BY <2>1, <2>2, <2>3, <2>4 DEF HandlerOK
<1>13. ToldOK'
  <2>1. Connected(sock, media) => online = "on" /\ announced = lease
    BY DEF IInv, ToldOK
  <2>2. lease' = lease /\ sock' = sk /\ media' = md /\ online' = online /\ announced' = announced
        /\ ~closed'
    BY <1>1, <1>4 DEF Stores
  <2>3. Connected(sock, media)' <=> Connected(sk, md)
    BY <2>2 DEF Connected
  <2>4. CASE call' = NoCall
    BY <1>1, <2>2, <2>3, <2>4 DEF Decides, NoCall, ToldOK, Free
  <2>5. CASE call' # NoCall
    <3>1. Connected(sk, md) => call'.online /\ call'.epoch = lease
      BY <1>1, <1>5, <1>9, <2>5 DEF Decides
    <3>2. Connected(call.sock, call.media)' => Connected(sock, media)
      BY <1>1, <2>2, <2>5 DEF Decides, Asks, Connected
    <3>. QED BY <2>1, <2>2, <2>3, <2>5, <3>1, <3>2 DEF ToldOK, Free
  <2>. QED BY <2>4, <2>5
<1>14. OpenOK'
  <2>1. call'.kind = "revoke" \/ revoking' => incidents'["logout"] # 0
    <3>1. call'.kind = "revoke" => revoking
      BY <1>5, <1>7 DEF Asks
    <3>2. revoking' => revoking
      BY <1>4
    <3>. QED BY <1>4, <3>1, <3>2 DEF IInv, OpenOK
  <2>2. ASSUME incidents'["logout"] = 0, NEW e \in Epochs, conn'[e] = "open", lease' = e
        PROVE  e \in sock' /\ (call' # NoCall => e \in call'.sock)
    <3>1. kind # "revoke"
      <4>1. ~revoking
        <5>1. ~(incidents["logout"] # 0)
          BY <1>4, <2>2
        <5>. QED BY <5>1 DEF IInv, OpenOK
      <4>. QED BY <4>1 DEF Asks
    <3>2. CASE conn[e] = "open"
      <4>1. e \in sock
        BY <1>4, <2>2, <3>2 DEF IInv, OpenOK
      <4>. QED BY <1>1, <3>1, <3>2, <4>1 DEF Decides, Stores, Asks
    <3>3. CASE conn[e] # "open"
      BY <1>1, <1>3, <2>2, <3>3 DEF Stores, Asks
    <3>. QED BY <3>2, <3>3
  <2>. QED BY <2>1, <2>2 DEF OpenOK, Free
<1>15. KnownOK'
  <2>1. \A e \in Epochs : conn'[e] \in Fallbacks => conn[e] = conn'[e]
    BY <1>3 DEF Fallbacks
  <2>2. taken /\ online = "on" => /\ known' = announced /\ ~absent'
                                  /\ \A e \in Epochs : conn'[e] \in Fallbacks => e < announced
    BY <1>4, <2>1 DEF IInv, KnownOK
  <2>3. ASSUME call' # NoCall, call'.online
        PROVE  /\ known <= call'.epoch /\ announced <= call'.epoch
               /\ \A e \in Epochs : conn'[e] \in Fallbacks => e < call'.epoch
    <3>1. call'.epoch = lease /\ lease \in sk /\ lease = highWater /\ lease # 0
      BY <1>1, <1>2, <2>3 DEF Decides, Connected
    <3>2. ASSUME NEW e \in Epochs, conn'[e] \in Fallbacks
          PROVE  e # lease /\ e <= highWater
      <4>1. conn[e] \in Fallbacks
        BY <2>1, <3>2
      <4>2. e <= highWater
        BY <1>2, <4>1 DEF IInv, TypeOK, Epochs, Fallbacks
      <4>3. conn[e] = "fallbackOn" => e \notin sk
        BY DEF Asks, IInv, HandlerOK
      <4>. QED BY <3>1, <4>1, <4>2, <4>3 DEF IInv, HandlerOK, Fallbacks
    <3>. QED BY <1>2, <3>1, <3>2 DEF Epochs
  <2>. QED BY <1>1, <1>4, <2>2, <2>3 DEF Stores, KnownOK, Free
<1>16. RevokeOK'
  <2>1. /\ ~authed' => lease' \notin tokens'
        /\ closed' => status' = "over"
    BY <1>1, <1>4 DEF Stores, IInv, RevokeOK
  <2>2. ~authed => ~Connected(sk, md)
    BY DEF IInv, RevokeOK, Connected
  <2>3. ASSUME incidents["fault"] = 0, incidents["crash"] = 0
        PROVE  /\ call' = NoCall /\ online' = "on" => \E s \in Sids : <<announced', s>> \in media'
               /\ call' # NoCall /\ call'.online =>
                     announced' <= call'.epoch /\ \E s \in Sids : <<call'.epoch, s>> \in media'
    <3>1. on => \E s \in Sids : <<evt, s>> \in md
      BY <1>1 DEF Decides
    <3>2. CASE call' = NoCall
      <4>1. evt = announced /\ online = IF on THEN "on" ELSE "off"
        BY <1>6, <3>2
      <4>2. online = "on" => on
        BY <4>1
      <4>. QED BY <1>8, <3>1, <3>2, <4>1, <4>2
    <3>3. CASE call' # NoCall
      BY <1>2, <1>5, <1>8, <1>9, <3>1, <3>3
    <3>. QED BY <3>2, <3>3
  <2>4. ~authed /\ revoking' /\ member' => media' # {}
    BY <1>1 DEF Decides, Stores
  <2>5. ASSUME incidents["fault"] = 0, incidents["crash"] = 0, ~authed, ~revoking'
        PROVE  ~member' /\ (call' = NoCall => online' # "on") /\ (call' # NoCall => ~call'.online)
    <3>1. ~on
      <4>1. CASE kind = "revoke"
        BY <1>1, <4>1 DEF Asks, Decides
      <4>2. CASE kind # "revoke"
        <5>1. online # "on"
          BY <1>4, <2>5, <4>2 DEF IInv, RevokeOK
        <5>. QED BY <1>1, <2>2, <2>5, <5>1 DEF Decides
      <4>. QED BY <4>1, <4>2
    <3>2. on = FALSE
      BY <1>9, <3>1
    <3>3. ~member'
      BY <1>8, <3>2
    <3>4. call' # NoCall => ~call'.online
      BY <1>5, <3>2
    <3>5. call' = NoCall => online' # "on"
      <4>. HAVE call' = NoCall
      <4>1. online = IF on THEN "on" ELSE "off"
        BY <1>6
      <4>. QED BY <1>8, <3>2, <4>1
    <3>. QED BY <3>3, <3>4, <3>5
  <2>. QED BY <1>4, <2>1, <2>3, <2>4, <2>5 DEF RevokeOK, Free
<1>. QED BY <1>10, <1>11, <1>12, <1>13, <1>14, <1>15, <1>16 DEF IInv

\* A transition that finds the match over forgets everything and keeps the
\* invariant.
LEMMA OverStep ==
    ASSUME IInv, Free, status = "over",
           NEW kind \in {"join", "left", "media", "revoke"}, NEW epoch \in 0..highWater, NEW hook,
           NEW sk, NEW md,
           Asks(kind, epoch, sk, md), HandlerFrame(kind, epoch),
           Transition(kind, epoch, hook, sk, md)
    PROVE  IInv'
<1>1. /\ closed' = TRUE /\ sock' = {} /\ media' = {} /\ seen' = {}
      /\ online' = "none" /\ announced' = 0 /\ call' = NoCall /\ member' = member
  BY DEF Transition
<1>2. /\ conn' \in [Epochs -> ConnStates]
      /\ \A e \in Epochs : \/ conn'[e] = conn[e]
                           \/ conn[e] = "opening" /\ conn'[e] = "open"
                           \/ conn[e] \in {"closing", "stale"} /\ conn'[e] = "closed"
  BY HandlerMoves DEF IInv
<1>3. /\ highWater' = highWater /\ lease' = lease /\ authed' = authed /\ entering' = entering
      /\ tokens' = tokens /\ part' = part /\ status' = status /\ known' = known
      /\ absent' = absent /\ since' = since /\ taken' = taken
      /\ hooks' \subseteq hooks /\ (revoking' => revoking) /\ revoking' \in BOOLEAN
      /\ incidents' \in [Kinds -> Nat]
      /\ incidents'["logout"] = incidents["logout"]
  BY DEF HandlerFrame, actor, IInv, TypeOK
<1>4. TypeOK'
  <2>1. /\ highWater' \in 0..MaxEpoch /\ lease' \in {0, highWater'} /\ announced' \in 0..highWater'
        /\ known' \in 0..highWater'
    BY <1>1, <1>3, BoundAssumption DEF IInv, TypeOK
  <2>2. member' \in BOOLEAN /\ authed' \in BOOLEAN /\ entering' \in BOOLEAN
    BY <1>1, <1>3 DEF IInv, TypeOK
  <2>3. conn' \in [Epochs -> ConnStates] /\ \A e \in Epochs : conn'[e] = "none" <=> e > highWater'
    BY <1>2, <1>3 DEF IInv, TypeOK
  <2>4. /\ tokens' \subseteq 1..highWater' /\ sock' \subseteq 1..highWater' /\ media' \subseteq tokens' \X Sids
        /\ part' \in [Participants -> {"new", "in", "out"}]
        /\ hooks' \subseteq Hooks /\ seen' \subseteq Hooks
    BY <1>1, <1>3 DEF IInv, TypeOK
  <2>5. /\ online' \in {"none", "on", "off"} /\ status' \in Statuses
        /\ call'.kind \in {"none", "join", "left", "media", "revoke"}
    BY <1>1, <1>3 DEF IInv, TypeOK, NoCall
  <2>6. closed' \in BOOLEAN /\ revoking' \in BOOLEAN
    BY <1>1, <1>3
  <2>7. absent' \in BOOLEAN /\ since' \in BOOLEAN /\ taken' \in BOOLEAN
    BY <1>3 DEF IInv, TypeOK
  <2>. QED BY <2>1, <2>2, <2>3, <2>4, <2>5, <2>6, <2>7 DEF TypeOK
<1>5. CallTypeOK'
  <2>1. NoCall \in [kind : {"none", "join", "left", "media", "revoke"}, epoch : 0..highWater,
                    online : BOOLEAN, conn : 0..highWater, hook : SUBSET Hooks,
                    sock : SUBSET (1..highWater), media : SUBSET (tokens \X Sids)]
    BY DEF NoCall, IInv, TypeOK
  <2>2. \A h \in hooks' \cup seen' \cup call'.hook : h.who \in tokens' \X Sids
    BY <1>1, <1>3 DEF IInv, CallTypeOK, NoCall
  <2>3. Free' /\ call'.kind = "none"
    BY <1>1 DEF Free, NoCall
  <2>4. \A p \in Participants : part'[p] # "new" => p[1] \in tokens'
    BY <1>3 DEF IInv, CallTypeOK
  <2>. QED BY <1>1, <1>3, <2>1, <2>2, <2>3, <2>4 DEF CallTypeOK, Calls
<1>6. HandlerOK'
  BY <1>1, <1>2, <1>3 DEF IInv, HandlerOK, NoCall
<1>7. ToldOK' /\ KnownOK'
  BY <1>1 DEF ToldOK, KnownOK, Free
<1>8. OpenOK'
  BY <1>1, <1>3 DEF OpenOK, IInv, NoCall
<1>9. RevokeOK'
  BY <1>1, <1>3 DEF RevokeOK, IInv
<1>. QED BY <1>4, <1>5, <1>6, <1>7, <1>8, <1>9 DEF IInv

\* A call of the coordinator that changes nothing keeps the invariant: the match
\* is closed, the webhook has been seen, or there is nothing to revoke.
LEMMA IgnoredStep ==
    ASSUME IInv, Free,
           NEW kind \in {"join", "left", "media", "revoke"}, NEW epoch \in 0..highWater,
           NEW sk, NEW md,
           Asks(kind, epoch, sk, md), HandlerFrame(kind, epoch),
           UNCHANGED <<members, told, closed, call, member>>,
           closed \/ kind = "media" \/ (kind = "revoke" /\ sock = {} /\ media = {})
    PROVE  IInv'
<1>1. /\ closed' = closed /\ sock' = sock /\ media' = media /\ seen' = seen
      /\ online' = online /\ announced' = announced /\ call' = call /\ member' = member
  BY DEF members, told
<1>2. /\ conn' \in [Epochs -> ConnStates]
      /\ \A e \in Epochs : \/ conn'[e] = conn[e]
                           \/ closed /\ conn[e] = "opening" /\ conn'[e] = "open"
                           \/ conn[e] \in {"closing", "stale"} /\ conn'[e] = "closed"
  BY HandlerMoves DEF IInv
<1>3. /\ highWater' = highWater /\ lease' = lease /\ authed' = authed /\ entering' = entering
      /\ tokens' = tokens /\ part' = part /\ status' = status /\ known' = known
      /\ absent' = absent /\ since' = since /\ taken' = taken
      /\ hooks' \subseteq hooks /\ (revoking' => revoking) /\ revoking' \in BOOLEAN
      /\ incidents' \in [Kinds -> Nat]
      /\ incidents'["logout"] = incidents["logout"] /\ incidents'["fault"] = incidents["fault"]
      /\ incidents'["crash"] = incidents["crash"]
  BY DEF HandlerFrame, actor, IInv, TypeOK
<1>4. call = NoCall /\ NoCall.kind = "none"
  BY DEF Free, NoCall
<1>5. TypeOK'
  <2>1. /\ highWater' \in 0..MaxEpoch /\ lease' \in {0, highWater'} /\ announced' \in 0..highWater'
        /\ known' \in 0..highWater'
    BY <1>1, <1>3 DEF IInv, TypeOK
  <2>2. member' \in BOOLEAN /\ authed' \in BOOLEAN /\ entering' \in BOOLEAN
    BY <1>1, <1>3 DEF IInv, TypeOK
  <2>3. conn' \in [Epochs -> ConnStates] /\ \A e \in Epochs : conn'[e] = "none" <=> e > highWater'
    BY <1>2, <1>3 DEF IInv, TypeOK
  <2>4. /\ tokens' \subseteq 1..highWater' /\ sock' \subseteq 1..highWater' /\ media' \subseteq tokens' \X Sids
        /\ part' \in [Participants -> {"new", "in", "out"}]
        /\ hooks' \subseteq Hooks /\ seen' \subseteq Hooks
    BY <1>1, <1>3 DEF IInv, TypeOK
  <2>5. /\ online' \in {"none", "on", "off"} /\ status' \in Statuses
        /\ call'.kind \in {"none", "join", "left", "media", "revoke"}
    BY <1>1, <1>3 DEF IInv, TypeOK
  <2>6. closed' \in BOOLEAN /\ revoking' \in BOOLEAN
    BY <1>1, <1>3 DEF IInv, TypeOK
  <2>7. absent' \in BOOLEAN /\ since' \in BOOLEAN /\ taken' \in BOOLEAN
    BY <1>3 DEF IInv, TypeOK
  <2>. QED BY <2>1, <2>2, <2>3, <2>4, <2>5, <2>6, <2>7 DEF TypeOK
<1>6. CallTypeOK'
  BY <1>1, <1>3 DEF IInv, CallTypeOK, Calls, Free
<1>7. HandlerOK'
  BY <1>1, <1>2, <1>3, <1>4 DEF IInv, HandlerOK
<1>8. ToldOK'
  BY <1>1, <1>3 DEF IInv, ToldOK, Free, Connected
<1>9. OpenOK'
  <2>1. call'.kind = "revoke" \/ revoking' => incidents'["logout"] # 0
    BY <1>1, <1>3 DEF IInv, OpenOK
  <2>2. ~closed => \A e \in Epochs : conn'[e] = "open" => conn[e] = "open"
    BY <1>2
  <2>. QED BY <1>1, <1>3, <1>4, <2>1, <2>2 DEF IInv, OpenOK, Free
<1>10. KnownOK'
  <2>1. \A e \in Epochs : conn'[e] \in Fallbacks => conn[e] = conn'[e]
    BY <1>2 DEF Fallbacks
  <2>. QED BY <1>1, <1>3, <1>4, <2>1 DEF IInv, KnownOK, Free
<1>11. RevokeOK'
  <2>1. CASE closed
    BY <1>1, <1>3, <2>1 DEF IInv, RevokeOK
  <2>2. CASE kind = "media"
    <3>1. revoking' = revoking
      BY <2>2 DEF HandlerFrame, IInv, TypeOK
    <3>. QED BY <1>1, <1>3, <3>1 DEF IInv, RevokeOK, Free
  <2>3. CASE kind = "revoke" /\ sock = {} /\ media = {}
    <3>1. revoking /\ ~revoking'
      BY <2>3 DEF HandlerFrame, Asks
    <3>. QED BY <1>1, <1>3, <1>4, <2>3, <3>1 DEF IInv, RevokeOK, Free
  <2>. QED BY <2>1, <2>2, <2>3
<1>. QED BY <1>5, <1>6, <1>7, <1>8, <1>9, <1>10, <1>11 DEF IInv

\* An incident adds one to its counter and leaves the others.
LEMMA IncidentCounts ==
    ASSUME CallTypeOK, NEW k \in Kinds, Incident(k)
    PROVE  /\ incidents' \in [Kinds -> Nat]
           /\ incidents'[k] # 0
           /\ \A j \in Kinds : j # k => incidents'[j] = incidents[j]
<1>1. incidents' = [incidents EXCEPT ![k] = @ + 1] /\ incidents \in [Kinds -> Nat]
  BY DEF Incident, CallTypeOK
<1>. QED BY <1>1

\* websocket_joined, websocket_left, media_event and revoke_user keep the
\* invariant.
LEMMA CoordinatorStep ==
    ASSUME IInv,
           \/ \E e \in Epochs : WebsocketJoined(e) \/ WebsocketLeft(e)
           \/ \E h \in hooks : MediaEvent(h)
           \/ RevokeUser
    PROVE  IInv'
<1>1. /\ highWater \in Nat /\ sock \in SUBSET (1..highWater) /\ media \in SUBSET (tokens \X Sids)
      /\ tokens \subseteq 1..highWater /\ incidents \in [Kinds -> Nat]
      /\ \A e \in Epochs : conn[e] # "none" => e \in 1..highWater
      /\ (TRUE /\ revoking) = revoking
  BY BoundAssumption DEF IInv, TypeOK, CallTypeOK, Epochs
<1>2. {"logout", "fault", "crash", "repeat"} \subseteq Kinds
  BY DEF Kinds
<1>3. closed => status = "over"
  BY DEF IInv, RevokeOK
<1>4. ASSUME NEW e \in Epochs, WebsocketJoined(e) PROVE IInv'
  <2>. DEFINE sk == sock \cup {e}
  <2>1. Free /\ Asks("join", e, sk, media) /\ e \in 1..highWater
    BY <1>1, <1>4 DEF WebsocketJoined, Asks
  <2>2. HandlerFrame("join", e)
    BY <1>1, <1>2, <1>4 DEF WebsocketJoined, HandlerFrame, Settled
  <2>3. e \in 0..highWater /\ sk \in SUBSET (1..highWater)
    BY <1>1, <2>1
  <2>4. CASE closed
    BY <1>4, <2>1, <2>2, <2>3, <2>4, IgnoredStep DEF WebsocketJoined
  <2>5. CASE ~closed
    <3>1. Transition("join", e, {}, sk, media)
      BY <1>4, <2>5 DEF WebsocketJoined
    <3>2. CASE status = "over"
      BY <2>1, <2>2, <2>3, <3>1, <3>2, OverStep
    <3>3. CASE status # "over"
      BY <1>1, <2>1, <2>2, <2>3, <2>5, <3>1, <3>3, TransitionStep
    <3>. QED BY <3>2, <3>3
  <2>. QED BY <2>4, <2>5
<1>5. ASSUME NEW e \in Epochs, WebsocketLeft(e) PROVE IInv'
  <2>. DEFINE sk == sock \ {e}
  <2>1. Free /\ Asks("left", e, sk, media) /\ e \in 1..highWater
    BY <1>1, <1>5 DEF WebsocketLeft, Asks
  <2>2. HandlerFrame("left", e)
    BY <1>1, <1>2, <1>5 DEF WebsocketLeft, HandlerFrame, Settled
  <2>3. e \in 0..highWater /\ sk \in SUBSET (1..highWater)
    BY <1>1, <2>1
  <2>4. CASE closed
    BY <1>5, <2>1, <2>2, <2>3, <2>4, IgnoredStep DEF WebsocketLeft
  <2>5. CASE ~closed
    <3>1. Transition("left", e, {}, sk, media)
      BY <1>5, <2>5 DEF WebsocketLeft
    <3>2. CASE status = "over"
      BY <2>1, <2>2, <2>3, <3>1, <3>2, OverStep
    <3>3. CASE status # "over"
      BY <1>1, <2>1, <2>2, <2>3, <2>5, <3>1, <3>3, TransitionStep
    <3>. QED BY <3>2, <3>3
  <2>. QED BY <2>4, <2>5
<1>6. ASSUME NEW h \in hooks, MediaEvent(h) PROVE IInv'
  <2>. DEFINE md == IF h.joined THEN media \cup {h.who} ELSE media \ {h.who}
  <2>1. Free /\ Asks("media", h.who[1], sock, md)
    BY <1>6 DEF MediaEvent, Asks
  <2>2. h \in Hooks /\ h.who \in tokens \X Sids
    BY DEF IInv, TypeOK, CallTypeOK
  <2>3. h.who[1] \in 0..highWater /\ md \in SUBSET (tokens \X Sids)
    <3>1. h.who[1] \in tokens
      BY <2>2
    <3>2. h.who[1] \in 0..highWater
      <4>1. \A t \in tokens : t \in 0..highWater
        BY <1>1
      <4>. QED BY <3>1, <4>1
    <3>3. md \subseteq tokens \X Sids
      BY <1>1, <2>2
    <3>. QED BY <3>2, <3>3
  <2>4. /\ hooks' \subseteq hooks /\ incidents' \in [Kinds -> Nat]
        /\ \A k \in {"logout", "fault", "crash"} : incidents'[k] = incidents[k]
    BY <1>1, <1>2, <1>6, IncidentCounts DEF MediaEvent, IInv
  <2>5. HandlerFrame("media", h.who[1])
    BY <1>6, <2>4 DEF MediaEvent, HandlerFrame, IInv, TypeOK
  <2>6. CASE closed \/ h \in seen
    BY <1>6, <2>1, <2>3, <2>5, <2>6, IgnoredStep DEF MediaEvent
  <2>7. CASE ~(closed \/ h \in seen)
    <3>1. Transition("media", h.who[1], {h}, sock, md)
      BY <1>6, <2>7 DEF MediaEvent
    <3>2. CASE status = "over"
      BY <2>1, <2>3, <2>5, <3>1, <3>2, OverStep
    <3>3. CASE status # "over"
      BY <1>1, <2>1, <2>2, <2>3, <2>5, <2>7, <3>1, <3>3, TransitionStep
    <3>. QED BY <3>2, <3>3
  <2>. QED BY <2>6, <2>7
<1>7. ASSUME RevokeUser PROVE IInv'
  <2>1. Free /\ Asks("revoke", 0, {}, {})
    BY <1>7 DEF RevokeUser, Asks
  <2>2. HandlerFrame("revoke", 0)
    BY <1>1, <1>2, <1>7 DEF RevokeUser, HandlerFrame, outside
  <2>3. CASE sock = {} /\ media = {}
    BY <1>1, <1>7, <2>1, <2>2, <2>3, IgnoredStep DEF RevokeUser
  <2>4. CASE ~(sock = {} /\ media = {})
    <3>1. Transition("revoke", 0, {}, {}, {})
      BY <1>7, <2>4 DEF RevokeUser
    <3>2. CASE status = "over"
      BY <1>1, <2>1, <2>2, <3>1, <3>2, OverStep
    <3>3. CASE status # "over"
      BY <1>1, <1>3, <2>1, <2>2, <3>1, <3>3, TransitionStep
    <3>. QED BY <3>2, <3>3
  <2>. QED BY <2>3, <2>4
<1>. QED BY <1>4, <1>5, <1>6, <1>7

-----------------------------------------------------------------------------
(* The announcement *)

\* The transition that holds the lock, when there is one.
LEMMA CallFacts ==
    ASSUME IInv, ~Free
    PROVE  /\ call.kind \in {"join", "left", "media", "revoke"}
           /\ call.epoch \in 0..highWater /\ call.online \in BOOLEAN
           /\ call.sock \in SUBSET (1..highWater) /\ call.media \in SUBSET (tokens \X Sids)
           /\ call.hook \in SUBSET Hooks
           /\ ~closed
<1>1. call \in [kind : {"none", "join", "left", "media", "revoke"}, epoch : 0..highWater,
                online : BOOLEAN, conn : 0..highWater, hook : SUBSET Hooks,
                sock : SUBSET (1..highWater), media : SUBSET (tokens \X Sids)]
  BY DEF IInv, CallTypeOK, Calls
<1>2. call.kind # "none"
  BY DEF IInv, CallTypeOK
<1>. QED BY <1>1, <1>2 DEF IInv, ToldOK

\* The later of two epochs.
LEMMA LaterEpoch ==
    ASSUME NEW n \in Nat, NEW a \in 0..n, NEW b \in 0..n
    PROVE  /\ Max({a, b}) \in 0..n
           /\ a <= b => Max({a, b}) = b
<1>1. Max({a, b}) \in {a, b} /\ \A y \in {a, b} : y <= Max({a, b})
  <2>1. {a, b} \in SUBSET (0..n) /\ {a, b} # {}
    OBVIOUS
  <2>. QED BY <2>1, MaxIsGreatest
<1>. DEFINE m == Max({a, b})
<1>2. m \in {a, b} /\ b <= m
  BY <1>1
<1>3. m \in 0..n /\ (a <= b => m = b)
  <2>. HIDE DEF m
  <2>. QED BY <1>2
<1>. QED BY <1>3

\* The end of a transition keeps the invariant, whether or not the actor takes
\* the announcement.
LEMMA AnnounceStep ==
    ASSUME IInv, Announce
    PROVE  IInv'
<1>1. /\ ~Free /\ ~closed
      /\ call.kind \in {"join", "left", "media", "revoke"}
      /\ call.epoch \in 0..highWater /\ call.online \in BOOLEAN
  BY CallFacts DEF Announce
<1>2. /\ highWater' = highWater /\ lease' = lease /\ member' = member /\ authed' = authed
      /\ entering' = entering /\ tokens' = tokens /\ part' = part /\ hooks' = hooks
      /\ sock' = sock /\ media' = media /\ seen' = seen /\ closed' = closed
      /\ revoking' = revoking /\ status' = status /\ incidents' = incidents /\ call' = NoCall
  BY DEF Announce, db, members
<1>3. highWater \in Nat /\ lease \in {0, highWater} /\ announced \in 0..highWater
      /\ known \in 0..highWater
  BY BoundAssumption DEF IInv, TypeOK
<1>4. /\ announced' \in 0..highWater
      /\ announced <= call.epoch => announced' = call.epoch
      /\ online' = IF call.online THEN "on" ELSE "off"
  BY <1>1, <1>3, LaterEpoch DEF Announce, Remembered
<1>5. /\ conn' \in [Epochs -> ConnStates]
      /\ \A e \in Epochs :
           \/ conn'[e] = conn[e] /\ (call.kind \in {"join", "left"} => e # call.conn)
           \/ e = call.conn /\ call.kind = "join" /\ conn'[e] = "open" /\ conn[e] = "opening"
           \/ e = call.conn /\ call.kind = "left" /\ conn'[e] = "closed" /\ conn[e] \in {"closing", "stale"}
  <2>1. /\ conn \in [Epochs -> ConnStates]
        /\ call.kind = "join" => conn[call.conn] = "opening"
        /\ call.kind = "left" => conn[call.conn] \in {"closing", "stale"}
    BY DEF IInv, TypeOK, HandlerOK
  <2>2. CASE call.kind = "join"
    BY <2>1, <2>2 DEF Announce, Returned, ConnStates
  <2>3. CASE call.kind = "left"
    BY <2>1, <2>3 DEF Announce, Returned, ConnStates
  <2>4. CASE call.kind \notin {"join", "left"}
    BY <2>1, <2>4 DEF Announce, Returned
  <2>. QED BY <2>2, <2>3, <2>4
<1>6. /\ known' \in 0..highWater /\ absent' \in BOOLEAN /\ since' \in BOOLEAN /\ taken' \in BOOLEAN
      /\ taken' /\ call.online /\ known <= call.epoch => known' = call.epoch /\ ~absent'
  <2>1. absent \in BOOLEAN /\ since \in BOOLEAN
    BY DEF IInv, TypeOK
  <2>2. CASE Admitted(call.online)
    <3>1. Reported(call.online, call.epoch) /\ taken' = TRUE
      BY <2>2 DEF Announce
    <3>2. CASE call.epoch < known
      BY <1>1, <1>3, <2>1, <3>1, <3>2 DEF Reported
    <3>3. CASE ~(call.epoch < known)
      <4>1. /\ known' = call.epoch /\ absent' = ~call.online
            /\ since' = IF call.online /\ ~absent THEN since ELSE ~call.online
        BY <3>1, <3>3 DEF Reported
      <4>. QED BY <1>1, <2>1, <3>1, <4>1
    <3>. QED BY <3>2, <3>3
  <2>3. CASE ~Admitted(call.online)
    BY <1>3, <2>1, <2>3 DEF Announce
  <2>. QED BY <2>2, <2>3
<1>7. TypeOK'
  <2>1. /\ highWater' \in 0..MaxEpoch /\ lease' \in {0, highWater'} /\ announced' \in 0..highWater'
        /\ known' \in 0..highWater'
    BY <1>2, <1>4, <1>6 DEF IInv, TypeOK
  <2>2. member' \in BOOLEAN /\ authed' \in BOOLEAN /\ entering' \in BOOLEAN
    BY <1>2 DEF IInv, TypeOK
  <2>3. conn' \in [Epochs -> ConnStates] /\ \A e \in Epochs : conn'[e] = "none" <=> e > highWater'
    BY <1>2, <1>5 DEF IInv, TypeOK
  <2>4. /\ tokens' \subseteq 1..highWater' /\ sock' \subseteq 1..highWater' /\ media' \subseteq tokens' \X Sids
        /\ part' \in [Participants -> {"new", "in", "out"}]
        /\ hooks' \subseteq Hooks /\ seen' \subseteq Hooks
    BY <1>2 DEF IInv, TypeOK
  <2>5. /\ online' \in {"none", "on", "off"} /\ status' \in Statuses
        /\ call'.kind \in {"none", "join", "left", "media", "revoke"}
    BY <1>2, <1>4 DEF IInv, TypeOK, NoCall
  <2>6. closed' \in BOOLEAN /\ revoking' \in BOOLEAN
    BY <1>2 DEF IInv, TypeOK
  <2>. QED BY <1>6, <2>1, <2>2, <2>3, <2>4, <2>5, <2>6 DEF TypeOK
<1>8. CallTypeOK'
  <2>1. NoCall \in [kind : {"none", "join", "left", "media", "revoke"}, epoch : 0..highWater,
                    online : BOOLEAN, conn : 0..highWater, hook : SUBSET Hooks,
                    sock : SUBSET (1..highWater), media : SUBSET (tokens \X Sids)]
    BY <1>3 DEF NoCall
  <2>2. \A h \in hooks' \cup seen' \cup call'.hook : h.who \in tokens' \X Sids
    BY <1>2 DEF IInv, CallTypeOK, NoCall
  <2>3. Free' /\ call'.kind = "none" /\ incidents' \in [Kinds -> Nat]
    BY <1>2 DEF Free, NoCall, IInv, CallTypeOK
  <2>4. \A p \in Participants : part'[p] # "new" => p[1] \in tokens'
    BY <1>2 DEF IInv, CallTypeOK
  <2>. QED BY <1>2, <2>1, <2>2, <2>3, <2>4 DEF CallTypeOK, Calls
<1>9. HandlerOK'
  <2>1. ASSUME NEW e \in Epochs, conn'[e] \in {"closing", "stale", "fallbackOff", "closed"}
        PROVE  lease' # e
    BY <1>2, <1>5, <2>1 DEF IInv, HandlerOK
  <2>2. ASSUME NEW e \in Epochs, conn'[e] \in {"opening", "fallbackOn"}
        PROVE  e \notin sock' /\ e \notin call'.sock
    BY <1>2, <1>5, <2>2 DEF IInv, HandlerOK, NoCall
  <2>3. call'.kind = "none"
    BY <1>2 DEF NoCall
  <2>. QED BY <2>1, <2>2, <2>3 DEF HandlerOK
<1>10. ToldOK'
  <2>1. Connected(sock, media)' => Connected(sock, media)
    BY <1>2 DEF Connected
  <2>2. ASSUME Connected(sock, media) PROVE online' = "on" /\ announced' = lease
    <3>1. call.online /\ call.epoch = lease /\ lease = highWater
      BY <1>1, <1>3, <2>2 DEF IInv, ToldOK, Connected, TypeOK
    <3>. QED BY <1>3, <1>4, <3>1
  <2>. QED BY <1>1, <1>2, <2>1, <2>2 DEF ToldOK, Free
<1>11. OpenOK'
  <2>1. ASSUME incidents["logout"] = 0, NEW e \in Epochs, conn'[e] = "open", lease = e
        PROVE  e \in sock
    BY <1>1, <1>5, <2>1 DEF IInv, OpenOK, HandlerOK
  <2>2. call'.kind = "none" /\ (revoking => incidents["logout"] # 0)
    BY <1>2 DEF NoCall, IInv, OpenOK
  <2>. QED BY <1>2, <2>1, <2>2 DEF OpenOK, Free
<1>12. KnownOK'
  <2>1. \A e \in Epochs : conn'[e] \in Fallbacks => conn[e] = conn'[e]
    BY <1>5 DEF Fallbacks
  <2>2. ASSUME taken', online' = "on"
        PROVE  /\ known' = announced' /\ ~absent'
               /\ \A e \in Epochs : conn'[e] \in Fallbacks => e < announced'
    <3>1. call.online
      BY <1>4, <2>2
    <3>2. /\ known <= call.epoch /\ announced <= call.epoch
          /\ \A e \in Epochs : conn[e] \in Fallbacks => e < call.epoch
      BY <1>1, <3>1 DEF IInv, KnownOK
    <3>. QED BY <1>4, <1>6, <2>1, <2>2, <3>1, <3>2
  <2>. QED BY <1>2, <2>2 DEF KnownOK, Free
<1>13. RevokeOK'
  <2>1. /\ ~authed' => lease' \notin tokens'
        /\ closed' => status' = "over"
    BY <1>1, <1>2 DEF IInv, RevokeOK
  <2>2. ASSUME incidents["fault"] = 0, incidents["crash"] = 0, status # "over"
        PROVE  /\ online' = "on" => \E s \in Sids : <<announced', s>> \in media'
               /\ ~authed /\ revoking /\ member => media # {}
               /\ ~authed /\ ~revoking => ~member /\ online' # "on"
    <3>1. online' = "on" => call.online
      BY <1>4
    <3>2. call.online => announced <= call.epoch /\ \E s \in Sids : <<call.epoch, s>> \in media
      BY <1>1, <2>2 DEF IInv, RevokeOK
    <3>3. /\ ~authed /\ revoking /\ member => media # {}
          /\ ~authed /\ ~revoking => ~member /\ ~call.online
      BY <1>1, <2>2 DEF IInv, RevokeOK
    <3>. QED BY <1>2, <1>4, <3>1, <3>2, <3>3
  <2>. QED BY <1>2, <2>1, <2>2 DEF RevokeOK, Free
<1>. QED BY <1>7, <1>8, <1>9, <1>10, <1>11, <1>12, <1>13 DEF IInv

\* An announcement that fails is taken back and keeps the invariant: the user is
\* as connected as when the last announcement went out, and the fallback that
\* the handler starts is of an epoch that is not announced.
LEMMA AnnounceFailsStep ==
    ASSUME IInv, AnnounceFails
    PROVE  IInv'
<1>1. /\ ~Free /\ ~closed
      /\ call.kind \in {"join", "left", "media", "revoke"}
      /\ call.epoch \in 0..highWater /\ call.online \in BOOLEAN
      /\ call.sock \in SUBSET (1..highWater) /\ call.media \in SUBSET (tokens \X Sids)
      /\ call.hook \in SUBSET Hooks
  BY CallFacts DEF AnnounceFails
<1>2. /\ highWater' = highWater /\ lease' = lease /\ member' = member /\ authed' = authed
      /\ entering' = entering /\ tokens' = tokens /\ part' = part /\ hooks' = hooks \cup call.hook
      /\ sock' = call.sock /\ media' = call.media /\ seen' = seen \ call.hook /\ closed' = closed
      /\ online' = online /\ announced' = announced /\ taken' = FALSE
      /\ known' = known /\ absent' = absent /\ since' = since
      /\ revoking' = revoking /\ status' = status /\ call' = NoCall
  BY DEF AnnounceFails, db, told, actor
<1>3. /\ incidents' \in [Kinds -> Nat] /\ incidents'["fault"] # 0
      /\ incidents'["logout"] = incidents["logout"] /\ incidents'["crash"] = incidents["crash"]
  BY IncidentCounts DEF AnnounceFails, IInv, Kinds
<1>4. /\ conn' \in [Epochs -> ConnStates]
      /\ \A e \in Epochs :
           \/ conn'[e] = conn[e]
           \/ e = call.conn /\ conn'[e] = "fallbackOn" /\ conn[e] = "opening"
           \/ conn'[e] \in {"fallbackOff", "closed"} /\ conn[e] \in {"closing", "stale"}
  <2>1. /\ conn \in [Epochs -> ConnStates]
        /\ call.kind = "join" => conn[call.conn] = "opening"
        /\ call.kind = "left" => conn[call.conn] \in {"closing", "stale"}
    BY DEF IInv, TypeOK, HandlerOK
  <2>2. CASE call.kind = "join"
    BY <2>1, <2>2 DEF AnnounceFails, ConnStates
  <2>3. CASE call.kind = "left"
    BY <2>1, <2>3 DEF AnnounceFails, ConnStates
  <2>4. CASE call.kind \notin {"join", "left"}
    BY <2>1, <2>4 DEF AnnounceFails
  <2>. QED BY <2>2, <2>3, <2>4
<1>5. TypeOK'
  <2>1. /\ highWater' \in 0..MaxEpoch /\ lease' \in {0, highWater'} /\ announced' \in 0..highWater'
        /\ known' \in 0..highWater'
    BY <1>2 DEF IInv, TypeOK
  <2>2. member' \in BOOLEAN /\ authed' \in BOOLEAN /\ entering' \in BOOLEAN
    BY <1>2 DEF IInv, TypeOK
  <2>3. conn' \in [Epochs -> ConnStates] /\ \A e \in Epochs : conn'[e] = "none" <=> e > highWater'
    BY <1>2, <1>4 DEF IInv, TypeOK
  <2>4. /\ tokens' \subseteq 1..highWater' /\ sock' \subseteq 1..highWater' /\ media' \subseteq tokens' \X Sids
        /\ part' \in [Participants -> {"new", "in", "out"}]
        /\ hooks' \subseteq Hooks /\ seen' \subseteq Hooks
    BY <1>1, <1>2 DEF IInv, TypeOK
  <2>5. /\ online' \in {"none", "on", "off"} /\ status' \in Statuses
        /\ call'.kind \in {"none", "join", "left", "media", "revoke"}
    BY <1>2 DEF IInv, TypeOK, NoCall
  <2>6. closed' \in BOOLEAN /\ revoking' \in BOOLEAN
    BY <1>2 DEF IInv, TypeOK
  <2>7. absent' \in BOOLEAN /\ since' \in BOOLEAN /\ taken' \in BOOLEAN
    BY <1>2 DEF IInv, TypeOK
  <2>. QED BY <2>1, <2>2, <2>3, <2>4, <2>5, <2>6, <2>7 DEF TypeOK
<1>6. CallTypeOK'
  <2>1. NoCall \in [kind : {"none", "join", "left", "media", "revoke"}, epoch : 0..highWater,
                    online : BOOLEAN, conn : 0..highWater, hook : SUBSET Hooks,
                    sock : SUBSET (1..highWater), media : SUBSET (tokens \X Sids)]
    BY DEF NoCall, IInv, TypeOK
  <2>2. \A h \in hooks' \cup seen' \cup call'.hook : h.who \in tokens' \X Sids
    BY <1>2 DEF IInv, CallTypeOK, NoCall
  <2>3. Free' /\ call'.kind = "none"
    BY <1>2 DEF Free, NoCall
  <2>4. \A p \in Participants : part'[p] # "new" => p[1] \in tokens'
    BY <1>2 DEF IInv, CallTypeOK
  <2>. QED BY <1>2, <1>3, <2>1, <2>2, <2>3, <2>4 DEF CallTypeOK, Calls
<1>7. HandlerOK'
  <2>1. ASSUME NEW e \in Epochs, conn'[e] \in {"closing", "stale", "fallbackOff", "closed"}
        PROVE  lease' # e
    BY <1>2, <1>4, <2>1 DEF IInv, HandlerOK
  <2>2. ASSUME NEW e \in Epochs, conn'[e] \in {"opening", "fallbackOn"}
        PROVE  e \notin sock' /\ e \notin call'.sock
    BY <1>2, <1>4, <2>2 DEF IInv, HandlerOK, NoCall
  <2>3. call'.kind = "none"
    BY <1>2 DEF NoCall
  <2>. QED BY <2>1, <2>2, <2>3 DEF HandlerOK
<1>8. ToldOK'
  <2>1. Connected(sock, media)' => Connected(call.sock, call.media)
    BY <1>2 DEF Connected
  <2>. QED BY <1>1, <1>2, <2>1 DEF IInv, ToldOK, Free
<1>9. OpenOK'
  <2>1. ASSUME incidents["logout"] = 0, NEW e \in Epochs, conn'[e] = "open", lease = e
        PROVE  e \in call.sock
    BY <1>1, <1>4, <2>1 DEF IInv, OpenOK
  <2>2. call'.kind = "none" /\ (revoking => incidents["logout"] # 0)
    BY <1>2 DEF NoCall, IInv, OpenOK
  <2>. QED BY <1>2, <1>3, <2>1, <2>2 DEF OpenOK, Free
<1>10. KnownOK'
  BY <1>2 DEF KnownOK, Free
<1>11. RevokeOK'
  BY <1>1, <1>2, <1>3 DEF IInv, RevokeOK
<1>. QED BY <1>5, <1>6, <1>7, <1>8, <1>9, <1>10, <1>11 DEF IInv

-----------------------------------------------------------------------------
(* What moves around the coordinator *)

\* What handlers, participants, requests, the actor and the match may do while
\* the coordinator stands still: the lease stays, goes, or is of a new epoch;
\* a handler goes one step; the actor hears of an epoch only from a fallback.
OutsideMoves ==
    /\ UNCHANGED <<coordinator, member, taken>>
    /\ highWater' \in highWater..MaxEpoch /\ lease' \in {0, highWater'}
    /\ lease' # 0 => lease' = lease \/ lease' > highWater
    /\ authed' \in BOOLEAN /\ entering' \in BOOLEAN /\ absent' \in BOOLEAN /\ since' \in BOOLEAN
    /\ authed => authed'
    /\ ~authed' => lease' \notin tokens'
    /\ conn' \in [Epochs -> ConnStates]
    /\ \A e \in Epochs :
        \/ conn'[e] = conn[e] /\ (e <= highWater \/ e > highWater')
        \/ e > highWater /\ e <= highWater' /\ conn'[e] = "opening"
        \/ e > highWater /\ e <= highWater' /\ conn'[e] = "closed" /\ lease' # e
        \/ conn[e] \in {"open", "degraded"} /\ conn'[e] \in {"closing", "stale"} /\ lease' # e
        \/ conn[e] = "fallbackOn" /\ conn'[e] = "degraded"
        \/ conn[e] = "fallbackOff" /\ conn'[e] = "closed"
    /\ tokens \subseteq tokens' /\ tokens' \subseteq 1..highWater'
    /\ part' \in [Participants -> {"new", "in", "out"}]
    /\ \A p \in Participants : part'[p] # "new" => p[1] \in tokens'
    /\ hooks' \subseteq Hooks /\ \A h \in hooks' : h.who \in tokens' \X Sids
    /\ incidents' \in [Kinds -> Nat]
    /\ \A k \in {"logout", "fault", "crash"} : incidents'[k] = incidents[k]
    /\ status' \in Statuses /\ (status = "over" => status' = "over")
    /\ \/ known' = known /\ (absent' => absent)
       \/ \E e \in Epochs : conn[e] \in Fallbacks /\ known' = e /\ known <= e

\* None of it breaks the invariant.
LEMMA OutsideStep ==
    ASSUME IInv, OutsideMoves
    PROVE  IInv'
<1>1. /\ sock' = sock /\ media' = media /\ seen' = seen /\ online' = online
      /\ announced' = announced /\ closed' = closed /\ call' = call /\ revoking' = revoking
      /\ member' = member /\ taken' = taken
  BY DEF OutsideMoves, coordinator, members, told
<1>2. /\ highWater' \in highWater..MaxEpoch /\ lease' \in {0, highWater'}
      /\ lease' # 0 => lease' = lease \/ lease' > highWater
      /\ authed' \in BOOLEAN /\ entering' \in BOOLEAN /\ absent' \in BOOLEAN /\ since' \in BOOLEAN
      /\ tokens \subseteq tokens' /\ tokens' \subseteq 1..highWater'
      /\ part' \in [Participants -> {"new", "in", "out"}]
      /\ \A p \in Participants : part'[p] # "new" => p[1] \in tokens'
      /\ hooks' \subseteq Hooks /\ \A h \in hooks' : h.who \in tokens' \X Sids
      /\ incidents' \in [Kinds -> Nat]
      /\ incidents'["logout"] = incidents["logout"] /\ incidents'["fault"] = incidents["fault"]
      /\ incidents'["crash"] = incidents["crash"]
      /\ status' \in Statuses /\ (status = "over" => status' = "over")
  BY DEF OutsideMoves
<1>3. /\ conn' \in [Epochs -> ConnStates]
      /\ \A e \in Epochs :
          \/ conn'[e] = conn[e] /\ (e <= highWater \/ e > highWater')
          \/ e > highWater /\ e <= highWater' /\ conn'[e] = "opening"
          \/ e > highWater /\ e <= highWater' /\ conn'[e] = "closed" /\ lease' # e
          \/ conn[e] \in {"open", "degraded"} /\ conn'[e] \in {"closing", "stale"} /\ lease' # e
          \/ conn[e] = "fallbackOn" /\ conn'[e] = "degraded"
          \/ conn[e] = "fallbackOff" /\ conn'[e] = "closed"
  BY DEF OutsideMoves
<1>4. /\ highWater \in 0..MaxEpoch /\ highWater' \in Nat /\ MaxEpoch \in Nat
      /\ highWater <= highWater' /\ highWater' <= MaxEpoch
      /\ lease \in {0, highWater} /\ announced \in 0..highWater /\ known \in 0..highWater
      /\ sock \subseteq 1..highWater /\ media \subseteq tokens \X Sids
      /\ \A e \in Epochs : conn[e] = "none" <=> e > highWater
  BY <1>2, BoundAssumption DEF IInv, TypeOK
<1>5. 1..highWater \subseteq 1..highWater' /\ 0..highWater \subseteq 0..highWater'
      /\ tokens \X Sids \subseteq tokens' \X Sids
  <2>1. 1..highWater \subseteq 1..highWater' /\ 0..highWater \subseteq 0..highWater'
    BY <1>4
  <2>2. tokens \X Sids \subseteq tokens' \X Sids
    BY <1>2
  <2>. QED BY <2>1, <2>2
<1>6. /\ \A e \in Epochs : conn[e] \in Fallbacks => e <= highWater
      /\ known' \in 0..highWater
  BY <1>4 DEF Fallbacks, Epochs, OutsideMoves
<1>7. TypeOK'
  <2>1. /\ highWater' \in 0..MaxEpoch /\ lease' \in {0, highWater'} /\ announced' \in 0..highWater'
        /\ known' \in 0..highWater'
    BY <1>1, <1>2, <1>4, <1>6
  <2>2. member' \in BOOLEAN /\ authed' \in BOOLEAN /\ entering' \in BOOLEAN
    BY <1>1, <1>2 DEF IInv, TypeOK
  <2>3. conn' \in [Epochs -> ConnStates] /\ \A e \in Epochs : conn'[e] = "none" <=> e > highWater'
    <3>. SUFFICES ASSUME NEW e \in Epochs PROVE conn'[e] = "none" <=> e > highWater'
      BY <1>3
    <3>1. e \in Int /\ (conn[e] = "none" <=> e > highWater)
      BY <1>4 DEF Epochs
    <3>. QED BY <1>3, <1>4, <3>1
  <2>4. /\ tokens' \subseteq 1..highWater' /\ sock' \subseteq 1..highWater' /\ media' \subseteq tokens' \X Sids
        /\ part' \in [Participants -> {"new", "in", "out"}]
        /\ hooks' \subseteq Hooks /\ seen' \subseteq Hooks
    BY <1>1, <1>2, <1>4, <1>5 DEF IInv, TypeOK
  <2>5. /\ online' \in {"none", "on", "off"} /\ status' \in Statuses
        /\ call'.kind \in {"none", "join", "left", "media", "revoke"}
    BY <1>1, <1>2 DEF IInv, TypeOK
  <2>6. closed' \in BOOLEAN /\ revoking' \in BOOLEAN
    BY <1>1 DEF IInv, TypeOK
  <2>7. absent' \in BOOLEAN /\ since' \in BOOLEAN /\ taken' \in BOOLEAN
    BY <1>1, <1>2 DEF IInv, TypeOK
  <2>. QED BY <2>1, <2>2, <2>3, <2>4, <2>5, <2>6, <2>7 DEF TypeOK
<1>8. CallTypeOK'
  <2>1. call \in [kind : {"none", "join", "left", "media", "revoke"}, epoch : 0..highWater',
                  online : BOOLEAN, conn : 0..highWater', hook : SUBSET Hooks,
                  sock : SUBSET (1..highWater'), media : SUBSET (tokens' \X Sids)]
    <3>1. call \in [kind : {"none", "join", "left", "media", "revoke"}, epoch : 0..highWater,
                    online : BOOLEAN, conn : 0..highWater, hook : SUBSET Hooks,
                    sock : SUBSET (1..highWater), media : SUBSET (tokens \X Sids)]
      BY DEF IInv, CallTypeOK, Calls
    <3>. QED BY <1>5, <3>1
  <2>2. \A h \in hooks' \cup seen' \cup call'.hook : h.who \in tokens' \X Sids
    BY <1>1, <1>2, <1>5 DEF IInv, CallTypeOK
  <2>3. Free' <=> call'.kind = "none"
    BY <1>1 DEF IInv, CallTypeOK, Free
  <2>. QED BY <1>1, <1>2, <2>1, <2>2, <2>3 DEF CallTypeOK, Calls
<1>9. HandlerOK'
  <2>1. ASSUME NEW e \in Epochs
        PROVE  /\ conn'[e] \in {"closing", "stale", "fallbackOff", "closed"} => lease' # e
               /\ conn'[e] \in {"opening", "fallbackOn"} =>
                     e \notin call.sock /\ (e \in sock => call.kind = "join" /\ call.conn = e)
               /\ conn'[e] = "fallbackOn" => e \notin sock
    <3>1. e \in Nat \ {0} /\ (conn[e] = "none" <=> e > highWater)
      BY <1>4 DEF Epochs
    <3>2. call.sock \subseteq 1..highWater
      BY DEF IInv, CallTypeOK, Calls
    <3>3. CASE conn'[e] = conn[e] /\ (e <= highWater \/ e > highWater')
      BY <1>2, <1>4, <3>1, <3>3 DEF IInv, HandlerOK
    <3>4. CASE e > highWater
      BY <1>3, <1>4, <3>1, <3>2, <3>4
    <3>5. CASE conn[e] \in {"open", "degraded"} /\ conn'[e] \in {"closing", "stale"} /\ lease' # e
      BY <3>5
    <3>6. CASE conn[e] = "fallbackOn" /\ conn'[e] = "degraded"
      BY <3>6
    <3>7. CASE e <= highWater /\ conn[e] = "fallbackOff" /\ conn'[e] = "closed"
      BY <1>2, <1>4, <3>1, <3>7 DEF IInv, HandlerOK
    <3>. QED BY <1>3, <1>4, <3>1, <3>3, <3>4, <3>5, <3>6, <3>7
  <2>2. ASSUME NEW e \in Epochs, conn[e] \in {"opening", "closing", "stale"} PROVE conn'[e] = conn[e]
    BY <1>3, <1>4, <2>2 DEF Epochs
  <2>3. /\ call.kind = "join" => conn'[call.conn] = "opening" /\ call.conn \in sock
        /\ call.kind = "left" => call.conn \in Epochs /\ conn'[call.conn] \in {"closing", "stale"}
    <3>1. call.conn \in sock => call.conn \in Epochs
      <4>1. \A e \in 1..highWater : e \in 1..MaxEpoch
        BY <1>4
      <4>. QED BY <1>4, <4>1 DEF Epochs
    <3>. QED BY <2>2, <3>1 DEF IInv, HandlerOK
  <2>. QED BY <1>1, <2>1, <2>3 DEF HandlerOK
<1>11. ToldOK'
  <2>1. Connected(sock, media)' => Connected(sock, media)
    BY <1>1, <1>2, <1>4 DEF Connected
  <2>2. Connected(call.sock, call.media)' => Connected(call.sock, call.media)
    <3>1. call.sock \subseteq 1..highWater
      BY DEF IInv, CallTypeOK, Calls
    <3>. QED BY <1>1, <1>2, <1>4, <3>1 DEF Connected
  <2>3. Connected(sock, media)' => lease' = lease
    BY <1>1, <1>2, <1>4 DEF Connected
  <2>4. Connected(call.sock, call.media)' => lease' = lease
    <3>1. call.sock \subseteq 1..highWater
      BY DEF IInv, CallTypeOK, Calls
    <3>. QED BY <1>1, <1>2, <1>4, <3>1 DEF Connected
  <2>. QED BY <1>1, <2>1, <2>2, <2>3, <2>4 DEF IInv, ToldOK, Free
<1>12. OpenOK'
  BY <1>1, <1>2, <1>3, <1>4 DEF IInv, OpenOK, Free, Epochs
<1>13. KnownOK'
  <2>1. \A e \in Epochs : conn'[e] \in Fallbacks => conn[e] = conn'[e]
    BY <1>3 DEF Fallbacks
  <2>2. CASE known' = known /\ (absent' => absent)
    BY <1>1, <2>1, <2>2 DEF IInv, KnownOK, Free
  <2>3. ASSUME NEW e \in Epochs, conn[e] \in Fallbacks, known' = e, known <= e
        PROVE  KnownOK'
    <3>1. e \in Int /\ known \in Int
      BY <1>4 DEF Epochs
    <3>2. ~(taken /\ online = "on")
      BY <1>4, <2>3, <3>1 DEF IInv, KnownOK
    <3>3. ~Free /\ call.online => known' <= call.epoch
      <4>1. call.epoch \in Int
        BY DEF IInv, CallTypeOK, Calls
      <4>. QED BY <2>3, <3>1, <4>1 DEF IInv, KnownOK
    <3>. QED BY <1>1, <2>1, <3>2, <3>3 DEF IInv, KnownOK, Free
  <2>. QED BY <2>2, <2>3 DEF OutsideMoves
<1>14. RevokeOK'
  BY <1>1, <1>2 DEF IInv, RevokeOK, Free, OutsideMoves
<1>. QED BY <1>7, <1>8, <1>9, <1>11, <1>12, <1>13, <1>14 DEF IInv

\* The steps that are such moves: handlers, the lease, media, the actor and the
\* match.
Around ==
    \/ \E e \in Epochs : Release(e) \/ FallbackOnline(e) \/ FallbackOffline(e)
    \/ \E p \in Participants : ParticipantJoins(p) \/ ParticipantLeaves(p)
    \/ Enter \/ Acquire \/ AcquireElsewhere \/ IssueToken \/ Login
    \/ Pause \/ OfflineExpired \/ Resume \/ Resumed \/ Refuse \/ End

\* A step around the coordinator is one of the moves described above.
LEMMA AroundMoves == ASSUME IInv, Around PROVE OutsideMoves
<1>1. /\ highWater \in 0..MaxEpoch /\ MaxEpoch \in Nat /\ lease \in {0, highWater}
      /\ highWater \in highWater..MaxEpoch
      /\ authed \in BOOLEAN /\ entering \in BOOLEAN /\ absent \in BOOLEAN /\ since \in BOOLEAN
      /\ conn \in [Epochs -> ConnStates]
      /\ \A e \in Epochs : e \in Nat \ {0} /\ (conn[e] = "none" <=> e > highWater)
      /\ tokens \subseteq 1..highWater
      /\ part \in [Participants -> {"new", "in", "out"}]
      /\ \A p \in Participants : part[p] # "new" => p[1] \in tokens
      /\ hooks \subseteq Hooks /\ (\A h \in hooks : h.who \in tokens \X Sids)
      /\ incidents \in [Kinds -> Nat] /\ status \in Statuses /\ known \in 0..highWater
      /\ ~authed => lease \notin tokens
  BY BoundAssumption DEF IInv, TypeOK, CallTypeOK, RevokeOK, Epochs
<1>2. 0 \notin tokens
  BY <1>1
<1>3. \A k \in {"elsewhere", "refuse", "end"} : Incident(k) =>
        /\ incidents' \in [Kinds -> Nat]
        /\ \A j \in {"logout", "fault", "crash"} : incidents'[j] = incidents[j]
  BY IncidentCounts DEF IInv, Kinds
<1>4. ASSUME NEW e \in Epochs, Release(e) PROVE OutsideMoves
  <2>1. lease' \in {0, lease} /\ lease' # e
    BY <1>1, <1>4 DEF Release
  <2>2. /\ conn' \in [Epochs -> ConnStates]
        /\ \A d \in Epochs :
             \/ conn'[d] = conn[d]
             \/ d = e /\ conn[d] \in {"open", "degraded"} /\ conn'[d] \in {"closing", "stale"}
    BY <1>1, <1>4 DEF Release, ConnStates
  <2>. QED BY <1>1, <1>2, <1>4, <2>1, <2>2 DEF Release, OutsideMoves, actor
<1>5. ASSUME NEW e \in Epochs, NEW b \in BOOLEAN, NEW from \in Fallbacks, NEW to,
             (from = "fallbackOn" /\ to = "degraded") \/ (from = "fallbackOff" /\ to = "closed"),
             Fallback(b, e, from, to)
      PROVE  OutsideMoves
  <2>1. /\ conn[e] = from /\ conn' \in [Epochs -> ConnStates]
        /\ \A d \in Epochs : conn'[d] = IF d = e THEN to ELSE conn[d]
    BY <1>1, <1>5 DEF Fallback, ConnStates
  <2>2. /\ absent' \in BOOLEAN /\ since' \in BOOLEAN
        /\ \/ known' = known /\ (absent' => absent)
           \/ known' = e /\ known <= e
    <3>1. CASE Admitted(b) /\ ~(e < known)
      <4>1. known' = e /\ absent' = ~b /\ since' = IF b /\ ~absent THEN since ELSE ~b
        BY <1>5, <3>1 DEF Fallback, Reported
      <4>2. known <= e
        BY <1>1, <3>1
      <4>3. absent' \in BOOLEAN /\ since' \in BOOLEAN
        BY <1>1, <4>1
      <4>. QED BY <4>1, <4>2, <4>3
    <3>2. CASE ~(Admitted(b) /\ ~(e < known))
      BY <1>1, <1>5, <3>2 DEF Fallback, Reported
    <3>. QED BY <3>1, <3>2
  <2>3. /\ UNCHANGED <<coordinator, member, taken>>
        /\ highWater' = highWater /\ lease' = lease /\ authed' = authed /\ entering' = entering
        /\ tokens' = tokens /\ part' = part /\ hooks' = hooks /\ status' = status
        /\ incidents' = incidents
    BY <1>5 DEF Fallback, db
  <2>4. \A d \in Epochs :
          \/ conn'[d] = conn[d]
          \/ conn[d] = "fallbackOn" /\ conn'[d] = "degraded"
          \/ conn[d] = "fallbackOff" /\ conn'[d] = "closed"
    BY <1>5, <2>1
  <2>5. conn[e] \in Fallbacks
    BY <2>1
  <2>. QED BY <1>1, <2>1, <2>2, <2>3, <2>4, <2>5 DEF OutsideMoves
<1>6. ASSUME NEW p \in Participants, ParticipantJoins(p) \/ ParticipantLeaves(p)
      PROVE  OutsideMoves
  <2>1. p[1] \in tokens /\ p \in tokens \X Sids
    BY <1>1, <1>6 DEF ParticipantJoins, ParticipantLeaves, Participants
  <2>2. PICK h \in Hooks : h.who = p /\ hooks' = hooks \cup {h}
    BY <1>6 DEF ParticipantJoins, ParticipantLeaves, Hooks
  <2>3. /\ part' \in [Participants -> {"new", "in", "out"}]
        /\ \A q \in Participants : part'[q] # "new" => q = p \/ part[q] # "new"
    BY <1>1, <1>6 DEF ParticipantJoins, ParticipantLeaves
  <2>4. UNCHANGED <<db, entering, conn, tokens, coordinator, actor, taken, incidents>>
    BY <1>6 DEF ParticipantJoins, ParticipantLeaves
  <2>. QED BY <1>1, <2>1, <2>2, <2>3, <2>4 DEF OutsideMoves, db, actor
<1>7. ASSUME Enter PROVE OutsideMoves
  BY <1>1, <1>7 DEF Enter, OutsideMoves, db, actor
<1>8. ASSUME Acquire PROVE OutsideMoves
  <2>1. /\ highWater' = highWater + 1 /\ highWater' \in highWater..MaxEpoch
        /\ lease' = highWater' /\ lease' > highWater /\ lease' \notin tokens
        /\ 1..highWater \subseteq 1..highWater'
    BY <1>1, <1>8 DEF Acquire
  <2>2. /\ conn' \in [Epochs -> ConnStates]
        /\ \A d \in Epochs :
             \/ conn'[d] = conn[d] /\ (d <= highWater \/ d > highWater')
             \/ d > highWater /\ d <= highWater' /\ conn'[d] = "opening"
    <3>1. highWater + 1 \in Epochs
      BY <1>1, <1>8 DEF Acquire, Epochs
    <3>2. conn' = [conn EXCEPT ![highWater + 1] = "opening"]
      BY <1>8 DEF Acquire
    <3>3. conn' \in [Epochs -> ConnStates]
      BY <1>1, <3>2 DEF ConnStates
    <3>4. ASSUME NEW d \in Epochs
          PROVE  IF d = highWater + 1 THEN conn'[d] = "opening" ELSE conn'[d] = conn[d]
      BY <1>1, <3>2
    <3>5. ASSUME NEW d \in Epochs, d # highWater + 1
          PROVE  d <= highWater \/ d > highWater'
      BY <1>1, <2>1, <3>5
    <3>. QED BY <1>1, <2>1, <3>1, <3>3, <3>4, <3>5
  <2>. QED BY <1>1, <1>8, <2>1, <2>2 DEF Acquire, OutsideMoves, actor
<1>9. ASSUME AcquireElsewhere PROVE OutsideMoves
  <2>1. /\ highWater' = highWater + 1 /\ highWater' \in highWater..MaxEpoch /\ lease' = 0
        /\ 1..highWater \subseteq 1..highWater'
    BY <1>1, <1>9 DEF AcquireElsewhere
  <2>2. /\ conn' \in [Epochs -> ConnStates]
        /\ \A d \in Epochs :
             \/ conn'[d] = conn[d] /\ (d <= highWater \/ d > highWater')
             \/ d > highWater /\ d <= highWater' /\ conn'[d] = "closed" /\ lease' # d
    <3>1. highWater + 1 \in Epochs
      BY <1>1, <1>9 DEF AcquireElsewhere, Epochs
    <3>2. conn' = [conn EXCEPT ![highWater + 1] = "closed"]
      BY <1>9 DEF AcquireElsewhere
    <3>3. conn' \in [Epochs -> ConnStates]
      BY <1>1, <3>2 DEF ConnStates
    <3>4. ASSUME NEW d \in Epochs
          PROVE  IF d = highWater + 1 THEN conn'[d] = "closed" ELSE conn'[d] = conn[d]
      BY <1>1, <3>2
    <3>5. ASSUME NEW d \in Epochs, d # highWater + 1
          PROVE  d <= highWater \/ d > highWater'
      BY <1>1, <2>1, <3>5
    <3>. QED BY <1>1, <2>1, <3>1, <3>3, <3>4, <3>5
  <2>. QED BY <1>1, <1>2, <1>3, <1>9, <2>1, <2>2 DEF AcquireElsewhere, OutsideMoves, actor
<1>10. ASSUME IssueToken PROVE OutsideMoves
  BY <1>1, <1>10 DEF IssueToken, OutsideMoves, db, actor
<1>11. ASSUME Login PROVE OutsideMoves
  BY <1>1, <1>11 DEF Login, OutsideMoves, outside, actor
<1>12. ASSUME Pause \/ OfflineExpired \/ Resume \/ Resumed PROVE OutsideMoves
  <2>1. /\ UNCHANGED <<db, outside, coordinator, taken, incidents, known>>
        /\ status # "over" /\ status' \in Statuses
        /\ absent' = absent \/ absent' = FALSE
        /\ since' = since \/ since' = FALSE
    BY <1>12 DEF Pause, OfflineExpired, Resume, Resumed, Match, Statuses
  <2>2. absent' \in BOOLEAN /\ since' \in BOOLEAN /\ (absent' => absent)
    <3>1. absent' = absent \/ absent' = FALSE
      BY <2>1
    <3>2. since' = since \/ since' = FALSE
      BY <2>1
    <3>3. absent \in BOOLEAN /\ since \in BOOLEAN
      BY <1>1
    <3>4. absent' \in BOOLEAN
      BY <3>1, <3>3
    <3>5. since' \in BOOLEAN
      BY <3>2, <3>3
    <3>6. ASSUME absent' PROVE absent
      BY <3>1, <3>6
    <3>. QED BY <3>4, <3>5, <3>6
  <2>. QED BY <1>1, <2>1, <2>2 DEF OutsideMoves, db, outside
<1>13. ASSUME Refuse \/ End PROVE OutsideMoves
  <2>1. /\ UNCHANGED <<db, outside, coordinator, taken, known, absent, since>>
        /\ status # "over" /\ status' \in Statuses
    BY <1>13 DEF Refuse, End, Statuses
  <2>2. /\ incidents' \in [Kinds -> Nat]
        /\ \A j \in {"logout", "fault", "crash"} : incidents'[j] = incidents[j]
    BY <1>3, <1>13 DEF Refuse, End
  <2>. QED BY <1>1, <2>1, <2>2 DEF OutsideMoves, db, outside
<1>14. ASSUME NEW e \in Epochs, FallbackOnline(e) \/ FallbackOffline(e) PROVE OutsideMoves
  BY <1>5, <1>14 DEF FallbackOnline, FallbackOffline, Fallbacks
<1>. QED
  BY <1>4, <1>6, <1>7, <1>8, <1>9, <1>10, <1>11, <1>12, <1>13, <1>14 DEF Around

\* The invalidation of the sessions deletes the lease and the membership, and
\* keeps the invariant.
LEMMA RevokeSessionsStep == ASSUME IInv, RevokeSessions PROVE IInv'
<1>1. /\ highWater' = highWater /\ lease' = 0 /\ member' = FALSE /\ authed' \in BOOLEAN
      /\ revoking' = TRUE /\ entering' = entering /\ conn' = conn /\ tokens' = tokens
      /\ part' = part /\ hooks' = hooks /\ sock' = sock /\ media' = media /\ seen' = seen
      /\ online' = online /\ announced' = announced /\ closed' = closed /\ call' = call
      /\ status' = status /\ known' = known /\ absent' = absent /\ since' = since
      /\ taken' = taken
  BY DEF RevokeSessions, outside, members, told, actor
<1>2. /\ incidents' \in [Kinds -> Nat] /\ incidents'["logout"] # 0
      /\ incidents'["fault"] = incidents["fault"] /\ incidents'["crash"] = incidents["crash"]
  BY IncidentCounts DEF RevokeSessions, IInv, Kinds
<1>3. 0 \notin sock /\ 0 \notin call.sock /\ 0 \notin tokens /\ 0 \notin Epochs
  BY DEF IInv, TypeOK, CallTypeOK, Calls, Epochs
<1>4. TypeOK'
  <2>1. lease' \in {0, highWater'} /\ member' \in BOOLEAN /\ revoking' \in BOOLEAN
    BY <1>1
  <2>. QED BY <1>1, <2>1 DEF IInv, TypeOK
<1>5. CallTypeOK'
  BY <1>1, <1>2 DEF IInv, CallTypeOK, Calls, Free
<1>6. HandlerOK'
  BY <1>1, <1>3 DEF IInv, HandlerOK
<1>7. ToldOK'
  BY <1>1, <1>3 DEF IInv, ToldOK, Free, Connected
<1>8. OpenOK' /\ KnownOK'
  BY <1>1, <1>2 DEF IInv, OpenOK, KnownOK, Free
<1>9. RevokeOK'
  BY <1>1, <1>2, <1>3 DEF IInv, RevokeOK, Free
<1>. QED BY <1>4, <1>5, <1>6, <1>7, <1>8, <1>9 DEF IInv

\* A restart forgets what the coordinator knew and keeps the invariant.
LEMMA CrashStep == ASSUME IInv, Crash PROVE IInv'
<1>1. /\ highWater' = highWater /\ lease' = 0 /\ authed' = authed /\ entering' = FALSE
      /\ conn' = [e \in Epochs |-> IF conn[e] = "none" THEN "none" ELSE "closed"]
      /\ tokens' = tokens /\ part' = part /\ hooks' = hooks \cup call.hook
      /\ sock' = {} /\ media' = {} /\ seen' = {} /\ online' = "none" /\ announced' = 0
      /\ closed' = FALSE /\ call' = NoCall /\ revoking' = FALSE
      /\ known' = known /\ since' = since /\ taken' = TRUE
  BY DEF Crash
<1>2. incidents' \in [Kinds -> Nat] /\ incidents'["crash"] # 0
  BY IncidentCounts DEF Crash, IInv, Kinds
<1>3. 0 \notin tokens /\ 0 \notin Epochs /\ call.hook \subseteq Hooks
  BY DEF IInv, TypeOK, CallTypeOK, Calls, Epochs
<1>4. TypeOK'
  <2>1. /\ highWater' \in 0..MaxEpoch /\ lease' \in {0, highWater'} /\ announced' \in 0..highWater'
        /\ known' \in 0..highWater'
    BY <1>1, BoundAssumption DEF IInv, TypeOK
  <2>2. member' \in BOOLEAN /\ authed' \in BOOLEAN /\ entering' \in BOOLEAN
    <3>1. member' = (member /\ lease = 0)
      BY DEF Crash
    <3>. QED BY <1>1, <3>1 DEF IInv, TypeOK
  <2>3. conn' \in [Epochs -> ConnStates] /\ \A e \in Epochs : conn'[e] = "none" <=> e > highWater'
    BY <1>1 DEF IInv, TypeOK, ConnStates
  <2>4. /\ tokens' \subseteq 1..highWater' /\ sock' \subseteq 1..highWater' /\ media' \subseteq tokens' \X Sids
        /\ part' \in [Participants -> {"new", "in", "out"}]
        /\ hooks' \subseteq Hooks /\ seen' \subseteq Hooks
    BY <1>1, <1>3 DEF IInv, TypeOK
  <2>5. online' \in {"none", "on", "off"} /\ call'.kind \in {"none", "join", "left", "media", "revoke"}
    BY <1>1 DEF NoCall
  <2>6. status' \in Statuses
    BY DEF Crash, IInv, TypeOK, Statuses
  <2>7. closed' \in BOOLEAN /\ revoking' \in BOOLEAN /\ since' \in BOOLEAN /\ taken' \in BOOLEAN
    BY <1>1 DEF IInv, TypeOK
  <2>8. absent' \in BOOLEAN
    <3>1. absent' = since \/ absent' = (since \/ absent)
      BY DEF Crash
    <3>. QED BY <3>1 DEF IInv, TypeOK
  <2>. QED BY <2>1, <2>2, <2>3, <2>4, <2>5, <2>6, <2>7, <2>8 DEF TypeOK
<1>5. CallTypeOK'
  <2>1. NoCall \in [kind : {"none", "join", "left", "media", "revoke"}, epoch : 0..highWater,
                    online : BOOLEAN, conn : 0..highWater, hook : SUBSET Hooks,
                    sock : SUBSET (1..highWater), media : SUBSET (tokens \X Sids)]
    BY DEF NoCall, IInv, TypeOK
  <2>2. \A h \in hooks' \cup seen' \cup call'.hook : h.who \in tokens' \X Sids
    BY <1>1 DEF IInv, CallTypeOK, NoCall
  <2>3. Free' /\ call'.kind = "none"
    BY <1>1 DEF Free, NoCall
  <2>4. \A p \in Participants : part'[p] # "new" => p[1] \in tokens'
    BY <1>1 DEF IInv, CallTypeOK
  <2>. QED BY <1>1, <1>2, <2>1, <2>2, <2>3, <2>4 DEF CallTypeOK, Calls
<1>6. HandlerOK'
  BY <1>1, <1>3 DEF HandlerOK, NoCall
<1>7. ToldOK' /\ KnownOK'
  BY <1>1, <1>3 DEF ToldOK, KnownOK, Free, Connected
<1>8. OpenOK'
  BY <1>1 DEF OpenOK, NoCall
<1>9. RevokeOK'
  BY <1>1, <1>2, <1>3 DEF RevokeOK
<1>. QED BY <1>4, <1>5, <1>6, <1>7, <1>8, <1>9 DEF IInv

-----------------------------------------------------------------------------
(* The connection: the theorems *)

\* Every step keeps the invariant.
LEMMA InvStep == IInv /\ [Next]_vars => IInv'
<1>. SUFFICES ASSUME IInv, [Next]_vars PROVE IInv'
  OBVIOUS
<1>1. CASE \/ \E e \in Epochs : WebsocketJoined(e) \/ WebsocketLeft(e)
           \/ \E h \in hooks : MediaEvent(h)
           \/ RevokeUser
  BY <1>1, CoordinatorStep
<1>2. CASE Announce
  BY <1>2, AnnounceStep
<1>3. CASE AnnounceFails
  BY <1>3, AnnounceFailsStep
<1>4. CASE Around
  BY <1>4, AroundMoves, OutsideStep
<1>5. CASE RevokeSessions
  BY <1>5, RevokeSessionsStep
<1>6. CASE Crash
  BY <1>6, CrashStep
<1>7. CASE UNCHANGED vars
  <2>1. /\ UNCHANGED <<highWater, lease, member, authed, entering, conn, tokens, part, hooks>>
        /\ UNCHANGED <<sock, media, seen, online, announced, closed, call, revoking>>
        /\ UNCHANGED <<status, known, absent, since, taken, incidents>>
    BY <1>7 DEF vars, db, outside, coordinator, members, told, actor
  <2>2. TypeOK' /\ CallTypeOK'
    BY <2>1 DEF IInv, TypeOK, CallTypeOK, Calls, Free
  <2>3. HandlerOK' /\ ToldOK' /\ OpenOK'
    BY <2>1 DEF IInv, HandlerOK, ToldOK, OpenOK, Free, Connected
  <2>4. KnownOK' /\ RevokeOK'
    BY <2>1 DEF IInv, KnownOK, RevokeOK, Free
  <2>. QED BY <2>2, <2>3, <2>4 DEF IInv
<1>. QED BY <1>1, <1>2, <1>3, <1>4, <1>5, <1>6, <1>7 DEF Next, Around

\* The inductive invariant holds in every reachable state.
LEMMA Invariance == Spec => []IInv
BY InvInit, InvStep, PTL DEF Spec

\* The presence of a debater keeps its types, for any number of connections,
\* sessions and incidents: among others, the lease is that of the newest epoch
\* or of none, and the coordinator holds only sockets, tokens and media of
\* epochs that were given.
THEOREM TypeCorrect == Spec => []TypeOK
<1>1. IInv => TypeOK
  BY DEF IInv
<1>. QED BY <1>1, Invariance, PTL

\* The connection that holds the lease is never outdated for the actor: neither
\* a release, a logout, another room nor a restart takes the epochs back.
THEOREM LeaseNeverOutdated == Spec => []LeaseIsNewest
<1>1. IInv => LeaseIsNewest
  BY BoundAssumption DEF IInv, TypeOK, LeaseIsNewest
<1>. QED BY <1>1, Invariance, PTL

\* Once everything on its way has arrived, a user whose socket holds the lease
\* and whose media is in the room is announced online on this epoch, however
\* late the older connections closed and in whatever order the webhooks came.
THEOREM ConnectedIsAnnounced == Spec => []ConnectedIsOnline
<1>1. IInv => ConnectedIsOnline
  <2>. SUFFICES ASSUME IInv, NEW e \in Epochs, NEW s \in Sids,
                       Free, incidents["logout"] = 0, ~closed, lease = e, conn[e] = "open",
                       <<e, s>> \in media
                PROVE  online = "on" /\ announced = e
    BY DEF ConnectedIsOnline, Idle
  <2>1. e \in sock
    BY DEF IInv, OpenOK
  <2>2. Connected(sock, media)
    BY <2>1 DEF Connected
  <2>. QED BY <2>2 DEF IInv, ToldOK
<1>. QED BY <1>1, Invariance, PTL

\* As long as the last announcement was taken, the coordinator and the actor
\* agree on a user who is online, and on the epoch.
THEOREM CoordinatorAndActorAgree == Spec => []AnnouncedIsKnown
<1>1. IInv => AnnouncedIsKnown
  BY DEF IInv, KnownOK, AnnouncedIsKnown
<1>. QED BY <1>1, Invariance, PTL

\* The user of an invalidated session does not come back through media that is
\* still in the room or a handshake that was under way.
THEOREM RevokedNeverReturns == Spec => []RevokedStaysOffline
<1>1. IInv => RevokedStaysOffline
  BY DEF IInv, RevokeOK, RevokedStaysOffline, Idle
<1>. QED BY <1>1, Invariance, PTL
-----------------------------------------------------------------------------
(* The rooms: the inductive invariant *)

RoomRecords ==
    [status : {"none"} \cup RO!Unfinished \cup RO!Terminal, kind : {"ORDINARY"} \cup RO!Kinds,
     owner : Users \cup {RO!Empty}, match : {"none"} \cup RO!ActiveStatuses \cup RO!Terminal,
     attempt : {"none", "COMPLETED", "TERMINATED"} \cup RO!ActiveAttempt]

\* The rows have their types.
RowTypes ==
    /\ rooms \in [RoomIds -> RoomRecords]
    /\ people \in [RoomIds -> [Users -> RO!MemberStates]]
    /\ places \in [RoomIds -> [Chairs -> Users \cup Agents \cup {RO!Empty}]]
    /\ swaps \in [RoomIds -> SUBSET RO!SwapRequests]
    /\ scheduled \in [RO!Kinds -> RO!ScheduleStates]

\* The rows of a room agree: one that was never opened is empty, a room is in
\* the state of its match, and the attempt of a scheduled match ends as its room
\* does, unless the organizer left a training room that was waiting.
RowAgrees(r) ==
    /\ rooms[r].status = "none" =>
        /\ rooms[r].kind = "ORDINARY" /\ rooms[r].match = "none"
        /\ \A u \in Users : people[r][u] = "none"
    /\ rooms[r].status = "WAITING" => rooms[r].match = "none"
    /\ ~CloseRunning /\ rooms[r].match # "none" => rooms[r].match = rooms[r].status
    /\ rooms[r].kind = "ORDINARY" <=> rooms[r].attempt = "none"
    /\ rooms[r].kind # "ORDINARY" =>
        /\ rooms[r].status = "WAITING" => rooms[r].attempt = "WAITING"
        /\ rooms[r].status = "FINISHED" <=> rooms[r].attempt = "COMPLETED"
        /\ rooms[r].status = "TERMINATED" <=> rooms[r].attempt = "TERMINATED" \/ RO!Abandoned(r)

RowsAgree == \A r \in RoomIds : RowAgrees(r)

\* Rooms whose match is still to start count, as start_room counts them.
CapacityCounted == ~CloseRunning => Cardinality(RO!ActiveRooms) <= Capacity

InOpen(r, u) == RO!Ordinary(r) /\ rooms[r].status \in RO!Unfinished /\ RO!Here(r, u)

\* Two ordinary rooms a user is in, as long as they are open, are the same one.
OpenOnce ==
    ~CloseRunning =>
        \A u \in Users : \A q, r \in RoomIds : InOpen(q, u) /\ InOpen(r, u) => q = r

\* An attempt of this kind is still to be decided.
Active(kind, r) == rooms[r].kind = kind /\ rooms[r].attempt \in RO!ActiveAttempt

\* A scheduled match has at most one such attempt.
ActiveOnce ==
    \A kind \in RO!Kinds : \A q, r \in RoomIds : Active(kind, q) /\ Active(kind, r) => q = r

\* An attempt has completed the match.
Completed(kind, r) == rooms[r].kind = kind /\ rooms[r].attempt = "COMPLETED"

\* An attempt that is active or has completed the formal match.
Counts(r) == Active("FORMAL", r) \/ Completed("FORMAL", r)

\* There is at most one, and the schedule says whether it has completed; of the
\* training match it says so only when an attempt has.
CountedOnce ==
    ~CloseRunning =>
        /\ \A q, r \in RoomIds : Counts(q) /\ Counts(r) => q = r
        /\ scheduled["FORMAL"] = "COMPLETED" <=> \E r \in RoomIds : Completed("FORMAL", r)
        /\ scheduled["TRAINING"] = "COMPLETED" => \E r \in RoomIds : Completed("TRAINING", r)

\* Nobody sits twice in a room.
SeatedOnce ==
    \A r \in RoomIds : \A s, t \in Chairs :
        s # t => places[r][s] = RO!Empty \/ places[r][s] # places[r][t]

\* Who sits in an ordinary room debates there.
SeatedDebate ==
    \A r \in RoomIds : RO!Ordinary(r) =>
        \A u \in Users : \A s \in Chairs : places[r][s] = u => RO!Debates(r, u)

RoomsInv ==
    /\ RowTypes /\ RowsAgree /\ CapacityCounted /\ OpenOnce
    /\ ActiveOnce /\ CountedOnce /\ SeatedOnce /\ SeatedDebate

-----------------------------------------------------------------------------
(* The rooms: the steps *)

\* The rows of the members and seats have their types.
MemberTypes ==
    /\ people' \in [RoomIds -> [Users -> RO!MemberStates]]
    /\ places' \in [RoomIds -> [Chairs -> Users \cup Agents \cup {RO!Empty}]]
    /\ swaps' \in [RoomIds -> SUBSET RO!SwapRequests]

\* The room r is stored; the other rooms are not written.
Becomes(r, outcome, kind, match, attempt) ==
    /\ rooms' \in [RoomIds -> RoomRecords]
    /\ \A q \in RoomIds \ {r} : rooms'[q] = rooms[q]
    /\ rooms'[r].status = outcome /\ rooms'[r].kind = kind
    /\ rooms'[r].match = match /\ rooms'[r].attempt = attempt

\* Only members and seats of the room r are written, and maybe its organizer.
Alone(r) ==
    /\ Becomes(r, rooms[r].status, rooms[r].kind, rooms[r].match, rooms[r].attempt)
    /\ \A q \in RoomIds \ {r} : people'[q] = people[q] /\ places'[q] = places[q]
    /\ scheduled' = scheduled /\ MemberTypes

\* The seats of a room are taken by debaters, each by one.
SeatsKept(r) ==
    /\ \A s, t \in Chairs : s # t => places'[r][s] = RO!Empty \/ places'[r][s] # places'[r][t]
    /\ RO!Ordinary(r) => \A u \in Users : \A s \in Chairs :
            places'[r][s] = u => people'[r][u] \in {"DEBATER", "READY"}

\* The cardinality of Rooms is the cardinality of the facts about finite sets.
LEMMA SameCardinality == ASSUME NEW S PROVE RO!Cardinality(S) = Cardinality(S)
BY Zenon DEF RO!Cardinality, Cardinality

\* The active rooms are finitely many, and none is added: the capacity is kept.
LEMMA CapacityKept ==
    ASSUME CapacityCounted,
           ~CloseRunning => \A q \in RoomIds :
                rooms'[q].status \in RO!ActiveStatuses => rooms[q].status \in RO!ActiveStatuses
    PROVE  CapacityCounted'
<1>. SUFFICES ASSUME ~CloseRunning PROVE (Cardinality(RO!ActiveRooms) <= Capacity)'
  BY DEF CapacityCounted
<1>1. RO!ActiveRooms' \subseteq RO!ActiveRooms
  BY DEF RO!ActiveRooms, RO!ActiveStatuses
<1>2. IsFiniteSet(RO!ActiveRooms)
  BY FS_Subset, RoomsAssumption DEF RO!ActiveRooms
<1>3. /\ IsFiniteSet(RO!ActiveRooms') /\ Cardinality(RO!ActiveRooms') <= Cardinality(RO!ActiveRooms)
      /\ Cardinality(RO!ActiveRooms') \in Nat /\ Cardinality(RO!ActiveRooms) \in Nat
  BY <1>1, <1>2, FS_Subset, FS_CardinalityType
<1>. QED BY <1>3, RoomsAssumption DEF CapacityCounted

\* A request of a member of a room, open or not.
LEMMA AloneStep ==
    ASSUME RoomsInv, NEW r \in RoomIds, rooms[r].status # "none", Alone(r), SeatsKept(r),
           \A u \in Users : RO!Ordinary(r) /\ people'[r][u] \in {"SPECTATOR", "DEBATER", "READY"}
                               => RO!Here(r, u) \/ ~RO!Busy(u)
    PROVE  RoomsInv'
<1>1. /\ \A q \in RoomIds : /\ rooms'[q].status = rooms[q].status /\ rooms'[q].kind = rooms[q].kind
                            /\ rooms'[q].match = rooms[q].match /\ rooms'[q].attempt = rooms[q].attempt
      /\ \A q \in RoomIds \ {r} : people'[q] = people[q] /\ places'[q] = places[q]
  BY DEF Alone, Becomes
<1>2. RowTypes'
  BY DEF RoomsInv, RowTypes, Alone, Becomes, MemberTypes
<1>3. RowsAgree'
  BY <1>1 DEF RoomsInv, RowsAgree, RowAgrees, RO!Abandoned
<1>4. CapacityCounted'
  BY <1>1, CapacityKept DEF RoomsInv
<1>5. OpenOnce'
  <2>. SUFFICES ASSUME ~CloseRunning, NEW u \in Users, NEW p \in RoomIds, NEW q \in RoomIds, InOpen(p, u)', InOpen(q, u)'
                PROVE  p = q
    BY DEF OpenOnce
  <2>1. \A x \in {p, q} : x # r => InOpen(x, u)
    BY <1>1 DEF InOpen, RO!Ordinary, RO!Here
  <2>2. r \in {p, q} => InOpen(r, u) \/ ~RO!Busy(u)
    BY <1>1 DEF InOpen, RO!Ordinary, RO!Here
  <2>3. ASSUME ~RO!Busy(u), NEW x \in RoomIds, InOpen(x, u) PROVE FALSE
    BY <2>3 DEF RO!Busy, InOpen
  <2>. QED BY <2>1, <2>2, <2>3 DEF RoomsInv, OpenOnce
<1>6. ActiveOnce' /\ CountedOnce'
  <2>1. \A q \in RoomIds : \A kind \in RO!Kinds :
            (Active(kind, q)' <=> Active(kind, q)) /\ (Completed(kind, q)' <=> Completed(kind, q))
    BY <1>1 DEF Active, Completed
  <2>2. ActiveOnce'
    BY <2>1 DEF RoomsInv, ActiveOnce
  <2>. QED BY <2>1, <2>2 DEF RoomsInv, CountedOnce, Counts, Alone, RO!Kinds
<1>7. SeatedOnce'
  BY <1>1 DEF RoomsInv, SeatedOnce, SeatsKept
<1>8. SeatedDebate'
  BY <1>1 DEF RoomsInv, SeatedDebate, SeatsKept, RO!Ordinary, RO!Debates
<1>. QED BY <1>2, <1>3, <1>4, <1>5, <1>6, <1>7, <1>8 DEF RoomsInv

\* Where only members change, and nobody of a seat stops debating.
LEMMA MembersStep ==
    ASSUME RoomsInv, NEW r \in RoomIds, rooms[r].status # "none",
           NEW u \in Users, NEW state \in RO!MemberStates,
           people' = RO!SetMember(r, u, state), UNCHANGED <<rooms, places, scheduled>>,
           swaps' \in [RoomIds -> SUBSET RO!SwapRequests],
           RO!Ordinary(r) => /\ RO!Debates(r, u) => state \in {"DEBATER", "READY"}
                             /\ state = "none" \/ RO!Here(r, u) \/ ~RO!Busy(u)
    PROVE  RoomsInv'
<1>1. /\ \A q \in RoomIds \ {r} : people'[q] = people[q]
      /\ \A v \in Users : people'[r][v] = IF v = u THEN state ELSE people[r][v]
      /\ people' \in [RoomIds -> [Users -> RO!MemberStates]]
  BY DEF RO!SetMember, RoomsInv, RowTypes
<1>2. Alone(r)
  BY <1>1 DEF Alone, Becomes, MemberTypes, RoomsInv, RowTypes
<1>3. SeatsKept(r)
  BY <1>1 DEF SeatsKept, RoomsInv, SeatedOnce, SeatedDebate, RO!Ordinary, RO!Debates
<1>4. \A v \in Users : RO!Ordinary(r) /\ people'[r][v] \in {"SPECTATOR", "DEBATER", "READY"}
                            => RO!Here(r, v) \/ ~RO!Busy(v)
  BY <1>1 DEF RO!Here
<1>. QED BY <1>2, <1>3, <1>4, AloneStep

\* join_room, the invalidation of READY, and enter_scheduled_match of an open attempt.
LEMMA JoinSteps ==
    ASSUME RoomsInv, NEW r \in RoomIds, NEW u \in Users,
           \/ \E role \in {"DEBATER", "SPECTATOR"} : RO!JoinRoom(u, r, role)
           \/ RO!WatchFormal(u, r) \/ RO!Ready(u, r) \/ RO!NotReady(u, r)
           \/ RO!EnterOpenAttempt(u, r)
    PROVE  RoomsInv'
<1>. swaps \in [RoomIds -> SUBSET RO!SwapRequests] /\ people[r][u] \in RO!MemberStates
  BY DEF RoomsInv, RowTypes
<1>0. rooms[r].status \in RO!Unfinished => rooms[r].status # "none"
  BY DEF RO!Unfinished, RO!ActiveStatuses
<1>1. ASSUME NEW role \in {"DEBATER", "SPECTATOR"}, RO!JoinRoom(u, r, role) PROVE RoomsInv'
  <2>. role \in RO!MemberStates /\ ~RO!Debates(r, u)
    BY <1>1 DEF RO!MemberStates, RO!JoinRoom, RO!Here, RO!Debates
  <2>. QED BY <1>1, <1>0, MembersStep DEF RO!JoinRoom
<1>2. CASE RO!WatchFormal(u, r)
  <2>. rooms[r].status # "none" /\ ~RO!Ordinary(r)
    BY <1>2, <1>0 DEF RO!WatchFormal, RO!FixedSeats, RO!Ordinary
  <2>. QED BY <1>2, MembersStep DEF RO!WatchFormal, RO!MemberStates
<1>3. CASE RO!Ready(u, r)
  BY <1>3, <1>0, MembersStep DEF RO!Ready, RO!MemberStates, RO!Here
<1>4. CASE RO!NotReady(u, r)
  BY <1>4, <1>0, MembersStep DEF RO!NotReady, RO!MemberStates, RO!Here
<1>5. CASE RO!EnterOpenAttempt(u, r)
  <2>1. rooms[r].status # "none" /\ ~RO!Ordinary(r)
    BY <1>5 DEF RoomsInv, RowsAgree, RowAgrees, RO!EnterOpenAttempt, RO!Ordinary, RO!ActiveAttempt
  <2>. QED BY <1>5, <2>1, MembersStep DEF RO!EnterOpenAttempt, RO!MemberStates
<1>. QED BY <1>1, <1>2, <1>3, <1>4, <1>5

\* _restore_agent_or_empty: the seats a user gives up go to agents that sit
\* nowhere else in the room, or are empty.
LEMMA FreedSeats ==
    ASSUME RoomsInv, NEW r \in RoomIds, NEW u \in Users,
           NEW freed \in [RO!SeatOf(r, u) -> UNION {RO!Restored(r, t) : t \in RO!SeatOf(r, u)}]
    PROVE  /\ RO!SeatOf(r, u) \subseteq Chairs
           /\ \A s, t \in RO!SeatOf(r, u) : s = t
           /\ \A s \in RO!SeatOf(r, u) :
                /\ freed[s] \in Agents \cup {RO!Empty}
                /\ \A t \in Chairs : t # s => freed[s] = RO!Empty \/ freed[s] # places[r][t]
<1>1. \A s, t \in RO!SeatOf(r, u) : s = t
  BY RoomsAssumption DEF RO!SeatOf, RoomsInv, SeatedOnce
<1>2. ASSUME NEW s \in RO!SeatOf(r, u)
      PROVE  /\ freed[s] \in Agents \cup {RO!Empty}
             /\ \A t \in Chairs : t # s => freed[s] = RO!Empty \/ freed[s] # places[r][t]
  <2>1. freed[s] \in UNION {RO!Restored(r, t) : t \in RO!SeatOf(r, u)}
    OBVIOUS
  <2>2. freed[s] \in RO!Restored(r, s)
    BY <1>1, <2>1
  <2>. QED BY <2>2 DEF RO!Restored
<1>. QED BY <1>1, <1>2 DEF RO!SeatOf

\* A seat given up: everybody else sits where they sat.
LEMMA VacatedSeats ==
    ASSUME RoomsInv, NEW r \in RoomIds, NEW u \in Users, RO!Vacate(u, r)
    PROVE  /\ places' \in [RoomIds -> [Chairs -> Users \cup Agents \cup {RO!Empty}]]
           /\ \A q \in RoomIds \ {r} : places'[q] = places[q]
           /\ \A s \in Chairs : IF places[r][s] = u
                THEN /\ places'[r][s] \in Agents \cup {RO!Empty}
                     /\ \A t \in Chairs : t # s => places'[r][s] = RO!Empty \/ places'[r][s] # places[r][t]
                ELSE places'[r][s] = places[r][s]
           /\ \A s, t \in Chairs : places[r][s] = u /\ places[r][t] = u => s = t
<1>. PICK freed \in [RO!SeatOf(r, u) -> UNION {RO!Restored(r, t) : t \in RO!SeatOf(r, u)}] :
        places' = [places EXCEPT ![r] = RO!Reseated(r, freed)]
  BY DEF RO!Vacate
<1>. DEFINE seats == RO!Reseated(r, freed)
<1>1. places \in [RoomIds -> [Chairs -> Users \cup Agents \cup {RO!Empty}]]
  BY DEF RoomsInv, RowTypes
<1>2. /\ RO!SeatOf(r, u) \subseteq Chairs
      /\ \A s, t \in RO!SeatOf(r, u) : s = t
      /\ \A s \in RO!SeatOf(r, u) :
            /\ freed[s] \in Agents \cup {RO!Empty}
            /\ \A t \in Chairs : t # s => freed[s] = RO!Empty \/ freed[s] # places[r][t]
  BY FreedSeats
<1>3. \A s \in Chairs : s \in RO!SeatOf(r, u) <=> places[r][s] = u
  BY DEF RO!SeatOf
<1>4. /\ seats \in [Chairs -> Users \cup Agents \cup {RO!Empty}]
      /\ \A s \in Chairs : seats[s] = IF places[r][s] = u THEN freed[s] ELSE places[r][s]
  <2>1. seats = [x \in Chairs |-> IF x \in RO!SeatOf(r, u) THEN freed[x] ELSE places[r][x]]
    BY <1>2 DEF RO!Reseated
  <2>2. \A x \in RO!SeatOf(r, u) : freed[x] \in Agents \cup {RO!Empty}
    BY <1>2
  <2>3. places[r] \in [Chairs -> Users \cup Agents \cup {RO!Empty}]
    BY <1>1
  <2>. HIDE DEF seats
  <2>. QED BY <1>3, <2>1, <2>2, <2>3
<1>5. places' = [places EXCEPT ![r] = seats]
  OBVIOUS
<1>. HIDE DEF seats
<1>6. /\ places' \in [RoomIds -> [Chairs -> Users \cup Agents \cup {RO!Empty}]]
      /\ places'[r] = seats /\ \A q \in RoomIds \ {r} : places'[q] = places[q]
  BY <1>1, <1>4, <1>5
<1>. QED BY <1>2, <1>3, <1>4, <1>6

\* leave_room and change_role of a debater: the seat is given up first.
LEMMA StepBackStep ==
    ASSUME RoomsInv, NEW r \in RoomIds, rooms[r].status # "none",
           NEW u \in Users, RO!Here(r, u), NEW state \in {"none", "SPECTATOR"},
           people' = RO!SetMember(r, u, state), RO!Vacate(u, r),
           swaps' = [swaps EXCEPT ![r] = RO!WithoutSwaps(r, u)],
           Becomes(r, rooms[r].status, rooms[r].kind, rooms[r].match, rooms[r].attempt),
           scheduled' = scheduled
    PROVE  RoomsInv'
<1>1. /\ \A q \in RoomIds \ {r} : people'[q] = people[q]
      /\ \A v \in Users : people'[r][v] = IF v = u THEN state ELSE people[r][v]
      /\ people' \in [RoomIds -> [Users -> RO!MemberStates]]
  BY DEF RO!SetMember, RO!MemberStates, RoomsInv, RowTypes
<1>2. swaps' \in [RoomIds -> SUBSET RO!SwapRequests]
  BY DEF RO!WithoutSwaps, RoomsInv, RowTypes
<1>3. /\ places' \in [RoomIds -> [Chairs -> Users \cup Agents \cup {RO!Empty}]]
      /\ \A q \in RoomIds \ {r} : places'[q] = places[q]
      /\ \A s \in Chairs : IF places[r][s] = u
           THEN /\ places'[r][s] \in Agents \cup {RO!Empty}
                /\ \A t \in Chairs : t # s => places'[r][s] = RO!Empty \/ places'[r][s] # places[r][t]
           ELSE places'[r][s] = places[r][s]
      /\ \A s, t \in Chairs : places[r][s] = u /\ places[r][t] = u => s = t
  BY VacatedSeats
<1>4. Alone(r)
  BY <1>1, <1>2, <1>3 DEF Alone, MemberTypes
<1>5. SeatsKept(r)
  <2>1. \A s, t \in Chairs : s # t => places[r][s] = RO!Empty \/ places[r][s] # places[r][t]
    BY DEF RoomsInv, SeatedOnce
  <2>2. \A s, t \in Chairs : s # t => places'[r][s] = RO!Empty \/ places'[r][s] # places'[r][t]
    BY <1>3, <2>1
  <2>3. \A v \in Users : \A s \in Chairs : places'[r][s] = v => v # u /\ places[r][s] = v
    BY <1>3, RoomsAssumption
  <2>. QED BY <1>1, <2>2, <2>3 DEF SeatsKept, RoomsInv, SeatedDebate, RO!Debates
<1>. QED BY <1>1, <1>4, <1>5, AloneStep DEF RO!Here

\* change_role
LEMMA ChangeRoleStep ==
    ASSUME RoomsInv, NEW r \in RoomIds, NEW u \in Users, RO!ChangeRole(u, r)
    PROVE  RoomsInv'
<1>1. /\ rooms[r].status # "none" /\ RO!Here(r, u)
      /\ swaps' = [swaps EXCEPT ![r] = RO!WithoutSwaps(r, u)]
      /\ UNCHANGED <<rooms, scheduled>>
      /\ Becomes(r, rooms[r].status, rooms[r].kind, rooms[r].match, rooms[r].attempt)
  BY DEF RO!ChangeRole, RO!Waiting, Becomes, RoomsInv, RowTypes
<1>2. CASE RO!Vacate(u, r) /\ people' = RO!SetMember(r, u, "SPECTATOR")
  BY <1>1, <1>2, StepBackStep
<1>3. CASE people' = RO!SetMember(r, u, "DEBATER") /\ UNCHANGED places
  <2>. swaps' \in [RoomIds -> SUBSET RO!SwapRequests]
    BY <1>1 DEF RO!WithoutSwaps, RoomsInv, RowTypes
  <2>. QED BY <1>1, <1>3, MembersStep DEF RO!MemberStates
<1>. QED BY <1>2, <1>3 DEF RO!ChangeRole

\* select_seat: the user takes a seat no other user has and gives up the one before.
LEMMA SelectSeatStep ==
    ASSUME RoomsInv, NEW r \in RoomIds, NEW u \in Users, NEW s \in Chairs, RO!SelectSeat(u, r, s)
    PROVE  RoomsInv'
<1>. PICK freed \in [RO!SeatOf(r, u) -> UNION {RO!Restored(r, t) : t \in RO!SeatOf(r, u)}] :
        places' = [places EXCEPT ![r] = [RO!Reseated(r, freed) EXCEPT ![s] = u]]
  BY DEF RO!SelectSeat
<1>. DEFINE seats == [RO!Reseated(r, freed) EXCEPT ![s] = u]
            state == IF people[r][u] = "READY" THEN "READY" ELSE "DEBATER"
<1>1. /\ rooms[r].status # "none" /\ RO!Here(r, u)
      /\ places[r][s] \notin Users
      /\ swaps' = [swaps EXCEPT ![r] = RO!WithoutSwaps(r, u)]
      /\ people' = RO!SetMember(r, u, state)
      /\ UNCHANGED <<rooms, scheduled>>
  BY DEF RO!SelectSeat, RO!Waiting
<1>2. /\ \A q \in RoomIds \ {r} : people'[q] = people[q]
      /\ \A v \in Users : people'[r][v] = IF v = u THEN state ELSE people[r][v]
      /\ people' \in [RoomIds -> [Users -> RO!MemberStates]]
  BY <1>1 DEF RO!SetMember, RO!MemberStates, RoomsInv, RowTypes
<1>3. swaps' \in [RoomIds -> SUBSET RO!SwapRequests]
  BY <1>1 DEF RO!WithoutSwaps, RoomsInv, RowTypes
<1>4. /\ RO!SeatOf(r, u) \subseteq Chairs
      /\ \A x, y \in RO!SeatOf(r, u) : x = y
      /\ \A x \in RO!SeatOf(r, u) :
            /\ freed[x] \in Agents \cup {RO!Empty}
            /\ \A t \in Chairs : t # x => freed[x] = RO!Empty \/ freed[x] # places[r][t]
  BY FreedSeats
<1>5. \A t \in Chairs : t \in RO!SeatOf(r, u) <=> places[r][t] = u
  BY DEF RO!SeatOf
<1>6. places \in [RoomIds -> [Chairs -> Users \cup Agents \cup {RO!Empty}]]
  BY DEF RoomsInv, RowTypes
<1>7. /\ seats \in [Chairs -> Users \cup Agents \cup {RO!Empty}]
      /\ \A t \in Chairs : seats[t] = IF t = s THEN u
                                      ELSE IF places[r][t] = u THEN freed[t] ELSE places[r][t]
  <2>1. seats = [x \in Chairs |-> IF x = s THEN u
                                  ELSE IF x \in RO!SeatOf(r, u) THEN freed[x] ELSE places[r][x]]
    BY <1>4 DEF RO!Reseated
  <2>2. \A x \in RO!SeatOf(r, u) : freed[x] \in Agents \cup {RO!Empty}
    BY <1>4
  <2>3. places[r] \in [Chairs -> Users \cup Agents \cup {RO!Empty}]
    BY <1>6
  <2>. HIDE DEF seats
  <2>. QED BY <1>5, <2>1, <2>2, <2>3
<1>8. places' = [places EXCEPT ![r] = seats]
  OBVIOUS
<1>. HIDE DEF seats
<1>9. /\ places' \in [RoomIds -> [Chairs -> Users \cup Agents \cup {RO!Empty}]]
      /\ places'[r] = seats /\ \A q \in RoomIds \ {r} : places'[q] = places[q]
  BY <1>6, <1>7, <1>8
<1>10. Alone(r)
  BY <1>1, <1>2, <1>3, <1>9 DEF Alone, Becomes, MemberTypes, RoomsInv, RowTypes
<1>11. SeatsKept(r)
  <2>1. \A x, y \in Chairs : x # y => places[r][x] = RO!Empty \/ places[r][x] # places[r][y]
    BY DEF RoomsInv, SeatedOnce
  <2>2. \A x \in Chairs : x # s => seats[x] # u
    BY <1>4, <1>5, <1>7, RoomsAssumption
  <2>3. \A x, y \in Chairs : x # y => seats[x] = RO!Empty \/ seats[x] # seats[y]
    BY <1>4, <1>5, <1>7, <2>1, <2>2
  <2>4. \A v \in Users : \A x \in Chairs : seats[x] = v => v = u \/ places[r][x] = v
    BY <1>4, <1>5, <1>7, RoomsAssumption
  <2>5. RO!Ordinary(r) => \A v \in Users : \A x \in Chairs : places[r][x] = v => RO!Debates(r, v)
    BY DEF RoomsInv, SeatedDebate
  <2>. QED BY <1>2, <1>9, <2>3, <2>4, <2>5 DEF SeatsKept, RO!Debates
<1>. QED BY <1>1, <1>2, <1>10, <1>11, AloneStep DEF RO!Here

\* request_seat_swap and respond_seat_swap: the two change places, if they are
\* still where the request says.
LEMMA SwapSteps ==
    ASSUME RoomsInv, NEW r \in RoomIds,
           \/ \E u, v \in Users : RO!RequestSwap(u, v, r)
           \/ \E q \in swaps[r], accepted \in BOOLEAN : RO!AnswerSwap(r, q, accepted)
    PROVE  RoomsInv'
<1>1. ASSUME NEW u \in Users, NEW v \in Users, RO!RequestSwap(u, v, r) PROVE RoomsInv'
  <2>1. swaps' \in [RoomIds -> SUBSET RO!SwapRequests]
    <3>1. PICK s \in RO!SeatOf(r, u), t \in RO!SeatOf(r, v) :
            swaps' = [swaps EXCEPT ![r] = @ \cup {[from |-> u, to |-> v, fromSeat |-> s, toSeat |-> t]}]
      BY <1>1 DEF RO!RequestSwap
    <3>2. [from |-> u, to |-> v, fromSeat |-> s, toSeat |-> t] \in RO!SwapRequests
      BY <3>1 DEF RO!SeatOf, RO!SwapRequests
    <3>. QED BY <3>1, <3>2 DEF RoomsInv, RowTypes
  <2>2. /\ rooms[r].status # "none" /\ UNCHANGED <<rooms, people, places, scheduled>>
    BY <1>1 DEF RO!RequestSwap, RO!Waiting
  <2>3. Alone(r)
    BY <2>1, <2>2 DEF Alone, Becomes, MemberTypes, RoomsInv, RowTypes
  <2>4. SeatsKept(r)
    BY <2>2 DEF SeatsKept, RoomsInv, SeatedOnce, SeatedDebate, RO!Debates
  <2>. QED BY <2>2, <2>3, <2>4, AloneStep DEF RO!Here
<1>2. ASSUME NEW q \in swaps[r], NEW accepted \in BOOLEAN, RO!AnswerSwap(r, q, accepted) PROVE RoomsInv'
  <2>. DEFINE a == q.fromSeat  b == q.toSeat
              now == accepted /\ places[r][a] = q.from /\ places[r][b] = q.to
  <2>1. /\ rooms[r].status # "none" /\ UNCHANGED <<rooms, people, scheduled>>
        /\ swaps' = [swaps EXCEPT ![r] = @ \ {q}]
        /\ places' = IF now THEN [places EXCEPT ![r][a] = q.to, ![r][b] = q.from] ELSE places
    BY <1>2 DEF RO!AnswerSwap, RO!Waiting
  <2>2. a \in Chairs /\ b \in Chairs /\ q.from \in Users /\ q.to \in Users
    BY DEF RoomsInv, RowTypes, RO!SwapRequests
  <2>3. places \in [RoomIds -> [Chairs -> Users \cup Agents \cup {RO!Empty}]]
    BY DEF RoomsInv, RowTypes
  <2>4. /\ places' \in [RoomIds -> [Chairs -> Users \cup Agents \cup {RO!Empty}]]
        /\ \A x \in RoomIds \ {r} : places'[x] = places[x]
        /\ now => \A s \in Chairs :
              places'[r][s] = IF s = b THEN q.from ELSE IF s = a THEN q.to ELSE places[r][s]
        /\ ~now => places' = places
    BY <2>1, <2>2, <2>3
  <2>5. Alone(r)
    BY <2>1, <2>4 DEF Alone, Becomes, MemberTypes, RoomsInv, RowTypes
  <2>6. \A x, y \in Chairs : x # y => places[r][x] = RO!Empty \/ places[r][x] # places[r][y]
    BY DEF RoomsInv, SeatedOnce
  <2>7. RO!Ordinary(r) => \A v \in Users : \A x \in Chairs : places[r][x] = v => RO!Debates(r, v)
    BY <2>1 DEF RoomsInv, SeatedDebate
  <2>8. \A x, y \in Chairs : x # y => places'[r][x] = RO!Empty \/ places'[r][x] # places'[r][y]
    BY <2>2, <2>4, <2>6
  <2>9. \A v \in Users, x \in Chairs : places'[r][x] = v => \E y \in Chairs : places[r][y] = v
    BY <2>2, <2>4
  <2>10. SeatsKept(r)
    BY ZenonT(60), <2>1, <2>7, <2>8, <2>9 DEF SeatsKept, RO!Debates
  <2>. QED BY <2>1, <2>5, <2>10, AloneStep DEF RO!Here
<1>. QED BY <1>1, <1>2

\* The room r opens: its row was not used, and whoever comes is in no other.
LEMMA OpensStep ==
    ASSUME RoomsInv, NEW r \in RoomIds, rooms[r].status = "none",
           NEW kind \in {"ORDINARY"} \cup RO!Kinds, NEW attempt \in {"none", "WAITING"},
           kind = "ORDINARY" <=> attempt = "none",
           Becomes(r, "WAITING", kind, "none", attempt), UNCHANGED <<swaps, scheduled>>,
           people' \in [RoomIds -> [Users -> RO!MemberStates]],
           places' \in [RoomIds -> [Chairs -> Users \cup Agents \cup {RO!Empty}]],
           \A q \in RoomIds \ {r} : people'[q] = people[q] /\ places'[q] = places[q],
           SeatsKept(r),
           kind # "ORDINARY" => RO!MayCreateAttempt(kind),
           kind = "ORDINARY" => \A u \in Users :
                people'[r][u] \in {"SPECTATOR", "DEBATER", "READY"} => ~RO!Busy(u)
    PROVE  RoomsInv'
<1>1. /\ \A q \in RoomIds \ {r} : rooms'[q] = rooms[q]
      /\ rooms'[r].status = "WAITING" /\ rooms'[r].kind = kind
      /\ rooms'[r].match = "none" /\ rooms'[r].attempt = attempt
  BY DEF Becomes
<1>2. RowTypes'
  BY DEF RoomsInv, RowTypes, Becomes
<1>3. RowsAgree'
  BY <1>1 DEF RoomsInv, RowsAgree, RowAgrees, RO!Abandoned
<1>4. CapacityCounted'
  BY <1>1, CapacityKept DEF RoomsInv, RO!ActiveStatuses
<1>5. OpenOnce'
  <2>. SUFFICES ASSUME ~CloseRunning, NEW u \in Users, NEW p \in RoomIds, NEW q \in RoomIds, InOpen(p, u)', InOpen(q, u)'
                PROVE  p = q
    BY DEF OpenOnce
  <2>1. \A x \in {p, q} : x # r => InOpen(x, u)
    BY <1>1 DEF InOpen, RO!Ordinary, RO!Here
  <2>2. r \in {p, q} => ~RO!Busy(u)
    BY <1>1 DEF InOpen, RO!Ordinary, RO!Here
  <2>3. ASSUME ~RO!Busy(u), NEW x \in RoomIds, InOpen(x, u) PROVE FALSE
    BY <2>3 DEF RO!Busy, InOpen
  <2>. QED BY <2>1, <2>2, <2>3 DEF RoomsInv, OpenOnce
<1>6. ActiveOnce' /\ CountedOnce'
  <2>1. \A q \in RoomIds \ {r} : \A k \in RO!Kinds :
            (Active(k, q)' <=> Active(k, q)) /\ (Completed(k, q)' <=> Completed(k, q))
    BY <1>1 DEF Active, Completed
  <2>2. \A k \in RO!Kinds : ~Active(k, r) /\ ~Completed(k, r) /\ ~Completed(k, r)'
    BY <1>1 DEF Active, Completed, RoomsInv, RowsAgree, RowAgrees, RO!Kinds
  <2>3. \A k \in RO!Kinds : Active(k, r)' => k = kind /\ \A q \in RoomIds : ~Active(k, q)
    BY <1>1 DEF Active, RO!MayCreateAttempt, RO!Kinds
  <2>4. ActiveOnce'
    BY ZenonT(60), <2>1, <2>3 DEF RoomsInv, ActiveOnce
  <2>5. CountedOnce'
    <3>. SUFFICES ASSUME ~CloseRunning PROVE CountedOnce'
      BY DEF CountedOnce
    <3>1. \A k \in RO!Kinds : (\E q \in RoomIds : Completed(k, q)') <=> \E q \in RoomIds : Completed(k, q)
      BY <2>1, <2>2
    <3>2. kind = "FORMAL" => \A q \in RoomIds : ~Counts(q)
      <4>1. kind = "FORMAL" => scheduled["FORMAL"] # "COMPLETED" /\ \A q \in RoomIds : ~Active("FORMAL", q)
        BY DEF RO!MayCreateAttempt, Active
      <4>. QED BY <4>1 DEF RoomsInv, CountedOnce, Counts
    <3>3. Counts(r)' => kind = "FORMAL"
      BY <2>2, <2>3 DEF Counts, RO!Kinds
    <3>4. \A q \in RoomIds \ {r} : Counts(q)' <=> Counts(q)
      BY <2>1 DEF Counts, RO!Kinds
    <3>5. \A p, q \in RoomIds : Counts(p)' /\ Counts(q)' => p = q
      BY ZenonT(60), <3>2, <3>3, <3>4 DEF RoomsInv, CountedOnce
    <3>. QED BY <3>1, <3>5 DEF RoomsInv, CountedOnce, RO!Kinds
  <2>. QED BY <2>4, <2>5
<1>7. SeatedOnce'
  BY DEF RoomsInv, SeatedOnce, SeatsKept
<1>8. SeatedDebate'
  <2>1. RO!Ordinary(r)
    BY DEF RoomsInv, RowsAgree, RowAgrees, RO!Ordinary
  <2>. QED BY <1>1, <2>1 DEF RoomsInv, SeatedDebate, SeatsKept, RO!Ordinary, RO!Debates
<1>. QED BY <1>2, <1>3, <1>4, <1>5, <1>6, <1>7, <1>8 DEF RoomsInv

\* create_room, with or without agents on its seats.
LEMMA CreateRoomStep ==
    ASSUME RoomsInv, NEW r \in RoomIds, NEW u \in Users, RO!CreateRoom(u, r)
    PROVE  RoomsInv'
<1>1. /\ rooms[r].status = "none" /\ ~RO!Busy(u) /\ UNCHANGED <<swaps, scheduled>>
      /\ people' = RO!SetMember(r, u, "DEBATER")
      /\ rooms' = [rooms EXCEPT ![r] = [@ EXCEPT !.status = "WAITING", !.owner = u]]
  BY DEF RO!CreateRoom, RO!NewRoom
<1>2. PICK filled \in {RO!AllEmpty, RO!AllFilled} : places' = [places EXCEPT ![r] = filled]
  BY DEF RO!CreateRoom
<1>3. RO!AllFilled \in RO!Injection(Chairs, Agents)
  BY RoomsAssumption DEF RO!AllFilled
<1>4. /\ RO!AllFilled \in [Chairs -> Agents]
      /\ \A s, t \in Chairs : s # t => RO!AllFilled[s] # RO!AllFilled[t]
  BY <1>3 DEF RO!Injection, RO!IsInjective
<1>5. /\ filled \in [Chairs -> Agents \cup {RO!Empty}]
      /\ \A s, t \in Chairs : s # t => filled[s] = RO!Empty \/ filled[s] # filled[t]
  <2>1. CASE filled = RO!AllEmpty
    BY <2>1 DEF RO!AllEmpty
  <2>2. CASE filled = RO!AllFilled
    BY <2>2, <1>4
  <2>. QED BY <2>1, <2>2
<1>6. /\ places' \in [RoomIds -> [Chairs -> Users \cup Agents \cup {RO!Empty}]]
      /\ places'[r] = filled /\ \A q \in RoomIds \ {r} : places'[q] = places[q]
  BY <1>2, <1>5 DEF RoomsInv, RowTypes
<1>7. /\ \A q \in RoomIds \ {r} : people'[q] = people[q]
      /\ \A v \in Users : people'[r][v] = IF v = u THEN "DEBATER" ELSE people[r][v]
      /\ people' \in [RoomIds -> [Users -> RO!MemberStates]]
  BY <1>1 DEF RO!SetMember, RO!MemberStates, RoomsInv, RowTypes
<1>8. \A v \in Users : people[r][v] = "none"
  BY <1>1 DEF RoomsInv, RowsAgree, RowAgrees
<1>9. Becomes(r, "WAITING", "ORDINARY", "none", "none")
  <2>1. rooms[r].kind = "ORDINARY" /\ rooms[r].match = "none" /\ rooms[r].attempt = "none"
    BY <1>1 DEF RoomsInv, RowsAgree, RowAgrees
  <2>2. rooms \in [RoomIds -> RoomRecords]
    BY DEF RoomsInv, RowTypes
  <2>. QED BY <1>1, <2>1, <2>2 DEF Becomes, RoomRecords, RO!Unfinished
<1>10. SeatsKept(r)
  BY <1>5, <1>6, RoomsAssumption DEF SeatsKept
<1>11. \A v \in Users : people'[r][v] \in {"SPECTATOR", "DEBATER", "READY"} => ~RO!Busy(v)
  BY <1>1, <1>7, <1>8
<1>. QED BY <1>1, <1>6, <1>7, <1>9, <1>10, <1>11, OpensStep

\* enter_scheduled_match by the first of the debaters: the fixed seats of a formal
\* match with all of them, or agents on every seat of a training match.
LEMMA CreateAttemptStep ==
    ASSUME RoomsInv, NEW r \in RoomIds, NEW u \in Users, NEW kind \in RO!Kinds,
           RO!CreateAttempt(u, r, kind)
    PROVE  RoomsInv'
<1>. DEFINE debaters == IF kind = "FORMAL" THEN RO!FormalHumans ELSE {u}
            layout == IF kind = "FORMAL" THEN FormalSeats ELSE RO!AllFilled
<1>1. /\ rooms[r].status = "none" /\ RO!MayCreateAttempt(kind) /\ UNCHANGED <<swaps, scheduled>>
      /\ people' = [people EXCEPT ![r] = [v \in Users |-> IF v \in debaters THEN "DEBATER" ELSE "none"]]
      /\ places' = [places EXCEPT ![r] = layout]
  BY DEF RO!CreateAttempt, RO!NewRoom
<1>2. PICK organizer \in debaters : rooms' = [rooms EXCEPT ![r] =
            [@ EXCEPT !.status = "WAITING", !.kind = kind, !.owner = organizer, !.attempt = "WAITING"]]
  BY DEF RO!CreateAttempt
<1>3. debaters \subseteq Users
  BY DEF RO!FormalHumans
<1>4. /\ FormalSeats \in [Chairs -> Users \cup Agents]
      /\ \A s, t \in Chairs : s # t => FormalSeats[s] # FormalSeats[t]
  BY RoomsAssumption DEF RO!IsInjective
<1>5. /\ RO!AllFilled \in [Chairs -> Agents]
      /\ \A s, t \in Chairs : s # t => RO!AllFilled[s] # RO!AllFilled[t]
  <2>. RO!AllFilled \in RO!Injection(Chairs, Agents)
    BY RoomsAssumption DEF RO!AllFilled
  <2>. QED BY DEF RO!Injection, RO!IsInjective
<1>6. /\ layout \in [Chairs -> Users \cup Agents]
      /\ \A s, t \in Chairs : s # t => layout[s] # layout[t]
  BY <1>4, <1>5
<1>7. \A v \in Users, s \in Chairs : layout[s] = v => v \in debaters
  <2>1. CASE kind = "FORMAL"
    BY <1>4, <2>1 DEF RO!FormalHumans, RO!Range
  <2>2. CASE kind # "FORMAL"
    BY <1>5, <2>2, RoomsAssumption
  <2>. QED BY <2>1, <2>2
<1>. HIDE DEF debaters, layout
<1>8. /\ places' \in [RoomIds -> [Chairs -> Users \cup Agents \cup {RO!Empty}]]
      /\ places'[r] = layout /\ \A q \in RoomIds \ {r} : places'[q] = places[q]
  BY <1>1, <1>6 DEF RoomsInv, RowTypes
<1>9. /\ people' \in [RoomIds -> [Users -> RO!MemberStates]]
      /\ \A q \in RoomIds \ {r} : people'[q] = people[q]
      /\ \A v \in Users : people'[r][v] = IF v \in debaters THEN "DEBATER" ELSE "none"
  BY <1>1 DEF RO!MemberStates, RoomsInv, RowTypes
<1>10. Becomes(r, "WAITING", kind, "none", "WAITING")
  <2>1. rooms[r].match = "none"
    BY <1>1 DEF RoomsInv, RowsAgree, RowAgrees
  <2>2. rooms \in [RoomIds -> RoomRecords] /\ organizer \in Users
    BY <1>3 DEF RoomsInv, RowTypes
  <2>. QED BY ZenonT(60), <1>2, <2>1, <2>2 DEF Becomes, RoomRecords, RO!Unfinished, RO!ActiveAttempt
<1>11. SeatsKept(r)
  BY <1>6, <1>7, <1>8, <1>9 DEF SeatsKept
<1>12. kind # "ORDINARY"
  BY DEF RO!Kinds
<1>. QED BY <1>1, <1>8, <1>9, <1>10, <1>11, <1>12, OpensStep

\* start_room: one room more counts, and there was capacity for it.
LEMMA StartRoomStep ==
    ASSUME RoomsInv, NEW r \in RoomIds, RO!StartRoom(r)
    PROVE  RoomsInv'
<1>1. /\ rooms[r].status = "WAITING" /\ RO!HasCapacity
      /\ rooms' = RO!SetStatus(r, "START_PENDING_RUNTIME")
      /\ UNCHANGED <<people, places, swaps, scheduled>>
  BY DEF RO!StartRoom, RO!Waiting
<1>2. rooms \in [RoomIds -> RoomRecords]
  BY DEF RoomsInv, RowTypes
<1>3. /\ rooms' \in [RoomIds -> RoomRecords]
      /\ \A q \in RoomIds \ {r} : rooms'[q] = rooms[q]
      /\ rooms'[r].status = "START_PENDING_RUNTIME" /\ rooms'[r].kind = rooms[r].kind
      /\ rooms'[r].match = rooms[r].match /\ rooms'[r].attempt = rooms[r].attempt
  BY <1>1, <1>2 DEF RO!SetStatus, RoomRecords, RO!Unfinished, RO!ActiveStatuses
<1>4. RowTypes'
  BY <1>1, <1>3 DEF RoomsInv, RowTypes
<1>5. RowsAgree'
  <2>1. rooms[r].match = "none"
    BY <1>1, <1>2 DEF RoomsInv, RowsAgree, RowAgrees, RoomRecords, RO!ActiveStatuses, RO!Terminal
  <2>. QED BY <1>1, <1>3, <2>1 DEF RoomsInv, RowsAgree, RowAgrees, RO!Abandoned
<1>6. CapacityCounted'
  <2>. SUFFICES ASSUME ~CloseRunning PROVE (Cardinality(RO!ActiveRooms) <= Capacity)'
    BY DEF CapacityCounted
  <2>1. RO!ActiveRooms' = RO!ActiveRooms \cup {r} /\ r \notin RO!ActiveRooms
    BY <1>1, <1>3 DEF RO!ActiveRooms, RO!ActiveStatuses
  <2>2. IsFiniteSet(RO!ActiveRooms)
    BY FS_Subset, RoomsAssumption DEF RO!ActiveRooms
  <2>3. /\ Cardinality(RO!ActiveRooms') = Cardinality(RO!ActiveRooms) + 1
        /\ Cardinality(RO!ActiveRooms) \in Nat
    BY <2>1, <2>2, FS_AddElement, FS_CardinalityType
  <2>4. Cardinality(RO!ActiveRooms) < Capacity
    BY <1>1, SameCardinality DEF RO!HasCapacity
  <2>. QED BY <2>3, <2>4, RoomsAssumption DEF CapacityCounted
<1>7. OpenOnce'
  <2>. SUFFICES ASSUME ~CloseRunning, NEW u \in Users, NEW q \in RoomIds, InOpen(q, u)'
                PROVE  InOpen(q, u)
    BY DEF RoomsInv, OpenOnce
  <2>. QED BY <1>1, <1>3 DEF InOpen, RO!Ordinary, RO!Here, RO!Unfinished, RO!ActiveStatuses
<1>8. ActiveOnce' /\ CountedOnce'
  <2>1. \A q \in RoomIds : \A kind \in RO!Kinds :
            (Active(kind, q)' <=> Active(kind, q)) /\ (Completed(kind, q)' <=> Completed(kind, q))
    BY <1>3 DEF Active, Completed
  <2>2. ActiveOnce'
    BY <2>1 DEF RoomsInv, ActiveOnce
  <2>. QED BY <1>1, <2>1, <2>2 DEF RoomsInv, CountedOnce, Counts, RO!Kinds
<1>9. SeatedOnce'
  BY <1>1 DEF RoomsInv, SeatedOnce
<1>10. SeatedDebate'
  BY <1>1, <1>3 DEF RoomsInv, SeatedDebate, RO!Ordinary, RO!Debates
<1>. QED BY <1>4, <1>5, <1>6, <1>7, <1>8, <1>9, <1>10 DEF RoomsInv

\* What a step writes of the attempt and the schedule: of a scheduled match both,
\* of an ordinary room and of a training room that is left nothing.
Written(r, outcome, attempt) ==
    \/ /\ attempt = rooms[r].attempt /\ scheduled' = scheduled
       /\ rooms[r].kind = "FORMAL" => FALSE
       /\ rooms[r].kind = "TRAINING" => outcome = "TERMINATED" /\ attempt = "WAITING"
    \/ /\ rooms[r].kind \in RO!Kinds /\ attempt # "none"
       /\ outcome = "FINISHED" <=> attempt = "COMPLETED"
       /\ outcome = "TERMINATED" <=> attempt = "TERMINATED"
       /\ attempt \in RO!ActiveAttempt => rooms[r].attempt \in RO!ActiveAttempt \/
            \A q \in RoomIds \ {r} : rooms[q].kind = rooms[r].kind => rooms[q].attempt \notin RO!ActiveAttempt
       /\ scheduled' \in [RO!Kinds -> RO!ScheduleStates]
       /\ scheduled'[rooms[r].kind] = "COMPLETED" <=> attempt = "COMPLETED"
       /\ \A kind \in RO!Kinds \ {rooms[r].kind} : scheduled'[kind] = scheduled[kind]

\* A room whose match is stored or is over: if it is over, it may have no place
\* and no member any more.
LEMMA StoredStep ==
    ASSUME RoomsInv, NEW r \in RoomIds, rooms[r].status # "none",
           ~CloseRunning => rooms[r].status \in RO!Unfinished,
           NEW outcome \in RO!ActiveStatuses \cup RO!Terminal,
           NEW match \in {"none"} \cup RO!ActiveStatuses \cup RO!Terminal,
           NEW attempt \in {"none", "COMPLETED", "TERMINATED"} \cup RO!ActiveAttempt,
           Becomes(r, outcome, rooms[r].kind, match, attempt),
           ~CloseRunning /\ outcome \in RO!ActiveStatuses => rooms[r].status \in RO!ActiveStatuses,
           ~CloseRunning /\ match # "none" => match = outcome,
           Written(r, outcome, attempt),
           \E over \in BOOLEAN : (over => outcome \in RO!Terminal) /\ RO!Forget(r, over)
    PROVE  RoomsInv'
<1>. PICK over \in BOOLEAN : (over => outcome \in RO!Terminal) /\ RO!Forget(r, over)
  OBVIOUS
<1>1. /\ \A q \in RoomIds \ {r} : rooms'[q] = rooms[q]
      /\ rooms'[r].status = outcome /\ rooms'[r].kind = rooms[r].kind
      /\ rooms'[r].match = match /\ rooms'[r].attempt = attempt
      /\ rooms' \in [RoomIds -> RoomRecords]
  BY DEF Becomes
<1>2. /\ people' \in [RoomIds -> [Users -> RO!MemberStates]]
      /\ \A q \in RoomIds \ {r} : people'[q] = people[q]
      /\ people'[r] = IF over THEN RO!Absent ELSE people[r]
  BY DEF RO!Forget, RO!Absent, RO!MemberStates, RoomsInv, RowTypes
<1>3. /\ places' \in [RoomIds -> [Chairs -> Users \cup Agents \cup {RO!Empty}]]
      /\ \A q \in RoomIds \ {r} : places'[q] = places[q]
      /\ places'[r] = IF over THEN RO!AllEmpty ELSE places[r]
  BY DEF RO!Forget, RO!AllEmpty, RoomsInv, RowTypes
<1>4. swaps' \in [RoomIds -> SUBSET RO!SwapRequests]
  BY DEF RO!Forget, RoomsInv, RowTypes
<1>5. /\ outcome # "none" /\ outcome # "WAITING"
      /\ rooms[r].kind \in {"ORDINARY", "FORMAL", "TRAINING"}
      /\ rooms[r].kind = "ORDINARY" <=> rooms[r].attempt = "none"
  BY DEF RO!ActiveStatuses, RO!Terminal, RoomsInv, RowTypes, RowsAgree, RowAgrees, RoomRecords, RO!Kinds
<1>6. RowTypes'
  <2>1. scheduled' \in [RO!Kinds -> RO!ScheduleStates]
    BY DEF Written, RoomsInv, RowTypes
  <2>. QED BY <1>1, <1>2, <1>3, <1>4, <2>1 DEF RowTypes
<1>7. RowsAgree'
  <2>1. \A q \in RoomIds \ {r} : rooms'[q] = rooms[q] /\ people'[q] = people[q]
    BY <1>1, <1>2
  <2>2. rooms[r].kind = "ORDINARY" <=> attempt = "none"
    BY <1>5 DEF Written, RO!Kinds
  <2>3. rooms[r].kind # "ORDINARY" =>
            /\ outcome = "FINISHED" <=> attempt = "COMPLETED"
            /\ outcome = "TERMINATED" <=> attempt = "TERMINATED" \/ RO!Abandoned(r)'
    BY <1>1, <1>5 DEF Written, RO!Kinds, RO!Abandoned
  <2>4. RowAgrees(r)'
    <3>1. rooms'[r].status # "none" /\ rooms'[r].status # "WAITING"
      BY <1>1, <1>5
    <3>2. ~CloseRunning /\ rooms'[r].match # "none" => rooms'[r].match = rooms'[r].status
      BY <1>1
    <3>. QED BY <1>1, <2>2, <2>3, <3>1, <3>2 DEF RowAgrees
  <2>5. ASSUME NEW q \in RoomIds \ {r} PROVE RowAgrees(q)'
    BY <2>1 DEF RoomsInv, RowsAgree, RowAgrees, RO!Abandoned
  <2>. QED BY <2>4, <2>5 DEF RowsAgree
<1>8. CapacityCounted'
  BY <1>1, CapacityKept DEF RoomsInv
<1>9. OpenOnce'
  <2>. SUFFICES ASSUME ~CloseRunning, NEW u \in Users, NEW q \in RoomIds, InOpen(q, u)'
                PROVE  InOpen(q, u)
    BY DEF RoomsInv, OpenOnce
  <2>. QED BY <1>1, <1>2 DEF InOpen, RO!Ordinary, RO!Here, RO!Absent
<1>10. ActiveOnce'
  <2>. PICK k : k = rooms[r].kind
    OBVIOUS
  <2>1. \A q \in RoomIds \ {r} : \A kind \in RO!Kinds : Active(kind, q)' <=> Active(kind, q)
    BY <1>1 DEF Active
  <2>2. Active(k, r)' => Active(k, r) \/ \A q \in RoomIds \ {r} : ~Active(k, q)
    BY <1>1 DEF Active, Written
  <2>3. \A kind \in RO!Kinds : Active(kind, r)' => kind = k
    BY <1>1 DEF Active
  <2>4. SUFFICES ASSUME NEW kind \in RO!Kinds, NEW p \in RoomIds, NEW q \in RoomIds,
                        Active(kind, p)', Active(kind, q)'
                 PROVE  p = q
    BY DEF ActiveOnce
  <2>5. CASE p # r /\ q # r
    BY <2>1, <2>4, <2>5 DEF RoomsInv, ActiveOnce
  <2>6. CASE p = r \/ q = r
    <3>1. kind = k
      BY <2>3, <2>4, <2>6
    <3>2. CASE Active(k, r)
      BY <2>1, <2>4, <2>6, <3>1, <3>2 DEF RoomsInv, ActiveOnce
    <3>3. CASE \A x \in RoomIds \ {r} : ~Active(k, x)
      BY <2>1, <2>4, <2>6, <3>1, <3>3
    <3>4. Active(k, r)'
      BY <2>4, <2>6, <3>1
    <3>. QED BY <2>2, <3>2, <3>3, <3>4
  <2>. QED BY <2>5, <2>6
<1>11. CountedOnce'
  <2>. SUFFICES ASSUME ~CloseRunning PROVE CountedOnce'
    BY DEF CountedOnce
  <2>1. \A q \in RoomIds \ {r} : \A kind \in RO!Kinds :
            (Active(kind, q)' <=> Active(kind, q)) /\ (Completed(kind, q)' <=> Completed(kind, q))
    BY <1>1 DEF Active, Completed
  <2>2. \A q \in RoomIds \ {r} : Counts(q)' <=> Counts(q)
    BY <2>1 DEF Counts, RO!Kinds
  <2>3. rooms[r].kind # "ORDINARY" => rooms[r].attempt \in RO!ActiveAttempt
    BY <1>5 DEF RoomsInv, RowTypes, RowsAgree, RowAgrees, RoomRecords, RO!Unfinished, RO!ActiveStatuses
  <2>4. \A kind \in RO!Kinds : ~Completed(kind, r)
    BY <2>3 DEF Completed, RO!Kinds, RO!ActiveAttempt
  <2>5. Counts(r)' => Counts(r)
    BY <1>1, <2>3 DEF Counts, Active, Completed
  <2>6. \A p, q \in RoomIds : Counts(p)' /\ Counts(q)' => p = q
    BY ZenonT(60), <2>2, <2>5 DEF RoomsInv, CountedOnce
  <2>7. \A kind \in RO!Kinds \ {rooms[r].kind} :
            /\ scheduled'[kind] = scheduled[kind]
            /\ (\E q \in RoomIds : Completed(kind, q)') <=> \E q \in RoomIds : Completed(kind, q)
    <3>1. \A kind \in RO!Kinds \ {rooms[r].kind} : ~Completed(kind, r)'
      BY <1>1 DEF Completed
    <3>2. \A kind \in RO!Kinds \ {rooms[r].kind} : scheduled'[kind] = scheduled[kind]
      BY DEF Written
    <3>. QED BY <2>1, <2>4, <3>1, <3>2
  <2>8. CASE attempt = rooms[r].attempt /\ scheduled' = scheduled
    <3>1. \A kind \in RO!Kinds : ~Completed(kind, r)'
      BY <1>1, <2>4, <2>8 DEF Completed
    <3>2. \A kind \in RO!Kinds :
            (\E q \in RoomIds : Completed(kind, q)') <=> \E q \in RoomIds : Completed(kind, q)
      BY <2>1, <2>4, <3>1
    <3>. QED BY <2>6, <2>8, <3>2 DEF RoomsInv, CountedOnce, RO!Kinds
  <2>9. CASE /\ rooms[r].kind \in RO!Kinds
             /\ scheduled'[rooms[r].kind] = "COMPLETED" <=> attempt = "COMPLETED"
    <3>1. \A kind \in RO!Kinds : kind = rooms[r].kind => (Completed(kind, r)' <=> attempt = "COMPLETED")
      BY <1>1 DEF Completed
    <3>2. CASE rooms[r].kind = "FORMAL"
      <4>1. \A q \in RoomIds \ {r} : ~Completed("FORMAL", q)'
        BY <2>2, <2>3, <3>2 DEF RoomsInv, CountedOnce, Counts, Active
      <4>2. scheduled'["FORMAL"] = "COMPLETED" <=> \E q \in RoomIds : Completed("FORMAL", q)'
        <5>1. scheduled'["FORMAL"] = "COMPLETED" <=> attempt = "COMPLETED"
          BY <2>9, <3>2
        <5>2. Completed("FORMAL", r)' <=> attempt = "COMPLETED"
          BY <3>1, <3>2 DEF RO!Kinds
        <5>. QED BY <4>1, <5>1, <5>2
      <4>3. scheduled'["TRAINING"] = "COMPLETED" => \E q \in RoomIds : Completed("TRAINING", q)'
        BY <2>7, <3>2 DEF RoomsInv, CountedOnce, RO!Kinds
      <4>. QED BY <2>6, <4>2, <4>3 DEF CountedOnce
    <3>3. CASE rooms[r].kind = "TRAINING"
      <4>1. scheduled'["FORMAL"] = "COMPLETED" <=> \E q \in RoomIds : Completed("FORMAL", q)'
        BY <2>7, <3>3 DEF RoomsInv, CountedOnce, RO!Kinds
      <4>2. scheduled'["TRAINING"] = "COMPLETED" => \E q \in RoomIds : Completed("TRAINING", q)'
        <5>1. scheduled'["TRAINING"] = "COMPLETED" <=> attempt = "COMPLETED"
          BY <2>9, <3>3
        <5>2. Completed("TRAINING", r)' <=> attempt = "COMPLETED"
          BY <3>1, <3>3 DEF RO!Kinds
        <5>. QED BY <5>1, <5>2
      <4>. QED BY <2>6, <4>1, <4>2 DEF CountedOnce
    <3>. QED BY <2>9, <3>2, <3>3 DEF RO!Kinds
  <2>. QED BY <2>8, <2>9 DEF Written
<1>12. SeatedOnce'
  BY <1>3 DEF RoomsInv, SeatedOnce, RO!AllEmpty
<1>13. SeatedDebate'
  BY SMTT(60), <1>1, <1>2, <1>3, RoomsAssumption
     DEF RoomsInv, SeatedDebate, RO!Ordinary, RO!Debates, RO!AllEmpty
<1>. QED BY <1>6, <1>7, <1>8, <1>9, <1>10, <1>11, <1>12, <1>13 DEF RoomsInv

\* What a step that ends or carries on a scheduled match writes.
LEMMA LinkedWritten ==
    ASSUME RoomsInv, NEW r \in RoomIds, NEW outcome, NEW attempt, NEW value \in RO!ScheduleStates,
           scheduled' = RO!Schedule(r, value),
           RO!Ordinary(r) => attempt = rooms[r].attempt,
           ~RO!Ordinary(r) =>
              /\ attempt # "none"
              /\ outcome = "FINISHED" <=> attempt = "COMPLETED"
              /\ outcome = "TERMINATED" <=> attempt = "TERMINATED"
              /\ value = "COMPLETED" <=> attempt = "COMPLETED"
              /\ attempt \in RO!ActiveAttempt => rooms[r].attempt \in RO!ActiveAttempt \/
                   \A q \in RoomIds \ {r} : rooms[q].kind = rooms[r].kind => rooms[q].attempt \notin RO!ActiveAttempt
    PROVE  Written(r, outcome, attempt)
<1>1. rooms[r].kind \in {"ORDINARY"} \cup RO!Kinds /\ scheduled \in [RO!Kinds -> RO!ScheduleStates]
  BY DEF RoomsInv, RowTypes, RoomRecords
<1>2. CASE RO!Ordinary(r)
  BY <1>2 DEF Written, RO!Schedule, RO!Ordinary
<1>3. CASE ~RO!Ordinary(r)
  <2>. DEFINE k == rooms[r].kind
  <2>1. k \in RO!Kinds
    BY <1>1, <1>3 DEF RO!Ordinary
  <2>2. scheduled' = [scheduled EXCEPT ![k] = value]
    BY <1>3 DEF RO!Schedule
  <2>. HIDE DEF k
  <2>3. /\ scheduled' \in [RO!Kinds -> RO!ScheduleStates] /\ scheduled'[k] = value
        /\ \A kind \in RO!Kinds \ {k} : scheduled'[kind] = scheduled[kind]
    BY <1>1, <2>1, <2>2
  <2>. QED BY <1>3, <2>1, <2>3 DEF k, Written
<1>. QED BY <1>2, <1>3

\* start_room_match stores the row of the match.
LEMMA PrepareMatchStep ==
    ASSUME RoomsInv, NEW r \in RoomIds, RO!PrepareMatch(r)
    PROVE  RoomsInv'
<1>. DEFINE attempt == RO!Attempt(r, "RUNNING")
<1>1. /\ rooms[r].status = "START_PENDING_RUNTIME"
      /\ RO!Ordinary(r) \/ rooms[r].attempt = "WAITING"
      /\ rooms' = [rooms EXCEPT ![r] = [@ EXCEPT !.match = "START_PENDING_RUNTIME", !.attempt = attempt]]
      /\ scheduled' = RO!Schedule(r, "RUNNING")
      /\ UNCHANGED <<people, places, swaps>>
  BY DEF RO!PrepareMatch
<1>2. rooms \in [RoomIds -> RoomRecords]
  BY DEF RoomsInv, RowTypes
<1>3. attempt \in {"none", "COMPLETED", "TERMINATED"} \cup RO!ActiveAttempt
  BY <1>2 DEF RoomRecords, RO!ActiveAttempt, RO!Attempt
<1>4. IF RO!Ordinary(r) THEN attempt = rooms[r].attempt ELSE attempt = "RUNNING"
  BY DEF RO!Attempt
<1>. HIDE DEF attempt
<1>5. Becomes(r, "START_PENDING_RUNTIME", rooms[r].kind, "START_PENDING_RUNTIME", attempt)
  BY <1>1, <1>2, <1>3 DEF Becomes, RoomRecords, RO!ActiveStatuses
<1>6. RO!Forget(r, FALSE)
  BY <1>1 DEF RO!Forget
<1>7. "RUNNING" \in RO!ScheduleStates /\ "WAITING" \in RO!ActiveAttempt
  BY DEF RO!ScheduleStates, RO!ActiveAttempt
<1>8. Written(r, "START_PENDING_RUNTIME", attempt)
  BY <1>1, <1>4, <1>7, LinkedWritten
<1>. QED
  BY <1>1, <1>3, <1>5, <1>6, <1>8, StoredStep DEF RO!Unfinished, RO!ActiveStatuses

\* _commit: the match, the room and the attempt change together.
LEMMA CommitMatchStep ==
    ASSUME RoomsInv, NEW r \in RoomIds, NEW outcome \in RO!ActiveStatuses \cup RO!Terminal,
           RO!CommitMatch(r, outcome)
    PROVE  RoomsInv'
<1>. DEFINE attempt == RO!Attempt(r, RO!AttemptFor(outcome))
<1>1. /\ outcome \in RO!NextMatch(rooms[r].match)
      /\ ~RO!Ordinary(r) /\ outcome \in RO!ActiveAttempt => \A q \in RoomIds \ {r} :
            rooms[q].kind = rooms[r].kind => rooms[q].attempt \notin RO!ActiveAttempt
      /\ rooms' = [rooms EXCEPT ![r] =
            [@ EXCEPT !.match = outcome, !.status = outcome, !.attempt = attempt]]
      /\ scheduled' = RO!Schedule(r, RO!ScheduleFor(outcome))
      /\ RO!Forget(r, outcome \in RO!Terminal)
  BY DEF RO!CommitMatch
<1>2. rooms \in [RoomIds -> RoomRecords]
  BY DEF RoomsInv, RowTypes
<1>3. /\ rooms[r].match \in {"START_PENDING_RUNTIME", "RUNNING", "PAUSED"}
      /\ outcome \in {"RUNNING", "PAUSED", "FINISHED", "TERMINATED"}
  BY <1>1 DEF RO!NextMatch
<1>4. rooms[r].status # "none" /\ (~CloseRunning => rooms[r].status = rooms[r].match)
  BY <1>3 DEF RoomsInv, RowsAgree, RowAgrees
<1>5. /\ RO!AttemptFor(outcome) \in {"RUNNING", "PAUSED", "COMPLETED", "TERMINATED"}
      /\ outcome = "FINISHED" <=> RO!AttemptFor(outcome) = "COMPLETED"
      /\ outcome = "TERMINATED" <=> RO!AttemptFor(outcome) = "TERMINATED"
      /\ outcome \in {"RUNNING", "PAUSED"} <=> RO!AttemptFor(outcome) \in {"RUNNING", "PAUSED"}
      /\ RO!ScheduleFor(outcome) \in {"RUNNING", "PAUSED", "COMPLETED", "INCOMPLETE"}
      /\ RO!ScheduleFor(outcome) = "COMPLETED" <=> outcome = "FINISHED"
  BY <1>3 DEF RO!AttemptFor, RO!ScheduleFor
<1>6. attempt \in {"none", "COMPLETED", "TERMINATED"} \cup RO!ActiveAttempt
  BY <1>2, <1>5 DEF RoomRecords, RO!ActiveAttempt, RO!Attempt
<1>7. IF RO!Ordinary(r) THEN attempt = rooms[r].attempt ELSE attempt = RO!AttemptFor(outcome)
  BY DEF RO!Attempt
<1>. HIDE DEF attempt
<1>8. Becomes(r, outcome, rooms[r].kind, outcome, attempt)
  BY ZenonT(60), <1>1, <1>2, <1>6 DEF Becomes, RoomRecords, RO!Unfinished
<1>9. Written(r, outcome, attempt)
  <2>1. RO!ScheduleFor(outcome) \in RO!ScheduleStates
    BY <1>5 DEF RO!ScheduleStates
  <2>2. ~RO!Ordinary(r) =>
            /\ attempt # "none"
            /\ outcome = "FINISHED" <=> attempt = "COMPLETED"
            /\ outcome = "TERMINATED" <=> attempt = "TERMINATED"
            /\ RO!ScheduleFor(outcome) = "COMPLETED" <=> attempt = "COMPLETED"
    BY <1>5, <1>7
  <2>3. ~RO!Ordinary(r) /\ attempt \in RO!ActiveAttempt => \A q \in RoomIds \ {r} :
            rooms[q].kind = rooms[r].kind => rooms[q].attempt \notin RO!ActiveAttempt
    BY <1>1, <1>3, <1>5, <1>7 DEF RO!ActiveAttempt
  <2>. QED BY <1>1, <1>7, <2>1, <2>2, <2>3, LinkedWritten
<1>10. /\ ~CloseRunning => rooms[r].status \in RO!Unfinished /\ rooms[r].status \in RO!ActiveStatuses
       /\ outcome \in {"none"} \cup RO!ActiveStatuses \cup RO!Terminal
  BY <1>3, <1>4 DEF RO!Unfinished, RO!ActiveStatuses
<1>11. \E over \in BOOLEAN : (over => outcome \in RO!Terminal) /\ RO!Forget(r, over)
  <2>. WITNESS (outcome \in RO!Terminal) \in BOOLEAN
  <2>. QED BY <1>1
<1>. QED BY <1>4, <1>6, <1>8, <1>9, <1>10, <1>11, StoredStep

\* terminate_room: before the match, or (CloseRunning) whatever it does.
LEMMA TerminateRoomStep ==
    ASSUME RoomsInv, NEW r \in RoomIds, RO!TerminateRoom(r)
    PROVE  RoomsInv'
<1>. DEFINE attempt == RO!Attempt(r, "TERMINATED")
            over == rooms[r].match \in {"none"} \cup RO!Terminal
<1>1. /\ rooms[r].status \in RO!Unfinished /\ (~CloseRunning => rooms[r].match = "none")
      /\ rooms' = [rooms EXCEPT ![r] = [@ EXCEPT !.status = "TERMINATED", !.attempt = attempt]]
      /\ scheduled' = RO!Schedule(r, "INCOMPLETE")
      /\ RO!Forget(r, over)
  BY DEF RO!TerminateRoom
<1>2. rooms \in [RoomIds -> RoomRecords]
  BY DEF RoomsInv, RowTypes
<1>3. attempt \in {"none", "COMPLETED", "TERMINATED"} \cup RO!ActiveAttempt
  BY <1>2 DEF RoomRecords, RO!Attempt
<1>4. IF RO!Ordinary(r) THEN attempt = rooms[r].attempt ELSE attempt = "TERMINATED"
  BY DEF RO!Attempt
<1>5. over \in BOOLEAN
  OBVIOUS
<1>. HIDE DEF attempt, over
<1>6. Becomes(r, "TERMINATED", rooms[r].kind, rooms[r].match, attempt)
  BY ZenonT(60), <1>1, <1>2, <1>3 DEF Becomes, RoomRecords, RO!Terminal
<1>7. "INCOMPLETE" \in RO!ScheduleStates /\ "TERMINATED" \notin RO!ActiveAttempt
  BY DEF RO!ScheduleStates, RO!ActiveAttempt
<1>8. Written(r, "TERMINATED", attempt)
  BY <1>1, <1>4, <1>7, LinkedWritten
<1>9. /\ rooms[r].match \in {"none"} \cup RO!ActiveStatuses \cup RO!Terminal
      /\ rooms[r].status # "none" /\ "TERMINATED" \in RO!Terminal
      /\ "TERMINATED" \notin RO!ActiveStatuses
  BY <1>1, <1>2 DEF RoomRecords, RO!Unfinished, RO!ActiveStatuses, RO!Terminal
<1>. QED BY <1>1, <1>3, <1>5, <1>6, <1>8, <1>9, StoredStep

\* leave_room: before the match the seat is given up, and the room is handed on
\* or ends with its last member; a debater of a match stays a member.
LEMMA LeaveRoomStep ==
    ASSUME RoomsInv, NEW r \in RoomIds, NEW u \in Users, RO!LeaveRoom(u, r)
    PROVE  RoomsInv'
<1>1. /\ rooms[r].status \in RO!Unfinished /\ RO!Here(r, u) /\ scheduled' = scheduled
      /\ rooms[r].status # "none"
  BY DEF RO!LeaveRoom, RO!Unfinished, RO!ActiveStatuses
<1>2. rooms \in [RoomIds -> RoomRecords] /\ swaps \in [RoomIds -> SUBSET RO!SwapRequests]
  BY DEF RoomsInv, RowTypes
<1>3. CASE /\ ~RO!FixedSeats(r) /\ RO!Waiting(r)
           /\ \/ rooms[r].owner # u /\ UNCHANGED rooms
              \/ /\ rooms[r].owner = u
                 /\ \E v \in Users \ {u} : RO!Here(r, v) /\ rooms' = [rooms EXCEPT ![r].owner = v]
           /\ swaps' = [swaps EXCEPT ![r] = RO!WithoutSwaps(r, u)]
           /\ RO!Vacate(u, r)
           /\ people' = RO!SetMember(r, u, "none")
  <2>1. Becomes(r, rooms[r].status, rooms[r].kind, rooms[r].match, rooms[r].attempt)
    <3>1. CASE UNCHANGED rooms
      BY <1>2, <3>1 DEF Becomes
    <3>2. ASSUME NEW v \in Users, rooms' = [rooms EXCEPT ![r].owner = v]
          PROVE  Becomes(r, rooms[r].status, rooms[r].kind, rooms[r].match, rooms[r].attempt)
      BY <1>2, <3>2 DEF Becomes, RoomRecords
    <3>. QED BY <1>3, <3>1, <3>2
  <2>. QED BY <1>1, <1>3, <2>1, StepBackStep
<1>4. CASE /\ ~RO!FixedSeats(r) /\ RO!Waiting(r)
           /\ rooms' = RO!SetStatus(r, "TERMINATED") /\ RO!Forget(r, TRUE)
  <2>1. rooms[r].match = "none" /\ (rooms[r].kind # "ORDINARY" => rooms[r].attempt = "WAITING")
    BY <1>4 DEF RoomsInv, RowsAgree, RowAgrees, RO!Waiting
  <2>2. Becomes(r, "TERMINATED", rooms[r].kind, "none", rooms[r].attempt)
    BY <1>2, <1>4, <2>1 DEF Becomes, RO!SetStatus, RoomRecords, RO!Terminal
  <2>3. rooms[r].attempt \in {"none", "COMPLETED", "TERMINATED"} \cup RO!ActiveAttempt
    BY <1>2 DEF RoomRecords
  <2>4. Written(r, "TERMINATED", rooms[r].attempt)
    BY <1>1, <1>4, <2>1 DEF Written, RO!FixedSeats
  <2>. QED
    BY <1>1, <1>4, <2>2, <2>3, <2>4, StoredStep DEF RO!ActiveStatuses, RO!Terminal
<1>5. CASE /\ ~RO!FixedSeats(r) /\ ~RO!Waiting(r)
           /\ people' = RO!SetMember(r, u, IF people[r][u] = "SPECTATOR" THEN "none" ELSE "DEBATER")
           /\ UNCHANGED <<rooms, places, swaps>>
  BY <1>1, <1>2, <1>5, MembersStep DEF RO!Debates, RO!MemberStates
<1>6. CASE /\ RO!FixedSeats(r) /\ people' = RO!SetMember(r, u, "none")
           /\ UNCHANGED <<rooms, places, swaps>>
  <2>. ~RO!Ordinary(r)
    BY <1>6 DEF RO!FixedSeats, RO!Ordinary
  <2>. QED BY <1>1, <1>2, <1>6, MembersStep DEF RO!MemberStates
<1>. QED BY <1>3, <1>4, <1>5, <1>6 DEF RO!LeaveRoom

-----------------------------------------------------------------------------
(* The rooms: the theorems *)

\* No room has been opened.
LEMMA RoomsInit == RO!Init => RoomsInv
<1>. SUFFICES ASSUME RO!Init PROVE RoomsInv
  OBVIOUS
<1>1. RowTypes
  BY DEF RO!Init, RowTypes, RoomRecords, RO!NoRoom, RO!Absent, RO!AllEmpty, RO!MemberStates,
         RO!Kinds, RO!ScheduleStates
<1>2. RowsAgree
  BY DEF RO!Init, RowsAgree, RowAgrees, RO!NoRoom, RO!Absent
<1>3. CapacityCounted
  <2>1. RO!ActiveRooms = {}
    BY DEF RO!Init, RO!ActiveRooms, RO!NoRoom, RO!ActiveStatuses
  <2>. QED BY <2>1, FS_EmptySet, RoomsAssumption DEF CapacityCounted
<1>4. OpenOnce /\ ActiveOnce /\ CountedOnce
  BY DEF RO!Init, OpenOnce, InOpen, RO!NoRoom, RO!Unfinished, RO!ActiveStatuses, ActiveOnce,
         CountedOnce, Counts, Active, Completed, RO!ActiveAttempt, RO!Kinds
<1>5. SeatedOnce /\ SeatedDebate
  BY RoomsAssumption DEF RO!Init, SeatedOnce, SeatedDebate, RO!AllEmpty
<1>. QED BY <1>1, <1>2, <1>3, <1>4, <1>5 DEF RoomsInv

\* Every operation on rooms keeps the invariant.
LEMMA RoomsStep == RoomsInv /\ RO!Next => RoomsInv'
<1>. SUFFICES ASSUME RoomsInv, NEW r \in RoomIds,
        \/ RO!StartRoom(r) \/ RO!PrepareMatch(r)
        \/ \E outcome \in RO!ActiveStatuses \cup RO!Terminal : RO!CommitMatch(r, outcome)
        \/ RO!TerminateRoom(r)
        \/ \E q \in swaps[r], accepted \in BOOLEAN : RO!AnswerSwap(r, q, accepted)
        \/ \E u \in Users :
            \/ RO!CreateRoom(u, r)
            \/ \E role \in {"DEBATER", "SPECTATOR"} : RO!JoinRoom(u, r, role)
            \/ RO!WatchFormal(u, r)
            \/ \E s \in Chairs : RO!SelectSeat(u, r, s)
            \/ RO!ChangeRole(u, r) \/ RO!Ready(u, r) \/ RO!NotReady(u, r)
            \/ \E v \in Users : RO!RequestSwap(u, v, r)
            \/ RO!LeaveRoom(u, r) \/ RO!EnterOpenAttempt(u, r)
            \/ \E kind \in RO!Kinds : RO!CreateAttempt(u, r, kind)
                PROVE  RoomsInv'
  BY DEF RO!Next
<1>1. CASE RO!StartRoom(r) \/ RO!PrepareMatch(r) \/ RO!TerminateRoom(r)
  BY <1>1, StartRoomStep, PrepareMatchStep, TerminateRoomStep
<1>2. CASE \E outcome \in RO!ActiveStatuses \cup RO!Terminal : RO!CommitMatch(r, outcome)
  BY <1>2, CommitMatchStep
<1>3. CASE \/ \E q \in swaps[r], accepted \in BOOLEAN : RO!AnswerSwap(r, q, accepted)
           \/ \E u, v \in Users : RO!RequestSwap(u, v, r)
  BY <1>3, SwapSteps
<1>4. CASE \E u \in Users : RO!CreateRoom(u, r) \/ \E kind \in RO!Kinds : RO!CreateAttempt(u, r, kind)
  BY <1>4, CreateRoomStep, CreateAttemptStep
<1>5. CASE \E u \in Users : \/ \E role \in {"DEBATER", "SPECTATOR"} : RO!JoinRoom(u, r, role)
                            \/ RO!WatchFormal(u, r) \/ RO!Ready(u, r) \/ RO!NotReady(u, r)
                            \/ RO!EnterOpenAttempt(u, r)
  BY <1>5, JoinSteps
<1>6. CASE \E u \in Users : \E s \in Chairs : RO!SelectSeat(u, r, s)
  BY <1>6, SelectSeatStep
<1>7. CASE \E u \in Users : RO!ChangeRole(u, r) \/ RO!LeaveRoom(u, r)
  BY <1>7, ChangeRoleStep, LeaveRoomStep
<1>. QED BY <1>1, <1>2, <1>3, <1>4, <1>5, <1>6, <1>7

\* Nothing but the rows decides the invariant.
LEMMA RoomsStutter == RoomsInv /\ UNCHANGED ofRooms => RoomsInv'
BY DEF ofRooms, RoomsInv, RowTypes, RowsAgree, RowAgrees, CapacityCounted, OpenOnce, ActiveOnce, CountedOnce,
       SeatedOnce, SeatedDebate, InOpen, Counts, Active, Completed, RO!ActiveRooms, RO!Ordinary,
       RO!Here, RO!Debates, RO!Abandoned

\* The inductive invariant of the rooms holds in every reachable state.
LEMMA RoomsInvariant == MCSpec => []RoomsInv
<1>1. MCInit => RoomsInv
  BY RoomsInit DEF MCInit
<1>2. RoomsInv /\ [MCNext]_MCvars => RoomsInv'
  BY RoomsStep, RoomsStutter DEF MCNext, OfPresence, OfRooms, MCvars
<1>. QED BY <1>1, <1>2, PTL DEF MCSpec

\* Pairwise equal elements are at most one.
LEMMA AtMostOne ==
    ASSUME NEW S, \A x, y \in S : x = y
    PROVE  RO!Cardinality(S) <= 1
<1>1. CASE S = {}
  BY <1>1, FS_EmptySet, SameCardinality
<1>2. ASSUME NEW x \in S PROVE RO!Cardinality(S) <= 1
  <2>1. S = {x}
    BY <1>2
  <2>2. Cardinality(S) = 1
    BY <2>1, FS_Singleton
  <2>. QED BY <2>2, SameCardinality
<1>. QED BY <1>1, <1>2

\* join_room and create_room: a user is in one ordinary room at a time, however
\* joining, leaving, succession and the end of matches interleave.
THEOREM OneRoomPerUser == ~CloseRunning => (MCSpec => []OneOpenRoom)
<1>. SUFFICES ASSUME ~CloseRunning PROVE MCSpec => []OneOpenRoom
  OBVIOUS
<1>1. RoomsInv => OneOpenRoom
  <2>. SUFFICES ASSUME RoomsInv, NEW u \in Users
                PROVE  RO!Cardinality({r \in RoomIds : /\ RO!Ordinary(r) /\ rooms[r].status \in RO!Unfinished
                                                       /\ RO!Here(r, u)}) <= 1
    BY DEF OneOpenRoom, RO!OneOpenRoom
  <2>. DEFINE S == {r \in RoomIds : /\ RO!Ordinary(r) /\ rooms[r].status \in RO!Unfinished
                                    /\ RO!Here(r, u)}
  <2>1. \A q, r \in S : q = r
    BY DEF RoomsInv, OpenOnce, InOpen
  <2>. HIDE DEF S
  <2>2. RO!Cardinality(S) <= 1
    BY <2>1, AtMostOne
  <2>. QED BY <2>2 DEF S
<1>. QED BY <1>1, RoomsInvariant, PTL

\* start_room: no more matches run or are paused than there is capacity for,
\* and no later change of a room's status takes a place that was not counted.
THEOREM CapacityNeverExceeded == ~CloseRunning => (MCSpec => []CapacityHeld)
<1>. SUFFICES ASSUME ~CloseRunning PROVE MCSpec => []CapacityHeld
  OBVIOUS
<1>1. RoomsInv => CapacityHeld
  <2>. SUFFICES ASSUME RoomsInv PROVE CapacityHeld
    OBVIOUS
  <2>. DEFINE S == {r \in RoomIds : rooms[r].status \in {"RUNNING", "PAUSED"}}
  <2>1. S \subseteq RO!ActiveRooms /\ IsFiniteSet(RO!ActiveRooms)
    BY FS_Subset, RoomsAssumption DEF RO!ActiveRooms, RO!ActiveStatuses
  <2>2. /\ Cardinality(S) <= Cardinality(RO!ActiveRooms)
        /\ Cardinality(S) \in Nat /\ Cardinality(RO!ActiveRooms) \in Nat
    BY <2>1, FS_Subset, FS_CardinalityType
  <2>3. Cardinality(S) <= Capacity
    BY <2>2, RoomsAssumption DEF RoomsInv, CapacityCounted
  <2>. QED BY <2>3, SameCardinality DEF CapacityHeld, RO!CapacityHeld
<1>. QED BY <1>1, RoomsInvariant, PTL

\* select_seat, swaps, change of role and departure: nobody sits twice, and who
\* sits in an ordinary room debates there, whoever closes rooms and when.
THEOREM SeatsBelongToDebaters == MCSpec => []SeatsAreTaken
<1>1. RoomsInv => SeatsAreTaken
  BY DEF RoomsInv, SeatedOnce, SeatedDebate, SeatsAreTaken, RO!SeatsAreTaken, RO!SeatOf
<1>. QED BY <1>1, RoomsInvariant, PTL

\* A room with an attempt is one of a scheduled match.
LEMMA LinkedRooms ==
    ASSUME RoomsInv, NEW r \in RoomIds
    PROVE  /\ ~RO!Ordinary(r) <=> rooms[r].kind \in RO!Kinds
           /\ rooms[r].attempt # "none" => ~RO!Ordinary(r)
BY DEF RoomsInv, RowTypes, RowsAgree, RowAgrees, RoomRecords, RO!Ordinary, RO!Kinds

\* The row of an attempt against that of its room.
LEMMA RowsMatch == RoomsInv => RO!OutcomesMatch
<1>. SUFFICES ASSUME RoomsInv PROVE RO!OutcomesMatch
  OBVIOUS
<1>. DEFINE linked == {r \in RoomIds : ~RO!Ordinary(r)}
<1>1. \A r \in linked :
        /\ rooms[r].status = "FINISHED" <=> rooms[r].attempt = "COMPLETED"
        /\ rooms[r].status = "TERMINATED" <=> rooms[r].attempt = "TERMINATED" \/ RO!Abandoned(r)
  BY DEF RoomsInv, RowsAgree, RowAgrees, RO!Ordinary
<1>2. ASSUME NEW q \in linked, NEW r \in linked, rooms[q].kind = rooms[r].kind,
             {rooms[q].attempt, rooms[r].attempt} \subseteq RO!ActiveAttempt
      PROVE  q = r
  <2>1. rooms[r].kind \in RO!Kinds
    BY LinkedRooms
  <2>2. Active(rooms[r].kind, q) /\ Active(rooms[r].kind, r)
    BY <1>2 DEF Active
  <2>. QED BY <2>1, <2>2 DEF RoomsInv, ActiveOnce
<1>. QED BY <1>1, <1>2 DEF RO!OutcomesMatch

\* enter_scheduled_match, terminate_room, leave_room and _commit: whoever closes
\* rooms and when, a room of a scheduled match and its attempt agree on the
\* outcome, but for the training room its organizer left, and no match has two
\* active attempts. As long as no room is closed during its match, a formal match
\* has one attempt that counts and the schedule agrees with it; after that a
\* second attempt may be open beside the one that goes on.
THEOREM OutcomesAgree ==
    /\ MCSpec => []RO!OutcomesMatch
    /\ ~CloseRunning => (MCSpec => []AttemptsAgree)
<1>1. MCSpec => []RO!OutcomesMatch
  BY RowsMatch, RoomsInvariant, PTL
<1>2. ASSUME ~CloseRunning PROVE MCSpec => []AttemptsAgree
  <2>1. RoomsInv => AttemptsAgree
    <3>. SUFFICES ASSUME RoomsInv PROVE AttemptsAgree
      OBVIOUS
    <3>. DEFINE completed(kind) == {r \in RoomIds : rooms[r].kind = kind /\ rooms[r].attempt = "COMPLETED"}
                active(kind) == {r \in RoomIds : rooms[r].kind = kind /\ rooms[r].attempt \in RO!ActiveAttempt}
                both == completed("FORMAL") \cup active("FORMAL")
    <3>1. \A q, r \in both : q = r
      BY <1>2 DEF RoomsInv, CountedOnce, Counts, Active, Completed
    <3>2. /\ scheduled["FORMAL"] = "COMPLETED" <=> completed("FORMAL") # {}
          /\ scheduled["TRAINING"] = "COMPLETED" => completed("TRAINING") # {}
      BY <1>2 DEF RoomsInv, CountedOnce, Completed
    <3>3. RO!Cardinality(both) <= 1
      <4>. HIDE DEF both
      <4>. QED BY <3>1, AtMostOne
    <3>. QED BY <3>2, <3>3, RowsMatch DEF AttemptsAgree, RO!AttemptsAgree
  <2>. QED BY <2>1, RoomsInvariant, PTL
<1>. QED BY <1>1, <1>2

\* The rows of rooms, members, seats, exchanges and the schedule keep their
\* types, and so does the connection of a participant.
THEOREM ParticipantTypes == MCSpec => []MCTypeOK
<1>1. MCInit => IInv
  BY InvInit DEF MCInit
<1>2. IInv /\ [MCNext]_MCvars => IInv'
  <2>1. [MCNext]_MCvars => [Next]_vars
    BY DEF MCNext, MCvars, OfPresence, OfRooms
  <2>. QED BY <2>1, InvStep
<1>3. IInv /\ RoomsInv => MCTypeOK
  <2>1. RoomsInv => RO!RoomsTypeOK
    BY DEF RoomsInv, RowTypes, RoomRecords, RO!RoomsTypeOK
  <2>. QED BY <2>1 DEF IInv, MCTypeOK
<1>4. MCSpec => []IInv
  BY <1>1, <1>2, PTL DEF MCSpec
<1>. QED BY <1>3, <1>4, RoomsInvariant, PTL
=============================================================================
