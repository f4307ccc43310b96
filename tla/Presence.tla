------------------------------ MODULE Presence ------------------------------
(* The presence of one debater in one match: the single active connection    *)
(* lease and its epoch high-water in PostgreSQL, the WebSocket handlers that  *)
(* acquire and release it, the LiveKit webhooks that report media, the        *)
(* coordinator that combines both under its lock and announces the result,    *)
(* and the actor that admits or refuses the announcement.                     *)
(*                                                                            *)
(* A connection is identified by its epoch. A transition of the coordinator   *)
(* is two steps, its transaction and its announcement, with the lock held in  *)
(* between: everything outside the coordinator may move there.                *)
EXTENDS Integers, FiniteSets, FiniteSetsExt

CONSTANTS
    MaxEpoch,   \* bound: connections of the user
    Sids,       \* LiveKit session ids a connection may use, one after another
    MaxIncidents \* bound: failures, crashes, logouts, repeated webhooks, matches elsewhere, the end

ASSUME BoundAssumption == MaxEpoch \in Nat \ {0} /\ MaxIncidents \in Nat

VARIABLES
    \* the database
    highWater,  \* room_connections.connection_epoch, 0 before the first row
    lease,      \* the epoch of the user's lease in this room, 0 when there is none
    member,     \* room_members.online
    authed,     \* the user has a valid session
    \* browsers, WebSocket handlers and LiveKit
    entering,   \* a handshake is past authentication and before its lease
    conn,       \* of each epoch: how far its WebSocket handler is
    tokens,     \* epochs a LiveKit token was issued for
    part,       \* of each participant: "new", "in" or "out" of the LiveKit room
    hooks,      \* webhooks to be delivered
    \* the coordinator
    sock,       \* epochs in _websocket
    media,      \* participants in _media
    seen,       \* _seen_events
    online,     \* _online_state: "none", "on", "off"
    announced,  \* _announced_epoch, 0 when there is none
    closed,     \* the match is in _closed_matches
    call,       \* the transition that holds the lock
    revoking,   \* a request is about to call revoke_user
    \* the actor
    status,     \* what the match admits
    known,      \* connection_epochs of the user, 0 when there is none
    absent,     \* the user is in _offline_users
    since,      \* the user is in offline_since_ms
    \* histories and bounds
    taken,      \* the actor took the last announcement
    incidents   \* how often each kind of incident has happened

db == <<highWater, lease, member, authed>>
outside == <<entering, conn, tokens, part, hooks>>
members == <<sock, media, seen>>
told == <<online, announced>>
coordinator == <<members, told, closed, call, revoking>>
actor == <<status, known, absent, since>>
vars == <<db, outside, coordinator, actor, taken, incidents>>

Epochs == 1..MaxEpoch
Participants == Epochs \X Sids
Hooks == [joined: BOOLEAN, who: Participants]
\* "fallbackOn" and "fallbackOff": the coordinator failed, the handler speaks to the actor.
ConnStates == {"none", "opening", "open", "degraded", "closing", "stale",
               "fallbackOn", "fallbackOff", "closed"}
\* RUNNING, PAUSED, the resume countdown, SYSTEM_RECOVERY or ERROR or a
\* pending emergency operation, FINISHED or TERMINATED.
Statuses == {"running", "paused", "resuming", "refusing", "over"}

Kinds == {"fault", "crash", "logout", "repeat", "elsewhere", "refuse", "end"}

NoCall == [kind |-> "none", epoch |-> 0, online |-> FALSE, conn |-> 0, hook |-> {},
           sock |-> {}, media |-> {}]

TypeOK ==
    /\ highWater \in 0..MaxEpoch
    /\ lease \in {0, highWater}
    /\ member \in BOOLEAN /\ authed \in BOOLEAN /\ entering \in BOOLEAN
    /\ conn \in [Epochs -> ConnStates]
    /\ \A e \in Epochs : conn[e] = "none" <=> e > highWater
    /\ tokens \subseteq 1..highWater
    /\ part \in [Participants -> {"new", "in", "out"}]
    /\ hooks \subseteq Hooks /\ seen \subseteq Hooks
    /\ sock \subseteq 1..highWater
    /\ media \subseteq tokens \X Sids
    /\ online \in {"none", "on", "off"}
    /\ announced \in 0..highWater
    /\ closed \in BOOLEAN /\ revoking \in BOOLEAN
    /\ call.kind \in {"none", "join", "left", "media", "revoke"}
    /\ status \in Statuses
    /\ known \in 0..highWater
    /\ absent \in BOOLEAN /\ since \in BOOLEAN
    /\ taken \in BOOLEAN

Init ==
    /\ highWater = 0 /\ lease = 0 /\ member = TRUE /\ authed = TRUE
    /\ entering = FALSE /\ conn = [e \in Epochs |-> "none"]
    /\ tokens = {} /\ part = [p \in Participants |-> "new"] /\ hooks = {}
    /\ sock = {} /\ media = {} /\ seen = {}
    /\ online = "none" /\ announced = 0 /\ closed = FALSE
    /\ call = NoCall /\ revoking = FALSE
    /\ status = "running" /\ known = 0 /\ absent = FALSE /\ since = FALSE
    /\ taken = TRUE /\ incidents = [k \in Kinds |-> 0]

Incident(kind) ==
    /\ MapThenSumSet(LAMBDA k : incidents[k], Kinds) < MaxIncidents
    /\ incidents' = [incidents EXCEPT ![kind] = @ + 1]

-----------------------------------------------------------------------------
(* What the actor does with a report *)

\* MatchActor._process before the handlers, for the two member commands.
Admitted(isOnline) ==
    \/ status = "running"
    \/ isOnline /\ status \in {"paused", "resuming"}

\* Mutant: a newer epoch alone is no reason to store the state.
ReportedChange(isOnline, epoch) ==
    IF epoch < known \/ absent = ~isOnline
    THEN UNCHANGED <<known, absent, since>>
    ELSE /\ known' = epoch
         /\ absent' = ~isOnline
         /\ since' = IF isOnline /\ ~absent THEN since ELSE ~isOnline

\* _member_online and _member_offline: a report of an older epoch changes nothing.
Reported(isOnline, epoch) ==
    IF epoch < known
    THEN UNCHANGED <<known, absent, since>>
    ELSE /\ known' = epoch
         /\ absent' = ~isOnline
         /\ since' = IF isOnline /\ ~absent THEN since ELSE ~isOnline

-----------------------------------------------------------------------------
(* The coordinator *)

\* Mutant: what was announced need not have been online.
CompleteOnceAnnounced(sk, md) ==
    {e \in {lease} \ {0} : e \in sk /\ \E s \in Sids : <<e, s>> \in md}
    \cup {e \in {announced} \ {0} : \E s \in Sids : <<e, s>> \in md}

\* _complete_epochs: the epochs on which the user is there with both channels,
\* and the announced one as long as its media lasts.
Complete(sk, md) ==
    {e \in {lease} \ {0} : e \in sk /\ \E s \in Sids : <<e, s>> \in md}
    \cup {e \in {announced} \ {0} : online = "on" /\ \E s \in Sids : <<e, s>> \in md}

\* _transition up to the announcement: the transaction reads the match and the
\* lease and writes the member; then the lock is kept if there is news.
Transition(kind, epoch, hook, sk, md) ==
    LET complete == Complete(sk, md)
        active   == {lease} \ {0}
        isOnline == complete # {}
        evt      == IF isOnline THEN Max(complete) ELSE Max({epoch, announced} \cup active)
        old      == IF kind = "revoke" THEN <<sk, md>> ELSE <<sock, media>>
        this     == [kind |-> kind, epoch |-> evt, online |-> isOnline, conn |-> epoch,
                     hook |-> hook, sock |-> old[1], media |-> old[2]]
    IN  IF status = "over"
        THEN /\ closed' = TRUE
             /\ sock' = {} /\ media' = {} /\ seen' = {}
             /\ online' = "none" /\ announced' = 0
             /\ call' = NoCall
             /\ UNCHANGED member
        ELSE /\ member' = isOnline
             /\ sock' = sk /\ media' = md
             /\ seen' = seen \cup hook
             /\ call' = IF online = (IF isOnline THEN "on" ELSE "off") /\ evt <= announced
                        THEN NoCall ELSE this
             /\ UNCHANGED <<closed, told>>

\* The handler that waited for the coordinator goes on when no announcement is due.
Settled(e, next) == conn' = IF call' = NoCall THEN [conn EXCEPT ![e] = next] ELSE conn

Free == call = NoCall

\* websocket_joined
WebsocketJoined(e) ==
    /\ Free /\ conn[e] = "opening"
    /\ IF closed
       THEN UNCHANGED <<members, told, closed, call, member>> /\ Settled(e, "open")
       ELSE Transition("join", e, {}, sock \cup {e}, media) /\ Settled(e, "open")
    /\ UNCHANGED <<highWater, lease, authed, entering, tokens, part, hooks, revoking, actor,
                   taken, incidents>>

\* Mutant: all the sockets of the user are dropped.
WebsocketLeftForAll(e) ==
    /\ Free /\ conn[e] \in {"closing", "stale"}
    /\ IF closed
       THEN UNCHANGED <<members, told, closed, call, member>> /\ Settled(e, "closed")
       ELSE Transition("left", e, {}, {}, media) /\ Settled(e, "closed")
    /\ UNCHANGED <<highWater, lease, authed, entering, tokens, part, hooks, revoking, actor,
                   taken, incidents>>

\* websocket_left
WebsocketLeft(e) ==
    /\ Free /\ conn[e] \in {"closing", "stale"}
    /\ IF closed
       THEN UNCHANGED <<members, told, closed, call, member>> /\ Settled(e, "closed")
       ELSE Transition("left", e, {}, sock \ {e}, media) /\ Settled(e, "closed")
    /\ UNCHANGED <<highWater, lease, authed, entering, tokens, part, hooks, revoking, actor,
                   taken, incidents>>

\* media_event, from a signed webhook; LiveKit may deliver it again.
MediaEvent(h) ==
    /\ Free /\ h \in hooks
    /\ \/ hooks' = hooks \ {h} /\ UNCHANGED incidents
       \/ hooks' = hooks /\ Incident("repeat")
    /\ IF closed \/ h \in seen
       THEN UNCHANGED <<members, told, closed, call, member>>
       ELSE Transition("media", h.who[1], {h}, sock,
                       IF h.joined THEN media \cup {h.who} ELSE media \ {h.who})
    /\ UNCHANGED <<highWater, lease, authed, entering, conn, tokens, part, revoking, actor,
                   taken>>

\* revoke_user, called by the request that invalidated the sessions.
RevokeUser ==
    /\ Free /\ revoking
    /\ revoking' = FALSE
    /\ IF sock = {} /\ media = {}
       THEN UNCHANGED <<members, told, closed, call, member>>
       ELSE Transition("revoke", 0, {}, {}, {})
    /\ UNCHANGED <<highWater, lease, authed, outside, actor, taken, incidents>>

\* What becomes of the handler when its transition ends well.
Returned == conn' = CASE call.kind = "join" -> [conn EXCEPT ![call.conn] = "open"]
                      [] call.kind = "left" -> [conn EXCEPT ![call.conn] = "closed"]
                      [] OTHER -> conn

\* The end of _transition. A refusal by the actor is swallowed: the coordinator
\* remembers having announced.
Remembered ==
    /\ online' = IF call.online THEN "on" ELSE "off"
    /\ announced' = Max({announced, call.epoch})

\* The announcement reaches the actor.
Announce ==
    /\ ~Free
    /\ IF Admitted(call.online)
       THEN Reported(call.online, call.epoch) /\ taken' = TRUE
       ELSE UNCHANGED <<known, absent, since>> /\ taken' = FALSE
    /\ Remembered
    /\ Returned
    /\ call' = NoCall
    /\ UNCHANGED <<db, entering, tokens, part, hooks, members, closed, revoking, status, incidents>>

\* The command fails otherwise (its transaction, most likely): the membership
\* is restored, the webhook is answered 503 and comes again, the handler of a
\* WebSocket falls back to a command of its own.
AnnounceFails ==
    /\ ~Free /\ Incident("fault")
    /\ sock' = call.sock /\ media' = call.media
    /\ seen' = seen \ call.hook
    /\ hooks' = hooks \cup call.hook
    /\ conn' = CASE call.kind = "join" -> [conn EXCEPT ![call.conn] = "fallbackOn"]
                 [] call.kind = "left" -> [conn EXCEPT ![call.conn] =
                                           IF @ = "closing" THEN "fallbackOff" ELSE "closed"]
                 [] OTHER -> conn
    /\ call' = NoCall
    /\ taken' = FALSE
    /\ UNCHANGED <<db, entering, tokens, part, told, closed, revoking, actor>>

-----------------------------------------------------------------------------
(* The WebSocket handlers and the lease *)

\* match_events authenticates and reads the match; the lease comes later.
Enter ==
    /\ authed /\ ~entering /\ highWater < MaxEpoch
    /\ entering' = TRUE
    /\ UNCHANGED <<db, conn, tokens, part, hooks, coordinator, actor, taken, incidents>>

\* RoomConnectionService.acquire: the next epoch, every other lease deleted.
Acquire ==
    /\ entering /\ highWater < MaxEpoch
    /\ entering' = FALSE
    /\ highWater' = highWater + 1 /\ lease' = highWater + 1
    /\ conn' = [conn EXCEPT ![highWater + 1] = "opening"]
    /\ UNCHANGED <<member, authed, tokens, part, hooks, coordinator, actor, taken, incidents>>

\* Mutant: the lease of this room is left alone.
AcquireElsewhereBeside ==
    /\ authed /\ highWater < MaxEpoch /\ Incident("elsewhere")
    /\ highWater' = highWater + 1
    /\ conn' = [conn EXCEPT ![highWater + 1] = "closed"]
    /\ UNCHANGED <<lease, member, authed, entering, tokens, part, hooks, coordinator, actor, taken>>

\* The user opens the match of another room: the lease moves there.
AcquireElsewhere ==
    /\ authed /\ highWater < MaxEpoch /\ Incident("elsewhere")
    /\ highWater' = highWater + 1 /\ lease' = 0
    /\ conn' = [conn EXCEPT ![highWater + 1] = "closed"]
    /\ UNCHANGED <<member, authed, entering, tokens, part, hooks, coordinator, actor, taken>>

\* RoomConnectionService.release, when the socket closes:
\* only the handler that still holds the lease speaks for the user.
Release(e) ==
    /\ conn[e] \in {"open", "degraded"}
    /\ lease' = IF lease = e THEN 0 ELSE lease
    /\ conn' = [conn EXCEPT ![e] = IF lease = e THEN "closing" ELSE "stale"]
    /\ UNCHANGED <<highWater, member, authed, entering, tokens, part, hooks, coordinator, actor,
                   taken, incidents>>

\* The handler reports without the coordinator; a refusal is ignored.
Fallback(isOnline, e, from, to) ==
    /\ conn[e] = from
    /\ conn' = [conn EXCEPT ![e] = to]
    /\ IF Admitted(isOnline) THEN Reported(isOnline, e) ELSE UNCHANGED <<known, absent, since>>
    /\ UNCHANGED <<db, entering, tokens, part, hooks, coordinator, status, taken, incidents>>

FallbackOnline(e) == Fallback(TRUE, e, "fallbackOn", "degraded")
FallbackOffline(e) == Fallback(FALSE, e, "fallbackOff", "closed")

-----------------------------------------------------------------------------
(* Media *)

\* create_match_livekit_token for the connection that holds the lease.
IssueToken ==
    /\ authed /\ lease \notin tokens \cup {0}
    /\ tokens' = tokens \cup {lease}
    /\ UNCHANGED <<db, entering, conn, part, hooks, coordinator, actor, taken, incidents>>

\* The LiveKit client enters the room, or enters it again with a new session.
ParticipantJoins(p) ==
    /\ p[1] \in tokens /\ part[p] = "new"
    /\ part' = [part EXCEPT ![p] = "in"]
    /\ hooks' = hooks \cup {[joined |-> TRUE, who |-> p]}
    /\ UNCHANGED <<db, entering, conn, tokens, coordinator, actor, taken, incidents>>

ParticipantLeaves(p) ==
    /\ part[p] = "in"
    /\ part' = [part EXCEPT ![p] = "out"]
    /\ hooks' = hooks \cup {[joined |-> FALSE, who |-> p]}
    /\ UNCHANGED <<db, entering, conn, tokens, coordinator, actor, taken, incidents>>

-----------------------------------------------------------------------------
(* Sessions *)

\* Mutant: the row with the high-water is deleted with the leases.
RevokeSessionsAndRow ==
    /\ authed /\ ~revoking /\ Incident("logout")
    /\ highWater' = 0 /\ lease' = 0 /\ member' = FALSE
    /\ authed' \in BOOLEAN
    /\ revoking' = TRUE
    /\ UNCHANGED <<outside, members, told, closed, call, actor, taken>>

\* logout leaves no session, a change of password a new one: in one transaction
\* the leases are deleted and the member goes offline.
RevokeSessions ==
    /\ authed /\ ~revoking /\ Incident("logout")
    /\ lease' = 0 /\ member' = FALSE
    /\ authed' \in BOOLEAN
    /\ revoking' = TRUE
    /\ UNCHANGED <<highWater, outside, members, told, closed, call, actor, taken>>

Login ==
    /\ ~authed
    /\ authed' = TRUE
    /\ UNCHANGED <<highWater, lease, member, outside, coordinator, actor, taken, incidents>>

-----------------------------------------------------------------------------
(* The match and the process *)

Match(from, to) ==
    /\ status \in from
    /\ status' = to
    /\ UNCHANGED <<db, outside, coordinator, taken, incidents>>

Pause == Match({"running", "refusing"}, "paused") /\ UNCHANGED <<known, absent, since>>

\* offline.expired for the speaker: 60 seconds of absence.
OfflineExpired ==
    /\ absent
    /\ Match({"running"}, "paused")
    /\ since' = FALSE /\ UNCHANGED <<known, absent>>

\* match.resume forgets who is absent when its countdown begins.
Resume ==
    /\ Match({"paused", "refusing"}, "resuming")
    /\ absent' = FALSE /\ UNCHANGED <<known, since>>

Resumed == Match({"resuming"}, "running") /\ UNCHANGED <<known, absent, since>>

\* An error, or an emergency operation begins.
Refuse ==
    /\ status \in {"running", "paused", "resuming"} /\ Incident("refuse")
    /\ status' = "refusing"
    /\ UNCHANGED <<db, outside, coordinator, taken, known, absent, since>>

End ==
    /\ status # "over" /\ Incident("end")
    /\ status' = "over"
    /\ UNCHANGED <<db, outside, coordinator, taken, known, absent, since>>

\* jx-core dies and starts again: leases are cleared, members that held one go
\* offline, a match that ran needs recovery. Of the absent the row keeps those in
\* offline_since_ms, or else offline_user_id, this user or another.
Crash ==
    /\ Incident("crash")
    /\ lease' = 0
    /\ member' = (member /\ lease = 0)
    /\ entering' = FALSE
    /\ conn' = [e \in Epochs |-> IF conn[e] = "none" THEN "none" ELSE "closed"]
    /\ sock' = {} /\ media' = {} /\ seen' = {}
    /\ online' = "none" /\ announced' = 0 /\ closed' = FALSE
    /\ call' = NoCall /\ revoking' = FALSE
    /\ hooks' = hooks \cup call.hook
    /\ status' = CASE status = "running" -> "refusing"
                   [] status = "resuming" -> "paused"
                   [] OTHER -> status
    /\ absent' \in {since, since \/ absent}
    /\ taken' = TRUE
    /\ UNCHANGED <<highWater, authed, tokens, part, known, since>>

-----------------------------------------------------------------------------
Next ==
    \/ \E e \in Epochs :
        \/ WebsocketJoined(e) \/ WebsocketLeft(e) \/ Release(e)
        \/ FallbackOnline(e) \/ FallbackOffline(e)
    \/ \E h \in hooks : MediaEvent(h)
    \/ \E p \in Participants : ParticipantJoins(p) \/ ParticipantLeaves(p)
    \/ RevokeUser \/ Announce \/ AnnounceFails
    \/ Enter \/ Acquire \/ AcquireElsewhere \/ IssueToken
    \/ RevokeSessions \/ Login
    \/ Pause \/ OfflineExpired \/ Resume \/ Resumed \/ Refuse \/ End
    \/ Crash

Spec == Init /\ [][Next]_vars

-----------------------------------------------------------------------------
(* Properties *)

\* Nothing is on its way to the coordinator.
Idle ==
    /\ Free /\ hooks = {} /\ ~revoking /\ ~entering
    /\ \A e \in Epochs : conn[e] \in {"none", "open", "degraded", "closed"}

\* The connection that holds the lease is never outdated for the actor: neither
\* a release, a logout, another room nor a restart takes the epochs back
\* (RoomConnection is the high-water the leases are counted from).
LeaseIsNewest == lease # 0 => known <= lease /\ announced <= lease

\* A user whose socket holds the lease and whose media is in the room is
\* announced online on this very epoch, whatever older connections close late
\* and in whatever order the webhooks came. (revoke_user takes no epoch: one that
\* comes after a reconnection drops the new socket too, hence no invalidation.)
ConnectedIsOnline ==
    \A e \in Epochs : \A s \in Sids :
        (Idle /\ incidents.logout = 0 /\ ~closed /\ lease = e /\ conn[e] = "open"
            /\ <<e, s>> \in media)
            => online = "on" /\ announced = e

\* The actor and the coordinator do not drift apart: as long as the last
\* announcement was taken, a user announced online is present for the actor, on
\* the announced epoch.
AnnouncedIsKnown ==
    (Free /\ taken /\ online = "on" /\ status = "running")
        => known = announced /\ ~absent

\* The user of an invalidated session does not come back through media that is
\* still in the room or a handshake that was under way. (A restart, or the end
\* of the match, between the two halves of the invalidation leaves the flag that
\* the close of an old socket wrote.)
RevokedStaysOffline ==
    (Idle /\ ~authed /\ incidents.fault = 0 /\ status # "over" /\ incidents.crash = 0)
        => online # "on" /\ ~member
=============================================================================
