------------------------------- MODULE Rooms -------------------------------
(* Waiting rooms (rooms/service.py), the rooms of scheduled experiment       *)
(* matches (experiments/service.py) and what the match of a room writes back *)
(* to them (matches/service.py). Every operation is one transaction on a     *)
(* locked room row, so it is one action. Terms of participation, device      *)
(* checks and connections are abstracted to READY: a debater who is online,  *)
(* ready and holds a valid check. There are two scheduled matches, a formal  *)
(* one, whose seats are fixed, and a training one, whose room is an ordinary *)
(* one but for the attempt it is linked to. The rooms an administrator opens *)
(* for agents alone are not modelled: nobody sits in them.                   *)
EXTENDS Naturals, FiniteSets, Functions

CONSTANTS
    RoomIds,       \* the rooms that may be created, 1..n
    Users, Agents,
    Chairs,        \* the seats of a room
    FormalSeats,   \* who is to sit where in the scheduled matches (ScheduledSeat)
    Capacity,      \* active matches at once
    CloseRunning   \* whether a room is closed through its own API during its match

VARIABLES
    rooms,      \* Room: status, kind, organizer, and the status of its match and attempt
    people,     \* RoomMember of each room and user, "none" before they join and once they left
    places,     \* Seat: who sits on each seat
    swaps,      \* SeatSwapRequest: the pending ones of each room
    scheduled   \* ScheduledMatch: the status of the formal and of the training one

roomVars == <<rooms, people, places, swaps, scheduled>>

Empty == "EMPTY"
MemberStates == {"none", "SPECTATOR", "DEBATER", "READY"}
ActiveStatuses == {"START_PENDING_RUNTIME", "RUNNING", "PAUSED"}
Terminal == {"FINISHED", "TERMINATED"}
Unfinished == {"WAITING"} \cup ActiveStatuses
ActiveAttempt == {"WAITING", "RUNNING", "PAUSED"}
Kinds == {"FORMAL", "TRAINING"}
ScheduleStates == {"SCHEDULED", "RUNNING", "PAUSED", "COMPLETED", "INCOMPLETE"}

SwapRequests == [from : Users, to : Users, fromSeat : Chairs, toSeat : Chairs]
NoRoom == [status |-> "none", kind |-> "ORDINARY", owner |-> Empty,
           match |-> "none", attempt |-> "none"]
Absent == [u \in Users |-> "none"]
AllEmpty == [s \in Chairs |-> Empty]
AllFilled == CHOOSE layout \in Injection(Chairs, Agents) : TRUE

RoomsTypeOK ==
    /\ \A r \in RoomIds :
        /\ rooms[r].status \in {"none"} \cup Unfinished \cup Terminal
        /\ rooms[r].kind \in {"ORDINARY"} \cup Kinds
        /\ rooms[r].owner \in Users \cup {Empty}
        /\ rooms[r].match \in {"none"} \cup ActiveStatuses \cup Terminal
        /\ rooms[r].attempt \in {"none", "COMPLETED", "TERMINATED"} \cup ActiveAttempt
    /\ people \in [RoomIds -> [Users -> MemberStates]]
    /\ places \in [RoomIds -> [Chairs -> Users \cup Agents \cup {Empty}]]
    /\ swaps \in [RoomIds -> SUBSET SwapRequests]
    /\ scheduled \in [Kinds -> ScheduleStates]

Init ==
    /\ rooms = [r \in RoomIds |-> NoRoom]
    /\ people = [r \in RoomIds |-> Absent]
    /\ places = [r \in RoomIds |-> AllEmpty]
    /\ swaps = [r \in RoomIds |-> {}]
    /\ scheduled = [kind \in Kinds |-> "SCHEDULED"]

-----------------------------------------------------------------------------
(* Who is where *)

Here(r, u) == people[r][u] \in {"SPECTATOR", "DEBATER", "READY"}
Debates(r, u) == people[r][u] \in {"DEBATER", "READY"}
Waiting(r) == rooms[r].status = "WAITING"
Ordinary(r) == rooms[r].kind = "ORDINARY"

\* experiment_fixed_seats: what only the room of a formal match refuses.
FixedSeats(r) == rooms[r].kind = "FORMAL"
FormalHumans == Range(FormalSeats) \cap Users

\* Mutant: only rooms whose match runs count.
BusyInMatch(u) == \E r \in RoomIds : rooms[r].status \in ActiveStatuses /\ Here(r, u)

\* _assert_no_active_participation, and the conflict query of enter_scheduled_match.
Busy(u) == \E r \in RoomIds : rooms[r].status \in Unfinished /\ Here(r, u)

\* _assert_no_owned_room
Owns(u) == \E r \in RoomIds : rooms[r].status \in Unfinished /\ rooms[r].owner = u

SeatOf(r, u) == {s \in Chairs : places[r][s] = u}

\* _restore_agent_or_empty: an agent that no other seat of the room has, or
\* nobody when none is available (or the room does not fill with agents).
Restored(r, s) == {Empty} \cup (Agents \ {places[r][t] : t \in Chairs \ {s}})

Reseated(r, freed) == [s \in Chairs |-> IF s \in DOMAIN freed THEN freed[s] ELSE places[r][s]]

\* _cancel_user_seat_swaps
WithoutSwaps(r, u) == {q \in swaps[r] : u \notin {q.from, q.to}}

NewRoom(r) == rooms[r].status = "none" /\ \A q \in RoomIds : q < r => rooms[q].status # "none"
SetStatus(r, status) == [rooms EXCEPT ![r].status = status]
SetMember(r, u, state) == [people EXCEPT ![r][u] = state]

\* The rows of a room that is over stay, but nothing reads them any more.
Forget(r, over) ==
    /\ people' = IF over THEN [people EXCEPT ![r] = Absent] ELSE people
    /\ places' = IF over THEN [places EXCEPT ![r] = AllEmpty] ELSE places
    /\ swaps' = IF over THEN [swaps EXCEPT ![r] = {}] ELSE swaps

-----------------------------------------------------------------------------
(* RoomService: ordinary rooms, and those of training matches but for their opening *)

CreateRoom(u, r) ==
    /\ NewRoom(r) /\ ~Owns(u) /\ ~Busy(u)
    /\ \E filled \in {AllEmpty, AllFilled} : places' = [places EXCEPT ![r] = filled]
    /\ rooms' = [rooms EXCEPT ![r] = [@ EXCEPT !.status = "WAITING", !.owner = u]]
    /\ people' = SetMember(r, u, "DEBATER")
    /\ UNCHANGED <<swaps, scheduled>>

JoinRoom(u, r, role) ==
    /\ ~FixedSeats(r) /\ rooms[r].status \in Unfinished
    /\ ~Here(r, u)
    /\ role = "DEBATER" => Waiting(r)
    /\ ~Busy(u)
    /\ people' = SetMember(r, u, role)
    /\ UNCHANGED <<rooms, places, swaps, scheduled>>

\* join_room of a formal room: only to watch, and the fixed debaters never.
WatchFormal(u, r) ==
    /\ FixedSeats(r) /\ rooms[r].status \in Unfinished
    /\ u \notin FormalHumans
    /\ people' = SetMember(r, u, "SPECTATOR")
    /\ UNCHANGED <<rooms, places, swaps, scheduled>>

SelectSeat(u, r, s) ==
    /\ ~FixedSeats(r) /\ Waiting(r) /\ Here(r, u)
    /\ places[r][s] \notin Users
    /\ swaps' = [swaps EXCEPT ![r] = WithoutSwaps(r, u)]
    /\ \E freed \in [SeatOf(r, u) -> UNION {Restored(r, t) : t \in SeatOf(r, u)}] :
        places' = [places EXCEPT ![r] = [Reseated(r, freed) EXCEPT ![s] = u]]
    /\ people' = SetMember(r, u, IF people[r][u] = "READY" THEN "READY" ELSE "DEBATER")
    /\ UNCHANGED <<rooms, scheduled>>

\* Mutant: whoever steps back keeps the seat.
VacateKept(u, r) == UNCHANGED places

\* The seat of u goes back to an agent or is empty.
Vacate(u, r) ==
    \E freed \in [SeatOf(r, u) -> UNION {Restored(r, t) : t \in SeatOf(r, u)}] :
        places' = [places EXCEPT ![r] = Reseated(r, freed)]

ChangeRole(u, r) ==
    /\ ~FixedSeats(r) /\ Waiting(r) /\ Here(r, u)
    /\ swaps' = [swaps EXCEPT ![r] = WithoutSwaps(r, u)]
    /\ \/ /\ Debates(r, u)
          /\ Vacate(u, r)
          /\ people' = SetMember(r, u, "SPECTATOR")
       \/ /\ ~Debates(r, u)
          /\ people' = SetMember(r, u, "DEBATER")
          /\ UNCHANGED places
    /\ UNCHANGED <<rooms, scheduled>>

Ready(u, r) ==
    /\ rooms[r].status \in Unfinished /\ people[r][u] = "DEBATER"
    /\ people' = SetMember(r, u, "READY")
    /\ UNCHANGED <<rooms, places, swaps, scheduled>>

\* A new device check, an invalidated or expired one, or a lost connection.
NotReady(u, r) ==
    /\ rooms[r].status \in Unfinished /\ people[r][u] = "READY"
    /\ people' = SetMember(r, u, "DEBATER")
    /\ UNCHANGED <<rooms, places, swaps, scheduled>>

RequestSwap(u, v, r) ==
    /\ ~FixedSeats(r) /\ Waiting(r) /\ u # v
    /\ Debates(r, u) /\ Debates(r, v)
    /\ \A q \in swaps[r] : {q.from, q.to} \cap {u, v} = {}
    /\ \E s \in SeatOf(r, u), t \in SeatOf(r, v) :
        swaps' = [swaps EXCEPT ![r] = @ \cup {[from |-> u, to |-> v, fromSeat |-> s, toSeat |-> t]}]
    /\ UNCHANGED <<rooms, people, places, scheduled>>

\* A stale request is cancelled instead of applied.
AnswerSwap(r, q, accepted) ==
    /\ ~FixedSeats(r) /\ Waiting(r)
    /\ swaps' = [swaps EXCEPT ![r] = @ \ {q}]
    /\ places' =
        IF accepted /\ places[r][q.fromSeat] = q.from /\ places[r][q.toSeat] = q.to
        THEN [places EXCEPT ![r][q.fromSeat] = q.to, ![r][q.toSeat] = q.from]
        ELSE places
    /\ UNCHANGED <<rooms, people, scheduled>>

\* leave_room: before the match the seat is given up and an organizer hands the
\* room on to an online member, or it ends, and the attempt of a training match
\* stays as it is; during the match a debater stays a member.
LeaveRoom(u, r) ==
    /\ Here(r, u) /\ rooms[r].status \in Unfinished
    /\ \/ /\ ~FixedSeats(r) /\ Waiting(r)
          /\ \/ rooms[r].owner # u /\ UNCHANGED rooms
             \/ /\ rooms[r].owner = u
                /\ \E v \in Users \ {u} : Here(r, v) /\ rooms' = [rooms EXCEPT ![r].owner = v]
          /\ swaps' = [swaps EXCEPT ![r] = WithoutSwaps(r, u)]
          /\ Vacate(u, r)
          /\ people' = SetMember(r, u, "none")
       \/ /\ ~FixedSeats(r) /\ Waiting(r) /\ rooms[r].owner = u
          /\ rooms' = SetStatus(r, "TERMINATED")
          /\ Forget(r, TRUE)
       \/ /\ ~FixedSeats(r) /\ ~Waiting(r)
          /\ people' = SetMember(r, u, IF people[r][u] = "SPECTATOR" THEN "none" ELSE "DEBATER")
          /\ UNCHANGED <<rooms, places, swaps>>
       \/ /\ FixedSeats(r)
          /\ people' = SetMember(r, u, "none")
          /\ UNCHANGED <<rooms, places, swaps>>
    /\ UNCHANGED scheduled

-----------------------------------------------------------------------------
(* Experiment rooms: ExperimentService.enter_scheduled_match *)

\* The attempt is looked up, not its room: a room that ended and left its
\* attempt open takes members as well.
EnterOpenAttempt(u, r) ==
    /\ rooms[r].attempt \in ActiveAttempt
    /\ people' = SetMember(r, u, IF u \notin FormalHumans THEN "SPECTATOR"
                                 ELSE IF people[r][u] = "READY" THEN "READY" ELSE "DEBATER")
    /\ UNCHANGED <<rooms, places, swaps, scheduled>>

\* Mutant: the result of an earlier attempt does not matter.
MayCreateAgain(kind) == \A r \in RoomIds : rooms[r].kind = kind => rooms[r].attempt \notin ActiveAttempt

\* No attempt is active, and none has completed a formal match.
MayCreateAttempt(kind) ==
    /\ \A r \in RoomIds : rooms[r].kind = kind => rooms[r].attempt \notin ActiveAttempt
    /\ kind = "FORMAL" => scheduled[kind] # "COMPLETED"

\* The first of the debaters to come opens the room: of a formal match for all
\* of them, of a training match for themselves, with agents on every seat. The
\* query for other rooms takes no lock on the users, unlike join_room: what a
\* request at the same time adds to another room is not seen.
CreateAttempt(u, r, kind) ==
    LET debaters == IF kind = "FORMAL" THEN FormalHumans ELSE {u}
    IN  /\ NewRoom(r) /\ u \in FormalHumans
        /\ MayCreateAttempt(kind)
        /\ \A v \in debaters : ~Busy(v)
        /\ \E organizer \in debaters : rooms' = [rooms EXCEPT ![r] =
            [@ EXCEPT !.status = "WAITING", !.kind = kind, !.owner = organizer, !.attempt = "WAITING"]]
        /\ people' = [people EXCEPT ![r] = [v \in Users |-> IF v \in debaters THEN "DEBATER" ELSE "none"]]
        /\ places' = [places EXCEPT ![r] = IF kind = "FORMAL" THEN FormalSeats ELSE AllFilled]
        /\ UNCHANGED <<swaps, scheduled>>

-----------------------------------------------------------------------------
(* The match of a room *)

\* Only the room of a scheduled match has an attempt that follows it.
Attempt(r, value) == IF Ordinary(r) THEN rooms[r].attempt ELSE value
Schedule(r, value) == IF Ordinary(r) THEN scheduled ELSE [scheduled EXCEPT ![rooms[r].kind] = value]

ActiveRooms == {r \in RoomIds : rooms[r].status \in ActiveStatuses}

\* Mutant: a room whose match is still to start holds no place.
HasCapacityOnceRunning ==
    Cardinality({r \in ActiveRooms : rooms[r].status # "START_PENDING_RUNTIME"}) < Capacity

HasCapacity == Cardinality(ActiveRooms) < Capacity

\* start_room, under the capacity guard.
StartRoom(r) ==
    /\ Waiting(r) /\ HasCapacity
    /\ Empty \notin Range(places[r])
    /\ \A u \in Users : Debates(r, u) => SeatOf(r, u) # {}
    /\ \A u \in Range(places[r]) \cap Users : people[r][u] = "READY"
    /\ rooms' = SetStatus(r, "START_PENDING_RUNTIME")
    /\ UNCHANGED <<people, places, swaps, scheduled>>

\* start_room_match: the row of the match, once per room.
PrepareMatch(r) ==
    /\ rooms[r].status = "START_PENDING_RUNTIME" /\ rooms[r].match = "none"
    /\ Ordinary(r) \/ rooms[r].attempt = "WAITING"
    /\ rooms' = [rooms EXCEPT ![r] = [@ EXCEPT !.match = "START_PENDING_RUNTIME",
                                               !.attempt = Attempt(r, "RUNNING")]]
    /\ scheduled' = Schedule(r, "RUNNING")
    /\ UNCHANGED <<people, places, swaps>>

\* What MatchActor may do next: start, pause or fail, resume, end. The countdown
\* counts as RUNNING, recovery and error as PAUSED.
NextMatch(status) ==
    CASE status = "START_PENDING_RUNTIME" -> {"RUNNING", "PAUSED", "TERMINATED"}
      [] status = "RUNNING" -> {"PAUSED", "FINISHED", "TERMINATED"}
      [] status = "PAUSED" -> {"RUNNING", "TERMINATED"}
      [] OTHER -> {}

AttemptFor(status) == IF status = "FINISHED" THEN "COMPLETED" ELSE status
ScheduleFor(status) ==
    CASE status = "FINISHED" -> "COMPLETED" [] status = "TERMINATED" -> "INCOMPLETE" [] OTHER -> status

\* MatchRuntimeManager._commit: the state of the match decides that of the
\* room and of the attempt, whatever they were. The index of active attempts
\* refuses a second one, and then nothing is stored.
CommitMatch(r, status) ==
    /\ status \in NextMatch(rooms[r].match)
    /\ ~Ordinary(r) /\ status \in ActiveAttempt =>
        \A q \in RoomIds \ {r} : rooms[q].kind = rooms[r].kind => rooms[q].attempt \notin ActiveAttempt
    /\ rooms' = [rooms EXCEPT ![r] = [@ EXCEPT !.match = status, !.status = status,
                                      !.attempt = Attempt(r, AttemptFor(status))]]
    /\ scheduled' = Schedule(r, ScheduleFor(status))
    /\ Forget(r, status \in Terminal)

\* terminate_room: the room's own API, which does not ask the match.
TerminateRoom(r) ==
    /\ rooms[r].status \in Unfinished
    /\ rooms[r].match # "none" => CloseRunning
    /\ rooms' = [rooms EXCEPT ![r] = [@ EXCEPT !.status = "TERMINATED",
                                      !.attempt = Attempt(r, "TERMINATED")]]
    /\ scheduled' = Schedule(r, "INCOMPLETE")
    /\ Forget(r, rooms[r].match \in {"none"} \cup Terminal)

Next ==
    \E r \in RoomIds :
        \/ StartRoom(r)
        \/ PrepareMatch(r)
        \/ \E status \in ActiveStatuses \cup Terminal : CommitMatch(r, status)
        \/ TerminateRoom(r)
        \/ \E q \in swaps[r], accepted \in BOOLEAN : AnswerSwap(r, q, accepted)
        \/ \E u \in Users :
            \/ CreateRoom(u, r)
            \/ \E role \in {"DEBATER", "SPECTATOR"} : JoinRoom(u, r, role)
            \/ WatchFormal(u, r)
            \/ \E s \in Chairs : SelectSeat(u, r, s)
            \/ ChangeRole(u, r)
            \/ Ready(u, r)
            \/ NotReady(u, r)
            \/ \E v \in Users : RequestSwap(u, v, r)
            \/ LeaveRoom(u, r)
            \/ EnterOpenAttempt(u, r)
            \/ \E kind \in Kinds : CreateAttempt(u, r, kind)

Spec == Init /\ [][Next]_roomVars

-----------------------------------------------------------------------------
(* What must hold *)

\* Requirements, rooms: a user is in at most one unfinished ordinary room,
\* however joining, leaving, succession and the end of matches interleave.
OneOpenRoom ==
    \A u \in Users :
        Cardinality({r \in RoomIds : /\ Ordinary(r) /\ rooms[r].status \in Unfinished
                                     /\ Here(r, u)}) <= 1

\* Requirements, section 2: no more matches run or pause at once than the
\* system has capacity for. start_room checks it, counting rooms whose match is
\* still to start; every later change of a room's status must keep it.
CapacityHeld ==
    Cardinality({r \in RoomIds : rooms[r].status \in {"RUNNING", "PAUSED"}}) <= Capacity

\* Seats and members are separate rows changed by separate requests: nobody
\* sits on two seats of a room, no agent speaks from two, and whoever sits in
\* an ordinary room is there to debate, through selection, exchange, change of
\* role and departure.
SeatsAreTaken ==
    \A r \in RoomIds :
        /\ \A s, t \in Chairs : s # t => places[r][s] = Empty \/ places[r][s] # places[r][t]
        /\ Ordinary(r) /\ rooms[r].status \in Unfinished =>
            \A u \in Users : SeatOf(r, u) # {} => Debates(r, u)

\* A room that ended while its attempt waits: leave_room lets the organizer of a
\* training room end it without a word to the attempt or the scheduled match.
Abandoned(r) ==
    rooms[r].kind = "TRAINING" /\ rooms[r].status = "TERMINATED" /\ rooms[r].attempt = "WAITING"

\* The room of a scheduled match and its attempt are two rows: one is open,
\* finished or terminated when the other is, except for a training room its
\* organizer left, and no match has two active attempts.
OutcomesMatch ==
    LET linked == {r \in RoomIds : ~Ordinary(r)}
    IN  /\ \A r \in linked :
            /\ rooms[r].status = "FINISHED" <=> rooms[r].attempt = "COMPLETED"
            /\ rooms[r].status = "TERMINATED" <=> rooms[r].attempt = "TERMINATED" \/ Abandoned(r)
        /\ \A q, r \in linked :
            rooms[q].kind = rooms[r].kind /\ {rooms[q].attempt, rooms[r].attempt} \subseteq ActiveAttempt
                => q = r

\* And the scheduled match is a third: a formal one that was completed is not
\* opened again, one that was is COMPLETED and stays it, and a training match is
\* COMPLETED only if an attempt at it was.
AttemptsAgree ==
    LET completed(kind) == {r \in RoomIds : rooms[r].kind = kind /\ rooms[r].attempt = "COMPLETED"}
        active(kind) == {r \in RoomIds : rooms[r].kind = kind /\ rooms[r].attempt \in ActiveAttempt}
    IN  /\ OutcomesMatch
        /\ Cardinality(completed("FORMAL") \cup active("FORMAL")) <= 1
        /\ scheduled["FORMAL"] = "COMPLETED" <=> completed("FORMAL") # {}
        /\ scheduled["TRAINING"] = "COMPLETED" => completed("TRAINING") # {}
=============================================================================
