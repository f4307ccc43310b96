--------------------------- MODULE MCParticipants ---------------------------
(* The participants of a match: the rooms they meet in, and the connection of *)
(* one of them. A lease belongs to a room but no operation on rooms reads it: *)
(* each behaviour is of one of the two.                                       *)
EXTENDS Presence, TLC

CONSTANTS
    sid, u1, u2, a1, a2, s1, s2,
    RoomIds, Users, Agents, Chairs, FormalSeats, Capacity, CloseRunning

VARIABLES
    subject,                    \* "presence" or "rooms"
    rooms, people, places, swaps, scheduled

RO == INSTANCE Rooms

\* The rooms are finitely many, users and agents differ, the debaters of the
\* scheduled matches have a seat each, and there are agents enough for a room.
ASSUME RoomsAssumption ==
    /\ IsFiniteSet(RoomIds) /\ Capacity \in Nat
    /\ Users \cap Agents = {} /\ RO!Empty \notin Users \cup Agents
    /\ FormalSeats \in [Chairs -> Users \cup Agents] /\ RO!IsInjective(FormalSeats)
    /\ RO!Injection(Chairs, Agents) # {}

ofRooms == <<rooms, people, places, swaps, scheduled>>
MCvars == <<subject, vars, ofRooms>>

Formal == (s1 :> u1) @@ (s2 :> a1)

OfPresence(step) == subject = "presence" /\ step /\ UNCHANGED <<subject, ofRooms>>
OfRooms(step) == subject = "rooms" /\ step /\ UNCHANGED <<subject, vars>>

MCInit == subject \in {"presence", "rooms"} /\ Init /\ RO!Init
MCNext == OfPresence(Next) \/ OfRooms(RO!Next)
MCSpec == MCInit /\ [][MCNext]_MCvars

\* The bound of the run, which no theorem has: no behaviour opens an ordinary
\* room and one of a training match.
Opened(kind) == \E r \in RoomIds : rooms[r].status # "none" /\ rooms[r].kind = kind
Separate == ~(Opened("ORDINARY") /\ Opened("TRAINING"))

\* Presence and rooms keep their types.
MCTypeOK ==
    /\ subject = "presence" => TypeOK
    /\ subject = "rooms" => RO!RoomsTypeOK

\* As Rooms states them: a user is in one room that is still open, active
\* matches keep to the capacity, seats are taken by members, and attempts and
\* the schedule agree with the rooms.
OneOpenRoom == subject = "rooms" => RO!OneOpenRoom
CapacityHeld == subject = "rooms" => RO!CapacityHeld
SeatsAreTaken == subject = "rooms" => RO!SeatsAreTaken
AttemptsAgree == subject = "rooms" => RO!AttemptsAgree
=============================================================================
