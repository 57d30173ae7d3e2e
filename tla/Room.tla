-------------------------------- MODULE Room --------------------------------
(***************************************************************************)
(* What the server promises about one channel: a room that exists while    *)
(* somebody is in it.  Who opens it runs it; a closed room is entered by   *)
(* guests only and an invitation is good for one entry; people leave by    *)
(* themselves, by the hand of who runs the room, or by vanishing.          *)
(***************************************************************************)
CONSTANTS People, NoRoom

VARIABLE room

Exists == room # NoRoom

\* A room in use.
Held(people, operators, guests, closed) ==
    [people |-> people, operators |-> operators, guests |-> guests, closed |-> closed]

Init == room = NoRoom

Open(p) ==
    /\ ~Exists
    /\ room' = Held({p}, {p}, {}, FALSE)

Enter(p) ==
    /\ Exists
    /\ p \notin room.people
    /\ room.closed => p \in room.guests
    /\ room' = Held(room.people \cup {p}, room.operators, room.guests \ {p}, room.closed)

\* Those of gone leave; the invitations of `forgotten' go too.
Depart(gone, forgotten) ==
    room' = IF room.people \subseteq gone THEN NoRoom
            ELSE Held(room.people \ gone, room.operators \ gone,
                      room.guests \ forgotten, room.closed)

Leave(p, by) ==
    /\ Exists
    /\ p \in room.people
    /\ by \in {p} \cup room.operators
    /\ Depart({p}, {})

Vanish(gone) == Exists /\ Depart(gone, gone)

Invite(p) ==
    /\ Exists
    /\ p \notin room.people
    /\ room' = Held(room.people, room.operators, room.guests \cup {p}, room.closed)

\* Ranks and the door change, nobody comes or goes.
Regulate(ranks, shut) ==
    /\ Exists
    /\ ranks \subseteq room.people
    /\ room' = Held(room.people, ranks, room.guests, shut)

Next ==
    \/ \E p \in People : Open(p) \/ Enter(p) \/ Invite(p)
    \/ \E p, by \in People : Leave(p, by)
    \/ \E gone \in SUBSET People : Vanish(gone)
    \/ \E ranks \in SUBSET People, shut \in BOOLEAN : Regulate(ranks, shut)

Spec == Init /\ [][Next]_room
=============================================================================
