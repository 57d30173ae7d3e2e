---------------------------- MODULE NickRegistry ----------------------------
(***************************************************************************)
(* What the server promises about nicknames, without connections, marks,   *)
(* turns or spellings: a name is claimed by someone when nobody else holds *)
(* it, each holder has one name at a time, and holders may go at any       *)
(* moment, also in the very step in which one of them claims.              *)
(***************************************************************************)
CONSTANTS People, FoldedNames

VARIABLE held   \* the pairs [who, name] in force

Init == held = {}

Without(pairs, gone) == {h \in pairs : h.who \notin gone}

Release(gone) == held' = Without(held, gone)

Claim(p, f, gone) ==
    /\ \A h \in held : h.name = f => h.who = p
    /\ held' = Without(Without(held, {p}) \cup {[who |-> p, name |-> f]}, gone)

Next == \E gone \in SUBSET People :
            \/ Release(gone)
            \/ \E p \in People, f \in FoldedNames : Claim(p, f, gone)

Spec == Init /\ [][Next]_held
=============================================================================
