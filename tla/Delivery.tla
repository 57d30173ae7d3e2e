------------------------------ MODULE Delivery ------------------------------
(***************************************************************************)
(* Who a line reaches, and whom it can cost the connection.  A refused     *)
(* line makes sendToClient drop its recipient, whose QUIT goes to its      *)
(* peers and may be refused in turn.  chans is the channel table: whatever *)
(* its channels are, they have members.                                    *)
(***************************************************************************)

\* Everybody who shares a channel with c.
Peers(c, chans) ==
    (UNION {chans[k].members : k \in {j \in DOMAIN chans : c \in chans[j].members}}) \ {c}

\* The sets of clients that one send to R can mark, out of those in able: each
\* is in R or hears, through QUITs, of another one of the set.
Overflows(R, chans, able) ==
    {D \in SUBSET able :
        \A T \in SUBSET D :
            T # {} /\ T \cap R = {} => \E d \in D \ T : Peers(d, chans) \cap T # {}}
=============================================================================
