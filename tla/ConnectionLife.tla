--------------------------- MODULE ConnectionLife ---------------------------
(***************************************************************************)
(* What ircd promises about a connection, whatever its resolver, its ident *)
(* queries and its event loop are doing: it is checked, admitted at most   *)
(* once, and from the moment it fails or is exited it is never served      *)
(* again, only reaped, once.                                               *)
(***************************************************************************)
CONSTANT Conns

VARIABLE life       \* life[c]: how far the connection has come

Lives == {"absent", "checking", "talking", "ending", "gone"}

TypeOK == life \in [Conns -> Lives]

Init == life = [c \in Conns |-> "absent"]

\* A connection is accepted, or made to another server; making one may fail.
Arrive(c) ==
    /\ life[c] = "absent"
    /\ \E l \in {"checking", "talking", "ending"} :
         life' = [life EXCEPT ![c] = l]

\* The checks are over: from now on what the connection sends is read.
Admit(c) ==
    /\ life[c] = "checking"
    /\ life' = [life EXCEPT ![c] = "talking"]

\* The connection is lost, refused, killed or timed out.
End(c) ==
    /\ life[c] \in {"checking", "talking"}
    /\ life' = [life EXCEPT ![c] = "ending"]

\* Ended connections are freed.
Reap(S) ==
    /\ \A c \in S : life[c] = "ending"
    /\ life' = [c \in Conns |-> IF c \in S THEN "gone" ELSE life[c]]

Next ==
    \/ \E c \in Conns : Arrive(c) \/ Admit(c) \/ End(c)
    \/ \E S \in SUBSET Conns : Reap(S)

Safety == Init /\ [][Next]_life

Fairness ==
    \A c \in Conns :
        /\ WF_life(Admit(c) \/ (life[c] = "checking" /\ End(c)))
        /\ WF_life(\E S \in SUBSET Conns : c \in S /\ Reap(S))

Spec == Safety /\ Fairness
=============================================================================
